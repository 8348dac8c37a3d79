---------------------------- MODULE EnvelopeGate ----------------------------
(***************************************************************************)
(* What receiver.py's _invoke asks of a signed envelope before it looks at  *)
(* the request in it: the signature under a key of the registry (auth.py,   *)
(* RRFResolverFromEnv, which keeps a key for the life of the process), the  *)
(* timestamp (check_freshness, under the policy __main__.py reads from the  *)
(* environment), the replay window (ReplayCache and check_replay, which run *)
(* with no lock) and the revocation list.  Worker threads interleave, each  *)
(* dictionary operation being atomic (the interpreter's lock); the clock    *)
(* runs, keys are withdrawn, and the process restarts with an empty window  *)
(* and no keys.                                                             *)
(*                                                                          *)
(* An envelope is named by its msg_id: it is signed, so its timestamp and   *)
(* its signer never change, and anyone may send it again.                   *)
(***************************************************************************)
EXTENDS Integers, Sequences, FiniteSets

CONSTANTS
  Threads,       \* the worker threads
  MsgIds,        \* the envelopes
  Kids,          \* the keys they are signed with
  MaxSize,       \* max_size of the window
  MaxRecorded,   \* bound: ids recorded in one life of the process
  MaxTime,       \* bound: the clock stops here
  SkewEnvs,      \* values of ROBOT_MD_ENVELOPE_MAX_SKEW_S
  Requires,      \* values of ROBOT_MD_REQUIRE_ENVELOPE_TIMESTAMP
  DefaultSkew,   \* 300 s
  Stamps,        \* the timestamps envelopes carry
  HasRevocation, \* make_app was given a revocation resolver
  Unset,         \* the variable is not set, or is no number
  NaN,           \* float("nan")
  NoStamp,       \* the envelope carries no timestamp_ms
  NoMsg,         \* the thread has no request
  Never          \* not accepted yet

\* 100 000 ids against 40 threads of the default pool and 8 for the stop tools.
ASSUME MaxSizeAssumption ==
  /\ IsFiniteSet(Threads)
  /\ MaxSize \in Nat \ {0} /\ MaxSize >= Cardinality(Threads)
ASSUME BoundsAssumption == MaxRecorded \in Nat /\ MaxTime \in Nat
ASSUME SkewAssumption ==
  /\ DefaultSkew \in Nat \ {0} /\ SkewEnvs \subseteq Int \cup {Unset, NaN}
  /\ Requires \subseteq BOOLEAN
ASSUME StampsAssumption == Stamps \subseteq Int
ASSUME NoNumberAssumption ==
  NaN \notin Int /\ Unset \notin Int /\ Never \notin Int /\ NoStamp \notin Int
ASSUME NoMsgAssumption == NoMsg \notin MsgIds

VARIABLES
  clock,      \* time.time()
  policy,     \* freshness_policy
  stamp,      \* per envelope, its timestamp_ms
  signer,     \* per envelope, the kid that signed it
  registry,   \* per kid: served, withdrawn in this life of the process, or before
  cache,      \* RRFResolverFromEnv._cache: the kids whose key is kept
  seen,       \* ReplayCache._seen: the ids, oldest first
  pc,         \* per thread, where its request is
  msg_id,     \* the envelope it checks
  recorded,   \* history: every id inserted in this life, in order
  watched,    \* history: one of the envelopes, any one, and of its requests only:
  checked,    \*   the clock its check_freshness read,
  begun,      \*   how many ids were recorded when it called has_seen,
  first       \*   and the freshness time of its first acceptance

vars == <<clock, policy, stamp, signer, registry, cache, seen, pc, msg_id, checked,
          recorded, begun, watched, first>>
fixed == <<policy, stamp, signer, watched>>
window == <<seen, recorded, begun>>

Times == 0..MaxTime
InWindow(id) == \E i \in 1..Len(seen) : seen[i] = id
Positions(id) == {p \in 1..Len(recorded) : recorded[p] = id}
Steps == {"recording", "evicting", "popping", "inserting"}
Recording == {t \in Threads : pc[t] \in Steps}

\* _freshness_policy_from_env: what is no number, and a skew of zero or less,
\* falls back to the default; NaN is a number to float().
FreshnessPolicyFromEnv(raw, require) ==
  [max_skew_s |-> IF raw = NaN THEN NaN
                  ELSE IF raw = Unset THEN DefaultSkew
                  ELSE IF raw <= 0 THEN DefaultSkew ELSE raw,
   require_timestamp |-> require]

\* A bound that looks only ahead of the clock.
StaleAhead(id, now) ==
  policy.max_skew_s # NaN /\ stamp[id] - now > policy.max_skew_s

\* abs(skew_s) > max_skew_s, which no skew is when the bound is NaN.
Stale(id, now) ==
  /\ policy.max_skew_s # NaN
  /\ now - stamp[id] > policy.max_skew_s \/ stamp[id] - now > policy.max_skew_s

check_freshness(id, now) ==
  IF stamp[id] = NoStamp THEN ~policy.require_timestamp ELSE ~Stale(id, now)

Init ==
  /\ clock = 0
  /\ \E raw \in SkewEnvs, require \in Requires :
       policy = FreshnessPolicyFromEnv(raw, require)
  /\ stamp \in [MsgIds -> Stamps \cup {NoStamp}]
  /\ signer \in [MsgIds -> Kids]
  /\ registry = [k \in Kids |-> "served"]
  /\ cache = {}
  /\ seen = <<>> /\ recorded = <<>>
  /\ pc = [t \in Threads |-> "idle"]
  /\ msg_id = [t \in Threads |-> NoMsg]
  /\ checked = [t \in Threads |-> 0]
  /\ begun = [t \in Threads |-> 0]
  /\ watched \in MsgIds /\ first = Never

to(t, next) == pc' = [pc EXCEPT ![t] = next]

\* The request ends, refused or past these checks, and the thread is free.
End(t) ==
  /\ to(t, "idle")
  /\ msg_id' = [msg_id EXCEPT ![t] = NoMsg]
  /\ checked' = [checked EXCEPT ![t] = 0]
  /\ begun' = [begun EXCEPT ![t] = 0]
-----------------------------------------------------------------------------
\* _invoke is called with an envelope.
Arrive(t) ==
  /\ pc[t] = "idle"
  /\ \E id \in MsgIds : msg_id' = [msg_id EXCEPT ![t] = id]
  /\ to(t, "signature")
  /\ UNCHANGED <<fixed, window, clock, registry, cache, checked, first>>

\* A key fetched whatever the registry says of it.
ResolveAnyKey(t) ==
  LET kid == signer[msg_id[t]] IN
  /\ pc[t] = "signature"
  /\ cache' = cache \cup {kid}
  /\ to(t, "freshness")
  /\ UNCHANGED <<fixed, window, clock, registry, msg_id, checked, first>>

\* verify_envelope: the key is the kept one, or the registry serves it now and
\* it is kept from then on.
ResolveKey(t) ==
  LET kid == signer[msg_id[t]] IN
  /\ pc[t] = "signature"
  /\ kid \in cache \/ registry[kid] = "served"
  /\ cache' = cache \cup {kid}
  /\ to(t, "freshness")
  /\ UNCHANGED <<fixed, window, clock, registry, msg_id, checked, first>>

\* No key (not served, or no usable answer: nothing is remembered), or a
\* signature that is missing or does not verify.
DenySignature(t) ==
  /\ pc[t] = "signature"
  /\ End(t)
  /\ UNCHANGED <<fixed, clock, registry, cache, seen, recorded, first>>

\* check_freshness, against the clock it reads.
Freshness(t) ==
  /\ pc[t] = "freshness" /\ check_freshness(msg_id[t], clock)
  /\ to(t, "replay")
  /\ checked' = [checked EXCEPT ![t] = IF msg_id[t] = watched THEN clock ELSE 0]
  /\ UNCHANGED <<fixed, window, clock, registry, cache, msg_id, first>>

\* Refused; a timestamp that is no integer counts as one outside the window.
DenyFreshness(t) ==
  /\ pc[t] = "freshness" /\ ~check_freshness(msg_id[t], clock)
  /\ End(t)
  /\ UNCHANGED <<fixed, clock, registry, cache, seen, recorded, first>>

\* check_replay calls has_seen.
HasSeen(t) ==
  /\ pc[t] = "replay" /\ ~InWindow(msg_id[t])
  /\ Len(recorded) + Cardinality(Recording) < MaxRecorded
  /\ to(t, "recording")
  /\ begun' = [begun EXCEPT ![t] = IF msg_id[t] = watched THEN Len(recorded) ELSE 0]
  /\ UNCHANGED <<fixed, clock, registry, cache, seen, recorded, msg_id, checked, first>>

DenyReplay(t) ==
  /\ pc[t] = "replay" /\ InWindow(msg_id[t])
  /\ End(t)
  /\ UNCHANGED <<fixed, clock, registry, cache, seen, recorded, first>>

\* A record that moves an id it already holds to the young end.
RecordRefreshes(t) ==
  /\ pc[t] = "recording"
  /\ IF InWindow(msg_id[t])
       THEN /\ to(t, "revocation")
            /\ seen' = Append(SelectSeq(seen, LAMBDA x : x # msg_id[t]), msg_id[t])
       ELSE to(t, "evicting") /\ UNCHANGED seen
  /\ UNCHANGED <<fixed, clock, registry, cache, recorded, begun, msg_id, checked, first>>

\* record: an id recorded meanwhile keeps its place, and the check accepts.
Record(t) ==
  /\ pc[t] = "recording"
  /\ to(t, IF InWindow(msg_id[t]) THEN "revocation" ELSE "evicting")
  /\ UNCHANGED <<fixed, window, clock, registry, cache, msg_id, checked, first>>

\* The condition of record's while loop.
EvictTest(t) ==
  /\ pc[t] = "evicting"
  /\ to(t, IF Len(seen) >= MaxSize THEN "popping" ELSE "inserting")
  /\ UNCHANGED <<fixed, window, clock, registry, cache, msg_id, checked, first>>

\* set.pop(), which removes an arbitrary id.
PopArbitrary(t) ==
  /\ pc[t] = "popping"
  /\ \E i \in 1..Len(seen) : seen' = SubSeq(seen, 1, i - 1) \o SubSeq(seen, i + 1, Len(seen))
  /\ to(t, "evicting")
  /\ UNCHANGED <<fixed, clock, registry, cache, recorded, begun, msg_id, checked, first>>

\* popitem(last=False): the oldest id goes, and the loop tests again.
Pop(t) ==
  /\ pc[t] = "popping"
  /\ seen' = Tail(seen)
  /\ to(t, "evicting")
  /\ UNCHANGED <<fixed, clock, registry, cache, recorded, begun, msg_id, checked, first>>

\* The id goes in at the young end, unless another thread put it in meanwhile.
Insert(t) ==
  /\ pc[t] = "inserting"
  /\ to(t, "revocation")
  /\ IF InWindow(msg_id[t])
       THEN UNCHANGED <<seen, recorded>>
       ELSE seen' = Append(seen, msg_id[t]) /\ recorded' = Append(recorded, msg_id[t])
  /\ UNCHANGED <<fixed, clock, registry, cache, begun, msg_id, checked, first>>

\* No revocation resolver, or is_revoked answers no (for a key withdrawn a
\* moment ago too: Revocation says for how long).
Accept(t) ==
  /\ pc[t] = "revocation"
  /\ to(t, "accepted")
  /\ first' = IF msg_id[t] = watched /\ first = Never THEN checked[t] ELSE first
  /\ UNCHANGED <<fixed, window, clock, registry, cache, msg_id, checked>>

\* is_revoked answers yes, or raises.
DenyRevoked(t) ==
  /\ pc[t] = "revocation" /\ HasRevocation
  /\ End(t)
  /\ UNCHANGED <<fixed, clock, registry, cache, seen, recorded, first>>

\* The rest of _invoke, with the id used up whatever it answers.
Leave(t) ==
  /\ pc[t] = "accepted"
  /\ End(t)
  /\ UNCHANGED <<fixed, clock, registry, cache, seen, recorded, first>>

Withdraw(k) ==
  /\ registry[k] = "served"
  /\ registry' = [registry EXCEPT ![k] = "withdrawn"]
  /\ UNCHANGED <<fixed, window, clock, cache, pc, msg_id, checked, first>>

Tick ==
  /\ clock < MaxTime
  /\ clock' = clock + 1
  /\ UNCHANGED <<fixed, window, registry, cache, pc, msg_id, checked, first>>

\* The process ends, its requests with it, and starts again.
Restart ==
  /\ registry' = [k \in Kids |-> IF registry[k] = "served" THEN "served" ELSE "before"]
  /\ cache' = {}
  /\ seen' = <<>> /\ recorded' = <<>>
  /\ pc' = [t \in Threads |-> "idle"]
  /\ msg_id' = [t \in Threads |-> NoMsg]
  /\ checked' = [t \in Threads |-> 0]
  /\ begun' = [t \in Threads |-> 0]
  /\ UNCHANGED <<fixed, clock, first>>

Next ==
  \/ \E t \in Threads :
       \/ Arrive(t) \/ ResolveKey(t) \/ DenySignature(t)
       \/ Freshness(t) \/ DenyFreshness(t)
       \/ HasSeen(t) \/ DenyReplay(t)
       \/ Record(t) \/ EvictTest(t) \/ Pop(t) \/ Insert(t)
       \/ Accept(t) \/ DenyRevoked(t) \/ Leave(t)
  \/ \E k \in Kids : Withdraw(k)
  \/ Tick \/ Restart

Spec == Init /\ [][Next]_vars
-----------------------------------------------------------------------------
\* The types of the gate's state.
TypeOK ==
  /\ clock \in Times
  /\ policy \in [max_skew_s : Nat \cup {NaN}, require_timestamp : BOOLEAN]
  /\ stamp \in [MsgIds -> Stamps \cup {NoStamp}]
  /\ signer \in [MsgIds -> Kids]
  /\ registry \in [Kids -> {"served", "withdrawn", "before"}]
  /\ cache \in SUBSET Kids
  /\ seen \in Seq(MsgIds) /\ recorded \in Seq(MsgIds)
  /\ pc \in [Threads -> Steps \cup {"idle", "signature", "freshness", "replay",
                                    "revocation", "accepted"}]
  /\ msg_id \in [Threads -> MsgIds \cup {NoMsg}]
  /\ checked \in [Threads -> Times]
  /\ begun \in [Threads -> Nat]
  /\ watched \in MsgIds
  /\ first \in Times \cup {Never}

\* The window is the newest ids in the order they came: no thread's eviction ever
\* drops an id while an older one stays.  It is short of MaxSize by one id per thread
\* at most (racing threads evict for one id twice), once MaxSize ids have come, and
\* over it by the other threads at most
\* (ReplayCache, "THE EVICTION ORDER IS THE WHOLE POINT").
WindowIsNewest ==
  /\ seen = SubSeq(recorded, Len(recorded) - Len(seen) + 1, Len(recorded))
  /\ Len(seen) + Cardinality(Threads) >= MaxSize \/ seen = recorded
  /\ Len(seen) < MaxSize + Cardinality(Threads)

\* In one life of the process an id is refused as long as fewer than MaxSize -
\* threads newer ones had been recorded when its check began.
RecentIdsRejected ==
  \A t \in Threads :
    pc[t] \in {"revocation", "accepted"} /\ msg_id[t] = watched =>
      \A p \in Positions(watched) :
        p <= begun[t] => begun[t] - p >= MaxSize - Cardinality(Threads)

\* How long a captured envelope stays useful: with a timestamp, two acceptances
\* of one envelope are at most twice the skew apart, whatever the window evicted,
\* let through in a race, or forgot in a restart (receiver.py: "bounds how long a
\* captured envelope stays useful even after its id has aged out"); and with a
\* required timestamp nothing without one is accepted.
ReplayHorizon ==
  \A t \in Threads :
    pc[t] = "accepted" /\ msg_id[t] = watched =>
      IF stamp[watched] = NoStamp THEN ~policy.require_timestamp
      ELSE policy.max_skew_s # NaN => checked[t] <= first + 2 * policy.max_skew_s

\* A key the registry has withdrawn passes for as long as the process that
\* fetched it lives, and never after a restart.
WithdrawnKeyEndsAtRestart ==
  \A t \in Threads : pc[t] = "accepted" => registry[signer[msg_id[t]]] # "before"

\* The horizon for every value the variable can hold: false for "nan", which
\* float() reads, which is not <= 0, and which no skew exceeds.
HorizonAlways ==
  \A t \in Threads :
    pc[t] = "accepted" /\ msg_id[t] = watched /\ stamp[watched] # NoStamp =>
      policy.max_skew_s # NaN /\ checked[t] <= first + 2 * policy.max_skew_s

\* ReplayCache: "everything inside the window stays rejected": two requests of one
\* envelope do not pass together.  They do when both call has_seen first.
AcceptedOnce ==
  \A t, u \in Threads :
    t # u /\ pc[t] = "accepted" /\ pc[u] = "accepted" => msg_id[t] # msg_id[u]
=============================================================================
