----------------------------- MODULE Revocation -----------------------------
(***************************************************************************)
(* cert/revocation.py: RevocationCache.is_revoked, called by worker        *)
(* threads with no lock.  A thread reads the clock, looks the key up in    *)
(* the cache, asks the registry on a miss and stores the answer under the  *)
(* clock value it read first.                                              *)
(*                                                                         *)
(* The registry (RRF) is the environment: it revokes a key once and for    *)
(* all, and answers a lookup with what is true at some moment of the call, *)
(* or not at all (an exception, or None).                                  *)
(***************************************************************************)
EXTENDS Integers

CONSTANTS
  Threads,   \* the worker threads
  Kids,      \* the keys envelopes are signed with
  TTL,       \* ttl_s
  Never,     \* the key has not been revoked
  NoEntry,   \* the cache has no entry for the key
  MaxTime    \* bound: the clock stops here

ASSUME TTLAssumption == TTL \in Nat \ {0}
ASSUME MaxTimeAssumption == MaxTime \in Nat
ASSUME NeverAssumption == Never \notin Nat
ASSUME NoEntryAssumption == NoEntry \notin [at : Nat, revoked : BOOLEAN]

VARIABLES
  clock,       \* time.monotonic()
  revokedAt,   \* when the registry revoked each key, or Never
  cache,       \* self._cache
  pc,          \* where each thread is in is_revoked, or how its last call ended
  kid,         \* the key it asks about
  now,         \* its local `now`
  raw          \* the registry's answer

vars == <<clock, revokedAt, cache, pc, kid, now, raw>>

CacheEntries == [at : Nat, revoked : BOOLEAN]
Ended == {"idle", "allowed", "denied", "raised"}

Revoked(k) == revokedAt[k] # Never

\* The cache answers for k at time n.
Hit(k, n) == cache[k] # NoEntry /\ n - cache[k].at < TTL

Init ==
  /\ clock = 0
  /\ revokedAt = [k \in Kids |-> Never]
  /\ cache = [k \in Kids |-> NoEntry]
  /\ pc = [t \in Threads |-> "idle"]
  /\ kid \in [Threads -> Kids]
  /\ now = [t \in Threads |-> 0]
  /\ raw = [t \in Threads |-> FALSE]

\* The call starts: the clock is read and the cache is consulted.
Begin(t) ==
  /\ pc[t] \in Ended
  /\ now' = [now EXCEPT ![t] = clock]
  /\ \E k \in Kids :
       /\ kid' = [kid EXCEPT ![t] = k]
       /\ pc' = [pc EXCEPT ![t] =
                   IF ~Hit(k, clock) THEN "asking"
                   ELSE IF cache[k].revoked THEN "denied" ELSE "allowed"]
  /\ UNCHANGED <<clock, revokedAt, cache, raw>>

\* The registry looks the key up: what is true now, though the answer may take
\* any time to come back.
ResolverAnswers(t) ==
  /\ pc[t] = "asking"
  /\ raw' = [raw EXCEPT ![t] = Revoked(kid[t])]
  /\ pc' = [pc EXCEPT ![t] = "answered"]
  /\ UNCHANGED <<clock, revokedAt, cache, kid, now>>

\* A lookup without an answer, told to the caller as a revoked key.
ResolverFailsDenied(t) ==
  /\ pc[t] = "asking"
  /\ pc' = [pc EXCEPT ![t] = "denied"]
  /\ UNCHANGED <<clock, revokedAt, cache, kid, now, raw>>

\* The resolver raises, or answers None: the call raises, the cache is untouched.
ResolverFails(t) ==
  /\ pc[t] = "asking"
  /\ pc' = [pc EXCEPT ![t] = "raised"]
  /\ UNCHANGED <<clock, revokedAt, cache, kid, now, raw>>

\* Store with the answer stamped when it arrives.
StoreStampedLate(t) ==
  /\ pc[t] = "answered"
  /\ cache' = [cache EXCEPT ![kid[t]] = [at |-> clock, revoked |-> raw[t]]]
  /\ pc' = [pc EXCEPT ![t] = IF raw[t] THEN "denied" ELSE "allowed"]
  /\ UNCHANGED <<clock, revokedAt, kid, now, raw>>

\* The answer is cached under the time the call began, whatever another thread
\* has cached for the key meanwhile.
Store(t) ==
  /\ pc[t] = "answered"
  /\ cache' = [cache EXCEPT ![kid[t]] = [at |-> now[t], revoked |-> raw[t]]]
  /\ pc' = [pc EXCEPT ![t] = IF raw[t] THEN "denied" ELSE "allowed"]
  /\ UNCHANGED <<clock, revokedAt, kid, now, raw>>

\* The environment: the registry revokes a key; time passes.
Revoke(k) ==
  /\ ~Revoked(k)
  /\ revokedAt' = [revokedAt EXCEPT ![k] = clock]
  /\ UNCHANGED <<clock, cache, pc, kid, now, raw>>

Tick ==
  /\ clock < MaxTime
  /\ clock' = clock + 1
  /\ UNCHANGED <<revokedAt, cache, pc, kid, now, raw>>

Next ==
  \/ \E t \in Threads : Begin(t) \/ ResolverAnswers(t) \/ ResolverFails(t) \/ Store(t)
  \/ \E k \in Kids : Revoke(k)
  \/ Tick

Spec == Init /\ [][Next]_vars

-----------------------------------------------------------------------------
\* A cached answer is a moment and a boolean: None is never stored, and no thread returns
\* anything but a boolean.
TypeOK ==
  /\ clock \in Nat
  /\ revokedAt \in [Kids -> Nat \cup {Never}]
  /\ cache \in [Kids -> CacheEntries \cup {NoEntry}]
  /\ pc \in [Threads -> Ended \cup {"asking", "answered"}]
  /\ kid \in [Threads -> Kids]
  /\ now \in [Threads -> Nat]
  /\ raw \in [Threads -> BOOLEAN]

\* A key revoked a TTL ago or longer is never let through by a check that begins
\* now, however slow lookups overtake each other and overwrite the cache: a stale
\* answer ages from before it was asked for.
StalenessBounded ==
  \A t \in Threads :
    pc[t] = "allowed" /\ Revoked(kid[t]) => now[t] < revokedAt[kid[t]] + TTL

\* No key is refused as revoked that the registry has not revoked, and the cache
\* never says so either (a lookup without an answer is an error, not a denial).
DenialsAreTrue ==
  /\ \A t \in Threads : pc[t] = "denied" => Revoked(kid[t])
  /\ \A k \in Kids : cache[k] # NoEntry /\ cache[k].revoked => Revoked(k)
=============================================================================
