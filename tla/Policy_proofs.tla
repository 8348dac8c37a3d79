---------------------------- MODULE Policy_proofs ----------------------------
(***************************************************************************)
(* The two parts of the policy that a request is judged by and that keep   *)
(* to themselves: the gates that look at the request and the configuration *)
(* alone (Gates), and the revocation cache (Revocation).                   *)
(*                                                                         *)
(* The gates, for every configuration and every request: the argument is   *)
(* per gate, relabelling a motion changes the answer of none of them.      *)
(*                                                                         *)
(* The cache, for every number of threads and keys, every TTL and every    *)
(* clock, how stale it can be: CacheInv dates what is known.  An entry or  *)
(* an answer that says "not revoked" was true at its time stamp or later,  *)
(* and no stamp is in the future.                                          *)
(***************************************************************************)
EXTENDS Gates, Revocation, TLAPS

-----------------------------------------------------------------------------
(* The gates *)

\* The verdict recorded is the one the gates give the request recorded.
VerdictRecorded ==
  \/ envelope = None /\ verdict = None
  \/ envelope \in Envelopes /\ verdict = Verdict(config, envelope)

\* Every state's verdict is that of its own request: the request judged is kept with it.
LEMMA VerdictRecordedAlways == GatesSpec => []VerdictRecorded
<1>1. GatesInit => VerdictRecorded
  BY DEF GatesInit, VerdictRecorded
<1>2. VerdictRecorded /\ [GatesNext]_gatesVars => VerdictRecorded'
  <2> SUFFICES ASSUME VerdictRecorded, [GatesNext]_gatesVars PROVE VerdictRecorded'
    OBVIOUS
  <2>1. CASE GatesNext
    BY <2>1 DEF GatesNext, Judge, VerdictRecorded
  <2>2. CASE UNCHANGED gatesVars
    BY <2>2 DEF gatesVars, VerdictRecorded
  <2> QED
    BY <2>1, <2>2
<1> QED
  BY <1>1, <1>2, PTL DEF GatesSpec

\* The fields of a relabelled request: only the scope, and the chain's with it, change.
LEMMA RelabelFields ==
  ASSUME NEW e \in Envelopes, NEW scope \in Scopes
  PROVE  LET r == Relabel(e, scope)
         IN /\ r.tool = e.tool /\ r.tier = e.tier /\ r.confidence = e.confidence
            /\ r.scope = scope
            /\ r.chain = IF e.chain = None THEN None
                         ELSE [scope |-> scope, human |-> e.chain.human]
BY DEF Relabel, Envelopes

\* The bars of a motion labelled with a motion scope do not depend on the label: its own
\* threshold is among those of the motion scopes.
LEMMA BarsOfAMotion ==
  ASSUME NEW c, NEW e, IsMotion(c, e), e.scope.name \in MOTION_SCOPES
  PROVE  Bars(c, e) = {Listed(c, s) : s \in MOTION_SCOPES}
BY DEF Bars

\* Relabelling a motion among the motion scopes changes no gate's answer (README.md, check 3).
LEMMA RelabelKeepsVerdict ==
  ASSUME NEW c, NEW e \in Envelopes, LabelledMotion(c, e),
         NEW scope \in Scopes, scope.name \in MOTION_SCOPES
  PROVE  Verdict(c, Relabel(e, scope)) = Verdict(c, e)
<1> DEFINE r == Relabel(e, scope)
<1>1. /\ r.tool = e.tool /\ r.tier = e.tier /\ r.confidence = e.confidence
      /\ r.scope = scope
      /\ r.chain = IF e.chain = None THEN None ELSE [scope |-> scope, human |-> e.chain.human]
  BY RelabelFields
<1>2. IsMotion(c, e) /\ IsMotion(c, r)
  BY <1>1 DEF LabelledMotion, IsMotion
<1>3. e.scope.name \in MOTION_SCOPES /\ r.scope.name \in MOTION_SCOPES
  BY <1>1 DEF LabelledMotion
<1> HIDE DEF r
<1>4. /\ is_actuation_scope(e.scope) /\ is_actuation_scope(r.scope)
      /\ e.scope.name # "COMMISSION" /\ r.scope.name # "COMMISSION"
  BY <1>3 DEF is_actuation_scope, MOTION_SCOPES
<1>5. check_tier(r) <=> check_tier(e)
  BY <1>1, <1>4 DEF check_tier
<1>6. /\ check_tool(c, r) <=> check_tool(c, e)
      /\ check_tool_tier(c, r) <=> check_tool_tier(c, e)
  BY <1>1 DEF check_tool, check_tool_tier
<1>7. check_tool_scope(c, r) <=> check_tool_scope(c, e)
  BY <1>4 DEF check_tool_scope
<1>8. check_confidence(c, r) <=> check_confidence(c, e)
  <2>1. Bars(c, r) = Bars(c, e)
    BY <1>2, <1>3, BarsOfAMotion
  <2> QED
    BY <2>1, <1>1 DEF check_confidence
<1>9. check_hitl(c, r) <=> check_hitl(c, e)
  <2>1. Requires(c, r) <=> Requires(c, e)
    BY <1>2, <1>3 DEF Requires
  <2>2. CASE e.chain = None
    BY <2>1, <2>2, <1>1 DEF check_hitl
  <2>3. CASE e.chain # None
    <3>1. r.chain = [scope |-> scope, human |-> e.chain.human]
      BY <2>3, <1>1
    <3>2. r.chain # None
      <4>1. [scope |-> scope, human |-> e.chain.human] \in Chains
        BY <2>3 DEF Envelopes, Chains
      <4> QED
        BY <4>1, <3>1, ChainsAssumption
    <3> QED
      BY <2>1, <2>3, <3>1, <3>2, <1>1 DEF check_hitl, LabelledMotion
  <2> QED
    BY <2>2, <2>3
<1> QED
  BY <1>5, <1>6, <1>7, <1>8, <1>9 DEF Verdict, r

\* README.md, check 3: no label among the motion scopes, in either case, buys a motion a
\* verdict it would not have had.
THEOREM RelabelBuysNothingAlways == GatesSpec => []RelabelBuysNothing
<1>1. VerdictRecorded => RelabelBuysNothing
  BY RelabelKeepsVerdict DEF VerdictRecorded, RelabelBuysNothing, Judged
<1> QED
  BY <1>1, VerdictRecordedAlways, PTL

\* No principal of the read or anon tier moves the robot (cert/policy.py, check_tier and
\* check_tool_scope together), whatever the configuration and the scope it writes.
THEOREM MotionNeedsCredentialAlways == GatesSpec => []MotionNeedsCredential
<1>1. VerdictRecorded => MotionNeedsCredential
  <2> SUFFICES ASSUME VerdictRecorded, verdict = "allow", IsMotion(config, envelope)
               PROVE  envelope.tier \notin NON_ACTUATING_TIERS
    BY DEF MotionNeedsCredential
  <2>1. verdict = Verdict(config, envelope) \/ verdict = None
    BY DEF VerdictRecorded
  <2>2. verdict = Verdict(config, envelope)
    BY <2>1, VerdictsAssumption
  <2>3. check_tier(envelope) /\ check_tool_scope(config, envelope)
    BY <2>2 DEF Verdict
  <2> QED
    BY <2>3 DEF check_tier, check_tool_scope
<1> QED
  BY <1>1, VerdictRecordedAlways, PTL

\* A human gate on one motion scope covers every motion (cert/gates.py, HiTLPolicy.requires),
\* whatever scope the request names.
THEOREM HumanInTheLoopAlways == GatesSpec => []HumanInTheLoop
<1>1. VerdictRecorded => HumanInTheLoop
  <2> SUFFICES ASSUME VerdictRecorded, verdict = "allow", IsMotion(config, envelope),
                      effective_hitl(config) # None,
                      effective_hitl(config) \cap MOTION_SCOPES # {}
               PROVE  /\ envelope.chain # None
                      /\ envelope.chain.human
                      /\ envelope.chain.scope.name = envelope.scope.name
    BY DEF HumanInTheLoop
  <2>1. verdict = Verdict(config, envelope)
    BY VerdictsAssumption DEF VerdictRecorded
  <2>2. check_hitl(config, envelope)
    BY <2>1 DEF Verdict
  <2>3. Requires(config, envelope)
    BY DEF Requires
  <2> QED
    BY <2>2, <2>3 DEF check_hitl
<1> QED
  BY <1>1, VerdictRecordedAlways, PTL

\* GatesTypeOK: every request is judged under a well-formed configuration, and the gates a
\* manifest declares are required under scopes that RCAN knows, for every manifest.
THEOREM GatesTypeCorrect == GatesSpec => []GatesTypeOK
<1>1. \A g : GateScopes(g) \subseteq ScopeNames
  BY DEF GateScopes, ScopeNames, ACTUATION_SCOPES
<1>2. \A c : IsConfig(c) => effective_hitl(c) = None \/ effective_hitl(c) \subseteq ScopeNames
  BY <1>1 DEF effective_hitl, from_manifest_gates, IsConfig
<1>3. GatesInit => GatesTypeOK
  BY <1>2, ConfigsAssumption DEF GatesInit, GatesTypeOK
<1>4. \A c, e : Verdict(c, e) \in {"allow", "tier_policy", "tool_allowlist", "tool_tier",
                                   "tool_scope", "confidence_threshold", "hitl_required"}
  BY DEF Verdict
<1>5. GatesTypeOK /\ [GatesNext]_gatesVars => GatesTypeOK'
  <2> SUFFICES ASSUME GatesTypeOK, [GatesNext]_gatesVars PROVE GatesTypeOK'
    OBVIOUS
  <2>1. ASSUME NEW e \in Envelopes, Judge(e) PROVE GatesTypeOK'
    <3>1. config' = config /\ envelope' = e /\ verdict' = Verdict(config, e)
      BY <2>1 DEF Judge
    <3>2. IsConfig(config)' /\ (effective_hitl(config) = None
                                 \/ effective_hitl(config) \subseteq ScopeNames)'
      BY <3>1, <1>2 DEF GatesTypeOK, IsConfig
    <3> QED
      BY <3>1, <3>2, <1>4 DEF GatesTypeOK
  <2>2. CASE UNCHANGED gatesVars
    BY <2>2 DEF gatesVars, GatesTypeOK, IsConfig, effective_hitl
  <2> QED
    BY <2>1, <2>2 DEF GatesNext
<1> QED
  BY <1>3, <1>5, PTL DEF GatesSpec

-----------------------------------------------------------------------------
(* The revocation cache *)

\* The key was not yet revoked at time n.
NotRevokedBefore(k, n) == Revoked(k) => n <= revokedAt[k]

\* No stamp is ahead of the clock.
StampsPast ==
  /\ \A t \in Threads : now[t] <= clock
  /\ \A k \in Kids : cache[k] # NoEntry => cache[k].at <= clock
  /\ \A k \in Kids : Revoked(k) => revokedAt[k] <= clock

\* What a cached answer says about its time stamp.
CacheDated ==
  \A k \in Kids : cache[k] # NoEntry =>
    IF cache[k].revoked THEN Revoked(k) ELSE NotRevokedBefore(k, cache[k].at)

\* What an answer on its way to the cache says about the time the call began.
AnswerDated ==
  \A t \in Threads : pc[t] = "answered" =>
    IF raw[t] THEN Revoked(kid[t]) ELSE NotRevokedBefore(kid[t], now[t])

CacheInv == StampsPast /\ CacheDated /\ AnswerDated /\ StalenessBounded /\ DenialsAreTrue

\* Every variable of the revocation cache keeps its type.
THEOREM RevocationTypeCorrect == Spec => []TypeOK
<1>1. Init => TypeOK
  BY DEF Init, TypeOK, Ended
<1>2. TypeOK /\ [Next]_vars => TypeOK'
  <2> SUFFICES ASSUME TypeOK, [Next]_vars PROVE TypeOK'
    OBVIOUS
  <2> USE DEF TypeOK
  <2>1. ASSUME NEW t \in Threads, Begin(t) PROVE TypeOK'
    BY <2>1 DEF Begin, Ended
  <2>2. ASSUME NEW t \in Threads, ResolverAnswers(t) PROVE TypeOK'
    <3>1. raw' \in [Threads -> BOOLEAN]
      BY <2>2, Zenon DEF ResolverAnswers, Revoked
    <3> QED
      BY <2>2, <3>1 DEF ResolverAnswers
  <2>3. ASSUME NEW t \in Threads, ResolverFails(t) PROVE TypeOK'
    BY <2>3 DEF ResolverFails, Ended
  <2>4. ASSUME NEW t \in Threads, Store(t) PROVE TypeOK'
    <3>1. [at |-> now[t], revoked |-> raw[t]] \in CacheEntries
      BY DEF CacheEntries
    <3>2. cache' \in [Kids -> CacheEntries \cup {NoEntry}]
      BY <2>4, <3>1, Zenon DEF Store
    <3>3. pc' \in [Threads -> Ended \cup {"asking", "answered"}]
      BY <2>4 DEF Store, Ended
    <3> QED
      BY <2>4, <3>2, <3>3 DEF Store
  <2>5. ASSUME NEW k \in Kids, Revoke(k) PROVE TypeOK'
    BY <2>5 DEF Revoke
  <2>6. CASE Tick
    BY <2>6 DEF Tick
  <2>7. CASE UNCHANGED vars
    BY <2>7 DEF vars
  <2> QED
    BY <2>1, <2>2, <2>3, <2>4, <2>5, <2>6, <2>7 DEF Next
<1> QED
  BY <1>1, <1>2, PTL DEF Spec

\* A step keeps every conjunct of the inductive invariant.
LEMMA StepKeepsCacheInv == TypeOK /\ CacheInv /\ [Next]_vars => CacheInv'
<1> SUFFICES ASSUME TypeOK, CacheInv, [Next]_vars PROVE CacheInv'
  OBVIOUS
<1> USE NeverAssumption, NoEntryAssumption, TTLAssumption
<1> USE DEF TypeOK, CacheInv, Revoked, NotRevokedBefore, CacheEntries
<1>1. ASSUME NEW t \in Threads, Begin(t) PROVE CacheInv'
  <2>1. PICK k \in Kids :
          /\ kid' = [kid EXCEPT ![t] = k]
          /\ pc' = [pc EXCEPT ![t] =
                      IF ~Hit(k, clock) THEN "asking"
                      ELSE IF cache[k].revoked THEN "denied" ELSE "allowed"]
    BY <1>1 DEF Begin
  <2>2. StampsPast' /\ CacheDated'
    BY <1>1 DEF Begin, StampsPast, CacheDated
  <2>3. AnswerDated'
    BY <1>1, <2>1 DEF Begin, AnswerDated
  <2>4. StalenessBounded'
    <3>1. ASSUME pc'[t] = "allowed", Revoked(k) PROVE clock < revokedAt[k] + TTL
      <4>1. Hit(k, clock) /\ ~cache[k].revoked
        BY <2>1, <3>1
      <4>2. cache[k] \in CacheEntries
        BY <4>1 DEF Hit
      <4>3. cache[k].at <= revokedAt[k]
        BY <3>1, <4>1 DEF Hit, CacheDated
      <4>4. clock - cache[k].at < TTL
        BY <4>1 DEF Hit
      <4> QED
        BY <3>1, <4>2, <4>3, <4>4
    <3> QED
      BY <1>1, <2>1, <3>1 DEF Begin, StalenessBounded
  <2>5. DenialsAreTrue'
    BY <1>1, <2>1 DEF Begin, DenialsAreTrue, Hit
  <2> QED
    BY <2>2, <2>3, <2>4, <2>5
<1>2. ASSUME NEW t \in Threads, ResolverAnswers(t) PROVE CacheInv'
  <2>1. AnswerDated'
    BY <1>2 DEF ResolverAnswers, AnswerDated
  <2>2. StampsPast' /\ CacheDated' /\ StalenessBounded' /\ DenialsAreTrue'
    BY <1>2 DEF ResolverAnswers, StampsPast, CacheDated, StalenessBounded, DenialsAreTrue
  <2> QED
    BY <2>1, <2>2
<1>3. ASSUME NEW t \in Threads, ResolverFails(t) PROVE CacheInv'
  BY <1>3 DEF ResolverFails, StampsPast, CacheDated, AnswerDated, StalenessBounded,
              DenialsAreTrue
<1>4. ASSUME NEW t \in Threads, Store(t) PROVE CacheInv'
  <2>1. IF raw[t] THEN Revoked(kid[t]) ELSE NotRevokedBefore(kid[t], now[t])
    BY <1>4 DEF Store, AnswerDated
  <2>2. cache' = [cache EXCEPT ![kid[t]] = [at |-> now[t], revoked |-> raw[t]]]
    BY <1>4 DEF Store
  <2>3. CacheDated'
    BY <1>4, <2>1, <2>2 DEF Store, CacheDated
  <2>4. StalenessBounded'
    <3>1. pc'[t] = "allowed" => ~raw[t]
      BY <1>4 DEF Store
    <3> QED
      BY <1>4, <2>1, <3>1 DEF Store, StalenessBounded
  <2>5. DenialsAreTrue'
    BY <1>4, <2>1, <2>2 DEF Store, DenialsAreTrue
  <2>6. StampsPast' /\ AnswerDated'
    BY <1>4 DEF Store, StampsPast, AnswerDated
  <2> QED
    BY <2>3, <2>4, <2>5, <2>6
<1>5. ASSUME NEW k \in Kids, Revoke(k) PROVE CacheInv'
  <2>1. StampsPast'
    BY <1>5 DEF Revoke, StampsPast
  <2>2. CacheDated'
    <3>1. \A j \in Kids : cache[j] # NoEntry => cache[j] \in CacheEntries
      OBVIOUS
    <3>2. \A j \in Kids : cache[j] # NoEntry => cache[j].at <= clock
      BY <1>5 DEF StampsPast
    <3> QED
      BY <1>5, <3>2 DEF Revoke, CacheDated
  <2> QED
    BY <1>5, <2>1, <2>2 DEF Revoke, StampsPast, AnswerDated, StalenessBounded, DenialsAreTrue
<1>6. CASE Tick
  BY <1>6 DEF Tick, StampsPast, CacheDated, AnswerDated, StalenessBounded, DenialsAreTrue
<1>7. CASE UNCHANGED vars
  BY <1>7 DEF vars, StampsPast, CacheDated, AnswerDated, StalenessBounded, DenialsAreTrue
<1> QED
  BY <1>1, <1>2, <1>3, <1>4, <1>5, <1>6, <1>7 DEF Next

\* The invariant holds throughout.
LEMMA CacheInvAlways == Spec => []CacheInv
<1>1. Init => CacheInv
  BY DEF Init, CacheInv, StampsPast, CacheDated, AnswerDated, StalenessBounded, DenialsAreTrue,
         Revoked
<1> QED
  BY <1>1, StepKeepsCacheInv, RevocationTypeCorrect, PTL DEF Spec

\* RevocationCache.is_revoked never lets a key through that was revoked a TTL before
\* the check began.
THEOREM StalenessBoundedAlways == Spec => []StalenessBounded
<1>1. CacheInv => StalenessBounded
  BY DEF CacheInv
<1> QED
  BY <1>1, CacheInvAlways, PTL

\* RevocationCache.is_revoked never refuses a key the registry has not revoked.
THEOREM DenialsAreTrueAlways == Spec => []DenialsAreTrue
<1>1. CacheInv => DenialsAreTrue
  BY DEF CacheInv
<1> QED
  BY <1>1, CacheInvAlways, PTL
=============================================================================
