---------------------------- MODULE Invoke_proofs ----------------------------
(***************************************************************************)
(* For any number of requests, with any msg_ids, any stops and kills, and   *)
(* any configuration: what _invoke leaves behind wherever it is.            *)
(***************************************************************************)
EXTENDS Invoke, TLAPS, SequenceTheorems

Entries == [hash : Records, decision : {"allow", "deny"}, link : Links]

\* The steps of a request that touch no record and no robot: its gates and its way to
\* a reply that nothing is recorded of.
Passes(r) ==
  \/ Arrive(r) \/ SafetyGate(r) \/ SignatureGate(r) \/ HasSeen(r) \/ RecordId(r)
  \/ RevocationGate(r) \/ PolicyGates(r) \/ Route(r)

\* The environment's steps that leave the records alone.
Outside == Trip \/ Clear \/ DiskFills \/ UNCHANGED vars

-----------------------------------------------------------------------------
LEMMA RecordTypes ==
  ASSUME NEW r \in Requests, NEW kind \in {"intent", "outcome"}
  PROVE  Hash(r, kind) \in Records
BY DEF Hash, Records

LEMMA EmitTypes ==
  ASSUME TypeOK, NEW h \in Records, Emit(h)
  PROVE  export' \in Seq(Records) /\ dropped' \subseteq Records
<1>1. export \in Seq(Records) /\ dropped \subseteq Records
  BY DEF TypeOK
<1>2. CASE export' = Append(export, h) /\ dropped' = dropped
  BY <1>1, <1>2, AppendProperties
<1>3. CASE export' = export /\ dropped' = dropped \cup {h}
  BY <1>1, <1>3
<1> QED
  BY <1>2, <1>3 DEF Emit

LEMMA AuditTypes ==
  ASSUME TypeOK, NEW r \in Requests, NEW kind \in {"intent", "outcome"},
         NEW d \in {"allow", "deny"}, NEW link \in Links,
         audit' = Append(audit, [hash |-> Hash(r, kind), decision |-> d, link |-> link])
  PROVE  audit' \in Seq(Entries)
<1>1. audit \in Seq(Entries)
  BY DEF TypeOK, Entries
<1>2. [hash |-> Hash(r, kind), decision |-> d, link |-> link] \in Entries
  BY RecordTypes DEF Entries
<1> QED
  BY <1>1, <1>2, AppendProperties

\* The two entries of a dispatch: its intent, which an append that raises leaves out,
\* and its outcome, linked to what the request remembers of the intent.
LEMMA DispatchAuditTypes ==
  ASSUME TypeOK, NEW r \in Requests, IntentAudit(r) \/ OutcomeAudit(r)
  PROVE  audit' \in Seq(Entries) /\ intentHash' \in [Requests -> Links]
<1>0. /\ audit \in Seq(Entries)
      /\ intentHash \in [Requests -> Links]
  BY DEF TypeOK, Entries
<1>1. NoHash \in Links /\ Hash(r, "intent") \in Links
  BY RecordTypes DEF Links
<1>2. CASE IntentAudit(r) /\ UNCHANGED <<audit, intentHash>>
  BY <1>0, <1>2
<1>3. CASE IntentAudit(r) /\ ~UNCHANGED <<audit, intentHash>>
  <2>1. /\ audit' = Append(audit, [hash |-> Hash(r, "intent"), decision |-> "allow",
                                   link |-> NoHash])
        /\ intentHash' = [intentHash EXCEPT ![r] = Hash(r, "intent")]
    BY <1>3 DEF IntentAudit
  <2>2. audit' \in Seq(Entries)
    BY <2>1, <1>1, AuditTypes
  <2>3. intentHash' \in [Requests -> Links]
    BY <2>1, <1>0, <1>1
  <2> QED
    BY <2>2, <2>3
<1>4. CASE OutcomeAudit(r)
  <2>1. /\ audit' = Append(audit, [hash |-> Hash(r, "outcome"), decision |-> "allow",
                                   link |-> intentHash[r]])
        /\ intentHash' = intentHash
    BY <1>4 DEF OutcomeAudit
  <2>2. intentHash[r] \in Links
    BY <1>0
  <2>3. audit' \in Seq(Entries)
    BY <2>1, <2>2, AuditTypes
  <2> QED
    BY <2>1, <2>3, <1>0
<1> QED
  BY <1>2, <1>3, <1>4

LEMMA ReplyTypes ==
  ASSUME TypeOK, NEW r \in Requests, NEW status \in {200, 403, 404, 422, 500},
         reply' = [reply EXCEPT ![r] = status]
  PROVE  reply' \in [Requests -> {0, 200, 403, 404, 422, 500}]
<1>1. reply \in [Requests -> {0, 200, 403, 404, 422, 500}]
  BY DEF TypeOK
<1> QED
  BY <1>1

\* A step that moves one request on and changes nothing else but replies.
LEMMA MovedOn ==
  ASSUME TypeOK, NEW r \in Requests, NEW label \in Labels, Goto(r, label),
         UNCHANGED <<signal, gateway, intentHash, export, disk, outcome, moved, returned,
                     dropped, afterSignal, count>>,
         reply' \in [Requests -> {0, 200, 403, 404, 422, 500}]
  PROVE  TypeOK'
<1>1. pc' \in [Requests -> Labels]
  BY DEF TypeOK, Goto
<1>2. UNCHANGED <<safety, seen, audit>>
  BY DEF gateway
<1> QED
  BY <1>1, <1>2 DEF TypeOK

LEMMA RepliesKeepTypes ==
  ASSUME TypeOK, NEW r \in Requests,
         \/ SignatureGate(r) \/ RevocationGate(r) \/ PolicyGates(r) \/ Route(r)
         \/ DenyAuditRaises(r) \/ TelemetryHashRaises(r) \/ Reply(r)
  PROVE  TypeOK'
<1>1. UNCHANGED <<signal, gateway, intentHash, export, disk, outcome, moved, returned,
                  dropped, afterSignal, count>>
  BY DEF SignatureGate, RevocationGate, PolicyGates, Route, DenyAuditRaises,
         TelemetryHashRaises, Reply
<1>2. \E label \in Labels : Goto(r, label)
  BY DEF SignatureGate, RevocationGate, PolicyGates, Route, DenyAuditRaises,
         TelemetryHashRaises, Reply, Labels
<1>3. \/ reply' = reply
      \/ \E status \in {200, 403, 404, 422, 500} : reply' = [reply EXCEPT ![r] = status]
  BY DEF SignatureGate, RevocationGate, PolicyGates, Route, DenyAuditRaises,
         TelemetryHashRaises, Reply
<1>4. reply' \in [Requests -> {0, 200, 403, 404, 422, 500}]
  <2>1. CASE reply' = reply
    BY <2>1 DEF TypeOK
  <2> QED
    BY <1>3, <2>1, ReplyTypes
<1> QED
  BY <1>1, <1>2, <1>4, MovedOn

\* Every variable of a request and of what the process shares keeps its type.
THEOREM TypeCorrect == Spec => []TypeOK
<1>1. Init => TypeOK
  <2> SUFFICES ASSUME Init PROVE TypeOK
    OBVIOUS
  <2>1. count \in [trip : Nat, crash : Nat]
    BY DEF Init
  <2>2. audit \in Seq(Entries) /\ export \in Seq(Records)
    BY EmptySeq DEF Init
  <2> QED
    BY <2>1, <2>2 DEF Init, TypeOK, Labels, Links, Entries
<1>2. TypeOK /\ [Next]_vars => TypeOK'
  <2> SUFFICES ASSUME TypeOK, [Next]_vars PROVE TypeOK'
    OBVIOUS
  <2> USE DEF TypeOK, Labels, Goto
  <2>1. ASSUME NEW r \in Requests, Arrive(r) \/ SafetyGate(r) \/ HasSeen(r)
        PROVE  TypeOK'
    BY <2>1 DEF Arrive, SafetyGate, HasSeen, gateway
  <2>2. ASSUME NEW r \in Requests, RecordId(r) PROVE TypeOK'
    BY <2>2 DEF RecordId
  <2>3. ASSUME NEW r \in Requests,
               \/ SignatureGate(r) \/ RevocationGate(r) \/ PolicyGates(r) \/ Route(r)
               \/ DenyAuditRaises(r) \/ TelemetryHashRaises(r) \/ Reply(r)
        PROVE  TypeOK'
    BY <2>3, RepliesKeepTypes
  <2>4. ASSUME NEW r \in Requests, DenyAudit(r) PROVE TypeOK'
    <3>1. audit' \in Seq(Entries)
      BY <2>4, AuditTypes DEF DenyAudit, Links
    <3> QED
      BY <2>4, <3>1 DEF DenyAudit, Entries
  <2>6. ASSUME NEW r \in Requests, DenyLine(r) \/ OutcomeLine(r) PROVE TypeOK'
    <3>1. export' \in Seq(Records) /\ dropped' \subseteq Records
      BY <2>6, EmitTypes, RecordTypes DEF DenyLine, OutcomeLine
    <3>2. CASE DenyLine(r)
      BY <3>1, <3>2 DEF DenyLine, gateway
    <3>3. CASE OutcomeLine(r)
      BY <3>1, <3>3 DEF OutcomeLine, gateway
    <3> QED
      BY <2>6, <3>2, <3>3
  <2>7. ASSUME NEW r \in Requests, IntentLine(r) PROVE TypeOK'
    <3>1. export' \in Seq(Records) /\ dropped' \subseteq Records
      BY <2>7, EmitTypes, RecordTypes DEF IntentLine
    <3> QED
      BY <2>7, <3>1 DEF IntentLine, gateway
  <2>8. ASSUME NEW r \in Requests, IntentAudit(r) PROVE TypeOK'
    <3>1. audit' \in Seq(Entries) /\ intentHash' \in [Requests -> Links]
      BY <2>8, DispatchAuditTypes
    <3> QED
      BY <2>8, <3>1 DEF IntentAudit, Entries
  <2>9. ASSUME NEW r \in Requests, Dispatch(r) \/ Return(r) PROVE TypeOK'
    <3>1. CASE Dispatch(r)
      BY <3>1 DEF Dispatch, gateway
    <3>2. CASE Return(r)
      BY <3>2 DEF Return, gateway
    <3> QED
      BY <2>9, <3>1, <3>2
  <2>10. ASSUME NEW r \in Requests, OutcomeAudit(r) PROVE TypeOK'
    <3>1. audit' \in Seq(Entries)
      BY <2>10, DispatchAuditTypes
    <3> QED
      BY <2>10, <3>1 DEF OutcomeAudit, Entries
  <2>11. CASE Trip
    <3>1. count' \in [trip : Nat, crash : Nat]
      BY <2>11 DEF Trip
    <3>2. UNCHANGED <<audit, export>>
      BY <2>11 DEF Trip
    <3> QED
      BY <2>11, <3>1, <3>2 DEF Trip
  <2>5. CASE Crash
    <3>1. count' \in [trip : Nat, crash : Nat]
      BY <2>5 DEF Crash
    <3>2. audit' \in Seq(Entries) /\ export' = export
      BY <2>5, EmptySeq DEF Crash
    <3>3. pc' \in [Requests -> Labels]
      BY <2>5 DEF Crash
    <3>4. /\ signal' \in BOOLEAN /\ safety' = "READY" /\ seen' = {} /\ afterSignal' = {}
          /\ UNCHANGED <<intentHash, disk, outcome, reply, moved, returned, dropped>>
      BY <2>5 DEF Crash
    <3> QED
      BY <3>1, <3>2, <3>3, <3>4 DEF Entries
  <2>12. CASE Clear
    BY <2>12 DEF Clear
  <2>13. CASE DiskFills
    BY <2>13 DEF DiskFills, gateway
  <2>14. CASE UNCHANGED vars
    BY <2>14 DEF vars, gateway
  <2> QED
    BY <2>1, <2>2, <2>3, <2>4, <2>5, <2>6, <2>7, <2>8, <2>9, <2>10, <2>11, <2>12, <2>13,
       <2>14
       DEF Next, Step
<1> QED
  BY <1>1, <1>2, PTL DEF Spec

-----------------------------------------------------------------------------
(* Where a request is, and what it has done *)

\* Up to its dispatch, and on its way to a refusal, a request has moved nothing; after
\* the dispatch it has; and one whose execute has not come back is in it, or lost.
Progress ==
  \A r \in Requests :
    /\ pc[r] \in {"waiting", "safety", "signature", "has_seen", "record", "revocation", "policy",
                  "route", "deny", "deny_line", "intent", "intent_line", "dispatch"}
         => r \notin moved
    /\ pc[r] \in {"executing", "outcome", "outcome_line", "reply"} => r \in moved
    /\ r \in moved \ returned => pc[r] \in {"executing", "lost"}

LEMMA StepKeepsProgress == TypeOK /\ Progress /\ [Next]_vars => Progress'
<1> SUFFICES ASSUME TypeOK, Progress, [Next]_vars PROVE Progress'
  OBVIOUS
<1>0. pc \in [Requests -> Labels]
  BY DEF TypeOK
<1> USE <1>0 DEF Labels, Goto, Progress
<1>1. ASSUME NEW r \in Requests, Passes(r) PROVE Progress'
  BY <1>1 DEF Passes, Arrive, SafetyGate, SignatureGate, HasSeen, RecordId, RevocationGate,
              PolicyGates, Route
<1>2. ASSUME NEW r \in Requests, DenyAudit(r) \/ DenyAuditRaises(r) \/ DenyLine(r)
      PROVE  Progress'
  BY <1>2 DEF DenyAudit, DenyAuditRaises, DenyLine
<1>3. ASSUME NEW r \in Requests, IntentAudit(r) \/ IntentLine(r) \/ Dispatch(r) \/ Return(r)
      PROVE  Progress'
  BY <1>3 DEF IntentAudit, IntentLine, Dispatch, Return
<1>4. ASSUME NEW r \in Requests,
             OutcomeAudit(r) \/ TelemetryHashRaises(r) \/ OutcomeLine(r) \/ Reply(r)
      PROVE  Progress'
  BY <1>4 DEF OutcomeAudit, TelemetryHashRaises, OutcomeLine, Reply
<1>5. CASE Outside
  BY <1>5 DEF Outside, Trip, Clear, DiskFills, vars
<1>6. CASE Crash
  BY <1>6 DEF Crash
<1> QED
  BY <1>1, <1>2, <1>3, <1>4, <1>5, <1>6 DEF Next, Step, Passes, Outside

LEMMA ProgressHolds == Spec => []Progress
<1>1. Init => Progress
  BY DEF Init, Progress
<1> QED
  BY <1>1, StepKeepsProgress, TypeCorrect, PTL DEF Spec

-----------------------------------------------------------------------------
(* The stop *)

\* Under a stop the monitor is not READY, and who arrived since is at the safety gate
\* or refused by it.
Held ==
  /\ signal => safety # "READY"
  /\ ~signal => afterSignal = {}
  /\ \A r \in afterSignal :
       pc[r] \in {"safety", "deny", "deny_line", "done"} /\ r \notin moved

LEMMA StepKeepsHeld ==
  ASSUME HasMonitor PROVE TypeOK /\ Progress /\ Held /\ [Next]_vars => Held'
<1> SUFFICES ASSUME TypeOK, Progress, Held, [Next]_vars PROVE Held'
  OBVIOUS
<1>0. /\ pc \in [Requests -> Labels] /\ afterSignal \subseteq Requests
      /\ \A r \in Requests : pc[r] = "waiting" => r \notin moved
      /\ signal \in BOOLEAN
  BY DEF TypeOK, Progress
<1> USE <1>0 DEF Goto, Held, can_actuate
<1>1. ASSUME NEW r \in Requests, Arrive(r) PROVE Held'
  BY <1>1 DEF Arrive, gateway
<1>2. ASSUME NEW r \in Requests, SafetyGate(r) PROVE Held'
  BY <1>2 DEF SafetyGate
<1>3. ASSUME NEW r \in Requests,
             SignatureGate(r) \/ HasSeen(r) \/ RecordId(r) \/ RevocationGate(r)
               \/ PolicyGates(r) \/ Route(r)
      PROVE  Held'
  BY <1>3 DEF SignatureGate, HasSeen, RecordId, RevocationGate, PolicyGates, Route, gateway
<1>4. ASSUME NEW r \in Requests, DenyAudit(r) \/ DenyAuditRaises(r) \/ DenyLine(r)
      PROVE  Held'
  BY <1>4 DEF DenyAudit, DenyAuditRaises, DenyLine, gateway
<1>5. ASSUME NEW r \in Requests,
             IntentAudit(r) \/ IntentLine(r) \/ Dispatch(r) \/ Return(r)
               \/ OutcomeAudit(r) \/ TelemetryHashRaises(r) \/ OutcomeLine(r) \/ Reply(r)
      PROVE  Held'
  <2>1. /\ UNCHANGED <<signal, safety, afterSignal>>
        /\ pc[r] \notin {"safety", "deny", "deny_line", "done"}
        /\ \A q \in Requests : q # r => pc'[q] = pc[q] /\ (q \in moved' => q \in moved)
    BY <1>5 DEF IntentAudit, IntentLine, Dispatch, Return, OutcomeAudit, TelemetryHashRaises,
                OutcomeLine, Reply, gateway
  <2> QED
    BY <2>1
<1>6. CASE Trip \/ Clear \/ DiskFills
  BY <1>6 DEF Trip, Clear, DiskFills, gateway
<1>7. CASE Crash
  BY <1>7 DEF Crash
<1>8. CASE UNCHANGED vars
  BY <1>8 DEF vars, gateway
<1> QED
  BY <1>1, <1>2, <1>3, <1>4, <1>5, <1>6, <1>7, <1>8 DEF Next, Step

\* SF-001 of _invoke, for an app that was given a monitor: no request that arrives under
\* a stop is dispatched before somebody clears it.
THEOREM StopRefusesNewAlways == HasMonitor => (Spec => []StopRefusesNew)
<1> SUFFICES ASSUME HasMonitor PROVE Spec => []StopRefusesNew
  OBVIOUS
<1>1. Init => Held
  BY DEF Init, Held
<1>2. Held => StopRefusesNew
  BY DEF Held, StopRefusesNew
<1>3. TypeOK /\ Progress /\ Held /\ [Next]_vars => Held'
  BY StepKeepsHeld
<1> QED
  BY <1>1, <1>2, <1>3, ProgressHolds, TypeCorrect, PTL DEF Spec

-----------------------------------------------------------------------------
(* The trace in the export *)

LEMMA EmitAdds ==
  ASSUME TypeOK, NEW h \in Records, Emit(h)
  PROVE  /\ \A g : InExport(g) => InExport(g)'
         /\ \A g : InExport(g)' => InExport(g) \/ g = h
         /\ InExport(h)' \/ h \in dropped'
         /\ dropped \subseteq dropped'
<1>1. export \in Seq(Records) /\ Len(export) \in Nat
  BY LenProperties DEF TypeOK
<1>2. CASE export' = Append(export, h) /\ dropped' = dropped
  <2>1. /\ Len(export') = Len(export) + 1
        /\ \A i \in 1..Len(export) : export'[i] = export[i]
        /\ export'[Len(export) + 1] = h
    BY <1>1, <1>2, AppendProperties
  <2> QED
    BY <1>1, <1>2, <2>1 DEF InExport
<1>3. CASE export' = export /\ dropped' = dropped \cup {h}
  BY <1>3 DEF InExport
<1> QED
  BY <1>2, <1>3 DEF Emit

LEMMA HashesDiffer ==
  ASSUME NEW r, NEW q, NEW kind, NEW other, Hash(r, kind) = Hash(q, other)
  PROVE  r = q /\ kind = other
BY DEF Hash

\* From its dispatch on a request has an intent in the export, unless it could not be
\* written; and no outcome while its driver has not come back.
Traced ==
  \A r \in Requests :
    /\ pc[r] \in {"dispatch", "executing"} \/ r \in moved \ returned =>
         InExport(Hash(r, "intent")) \/ Hash(r, "intent") \in dropped
    /\ pc[r] \notin {"reply", "done", "lost"} \/ r \in moved \ returned =>
         ~InExport(Hash(r, "outcome"))

LEMMA StepKeepsTraced == TypeOK /\ Progress /\ Traced /\ [Next]_vars => Traced'
<1> SUFFICES ASSUME TypeOK, Progress, Traced, [Next]_vars PROVE Traced'
  OBVIOUS
<1>0. pc \in [Requests -> Labels]
  BY DEF TypeOK
<1>1. ASSUME NEW r \in Requests,
             \/ Passes(r) \/ DenyAudit(r) \/ DenyAuditRaises(r) \/ IntentAudit(r)
             \/ OutcomeAudit(r) \/ TelemetryHashRaises(r) \/ Reply(r)
      PROVE  Traced'
  <2>1. /\ UNCHANGED <<export, dropped, moved, returned>>
        /\ pc' = [pc EXCEPT ![r] = pc'[r]] /\ pc'[r] \notin {"dispatch", "executing"}
        /\ pc[r] \in {"reply", "done", "lost"} => pc'[r] \in {"reply", "done", "lost"}
    BY <1>0, <1>1 DEF Passes, Arrive, SafetyGate, SignatureGate, HasSeen, RecordId,
       RevocationGate, PolicyGates, Route, DenyAudit, DenyAuditRaises, IntentAudit,
       OutcomeAudit, TelemetryHashRaises, Reply, Goto
  <2> QED
    BY <1>0, <2>1 DEF Traced, InExport
<1>2. ASSUME NEW r \in Requests, DenyLine(r) \/ OutcomeLine(r) PROVE Traced'
  <2>1. /\ Emit(Hash(r, "outcome")) /\ UNCHANGED <<moved, returned>>
        /\ pc' = [pc EXCEPT ![r] = pc'[r]] /\ pc'[r] \in {"done", "reply"}
        /\ pc[r] \in {"deny_line", "outcome_line"}
    BY <1>0, <1>2 DEF DenyLine, OutcomeLine, Goto
  <2>2. Hash(r, "outcome") \in Records
    BY RecordTypes
  <2>3. r \notin moved \ returned
    BY <2>1 DEF Progress
  <2>4. ASSUME NEW q \in Requests
        PROVE  /\ Hash(q, "intent") # Hash(r, "outcome")
               /\ q # r => Hash(q, "outcome") # Hash(r, "outcome")
    BY HashesDiffer
  <2> QED
    BY <1>0, <2>1, <2>2, <2>3, <2>4, EmitAdds DEF Traced
<1>3. ASSUME NEW r \in Requests, IntentLine(r) PROVE Traced'
  <2>1. /\ Emit(Hash(r, "intent")) /\ UNCHANGED <<moved, returned>>
        /\ pc' = [pc EXCEPT ![r] = "dispatch"] /\ pc[r] = "intent_line"
    BY <1>3 DEF IntentLine, Goto
  <2>2. Hash(r, "intent") \in Records
    BY RecordTypes
  <2>3. ASSUME NEW q \in Requests PROVE Hash(q, "outcome") # Hash(r, "intent")
    BY HashesDiffer
  <2> QED
    BY <1>0, <2>1, <2>2, <2>3, EmitAdds DEF Traced
<1>4. ASSUME NEW r \in Requests, Dispatch(r) \/ Return(r) PROVE Traced'
  BY <1>0, <1>4 DEF Dispatch, Return, Goto, Traced, InExport
<1>5. CASE Outside
  <2>1. UNCHANGED <<pc, export, dropped, moved, returned>>
    BY <1>5 DEF Outside, Trip, Clear, DiskFills, vars
  <2> QED
    BY <2>1 DEF Traced, InExport
<1>6. CASE Crash
  BY <1>0, <1>6 DEF Crash, Traced, InExport
<1> QED
  BY <1>1, <1>2, <1>3, <1>4, <1>5, <1>6 DEF Next, Step, Passes, Outside

\* Record before dispatch (RCAN 6.3): a request whose driver was called and never came
\* back is an intent without an outcome, wherever the process was killed.
THEOREM UnreportedDispatchNamedAlways == Spec => []UnreportedDispatchNamed
<1>1. Init => Traced
  <2> SUFFICES ASSUME Init PROVE Traced
    OBVIOUS
  <2>1. Len(export) = 0 /\ moved = {}
    BY EmptySeq DEF Init
  <2>2. \A g : ~InExport(g)
    BY <2>1 DEF InExport
  <2> QED
    BY <2>1, <2>2 DEF Init, Traced
<1>2. TypeOK /\ Traced => UnreportedDispatchNamed
  BY DEF Traced, UnreportedDispatchNamed, TypeOK
<1> QED
  BY <1>1, <1>2, StepKeepsTraced, ProgressHolds, TypeCorrect, PTL DEF Spec

-----------------------------------------------------------------------------
(* The links and the replies of the audit chain *)

InAudit(h) == \E i \in 1..Len(audit) : audit[i].hash = h

\* The chain has the request's outcome, as this decision.
Said(r, decision) ==
  \E i \in 1..Len(audit) :
    audit[i].hash = Hash(r, "outcome") /\ audit[i].decision = decision

LEMMA AppendAdds ==
  ASSUME TypeOK, NEW e \in Entries, audit' = Append(audit, e)
  PROVE  /\ Len(audit) \in Nat /\ Len(audit') = Len(audit) + 1
         /\ \A i \in 1..Len(audit) : audit'[i] = audit[i]
         /\ audit'[Len(audit) + 1] = e
         /\ \A h : InAudit(h) => InAudit(h)'
         /\ InAudit(e.hash)'
         /\ \A q, d : Said(q, d) => Said(q, d)'
         /\ \A q : e.hash = Hash(q, "outcome") => Said(q, e.decision)'
<1>1. audit \in Seq(Entries) /\ Len(audit) \in Nat
  BY LenProperties DEF TypeOK, Entries
<1>2. /\ Len(audit') = Len(audit) + 1
      /\ \A i \in 1..Len(audit) : audit'[i] = audit[i]
      /\ audit'[Len(audit) + 1] = e
  BY <1>1, AppendProperties
<1>3. \A h : InAudit(h) => InAudit(h)'
  BY <1>1, <1>2 DEF InAudit
<1>4. InAudit(e.hash)'
  BY <1>1, <1>2 DEF InAudit
<1>5. \A q, d : Said(q, d) => Said(q, d)'
  BY <1>1, <1>2 DEF Said
<1>6. \A q : e.hash = Hash(q, "outcome") => Said(q, e.decision)'
  BY <1>1, <1>2 DEF Said
<1> QED
  BY <1>1, <1>2, <1>3, <1>4, <1>5, <1>6

\* A link names the intent of its own request, which is in the chain before it; and a
\* request with an intent's hash to link to has that intent in the chain.
Linked ==
  /\ OutcomeNamesItsIntent
  /\ \A r \in Requests :
       /\ intentHash[r] \in {NoHash, Hash(r, "intent")}
       /\ pc[r] \in {"waiting", "safety", "signature", "has_seen", "record", "revocation",
                     "policy", "route", "intent"} => intentHash[r] = NoHash
       /\ pc[r] \in {"intent_line", "dispatch", "executing", "outcome"} /\ intentHash[r] # NoHash
            => InAudit(Hash(r, "intent"))

\* An entry without a link, or with the link of its own request's intent that is there,
\* keeps the chain linked.
LEMMA LinkAppended ==
  ASSUME TypeOK, OutcomeNamesItsIntent, NEW e \in Entries, audit' = Append(audit, e),
         e.link # NoHash => e.link = Hash(e.hash.req, "intent") /\ InAudit(e.link)
  PROVE  OutcomeNamesItsIntent'
<1>1. /\ Len(audit) \in Nat /\ Len(audit') = Len(audit) + 1
      /\ \A i \in 1..Len(audit) : audit'[i] = audit[i]
      /\ audit'[Len(audit) + 1] = e
  BY AppendAdds
<1>2. ASSUME NEW i \in 1..Len(audit'), audit'[i].link # NoHash
      PROVE  /\ audit'[i].link = Hash(audit'[i].hash.req, "intent")
             /\ \E j \in 1..i-1 : audit'[j].hash = audit'[i].link
  <2>1. CASE i \in 1..Len(audit)
    <3>1. /\ audit[i].link = Hash(audit[i].hash.req, "intent")
          /\ \E j \in 1..i-1 : audit[j].hash = audit[i].link
      BY <1>1, <1>2, <2>1 DEF OutcomeNamesItsIntent
    <3> QED
      BY <1>1, <2>1, <3>1
  <2>2. CASE i = Len(audit) + 1
    BY <1>1, <1>2, <2>2 DEF InAudit
  <2> QED
    BY <1>1, <2>1, <2>2
<1> QED
  BY <1>2 DEF OutcomeNamesItsIntent

LEMMA StepKeepsLinked == TypeOK /\ Linked /\ [Next]_vars => Linked'
<1> SUFFICES ASSUME TypeOK, Linked, [Next]_vars PROVE Linked'
  OBVIOUS
<1>0. pc \in [Requests -> Labels] /\ intentHash \in [Requests -> Links]
  BY DEF TypeOK
<1>1. ASSUME NEW r \in Requests,
             \/ Passes(r) \/ DenyAuditRaises(r) \/ DenyLine(r) \/ IntentLine(r) \/ Dispatch(r)
             \/ Return(r) \/ TelemetryHashRaises(r) \/ OutcomeLine(r) \/ Reply(r)
      PROVE  Linked'
  <2>1. /\ UNCHANGED <<audit, intentHash>> /\ pc' = [pc EXCEPT ![r] = pc'[r]]
        /\ pc'[r] \in {"waiting", "safety", "signature", "has_seen", "record", "revocation",
                       "policy", "route", "intent"}
             => pc[r] \in {"waiting", "safety", "signature", "has_seen", "record", "revocation",
                          "policy", "route", "intent"}
        /\ pc'[r] \in {"intent_line", "dispatch", "executing", "outcome"}
             => pc[r] \in {"intent_line", "dispatch", "executing", "outcome"}
    BY <1>0, <1>1 DEF Passes, Arrive, SafetyGate, SignatureGate, HasSeen, RecordId,
       RevocationGate, PolicyGates, Route, DenyAuditRaises, DenyLine, IntentLine, Dispatch, Return,
       TelemetryHashRaises, OutcomeLine, Reply, Goto, gateway
  <2> QED
    BY <1>0, <2>1 DEF Linked, OutcomeNamesItsIntent, InAudit
<1>2. ASSUME NEW r \in Requests, DenyAudit(r) PROVE Linked'
  <2> DEFINE e == [hash |-> Hash(r, "outcome"), decision |-> "deny", link |-> NoHash]
  <2>1. /\ audit' = Append(audit, e) /\ intentHash' = intentHash
        /\ pc' = [pc EXCEPT ![r] = "deny_line"]
    BY <1>2 DEF DenyAudit, Goto
  <2>2. e \in Entries
    BY RecordTypes DEF Entries, Links
  <2>3. OutcomeNamesItsIntent'
    BY <2>1, <2>2, LinkAppended DEF Linked
  <2>4. \A h : InAudit(h) => InAudit(h)'
    BY <2>1, <2>2, AppendAdds
  <2> QED
    BY <1>0, <2>1, <2>3, <2>4 DEF Linked
<1>3. ASSUME NEW r \in Requests, IntentAudit(r) PROVE Linked'
  <2> DEFINE e == [hash |-> Hash(r, "intent"), decision |-> "allow", link |-> NoHash]
  <2>1. pc[r] = "intent" /\ pc' = [pc EXCEPT ![r] = "intent_line"]
    BY <1>3 DEF IntentAudit, Goto
  <2>2. CASE audit' = Append(audit, e) /\ intentHash' = [intentHash EXCEPT ![r] = Hash(r, "intent")]
    <3>1. e \in Entries /\ e.hash = Hash(r, "intent") /\ e.link = NoHash
      BY RecordTypes DEF Entries, Links
    <3>2. OutcomeNamesItsIntent'
      BY <2>2, <3>1, LinkAppended DEF Linked
    <3>3. (\A h : InAudit(h) => InAudit(h)') /\ InAudit(Hash(r, "intent"))'
      BY <2>2, <3>1, AppendAdds
    <3> QED
      BY <1>0, <2>1, <2>2, <3>2, <3>3 DEF Linked
  <2>3. CASE UNCHANGED <<audit, intentHash>>
    BY <1>0, <2>1, <2>3 DEF Linked, OutcomeNamesItsIntent, InAudit
  <2> QED
    BY <1>3, <2>2, <2>3 DEF IntentAudit
<1>4. ASSUME NEW r \in Requests, OutcomeAudit(r) PROVE Linked'
  <2> DEFINE e == [hash |-> Hash(r, "outcome"), decision |-> "allow", link |-> intentHash[r]]
  <2>1. /\ pc[r] = "outcome" /\ audit' = Append(audit, e) /\ intentHash' = intentHash
        /\ pc' = [pc EXCEPT ![r] = "outcome_line"]
    BY <1>4 DEF OutcomeAudit, Goto
  <2>2. e \in Entries /\ e.hash.req = r /\ e.link = intentHash[r]
    BY <1>0, RecordTypes DEF Entries, Hash
  <2>3. e.link # NoHash => e.link = Hash(r, "intent") /\ InAudit(e.link)
    BY <2>1, <2>2 DEF Linked
  <2>4. OutcomeNamesItsIntent'
    BY <2>1, <2>2, <2>3, LinkAppended DEF Linked
  <2>5. \A h : InAudit(h) => InAudit(h)'
    BY <2>1, <2>2, AppendAdds
  <2> QED
    BY <1>0, <2>1, <2>4, <2>5 DEF Linked
<1>5. CASE Outside
  <2>1. UNCHANGED <<pc, audit, intentHash>>
    BY <1>5 DEF Outside, Trip, Clear, DiskFills, vars, gateway
  <2> QED
    BY <2>1 DEF Linked, OutcomeNamesItsIntent, InAudit
<1>6. CASE Crash
  <2>1. /\ Len(audit') = 0 /\ intentHash' = intentHash
        /\ pc' = [r \in Requests |-> IF pc[r] \in {"waiting", "done"} THEN pc[r] ELSE "lost"]
    BY <1>6, EmptySeq DEF Crash
  <2>2. OutcomeNamesItsIntent'
    BY <2>1 DEF OutcomeNamesItsIntent
  <2> QED
    BY <2>1, <2>2 DEF Linked
<1> QED
  BY <1>1, <1>2, <1>3, <1>4, <1>5, <1>6 DEF Next, Step, Passes, Outside

\* _record_with_outcome: however the requests interleave, a link in the chain names the
\* intent of its own request, written before it.
THEOREM OutcomeNamesItsIntentAlways == Spec => []OutcomeNamesItsIntent
<1>1. Init => Linked
  <2> SUFFICES ASSUME Init PROVE Linked
    OBVIOUS
  <2>1. Len(audit) = 0
    BY EmptySeq DEF Init
  <2> QED
    BY <2>1 DEF Init, Linked, OutcomeNamesItsIntent
<1>2. Linked => OutcomeNamesItsIntent
  BY DEF Linked
<1> QED
  BY <1>1, <1>2, StepKeepsLinked, TypeCorrect, PTL DEF Spec

\* A request is answered once; before a 200 or a 403 its decision is in the chain.
Answered ==
  \A r \in Requests :
    /\ reply[r] # 0 => pc[r] = "done"
    /\ pc[r] = "deny_line" => Said(r, "deny")
    /\ pc[r] \in {"outcome_line", "reply"} => Said(r, "allow")
    /\ count.crash = 0 /\ reply[r] \in {200, 403} =>
         Said(r, IF r \in moved THEN "allow" ELSE "deny")

LEMMA StepKeepsAnswered == TypeOK /\ Progress /\ Answered /\ [Next]_vars => Answered'
<1> SUFFICES ASSUME TypeOK, Progress, Answered, [Next]_vars PROVE Answered'
  OBVIOUS
<1>0. /\ pc \in [Requests -> Labels]
      /\ reply \in [Requests -> {0, 200, 403, 404, 422, 500}]
  BY DEF TypeOK
<1>1. ASSUME NEW r \in Requests,
             \/ Passes(r) \/ DenyAuditRaises(r) \/ IntentLine(r) \/ Return(r)
             \/ TelemetryHashRaises(r) \/ OutcomeLine(r)
      PROVE  Answered'
  <2>1. /\ UNCHANGED <<audit, moved, count>> /\ pc' = [pc EXCEPT ![r] = pc'[r]]
        /\ pc[r] # "done" /\ pc'[r] # "deny_line"
        /\ pc'[r] \in {"outcome_line", "reply"} => pc[r] = "outcome_line"
    BY <1>0, <1>1 DEF Passes, Arrive, SafetyGate, SignatureGate, HasSeen, RecordId,
       RevocationGate, PolicyGates, Route, DenyAuditRaises, IntentLine, Return,
       TelemetryHashRaises, OutcomeLine, Goto, gateway
  <2>2. \/ reply' = reply
        \/ pc'[r] = "done" /\ \E s \in {404, 422, 500} : reply' = [reply EXCEPT ![r] = s]
    BY <1>0, <1>1 DEF Passes, Arrive, SafetyGate, SignatureGate, HasSeen, RecordId,
       RevocationGate, PolicyGates, Route, DenyAuditRaises, IntentLine, Return,
       TelemetryHashRaises, OutcomeLine, Goto, gateway
  <2>3. \A q, d : Said(q, d) => Said(q, d)'
    BY <2>1 DEF Said
  <2> QED
    BY <1>0, <2>1, <2>2, <2>3 DEF Answered
<1>2. ASSUME NEW r \in Requests, DenyLine(r) PROVE Answered'
  <2>1. /\ UNCHANGED <<audit, moved, count>> /\ pc' = [pc EXCEPT ![r] = "done"]
        /\ pc[r] = "deny_line" /\ reply' = [reply EXCEPT ![r] = 403]
    BY <1>2 DEF DenyLine, Goto, gateway
  <2>2. \A q, d : Said(q, d) => Said(q, d)'
    BY <2>1 DEF Said
  <2>3. r \notin moved /\ Said(r, "deny")
    BY <2>1 DEF Progress, Answered
  <2> QED
    BY <1>0, <2>1, <2>2, <2>3 DEF Answered
<1>3. ASSUME NEW r \in Requests, Reply(r) PROVE Answered'
  <2>1. /\ UNCHANGED <<audit, moved, count>> /\ pc' = [pc EXCEPT ![r] = "done"]
        /\ pc[r] = "reply" /\ \A q \in Requests : q # r => reply'[q] = reply[q]
    BY <1>0, <1>3 DEF Reply, Goto, gateway
  <2>2. \A q, d : Said(q, d) => Said(q, d)'
    BY <2>1 DEF Said
  <2>3. r \in moved /\ Said(r, "allow")
    BY <2>1 DEF Progress, Answered
  <2> QED
    BY <1>0, <2>1, <2>2, <2>3 DEF Answered
<1>4. ASSUME NEW r \in Requests, Dispatch(r) PROVE Answered'
  <2>1. /\ UNCHANGED <<audit, reply, count>> /\ pc' = [pc EXCEPT ![r] = "executing"]
        /\ pc[r] = "dispatch" /\ moved' = moved \cup {r}
    BY <1>4 DEF Dispatch, Goto, gateway
  <2>2. \A q, d : Said(q, d) => Said(q, d)'
    BY <2>1 DEF Said
  <2> QED
    BY <1>0, <2>1, <2>2 DEF Answered
<1>5. ASSUME NEW r \in Requests, DenyAudit(r) PROVE Answered'
  <2> DEFINE e == [hash |-> Hash(r, "outcome"), decision |-> "deny", link |-> NoHash]
  <2>1. /\ audit' = Append(audit, e) /\ UNCHANGED <<reply, moved, count>>
        /\ pc[r] = "deny" /\ pc' = [pc EXCEPT ![r] = "deny_line"]
    BY <1>5 DEF DenyAudit, Goto
  <2>2. e \in Entries /\ e.hash = Hash(r, "outcome") /\ e.decision = "deny"
    BY RecordTypes DEF Entries, Links
  <2>3. (\A q, d : Said(q, d) => Said(q, d)') /\ Said(r, "deny")'
    BY <2>1, <2>2, AppendAdds
  <2> QED
    BY <1>0, <2>1, <2>3 DEF Answered
<1>6. ASSUME NEW r \in Requests, OutcomeAudit(r) PROVE Answered'
  <2> DEFINE e == [hash |-> Hash(r, "outcome"), decision |-> "allow", link |-> intentHash[r]]
  <2>1. /\ audit' = Append(audit, e) /\ UNCHANGED <<reply, moved, count>>
        /\ pc[r] = "outcome" /\ pc' = [pc EXCEPT ![r] = "outcome_line"]
    BY <1>6 DEF OutcomeAudit, Goto
  <2>2. e \in Entries /\ e.hash = Hash(r, "outcome") /\ e.decision = "allow"
    BY RecordTypes DEF Entries, TypeOK
  <2>3. (\A q, d : Said(q, d) => Said(q, d)') /\ Said(r, "allow")'
    BY <2>1, <2>2, AppendAdds
  <2> QED
    BY <1>0, <2>1, <2>3 DEF Answered
<1>7. ASSUME NEW r \in Requests, IntentAudit(r) PROVE Answered'
  <2> DEFINE e == [hash |-> Hash(r, "intent"), decision |-> "allow", link |-> NoHash]
  <2>1. /\ audit' = Append(audit, e) \/ audit' = audit
        /\ UNCHANGED <<reply, moved, count>>
        /\ pc[r] = "intent" /\ pc' = [pc EXCEPT ![r] = "intent_line"]
    BY <1>7 DEF IntentAudit, Goto
  <2>2. e \in Entries
    BY RecordTypes DEF Entries, Links
  <2>3. \A q, d : Said(q, d) => Said(q, d)'
    <3>1. CASE audit' = audit
      BY <3>1 DEF Said
    <3> QED
      BY <2>1, <2>2, <3>1, AppendAdds
  <2> QED
    BY <1>0, <2>1, <2>3 DEF Answered
<1>8. CASE Outside
  <2>1. UNCHANGED <<pc, audit, reply, moved>> /\ count'.crash = count.crash
    <3>1. count \in [trip : Nat, crash : Nat]
      BY DEF TypeOK
    <3> QED
      BY <1>8, <3>1 DEF Outside, Trip, Clear, DiskFills, vars, gateway
  <2> QED
    BY <2>1 DEF Answered, Said
<1>9. CASE Crash
  <2>1. /\ UNCHANGED <<reply, moved>>
        /\ pc' = [r \in Requests |-> IF pc[r] \in {"waiting", "done"} THEN pc[r] ELSE "lost"]
    BY <1>9 DEF Crash
  <2>2. count'.crash # 0
    <3>1. count \in [trip : Nat, crash : Nat] /\ count' = [count EXCEPT !.crash = @ + 1]
      BY <1>9 DEF TypeOK, Crash
    <3> QED
      BY <3>1
  <2> QED
    BY <1>0, <2>1, <2>2 DEF Answered
<1> QED
  BY <1>1, <1>2, <1>3, <1>4, <1>5, <1>6, <1>7, <1>8, <1>9 DEF Next, Step, Passes, Outside

\* What a client was told is in the chain: a 200 or a driver's 403 with the decision that
\* let it through, a gate's 403 with the refusal.
THEOREM RepliesAreAuditedAlways == Spec => []RepliesAreAudited
<1>1. Init => Answered
  <2> SUFFICES ASSUME Init PROVE Answered
    OBVIOUS
  <2>1. ASSUME NEW r \in Requests
        PROVE  /\ ~(reply[r] # 0)
               /\ reply[r] \notin {200, 403}
               /\ pc[r] # "deny_line"
               /\ pc[r] \notin {"outcome_line", "reply"}
    <3>1. reply[r] = 0
      BY DEF Init
    <3>2. pc[r] = "waiting"
      BY DEF Init
    <3>3. reply[r] \notin {200, 403}
      BY <3>1
    <3>4. pc[r] # "deny_line" /\ pc[r] \notin {"outcome_line", "reply"}
      BY <3>2
    <3> QED
      BY <3>1, <3>3, <3>4, Zenon
  <2>2. \A r \in Requests :
          /\ ~(reply[r] # 0)
          /\ reply[r] \notin {200, 403}
          /\ pc[r] # "deny_line"
          /\ pc[r] \notin {"outcome_line", "reply"}
    BY <2>1, Zenon
  <2> QED
    BY <2>2, ZenonT(30) DEF Answered
<1>2. Answered => RepliesAreAudited
  BY DEF Answered, Said, RepliesAreAudited
<1> QED
  BY <1>1, <1>2, StepKeepsAnswered, ProgressHolds, TypeCorrect, PTL DEF Spec
=============================================================================
