------------------------------- MODULE Invoke -------------------------------
(***************************************************************************)
(* receiver.py: _invoke, from the first gate to the reply, run by one      *)
(* worker thread per request over the state the process shares: the safety *)
(* monitor, the replay window, the audit chain and the export file.        *)
(*                                                                         *)
(* Each shared object is used here as its own module promises it: an audit *)
(* append is atomic (AuditChain implements EvidenceLog), a line of the     *)
(* export is written whole or not at all (TraceExport has the rest), the   *)
(* replay window is large enough not to evict (EnvelopeGate has the rest), *)
(* has_seen and record are two steps.  A gate whose verdict depends on the *)
(* request and the configuration alone may go either way.                  *)
(*                                                                         *)
(* The process may be killed: threads, chain, window and safety state are  *)
(* gone, the export file and what the robot has done stay.                 *)
(***************************************************************************)
EXTENDS Integers, Sequences

CONSTANTS
  Requests,         \* the calls of /v1/invoke
  MsgOf,            \* the msg_id of each
  NoHash,           \* intent_chain_hash is None
  HasMonitor,       \* safety_monitor is not None
  CheckSignature,   \* require_envelope_signature
  CheckRevocation,  \* revocation_resolver is not None
  MaxTrips,         \* bound: stop signals
  MaxCrashes        \* bound: process kills

ASSUME ConfigurationAssumption ==
  {HasMonitor, CheckSignature, CheckRevocation} \subseteq BOOLEAN
ASSUME BoundsAssumption == {MaxTrips, MaxCrashes} \subseteq Nat

VARIABLES
  pc,          \* where each request is in _invoke
  signal,      \* the stop signal is on and nobody has cleared it
  safety,      \* safety_monitor.state
  seen,        \* replay_cache
  audit,       \* audit_chain.entries, since the process started
  intentHash,  \* each request's local intent_chain_hash
  export,      \* the attestation export, one record per line
  disk,        \* "ok", or "full": the export cannot be written
  outcome,     \* each request's local outcome
  reply,       \* what each client got
  moved,       \* history: the requests whose actuator.execute was called
  returned,    \* history: those whose execute came back
  dropped,     \* history: the records whose export write failed
  afterSignal, \* history: the requests that arrived with the stop signal on, until it is cleared
  count        \* history: stop signals and kills so far

gateway == <<safety, seen, audit>>
vars == <<pc, signal, gateway, intentHash, export, disk, outcome, reply, moved, returned,
          dropped, afterSignal, count>>

\* What execute comes back with: outcome_kind, or "error" for an exception.
Outcomes == {"ok", "denied", "failed", "error"}

\* A record names its request and which half of the pair it is.  The audit hash of an
\* entry is the entry's own name: no two entries of a process say the same.
Hash(r, kind) == [req |-> r, kind |-> kind]
Records == [req : Requests, kind : {"intent", "outcome"}]

InExport(h) == \E i \in 1..Len(export) : export[i] = h

Goto(r, label) == pc' = [pc EXCEPT ![r] = label]

Init ==
  /\ pc = [r \in Requests |-> "waiting"]
  /\ signal = FALSE
  /\ safety = "READY"
  /\ seen = {}
  /\ audit = <<>>
  /\ intentHash = [r \in Requests |-> NoHash]
  /\ export = <<>>
  /\ disk = "ok"
  /\ outcome = [r \in Requests |-> "none"]
  /\ reply = [r \in Requests |-> 0]
  /\ moved = {}
  /\ returned = {}
  /\ dropped = {}
  /\ afterSignal = {}
  /\ count = [trip |-> 0, crash |-> 0]

-----------------------------------------------------------------------------
(* The gates *)

\* The call gets its worker thread.
Arrive(r) ==
  /\ pc[r] = "waiting"
  /\ Goto(r, "safety")
  /\ afterSignal' = IF signal THEN afterSignal \cup {r} ELSE afterSignal
  /\ UNCHANGED <<signal, gateway, intentHash, export, disk, outcome, reply, moved, returned,
                 dropped, count>>

can_actuate == safety = "READY"
\* SF-001/SF-002: tick (the heartbeat may be found stale), then can_actuate.
SafetyGate(r) ==
  /\ pc[r] = "safety"
  /\ IF ~HasMonitor
       THEN Goto(r, "signature") /\ safety' = safety
       ELSE \/ can_actuate /\ Goto(r, "signature") /\ safety' = safety
            \/ can_actuate /\ Goto(r, "deny") /\ safety' = "SAFE_STOP"
            \/ ~can_actuate /\ Goto(r, "deny") /\ safety' = safety
  /\ UNCHANGED <<signal, seen, audit, intentHash, export, disk, outcome, reply, moved, returned,
                 dropped, afterSignal, count>>

\* verify_envelope and check_freshness, only under require_envelope_signature;
\* without it the replay and revocation checks are skipped too.  A signature block of
\* the wrong shape, or an infinite timestamp, raises: a 500 that no record mentions.
SignatureGate(r) ==
  /\ pc[r] = "signature"
  /\ IF CheckSignature
       THEN \/ (\E next \in {"deny", "has_seen"} : Goto(r, next)) /\ reply' = reply
            \/ Goto(r, "done") /\ reply' = [reply EXCEPT ![r] = 500]
       ELSE Goto(r, "policy") /\ reply' = reply
  /\ UNCHANGED <<signal, gateway, intentHash, export, disk, outcome, moved, returned, dropped,
                 afterSignal, count>>

\* check_replay: has_seen ...
HasSeen(r) ==
  /\ pc[r] = "has_seen"
  /\ Goto(r, IF MsgOf[r] \in seen THEN "deny" ELSE "record")
  /\ UNCHANGED <<signal, gateway, intentHash, export, disk, outcome, reply, moved, returned,
                 dropped, afterSignal, count>>

\* ... then record.  The id stays used up whatever a later gate says.
RecordId(r) ==
  /\ pc[r] = "record"
  /\ seen' = seen \cup {MsgOf[r]}
  /\ Goto(r, "revocation")
  /\ UNCHANGED <<signal, safety, audit, intentHash, export, disk, outcome, reply, moved, returned,
                 dropped, afterSignal, count>>

\* The revocation check: let through, refused, or no answer; the exception then ends
\* the request with a 500 that no record mentions.
RevocationGate(r) ==
  /\ pc[r] = "revocation"
  /\ \/ Goto(r, "policy") /\ reply' = reply
     \/ CheckRevocation /\ Goto(r, "deny") /\ reply' = reply
     \/ CheckRevocation /\ Goto(r, "done") /\ reply' = [reply EXCEPT ![r] = 500]
  /\ UNCHANGED <<signal, gateway, intentHash, export, disk, outcome, moved, returned, dropped,
                 afterSignal, count>>

\* The schema (422, not audited), then the gates from manifest_pin to hitl_required, any
\* of which refuses; Gates has what they decide.  One that raises on a field it cannot
\* compare ends in a 500 that no record mentions.
PolicyGates(r) ==
  /\ pc[r] = "policy"
  /\ \/ (\E next \in {"route", "deny"} : Goto(r, next)) /\ reply' = reply
     \/ Goto(r, "done") /\ \E status \in {422, 500} : reply' = [reply EXCEPT ![r] = status]
  /\ UNCHANGED <<signal, gateway, intentHash, export, disk, outcome, moved, returned, dropped,
                 afterSignal, count>>

\* The choice of the actuator, by name or by the tool it declares: a name nobody has is
\* a 404, a tie or no candidate a 422; neither is audited.
Route(r) ==
  /\ pc[r] = "route"
  /\ \/ Goto(r, "intent") /\ reply' = reply
     \/ Goto(r, "done") /\ \E status \in {404, 422} : reply' = [reply EXCEPT ![r] = status]
  /\ UNCHANGED <<signal, gateway, intentHash, export, disk, outcome, moved, returned, dropped,
                 afterSignal, count>>

-----------------------------------------------------------------------------
(* The records *)

\* append_trace_line, best effort: with a full disk the record is dropped.
Emit(h) ==
  IF disk = "ok" THEN export' = Append(export, h) /\ dropped' = dropped
  ELSE export' = export /\ dropped' = dropped \cup {h}

\* _record on a deny: the audit entry; its export line and the signed 403 follow.
DenyAudit(r) ==
  /\ pc[r] = "deny"
  /\ audit' = Append(audit, [hash |-> Hash(r, "outcome"), decision |-> "deny", link |-> NoHash])
  /\ Goto(r, "deny_line")
  /\ UNCHANGED <<signal, safety, seen, intentHash, export, disk, outcome, reply, moved, returned,
                 dropped, afterSignal, count>>

\* The entry does not serialise: append raises, nobody catches it, and the client gets a
\* 500 for a refusal that no record mentions.
DenyAuditRaises(r) ==
  /\ pc[r] = "deny"
  /\ reply' = [reply EXCEPT ![r] = 500]
  /\ Goto(r, "done")
  /\ UNCHANGED <<signal, gateway, intentHash, export, disk, outcome, moved, returned, dropped,
                 afterSignal, count>>

\* The best-effort export line of the deny, and the reply.
DenyLine(r) ==
  /\ pc[r] = "deny_line"
  /\ Emit(Hash(r, "outcome"))
  /\ reply' = [reply EXCEPT ![r] = 403]
  /\ Goto(r, "done")
  /\ UNCHANGED <<signal, gateway, intentHash, disk, outcome, moved, returned, afterSignal, count>>

\* _record_intent, first half: the audit entry, whose hash the request keeps; a
\* failure is logged and swallowed.
IntentAudit(r) ==
  /\ pc[r] = "intent"
  /\ \/ /\ audit' = Append(audit, [hash |-> Hash(r, "intent"), decision |-> "allow",
                                   link |-> NoHash])
        /\ intentHash' = [intentHash EXCEPT ![r] = Hash(r, "intent")]
     \/ UNCHANGED <<audit, intentHash>>
  /\ Goto(r, "intent_line")
  /\ UNCHANGED <<signal, safety, seen, export, disk, outcome, reply, moved, returned, dropped,
                 afterSignal, count>>

\* An intent line that waits until it can be written.
IntentLineInsists(r) ==
  /\ pc[r] = "intent_line"
  /\ disk = "ok"
  /\ export' = Append(export, Hash(r, "intent"))
  /\ Goto(r, "dispatch")
  /\ UNCHANGED <<signal, gateway, intentHash, disk, outcome, reply, moved, returned, dropped,
                 afterSignal, count>>

\* Second half: the signed intent line of the export.
IntentLine(r) ==
  /\ pc[r] = "intent_line"
  /\ Emit(Hash(r, "intent"))
  /\ Goto(r, "dispatch")
  /\ UNCHANGED <<signal, gateway, intentHash, disk, outcome, reply, moved, returned, afterSignal,
                 count>>

\* Dispatch as soon as the audit entry is there, with the export line still to come.
DispatchEarly(r) ==
  /\ pc[r] \in {"intent_line", "dispatch"}
  /\ moved' = moved \cup {r}
  /\ Goto(r, "executing")
  /\ UNCHANGED <<signal, gateway, intentHash, export, disk, outcome, reply, returned, dropped,
                 afterSignal, count>>

\* target_actuator.execute is called: the robot may move from here on.
Dispatch(r) ==
  /\ pc[r] = "dispatch"
  /\ moved' = moved \cup {r}
  /\ Goto(r, "executing")
  /\ UNCHANGED <<signal, gateway, intentHash, export, disk, outcome, reply, returned, dropped,
                 afterSignal, count>>

\* It returns, or raises.  A driver that hangs never takes this step.
Return(r) ==
  /\ pc[r] = "executing"
  /\ \E o \in Outcomes : outcome' = [outcome EXCEPT ![r] = o]
  /\ returned' = returned \cup {r}
  /\ Goto(r, "outcome")
  /\ UNCHANGED <<signal, gateway, intentHash, export, disk, reply, moved, dropped, afterSignal,
                 count>>

\* The outcome linked to the newest intent of the chain.
OutcomeAuditTail(r) ==
  LET intents == {i \in 1..Len(audit) : audit[i].hash.kind = "intent"} IN
  /\ pc[r] = "outcome"
  /\ audit' = Append(audit, [hash |-> Hash(r, "outcome"), decision |-> "allow",
       link |-> IF intents = {} THEN NoHash
                ELSE audit[CHOOSE i \in intents : \A j \in intents : j <= i].hash])
  /\ Goto(r, "outcome_line")
  /\ UNCHANGED <<signal, safety, seen, intentHash, export, disk, outcome, reply, moved, returned,
                 dropped, afterSignal, count>>

\* _record_with_outcome: the audit entry, linked to this request's intent.
OutcomeAudit(r) ==
  /\ pc[r] = "outcome"
  /\ audit' = Append(audit, [hash |-> Hash(r, "outcome"), decision |-> "allow",
                             link |-> intentHash[r]])
  /\ Goto(r, "outcome_line")
  /\ UNCHANGED <<signal, safety, seen, intentHash, export, disk, outcome, reply, moved, returned,
                 dropped, afterSignal, count>>

\* The telemetry hash swallowed like an export failure, the entry skipped.
TelemetryHashSwallowed(r) ==
  /\ pc[r] = "outcome"
  /\ outcome[r] # "error"
  /\ Goto(r, "outcome_line")
  /\ UNCHANGED <<signal, gateway, intentHash, export, disk, outcome, reply, moved, returned,
                 dropped, afterSignal, count>>

\* Hashing the telemetry raises (an unreadable file, a value that is not JSON): it is
\* not caught, so there is no entry, no line and the client gets a 500.
TelemetryHashRaises(r) ==
  /\ pc[r] = "outcome"
  /\ outcome[r] # "error"
  /\ reply' = [reply EXCEPT ![r] = 500]
  /\ Goto(r, "done")
  /\ UNCHANGED <<signal, gateway, intentHash, export, disk, outcome, moved, returned, dropped,
                 afterSignal, count>>

\* _emit_attestation.
OutcomeLine(r) ==
  /\ pc[r] = "outcome_line"
  /\ Emit(Hash(r, "outcome"))
  /\ Goto(r, "reply")
  /\ UNCHANGED <<signal, gateway, intentHash, disk, outcome, reply, moved, returned, afterSignal,
                 count>>

\* 200, the driver's own refusal as a 403, and a 500 for a fault.
Reply(r) ==
  /\ pc[r] = "reply"
  /\ reply' = [reply EXCEPT ![r] =
       CASE outcome[r] = "ok" -> 200 [] outcome[r] = "denied" -> 403 [] OTHER -> 500]
  /\ Goto(r, "done")
  /\ UNCHANGED <<signal, gateway, intentHash, export, disk, outcome, moved, returned, dropped,
                 afterSignal, count>>

-----------------------------------------------------------------------------
(* The environment *)

\* A trip that assigns a state GatewayState does not have.
TripUnknownState ==
  /\ count.trip < MaxTrips
  /\ count' = [count EXCEPT !.trip = @ + 1]
  /\ signal' = TRUE
  /\ safety' = "STOPPED"
  /\ UNCHANGED <<pc, seen, audit, intentHash, export, disk, outcome, reply, moved, returned,
                 dropped, afterSignal>>

\* The stop signal goes on; a gateway with a monitor is told (on_estop_wire).
Trip ==
  /\ count.trip < MaxTrips
  /\ count' = [count EXCEPT !.trip = @ + 1]
  /\ signal' = TRUE
  /\ safety' = IF HasMonitor THEN "ESTOP_ACTIVE" ELSE safety
  /\ UNCHANGED <<pc, seen, audit, intentHash, export, disk, outcome, reply, moved, returned,
                 dropped, afterSignal>>

\* A heartbeat that puts a stopped monitor back to READY.
ClearByHeartbeat ==
  /\ safety # "READY"
  /\ safety' = "READY"
  /\ UNCHANGED <<pc, signal, seen, audit, intentHash, export, disk, outcome, reply, moved, returned,
                 dropped, afterSignal, count>>

\* The operator clears whatever stop is in force (SafetyMonitor.clear, called without
\* an audit chain of its own to write to).
Clear ==
  /\ safety # "READY"
  /\ safety' = "READY"
  /\ signal' = FALSE
  /\ afterSignal' = {}
  /\ UNCHANGED <<pc, seen, audit, intentHash, export, disk, outcome, reply, moved, returned,
                 dropped, count>>

\* From some moment on the export cannot be written.
DiskFills ==
  /\ disk = "ok"
  /\ disk' = "full"
  /\ UNCHANGED <<pc, signal, gateway, intentHash, export, outcome, reply, moved, returned, dropped,
                 afterSignal, count>>

\* The process is killed and restarted: requests in flight are lost, and so is all that
\* is in memory.  A restart is also the one other way out of a stop.
Crash ==
  /\ count.crash < MaxCrashes
  /\ count' = [count EXCEPT !.crash = @ + 1]
  /\ pc' = [r \in Requests |-> IF pc[r] \in {"waiting", "done"} THEN pc[r] ELSE "lost"]
  /\ safety' = "READY"
  /\ signal' = FALSE
  /\ afterSignal' = {}
  /\ seen' = {}
  /\ audit' = <<>>
  /\ UNCHANGED <<intentHash, export, disk, outcome, reply, moved, returned, dropped>>

Step(r) ==
  \/ SafetyGate(r) \/ SignatureGate(r) \/ HasSeen(r) \/ RecordId(r)
  \/ RevocationGate(r) \/ PolicyGates(r) \/ Route(r)
  \/ DenyAudit(r) \/ DenyAuditRaises(r) \/ DenyLine(r)
  \/ IntentAudit(r) \/ IntentLine(r) \/ Dispatch(r)
  \/ OutcomeAudit(r) \/ TelemetryHashRaises(r) \/ OutcomeLine(r) \/ Reply(r)

Next ==
  \/ \E r \in Requests : Arrive(r) \/ Step(r) \/ Return(r)
  \/ Trip \/ Clear \/ DiskFills \/ Crash

Spec == Init /\ [][Next]_vars

\* A worker thread that can run does run; no fairness of the driver, the operator or
\* the environment.
FairSpec == Spec /\ \A r \in Requests : WF_vars(Step(r))

-----------------------------------------------------------------------------
Labels == {"waiting", "safety", "signature", "has_seen", "record", "revocation", "policy", "route",
           "deny", "deny_line", "intent", "intent_line", "dispatch", "executing", "outcome",
           "outcome_line", "reply", "done", "lost"}
Links == Records \cup {NoHash}

\* Every variable keeps its type: the safety state is a GatewayState, the chain holds
\* AuditEntry records, a reply is a status that _invoke can send.
TypeOK ==
  /\ pc \in [Requests -> Labels]
  /\ signal \in BOOLEAN
  /\ safety \in {"READY", "SAFE_STOP", "ESTOP_ACTIVE"}
  /\ seen \subseteq {MsgOf[r] : r \in Requests}
  /\ audit \in Seq([hash : Records, decision : {"allow", "deny"}, link : Links])
  /\ intentHash \in [Requests -> Links]
  /\ export \in Seq(Records)
  /\ disk \in {"ok", "full"}
  /\ outcome \in [Requests -> Outcomes \cup {"none"}]
  /\ reply \in [Requests -> {0, 200, 403, 404, 422, 500}]
  /\ moved \subseteq Requests
  /\ returned \subseteq Requests
  /\ dropped \subseteq Records
  /\ afterSignal \subseteq Requests
  /\ count \in [trip : Nat, crash : Nat]

\* No dispatch without a trace: a request whose actuator was called and has not come
\* back (it hangs, or the process was killed) is an intent without an outcome in the
\* export, unless the export could not be written (record before dispatch, RCAN 6.3).
UnreportedDispatchNamed ==
  \A r \in moved \ returned :
    /\ InExport(Hash(r, "intent")) \/ Hash(r, "intent") \in dropped
    /\ ~InExport(Hash(r, "outcome"))

\* An outcome points at the intent of its own request, written before it, never at
\* another thread's ("an evidence link that is wrong is worse than one that is absent").
OutcomeNamesItsIntent ==
  \A i \in 1..Len(audit) : audit[i].link # NoHash =>
    /\ audit[i].link = Hash(audit[i].hash.req, "intent")
    /\ \E j \in 1..i-1 : audit[j].hash = audit[i].link

\* A decision the client was told of is in the audit chain of the process that made it,
\* and says what happened: a 200 or a driver's 403 that the actuator was called, a
\* gate's 403 that it was not.
RepliesAreAudited ==
  count.crash = 0 =>
    \A r \in Requests : reply[r] \in {200, 403} =>
      \E i \in 1..Len(audit) :
        /\ audit[i].hash = Hash(r, "outcome")
        /\ audit[i].decision = "allow" <=> r \in moved

\* A request that arrives while a stop is in force never reaches the actuator before
\* somebody clears the stop (SF-001: safety state preempts all other gates).
StopRefusesNew == signal => afterSignal \cap moved = {}

\* Every request is answered from wherever it stands, before its driver is called and
\* after it has returned, unless the driver hangs or the process is killed, and also
\* when the evidence cannot be written: "a record is evidence, not enforcement".
EveryRequestAnswered ==
  \A r \in Requests :
    pc[r] # "waiting" ~> reply[r] # 0 \/ pc[r] \in {"executing", "lost"}

\* README.md, check 6: a "stop signal preempts any pending action".
StopPreemptsPending == [][\A r \in moved' \ moved : ~signal]_vars

\* receiver.py: "A real actuation that already executed must not be reported as a 500".
ActuationNeverA500 ==
  \A r \in Requests : outcome[r] = "ok" => reply[r] # 500
=============================================================================
