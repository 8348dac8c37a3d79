---------------------------- MODULE SafetyMonitor ----------------------------
(***************************************************************************)
(* cert/safety.py: the SafetyMonitor one gateway shares between its worker *)
(* threads (tick, can_actuate), the ESTOP wire (on_estop_wire), the        *)
(* pendant (on_heartbeat) and the operator (clear).  It has no lock: each  *)
(* method reads the state and then writes it.                              *)
(*                                                                         *)
(* Time is abstracted to whether last_heartbeat_at is older than           *)
(* heartbeat_staleness_s.                                                  *)
(***************************************************************************)

CONSTANTS
  Workers,   \* the worker threads, each at the safety gate of a request
  Tiers      \* the tiers a principal may hold; "commission" may clear

ASSUME TiersAssumption == "commission" \in Tiers

VARIABLES
  state,      \* self.state
  fresh,      \* the heartbeat is no older than heartbeat_staleness_s
  worker,     \* each worker: "idle", inside tick, or "ticked" before can_actuate
  stale,      \* each worker's staleness, as tick computed it
  passed,     \* each worker: its last can_actuate() answered True
  wire,       \* on_estop_wire: "idle", or "tripping" with its test passed
  operator,   \* clear: "idle", "clearing" past the tier check, or "auditing"
  prev,       \* clear's local prev
  audit,      \* the last entry clear wrote into the audit chain
  armed,      \* history: a trip has returned and no clear has completed since
  cleared     \* history: per worker, a clear has written READY since its tick

monitorVars ==
  <<state, fresh, worker, stale, passed, wire, operator, prev, audit, armed, cleared>>

GatewayState == {"READY", "SAFE_STOP", "ESTOP_ACTIVE"}

MonitorInit ==
  /\ state = "READY"
  /\ fresh = TRUE
  /\ worker = [w \in Workers |-> "idle"]
  /\ stale = [w \in Workers |-> FALSE]
  /\ passed = [w \in Workers |-> FALSE]
  /\ wire = "idle"
  /\ operator = "idle"
  /\ prev = "READY"
  /\ audit = [decision |-> "none", prev |-> "READY"]
  /\ armed = FALSE
  /\ cleared = [w \in Workers |-> FALSE]

can_actuate == state = "READY"

-----------------------------------------------------------------------------
(* tick and can_actuate, as _invoke calls them *)

\* tick computes the staleness.
TickAge(w) ==
  /\ worker[w] = "idle"
  /\ stale' = [stale EXCEPT ![w] = ~fresh]
  /\ passed' = [passed EXCEPT ![w] = FALSE]
  /\ worker' = [worker EXCEPT ![w] = "aged"]
  /\ UNCHANGED <<state, fresh, wire, operator, prev, audit, armed, cleared>>

\* It tests the state: only a READY monitor with a stale heartbeat goes on.
TickTest(w) ==
  /\ worker[w] = "aged"
  /\ worker' = [worker EXCEPT ![w] =
                  IF state = "READY" /\ stale[w] THEN "stopping" ELSE "ticked"]
  /\ cleared' = [cleared EXCEPT ![w] = FALSE]
  /\ UNCHANGED <<state, fresh, stale, passed, wire, operator, prev, audit, armed>>

\* A TickStop whose assignment may be skipped.
TickStopForgets(w) ==
  /\ worker[w] = "stopping"
  /\ state' \in {state, "SAFE_STOP"}
  /\ worker' = [worker EXCEPT ![w] = "ticked"]
  /\ UNCHANGED <<fresh, stale, passed, wire, operator, prev, audit, armed, cleared>>

\* It assigns SAFE_STOP, whatever the state has become since the test.
TickStop(w) ==
  /\ worker[w] = "stopping"
  /\ state' = "SAFE_STOP"
  /\ worker' = [worker EXCEPT ![w] = "ticked"]
  /\ UNCHANGED <<fresh, stale, passed, wire, operator, prev, audit, armed, cleared>>

\* The gate of the request: can_actuate().
Gate(w) ==
  /\ worker[w] = "ticked"
  /\ passed' = [passed EXCEPT ![w] = can_actuate]
  /\ worker' = [worker EXCEPT ![w] = "idle"]
  /\ UNCHANGED <<state, fresh, stale, wire, operator, prev, audit, armed, cleared>>

-----------------------------------------------------------------------------
(* on_estop_wire(tripped=True) *)

\* The test of the state; an active ESTOP stays as it is.
TripTest ==
  /\ wire = "idle"
  /\ IF state # "ESTOP_ACTIVE"
       THEN wire' = "tripping" /\ armed' = armed
       ELSE wire' = "idle" /\ armed' = TRUE
  /\ UNCHANGED <<state, fresh, worker, stale, passed, operator, prev, audit, cleared>>

\* The assignment.
Trip ==
  /\ wire = "tripping"
  /\ state' = "ESTOP_ACTIVE"
  /\ wire' = "idle"
  /\ armed' = TRUE
  /\ UNCHANGED <<fresh, worker, stale, passed, operator, prev, audit, cleared>>

-----------------------------------------------------------------------------
(* on_heartbeat, and the heartbeat going stale *)

\* A heartbeat that ends a SAFE_STOP by itself.
HeartbeatResumes ==
  /\ fresh' = TRUE
  /\ state' = IF state = "SAFE_STOP" THEN "READY" ELSE state
  /\ UNCHANGED <<worker, stale, passed, wire, operator, prev, audit, armed, cleared>>

\* "Resume requires explicit operator signal, NOT a heartbeat alone."
Heartbeat ==
  /\ fresh' = TRUE
  /\ UNCHANGED <<state, worker, stale, passed, wire, operator, prev, audit, armed, cleared>>

HeartbeatExpires ==
  /\ fresh
  /\ fresh' = FALSE
  /\ UNCHANGED <<state, worker, stale, passed, wire, operator, prev, audit, armed, cleared>>

-----------------------------------------------------------------------------
(* clear *)

\* prev is read and the tier tested; a refused clear is audited and changes nothing.
ClearBegin(tier) ==
  /\ operator = "idle"
  /\ prev' = state
  /\ IF tier = "commission"
       THEN operator' = "clearing" /\ audit' = audit
       ELSE operator' = "idle" /\ audit' = [decision |-> "deny", prev |-> state]
  /\ UNCHANGED <<state, fresh, worker, stale, passed, wire, armed, cleared>>

\* The assignment, which ends whatever stop is in force by then.
Clear ==
  /\ operator = "clearing"
  /\ state' = "READY"
  /\ operator' = "auditing"
  /\ armed' = FALSE
  /\ cleared' = [w \in Workers |-> TRUE]
  /\ UNCHANGED <<fresh, worker, stale, passed, wire, prev, audit>>

\* _audit_clear: the transition as clear saw it.
AuditClear ==
  /\ operator = "auditing"
  /\ audit' = [decision |-> "allow", prev |-> prev]
  /\ operator' = "idle"
  /\ UNCHANGED <<state, fresh, worker, stale, passed, wire, prev, armed, cleared>>

MonitorNext ==
  \/ \E w \in Workers : TickAge(w) \/ TickTest(w) \/ TickStop(w) \/ Gate(w)
  \/ TripTest \/ Trip
  \/ Heartbeat \/ HeartbeatExpires
  \/ (\E tier \in Tiers : ClearBegin(tier)) \/ Clear \/ AuditClear

MonitorSpec == MonitorInit /\ [][MonitorNext]_monitorVars

-----------------------------------------------------------------------------
\* The monitor's state is a GatewayState, and a clear audits an allow or a deny that
\* names a GatewayState as the one it left.
MonitorTypeOK ==
  /\ state \in GatewayState
  /\ fresh \in BOOLEAN
  /\ worker \in [Workers -> {"idle", "aged", "stopping", "ticked"}]
  /\ stale \in [Workers -> BOOLEAN]
  /\ passed \in [Workers -> BOOLEAN]
  /\ wire \in {"idle", "tripping"}
  /\ operator \in {"idle", "clearing", "auditing"}
  /\ prev \in GatewayState
  /\ audit \in [decision : {"none", "allow", "deny"}, prev : GatewayState]
  /\ armed \in BOOLEAN
  /\ cleared \in [Workers -> BOOLEAN]

\* Once a trip has returned the gateway cannot actuate again until a clear by the
\* commission tier completes, however ticks, heartbeats, refused clears and further
\* trips interleave with it.
TripHolds == armed => ~can_actuate

\* A request whose tick found the heartbeat stale does not get past the gate, unless
\* an operator cleared the monitor in between.
StaleNeverPasses ==
  \A w \in Workers : passed[w] => ~stale[w] \/ cleared[w]

\* on_estop_wire: "ESTOP wire transitions preempt other state".
EstopPreempts == armed => state = "ESTOP_ACTIVE"

\* clear: "Recovering from a stop must not cost the evidence of it": the transition
\* it audits starts from the ESTOP it ended.
ClearEvidenceIsTrue ==
  [][state = "ESTOP_ACTIVE" /\ state' = "READY" => prev = "ESTOP_ACTIVE"]_monitorVars
=============================================================================
