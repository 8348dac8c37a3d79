------------------------------ MODULE StopLanes ------------------------------
(***************************************************************************)
(* receiver.py: invoke, the handler around _invoke.  It runs _invoke on a  *)
(* worker thread, and which threads a request waits for depends on its     *)
(* tool: a tool that an actuator declares in stop_capabilities has         *)
(* STOP_LANES threads of its own, every other request shares the default   *)
(* pool.  Each pool is an anyio CapacityLimiter: so many tokens, given in  *)
(* the order of asking.                                                    *)
(*                                                                         *)
(* Clients send as often as they like; a request whose driver hangs keeps  *)
(* its thread for ever.                                                    *)
(***************************************************************************)
EXTENDS Integers, FiniteSets, Sequences, SequencesExt

CONSTANTS
  Clients,       \* each sends one request at a time, again and again
  StopClients,   \* those whose tool is in _stop_tools
  DefaultLanes,  \* the default pool's threads (40)
  STOP_LANES     \* the threads reserved for stop tools (8)

ASSUME ClientsAssumption == IsFiniteSet(Clients) /\ StopClients \subseteq Clients
ASSUME LanesAssumption == {DefaultLanes, STOP_LANES} \subseteq Nat \ {0}

VARIABLES
  queue,  \* the requests that wait for a thread, for each pool
  held,   \* the requests that run on one, for each pool
  hung    \* those of them whose driver will never return

lanesVars == <<queue, held, hung>>

Pools == {"default", "stop"}

LanesInit ==
  /\ queue = [p \in Pools |-> <<>>]
  /\ held = [p \in Pools |-> {}]
  /\ hung = {}

Waiting(c) == \E p \in Pools : c \in ToSet(queue[p])
Running(c) == \E p \in Pools : c \in held[p]

\* One pool for every request.
LaneShared(c) == "default"
\* The limiter that invoke passes to run_sync; None is the default pool's.
Lane(c) == IF c \in StopClients THEN "stop" ELSE "default"

\* One token more than the limiter was made with.
TokensPlusOne(p) == (IF p = "stop" THEN STOP_LANES ELSE DefaultLanes) + 1
\* How many threads a pool has.
Tokens(p) == IF p = "stop" THEN STOP_LANES ELSE DefaultLanes

\* A request comes in and asks for a thread.
Arrive(c) ==
  /\ ~Waiting(c) /\ ~Running(c)
  /\ queue' = [queue EXCEPT ![Lane(c)] = Append(@, c)]
  /\ UNCHANGED <<held, hung>>

\* The limiter gives the first in the queue a free thread.
Grant(p) ==
  /\ queue[p] # <<>>
  /\ Cardinality(held[p]) < Tokens(p)
  /\ held' = [held EXCEPT ![p] = @ \cup {Head(queue[p])}]
  /\ queue' = [queue EXCEPT ![p] = Tail(@)]
  /\ UNCHANGED hung

\* _invoke comes back and its thread is free.
Return(c) ==
  /\ Running(c) /\ c \notin hung
  /\ held' = [p \in Pools |-> held[p] \ {c}]
  /\ UNCHANGED <<queue, hung>>

\* A driver, or a registry that is asked on the way, never answers.
Hang(c) ==
  /\ Running(c) /\ c \notin hung
  /\ hung' = hung \cup {c}
  /\ UNCHANGED <<queue, held>>

LanesNext ==
  \/ \E c \in Clients : Arrive(c) \/ Return(c) \/ Hang(c)
  \/ \E p \in Pools : Grant(p)

LanesSpec == LanesInit /\ [][LanesNext]_lanesVars

\* A free thread is given to whoever waits, and a driver that does not hang returns.
FairSpec ==
  /\ LanesSpec
  /\ \A p \in Pools : WF_lanesVars(Grant(p))
  /\ \A c \in Clients : WF_lanesVars(Return(c))

-----------------------------------------------------------------------------
\* A request is in one place at a time, and no more run than there are threads.
LanesTypeOK ==
  /\ queue \in [Pools -> Seq(Clients)]
  /\ \A p \in Pools : IsInjective(queue[p])
  /\ held \in [Pools -> SUBSET Clients]
  /\ Cardinality(held["stop"]) <= STOP_LANES
  /\ Cardinality(held["default"]) <= DefaultLanes
  /\ \A c \in Clients : ~(Waiting(c) /\ Running(c))
  /\ hung \subseteq UNION {held[p] : p \in Pools}

HungStops == Cardinality(hung \cap StopClients)
HungOthers == Cardinality(hung \ StopClients)

\* "A stop never queues behind other requests": it gets a thread whatever the others do,
\* also when they hang, unless STOP_LANES stops themselves hang.
StopGetsThread ==
  \A c \in StopClients : Waiting(c) ~> Running(c) \/ HungStops >= STOP_LANES

\* Any other request gets one unless the default pool is hung, whatever the stops do.
OthersGetThread ==
  \A c \in Clients \ StopClients : Waiting(c) ~> Running(c) \/ HungOthers >= DefaultLanes
=============================================================================
