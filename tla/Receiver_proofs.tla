--------------------------- MODULE Receiver_proofs ---------------------------
(***************************************************************************)
(* What receiver.py's handlers share between their threads: the thread     *)
(* pools (StopLanes), the safety monitor (SafetyMonitor) and the manifest  *)
(* cache (ManifestCache).  The three keep no state in common.              *)
(*                                                                         *)
(* The pools and the monitor, for any number of clients, threads and tiers.*)
(* The manifest's gates under the shared cache, for any number of threads, *)
(* texts and deployments, provided that each write gets an mtime of its own*)
(* (~CoarseClock; ManifestCache_coarse shows what happens without it): an  *)
(* entry stamped with the file's present mtime was read from the present   *)
(* text, because its mtime was taken before the text was read and every    *)
(* later write has a later one.                                            *)
(***************************************************************************)
EXTENDS StopLanes, SafetyMonitor, ManifestCache, FiniteSetTheorems, SequenceTheorems, TLAPS

-----------------------------------------------------------------------------
(* The thread pools *)

\* A request asks for a thread of its own lane only, and runs on one of it.
InLane ==
  \A p \in Pools : \A c \in Clients : c \in ToSet(queue[p]) \/ c \in held[p] => Lane(c) = p

\* Asking last: who was not waiting now waits once.
LEMMA AppendToQueue ==
  ASSUME NEW q \in Seq(Clients), IsInjective(q), NEW c \in Clients, c \notin ToSet(q)
  PROVE  /\ Append(q, c) \in Seq(Clients)
         /\ IsInjective(Append(q, c))
         /\ ToSet(Append(q, c)) = ToSet(q) \cup {c}
<1>1. /\ Len(q) \in Nat /\ DOMAIN q = 1..Len(q)
      /\ Append(q, c) \in Seq(Clients)
      /\ DOMAIN Append(q, c) = 1..Len(q) + 1
      /\ \A i \in 1..Len(q) : Append(q, c)[i] = q[i]
      /\ Append(q, c)[Len(q) + 1] = c
  BY AppendProperties, LenProperties
<1>2. \A i \in 1..Len(q) : q[i] # c
  BY <1>1 DEF ToSet
<1>3. IsInjective(Append(q, c))
  BY <1>1, <1>2 DEF IsInjective
<1>4. ToSet(Append(q, c)) = ToSet(q) \cup {c}
  BY <1>1 DEF ToSet
<1>5. QED
  BY <1>1, <1>3, <1>4

\* Serving the first: it waits no longer.
LEMMA ServeQueue ==
  ASSUME NEW q \in Seq(Clients), IsInjective(q), q # <<>>
  PROVE  /\ Head(q) \in Clients /\ Tail(q) \in Seq(Clients)
         /\ IsInjective(Tail(q))
         /\ Head(q) \in ToSet(q) /\ Head(q) \notin ToSet(Tail(q))
         /\ ToSet(Tail(q)) \subseteq ToSet(q)
<1>1. /\ Len(q) \in Nat /\ DOMAIN q = 1..Len(q) /\ Len(q) > 0
      /\ Head(q) \in Clients /\ Tail(q) \in Seq(Clients)
      /\ Head(q) = q[1]
      /\ DOMAIN Tail(q) = 1..Len(q) - 1
      /\ \A i \in 1..Len(q) - 1 : Tail(q)[i] = q[i + 1]
  BY HeadTailProperties, LenProperties, EmptySeq
<1>2. /\ 1 \in 1..Len(q)
      /\ \A i \in 1..Len(q) - 1 : i + 1 \in 1..Len(q) /\ i + 1 # 1
  BY <1>1
<1>3. IsInjective(Tail(q))
  BY <1>1, <1>2 DEF IsInjective
<1>4. Head(q) \in ToSet(q) /\ ToSet(Tail(q)) \subseteq ToSet(q)
  BY <1>1, <1>2 DEF ToSet
<1>5. Head(q) \notin ToSet(Tail(q))
  BY <1>1, <1>2 DEF ToSet, IsInjective
<1>6. QED
  BY <1>1, <1>3, <1>4, <1>5

\* A pool's threads are counted.
LEMMA HeldFinite ==
  ASSUME LanesTypeOK
  PROVE  /\ \A p \in Pools : IsFiniteSet(held[p]) /\ Cardinality(held[p]) \in Nat
         /\ \A p \in Pools : Cardinality(held[p]) <= Tokens(p)
<1>1. \A p \in Pools : held[p] \subseteq Clients
  BY DEF LanesTypeOK
<1>2. QED
  BY <1>1, ClientsAssumption, FS_Subset, FS_CardinalityType DEF LanesTypeOK, Tokens, Pools

\* LanesTypeOK: no more requests run than their pool has threads, and none is in two places.
THEOREM LanesTypeCorrect == LanesSpec => []LanesTypeOK
<1>1. LanesInit => LanesTypeOK /\ InLane
  <2> SUFFICES ASSUME LanesInit PROVE LanesTypeOK /\ InLane
    OBVIOUS
  <2>1. /\ \A p \in Pools : queue[p] = <<>> /\ held[p] = {}
        /\ ToSet(<<>>) = {} /\ IsInjective(<<>>) /\ Cardinality({}) = 0
    BY FS_EmptySet DEF LanesInit, ToSet, IsInjective
  <2> QED
    BY <2>1, LanesAssumption DEF LanesInit, LanesTypeOK, InLane, Waiting, Running, Pools
<1>2. LanesTypeOK /\ InLane /\ [LanesNext]_lanesVars => (LanesTypeOK /\ InLane)'
  <2> SUFFICES ASSUME LanesTypeOK, InLane, [LanesNext]_lanesVars
               PROVE  LanesTypeOK' /\ InLane'
    OBVIOUS
  <2>0. /\ queue \in [Pools -> Seq(Clients)] /\ held \in [Pools -> SUBSET Clients]
        /\ \A p \in Pools : IsInjective(queue[p])
        /\ \A c \in Clients : \A p, q \in Pools : ~(c \in ToSet(queue[p]) /\ c \in held[q])
        /\ \A p \in Pools : ToSet(queue[p]) \subseteq Clients
        /\ "stop" \in Pools /\ "default" \in Pools
    <3>1. \A p \in Pools : ToSet(queue[p]) \subseteq Clients
      BY LenProperties, ElementOfSeq DEF LanesTypeOK, ToSet
    <3> QED
      BY <3>1 DEF LanesTypeOK, Waiting, Running, Pools
  <2>1. ASSUME NEW c \in Clients, Arrive(c) PROVE LanesTypeOK' /\ InLane'
    <3>1. Lane(c) \in Pools /\ \A p \in Pools : c \notin ToSet(queue[p]) /\ c \notin held[p]
      BY <2>1 DEF Arrive, Lane, Pools, Waiting, Running
    <3>2. /\ Append(queue[Lane(c)], c) \in Seq(Clients)
          /\ IsInjective(Append(queue[Lane(c)], c))
          /\ ToSet(Append(queue[Lane(c)], c)) = ToSet(queue[Lane(c)]) \cup {c}
      BY <2>0, <3>1, AppendToQueue
    <3>3. /\ queue' \in [Pools -> Seq(Clients)]
          /\ \A p \in Pools : IsInjective(queue'[p])
          /\ \A p \in Pools : ToSet(queue'[p]) = ToSet(queue[p])
                                \/ (p = Lane(c) /\ ToSet(queue'[p]) = ToSet(queue[p]) \cup {c})
          /\ held' = held /\ hung' = hung
      BY <2>0, <2>1, <3>1, <3>2 DEF Arrive
    <3>4. \A d \in Clients : ~(Waiting(d)' /\ Running(d)')
      BY <2>0, <3>1, <3>3 DEF Waiting, Running
    <3>5. LanesTypeOK'
      BY <3>3, <3>4 DEF LanesTypeOK
    <3>6. InLane'
      BY <3>3 DEF InLane, Lane
    <3> QED
      BY <3>5, <3>6
  <2>2. ASSUME NEW p \in Pools, Grant(p) PROVE LanesTypeOK' /\ InLane'
    <3> DEFINE c == Head(queue[p])
    <3>1. /\ c \in Clients /\ Tail(queue[p]) \in Seq(Clients)
          /\ IsInjective(Tail(queue[p]))
          /\ c \in ToSet(queue[p]) /\ c \notin ToSet(Tail(queue[p]))
          /\ ToSet(Tail(queue[p])) \subseteq ToSet(queue[p])
      BY <2>0, <2>2, ServeQueue DEF Grant
    <3>2. /\ queue' = [queue EXCEPT ![p] = Tail(@)]
          /\ held' = [held EXCEPT ![p] = @ \cup {c}]
          /\ hung' = hung
      BY <2>2 DEF Grant
    <3> HIDE DEF c
    <3>3. /\ queue' \in [Pools -> Seq(Clients)]
          /\ \A q \in Pools : IsInjective(queue'[q])
          /\ \A q \in Pools : ToSet(queue'[q]) \subseteq ToSet(queue[q])
          /\ c \notin ToSet(queue'[p])
          /\ held' \in [Pools -> SUBSET Clients]
          /\ \A q \in Pools : held[q] \subseteq held'[q]
                              /\ held'[q] \subseteq IF q = p THEN held[q] \cup {c} ELSE held[q]
      BY <2>0, <3>1, <3>2
    <3>4. \A q \in Pools : c \notin ToSet(queue'[q])
      BY <2>0, <3>1, <3>3 DEF InLane
    <3>5. \A d \in Clients : ~(Waiting(d)' /\ Running(d)')
      BY <2>0, <3>3, <3>4 DEF Waiting, Running
    <3>6. \A q \in Pools : Cardinality(held'[q]) <= Tokens(q)
      <4>1. CASE c \in held[p]
        BY <2>0, <3>1, <4>1
      <4>2. CASE c \notin held[p]
        <5>1. /\ IsFiniteSet(held[p]) /\ Cardinality(held[p]) \in Nat
              /\ Cardinality(held[p]) < Tokens(p) /\ Tokens(p) \in Nat
          BY <2>2, HeldFinite, LanesAssumption DEF Grant, Tokens
        <5>2. Cardinality(held[p] \cup {c}) = Cardinality(held[p]) + 1
          BY <4>2, <5>1, FS_AddElement
        <5>3. held'[p] = held[p] \cup {c} /\ \A q \in Pools : q # p => held'[q] = held[q]
          BY <2>0, <3>2
        <5>4. \A q \in Pools : Cardinality(held[q]) <= Tokens(q)
          BY HeldFinite
        <5>5. Cardinality(held'[p]) <= Tokens(p)
          <6>1. \A n, m \in Nat : n < m => n + 1 <= m
            OBVIOUS
          <6> QED
            BY <5>1, <5>2, <5>3, <6>1
        <5>6. ASSUME NEW q \in Pools, q # p PROVE Cardinality(held'[q]) <= Tokens(q)
          BY <5>3, <5>4, <5>6
        <5> QED
          BY <5>5, <5>6
      <4> QED
        BY <4>1, <4>2
    <3>7. hung' \subseteq UNION {held'[q] : q \in Pools}
      BY <3>2, <3>3 DEF LanesTypeOK
    <3>8. LanesTypeOK'
      BY <2>0, <3>3, <3>5, <3>6, <3>7 DEF LanesTypeOK, Tokens
    <3>9. InLane'
      BY <3>1, <3>3 DEF InLane, Lane
    <3> QED
      BY <3>8, <3>9
  <2>3. ASSUME NEW c \in Clients, Return(c) PROVE LanesTypeOK' /\ InLane'
    <3>1. /\ queue' = queue /\ hung' = hung /\ c \notin hung
          /\ held' \in [Pools -> SUBSET Clients]
          /\ \A q \in Pools : held'[q] = held[q] \ {c}
      BY <2>0, <2>3 DEF Return
    <3>2. \A q \in Pools : Cardinality(held'[q]) <= Tokens(q)
      <4> TAKE q \in Pools
      <4>1. /\ IsFiniteSet(held[q]) /\ Cardinality(held[q]) \in Nat
            /\ Cardinality(held[q]) <= Tokens(q) /\ Tokens(q) \in Nat
        BY HeldFinite, LanesAssumption DEF Tokens
      <4>2. Cardinality(held[q] \ {c}) <= Cardinality(held[q]) /\ Cardinality(held[q] \ {c}) \in Nat
        BY <4>1, FS_Subset, FS_CardinalityType
      <4> QED
        BY <3>1, <4>1, <4>2
    <3>3. \A d \in Clients : ~(Waiting(d)' /\ Running(d)')
      BY <2>0, <3>1 DEF Waiting, Running
    <3>4. hung' \subseteq UNION {held'[q] : q \in Pools}
      BY <3>1 DEF LanesTypeOK
    <3>5. LanesTypeOK'
      BY <2>0, <3>1, <3>2, <3>3, <3>4 DEF LanesTypeOK, Tokens
    <3>6. InLane'
      BY <3>1 DEF InLane, Lane
    <3> QED
      BY <3>5, <3>6
  <2>4. ASSUME NEW c \in Clients, Hang(c) PROVE LanesTypeOK' /\ InLane'
    BY <2>4 DEF Hang, LanesTypeOK, InLane, Lane, Waiting, Running
  <2>5. CASE UNCHANGED lanesVars
    BY <2>5 DEF lanesVars, LanesTypeOK, InLane, Lane, Waiting, Running
  <2> QED
    BY <2>1, <2>2, <2>3, <2>4, <2>5 DEF LanesNext
<1> QED
  BY <1>1, <1>2, PTL DEF LanesSpec
-----------------------------------------------------------------------------
(* The safety monitor *)

\* Nothing but a clear writes READY, so between a trip and the next clear the state
\* is one of the stops; and so it is for a worker whose tick found the heartbeat
\* stale, from its test on, until a clear.
StoppedWhileStale ==
  \A w \in Workers :
    worker[w] = "ticked" /\ stale[w] /\ ~cleared[w] => state # "READY"

\* A worker inside tick or before its gate has no answer of this request yet.
NotYetPassed == \A w \in Workers : worker[w] # "idle" => ~passed[w]

MonitorInv == TripHolds /\ StoppedWhileStale /\ NotYetPassed /\ StaleNeverPasses

\* The variables of the monitor keep their types (safety.py, SafetyMonitor).
THEOREM MonitorTypeCorrect == MonitorSpec => []MonitorTypeOK
<1>1. MonitorInit => MonitorTypeOK
  <2> SUFFICES ASSUME MonitorInit PROVE MonitorTypeOK
    OBVIOUS
  <2>1. audit \in [decision : {"none", "allow", "deny"}, prev : GatewayState]
    BY DEF MonitorInit, GatewayState
  <2> QED
    BY <2>1 DEF MonitorInit, MonitorTypeOK, GatewayState
<1>2. MonitorTypeOK /\ [MonitorNext]_monitorVars => MonitorTypeOK'
  <2> SUFFICES ASSUME MonitorTypeOK, [MonitorNext]_monitorVars PROVE MonitorTypeOK'
    OBVIOUS
  <2> USE DEF MonitorTypeOK, GatewayState
  <2>1. ASSUME NEW w \in Workers, TickAge(w) \/ TickTest(w) \/ TickStop(w) \/ Gate(w)
        PROVE  MonitorTypeOK'
    <3>1. CASE TickAge(w)
      BY <3>1 DEF TickAge
    <3>2. CASE TickTest(w)
      BY <3>2 DEF TickTest
    <3>3. CASE TickStop(w)
      BY <3>3 DEF TickStop
    <3>4. CASE Gate(w)
      BY <3>4 DEF Gate, can_actuate
    <3> QED
      BY <2>1, <3>1, <3>2, <3>3, <3>4
  <2>2. CASE TripTest
    BY <2>2 DEF TripTest
  <2>7. CASE Trip
    BY <2>7 DEF Trip
  <2>3. CASE Heartbeat \/ HeartbeatExpires
    BY <2>3 DEF Heartbeat, HeartbeatExpires
  <2>4. ASSUME NEW tier \in Tiers, ClearBegin(tier) PROVE MonitorTypeOK'
    BY <2>4 DEF ClearBegin
  <2>5. CASE Clear
    BY <2>5 DEF Clear
  <2>8. CASE AuditClear
    BY <2>8 DEF AuditClear
  <2>6. CASE UNCHANGED monitorVars
    BY <2>6 DEF monitorVars
  <2> QED
    BY <2>1, <2>2, <2>3, <2>4, <2>5, <2>6, <2>7, <2>8 DEF MonitorNext
<1> QED
  BY <1>1, <1>2, PTL DEF MonitorSpec

\* Every step of a worker, the wire, the pendant and the operator keeps the invariant.
LEMMA StepKeepsMonitorInv == MonitorTypeOK /\ MonitorInv /\ [MonitorNext]_monitorVars => MonitorInv'
<1> SUFFICES ASSUME MonitorTypeOK, MonitorInv, [MonitorNext]_monitorVars PROVE MonitorInv'
  OBVIOUS
<1> USE DEF MonitorTypeOK, GatewayState, MonitorInv, TripHolds, StoppedWhileStale, NotYetPassed, StaleNeverPasses,
            can_actuate
<1>1. ASSUME NEW w \in Workers, TickAge(w) PROVE MonitorInv'
  BY <1>1 DEF TickAge
\* The test that lets a worker by without a stop has seen a state that is no READY,
\* or a fresh heartbeat.
<1>2. ASSUME NEW w \in Workers, TickTest(w) PROVE MonitorInv'
  BY <1>2 DEF TickTest
<1>3. ASSUME NEW w \in Workers, TickStop(w) PROVE MonitorInv'
  BY <1>3 DEF TickStop
<1>4. ASSUME NEW w \in Workers, Gate(w) PROVE MonitorInv'
  BY <1>4 DEF Gate
<1>5. CASE TripTest
  BY <1>5 DEF TripTest
<1>6. CASE Trip
  BY <1>6 DEF Trip
<1>7. CASE Heartbeat \/ HeartbeatExpires
  BY <1>7 DEF Heartbeat, HeartbeatExpires
<1>8. ASSUME NEW tier \in Tiers, ClearBegin(tier) PROVE MonitorInv'
  BY <1>8 DEF ClearBegin
\* The one step that writes READY: it ends the trip and is known to every worker.
<1>9. CASE Clear
  BY <1>9 DEF Clear
<1>10. CASE AuditClear
  BY <1>10 DEF AuditClear
<1>11. CASE UNCHANGED monitorVars
  BY <1>11 DEF monitorVars
<1> QED
  BY <1>1, <1>2, <1>3, <1>4, <1>5, <1>6, <1>7, <1>8, <1>9, <1>10, <1>11 DEF MonitorNext

\* The monitor's invariant.
LEMMA MonitorInvAlways == MonitorSpec => []MonitorInv
<1>1. MonitorInit => MonitorInv
  BY DEF MonitorInit, MonitorInv, TripHolds, StoppedWhileStale, NotYetPassed, StaleNeverPasses
<1> QED
  BY <1>1, StepKeepsMonitorInv, MonitorTypeCorrect, PTL DEF MonitorSpec

\* Once a trip has returned, the gateway does not actuate before a clear (SF-001,
\* SF-002), whatever ticks overwrite the state meanwhile.
THEOREM TripHoldsAlways == MonitorSpec => []TripHolds
<1>1. MonitorInv => TripHolds
  BY DEF MonitorInv
<1> QED
  BY <1>1, MonitorInvAlways, PTL

\* A request whose tick found the heartbeat stale does not pass the gate unless an
\* operator cleared the monitor in between.
THEOREM StaleNeverPassesAlways == MonitorSpec => []StaleNeverPasses
<1>1. MonitorInv => StaleNeverPasses
  BY DEF MonitorInv
<1> QED
  BY <1>1, MonitorInvAlways, PTL

-----------------------------------------------------------------------------
(* The manifest cache *)

\* An entry with the file's mtime is the file's frontmatter, and no entry is from the future.
CacheTrue ==
  cache # None =>
    /\ cache.mtime <= now
    /\ file # Gone /\ cache.mtime = file.mtime => cache.fm = Parse(file.text)

\* Nobody holds an mtime that the file system has not given out.
MtimesPast ==
  /\ file # Gone => file.mtime <= now
  /\ \A r \in Threads : mtime[r] <= now

\* What is about to be stored under the file's mtime was read from the file's text.
ReadTrue ==
  \A r \in Threads : pc[r] = "store" /\ file # Gone /\ mtime[r] = file.mtime
    => fm[r] = Parse(file.text)

InRequest == {"stat", "lookup", "read", "store", "judge"}

\* A request under an unchanged file: the signature was checked on this text, its mtime
\* and its frontmatter are this file's, and what has been judged so far was right.
StableRequest(r) ==
  /\ pc[r] \in InRequest => file # Gone /\ file.text.signed
  /\ pc[r] \in {"lookup", "read", "store"} => mtime[r] = file.mtime
  /\ pc[r] = "judge" => fm[r] = Parse(file.text)
  /\ pc[r] \in InRequest /\ call[r] = "hitl" => rrn_binding(Parse(file.text))
  /\ pc[r] = "allowed" => Admits(r)
  /\ pc[r] = "denied" => ~Admits(r)

\* The second call is made under hitl_from_manifest only.
SecondCall == \A r \in Threads : call[r] = "hitl" => HitlFromManifest

ManifestInv ==
  /\ TypeOK
  /\ CacheTrue
  /\ MtimesPast
  /\ ReadTrue
  /\ SecondCall
  /\ \A r \in Threads : stable[r] => StableRequest(r)

\* What a text declares is a frontmatter.
LEMMA ParseType == \A t \in Texts : Parse(t) \in FrontMatter
  BY TextsAssumption DEF Parse, FrontMatter, Text

\* The variables keep their types.
LEMMA ManifestTypeInit == Init => TypeOK
  BY DEF Init, TypeOK, File, Empty, FrontMatter

\* Each action keeps the types.
LEMMA ManifestTypeStep == TypeOK /\ [Next]_vars => TypeOK'
<1> SUFFICES ASSUME TypeOK, [Next]_vars PROVE TypeOK'
  OBVIOUS
<1> USE AbsentAssumption DEF TypeOK, Goto
<1>1. ASSUME NEW r \in Threads, Verify(r) PROVE TypeOK'
  BY <1>1 DEF Verify, File
<1>2. ASSUME NEW r \in Threads, Stat(r) PROVE TypeOK'
  <2>1. file # Gone => file.mtime \in Nat
    BY DEF File
  <2>2. Empty \in FrontMatter
    BY DEF Empty, FrontMatter
  <2> QED
    BY <1>2, <2>1, <2>2 DEF Stat
<1>3. ASSUME NEW r \in Threads, Lookup(r) PROVE TypeOK'
  BY <1>3 DEF Lookup, Entry
<1>4. ASSUME NEW r \in Threads, Read(r) PROVE TypeOK'
  <2>1. (IF file = Gone THEN Empty ELSE Parse(file.text)) \in FrontMatter
    BY ParseType DEF File, Empty, FrontMatter
  <2> QED
    BY <1>4, <2>1 DEF Read
<1>5. ASSUME NEW r \in Threads, Store(r) PROVE TypeOK'
  BY <1>5 DEF Store, Entry
<1>6. ASSUME NEW r \in Threads, Judge(r) PROVE TypeOK'
  BY <1>6 DEF Judge
<1>7. ASSUME Write PROVE TypeOK'
  BY <1>7 DEF Write, Written, File
<1>8. ASSUME RemoveManifest PROVE TypeOK'
  BY <1>8 DEF RemoveManifest, Written
<1>9. ASSUME UNCHANGED vars PROVE TypeOK'
  BY <1>9 DEF vars
<1> QED
  BY <1>1, <1>2, <1>3, <1>4, <1>5, <1>6, <1>7, <1>8, <1>9 DEF Next

\* The invariant holds at first: nothing is cached and nobody has begun.
LEMMA ManifestInvInit == Init => ManifestInv
<1> SUFFICES ASSUME Init PROVE ManifestInv
  OBVIOUS
<1>1. TypeOK
  BY ManifestTypeInit
<1> QED
  BY <1>1, AbsentAssumption DEF ManifestInv, Init, CacheTrue, MtimesPast, ReadTrue, SecondCall, File

\* A step of a request leaves the file alone, so what the other requests know stays true.
LEMMA OthersStand ==
  ASSUME ManifestInv, NEW r \in Threads, NEW q \in Threads, q # r,
         file' = file, now' = now,
         pc'[q] = pc[q], call'[q] = call[q], mtime'[q] = mtime[q], fm'[q] = fm[q],
         stable'[q] = stable[q]
  PROVE  /\ stable'[q] => StableRequest(q)'
         /\ (pc[q] = "store" /\ file # Gone /\ mtime[q] = file.mtime => fm[q] = Parse(file.text))'
         /\ (call[q] = "hitl" => HitlFromManifest)'
         /\ (mtime[q] <= now)'
  BY DEF ManifestInv, StableRequest, ReadTrue, SecondCall, MtimesPast, Admits, rrn_binding,
         hitl_required, Parse

\* Each action keeps the invariant, provided that each write gets an mtime of its own.
LEMMA ManifestInvStep == ~CoarseClock /\ ManifestInv /\ [Next]_vars => ManifestInv'
<1> SUFFICES ASSUME ~CoarseClock, ManifestInv, [Next]_vars PROVE ManifestInv'
  OBVIOUS
<1>0. TypeOK /\ TypeOK'
  BY ManifestTypeStep DEF ManifestInv
<1> USE AbsentAssumption
\* Steps of one request: the file and the clock stand still.
<1>a. ASSUME NEW r \in Threads,
             file' = file, now' = now, CacheTrue',
             \A q \in Threads \ {r} :
               /\ pc'[q] = pc[q] /\ call'[q] = call[q] /\ mtime'[q] = mtime[q]
               /\ fm'[q] = fm[q] /\ stable'[q] = stable[q],
             (stable[r] => StableRequest(r))',
             (pc[r] = "store" /\ file # Gone /\ mtime[r] = file.mtime
                => fm[r] = Parse(file.text))',
             (call[r] = "hitl" => HitlFromManifest)',
             (mtime[r] <= now)'
      PROVE  ManifestInv'
  <2>1. \A q \in Threads :
          /\ (stable[q] => StableRequest(q))'
          /\ (pc[q] = "store" /\ file # Gone /\ mtime[q] = file.mtime
                => fm[q] = Parse(file.text))'
          /\ (call[q] = "hitl" => HitlFromManifest)'
          /\ (mtime[q] <= now)'
    <3> TAKE q \in Threads
    <3>1. CASE q = r
      BY <1>a, <3>1
    <3>2. CASE q # r
      BY <1>a, <3>2, OthersStand
    <3> QED
      BY <3>1, <3>2
  <2>2. (file # Gone => file.mtime <= now)'
    BY <1>a DEF ManifestInv, MtimesPast
  <2> QED
    BY <1>0, <1>a, <2>1, <2>2 DEF ManifestInv, MtimesPast, ReadTrue, SecondCall
<1>1. ASSUME NEW r \in Threads, Verify(r) PROVE ManifestInv'
  <2>1. CacheTrue'
    BY <1>1 DEF Verify, ManifestInv, CacheTrue
  <2>2. \A q \in Threads \ {r} :
          /\ pc'[q] = pc[q] /\ call'[q] = call[q] /\ mtime'[q] = mtime[q]
          /\ fm'[q] = fm[q] /\ stable'[q] = stable[q]
    BY <1>0, <1>1 DEF Verify, Goto, TypeOK
  <2>3. (stable[r] => StableRequest(r))'
    BY <1>0, <1>1 DEF Verify, Goto, ManifestInv, TypeOK, CacheTrue, SecondCall, StableRequest, InRequest,
       Admits, rrn_binding, hitl_required, Parse
  <2>4. /\ file' = file /\ now' = now
        /\ (pc[r] = "store" /\ file # Gone /\ mtime[r] = file.mtime => fm[r] = Parse(file.text))'
        /\ (call[r] = "hitl" => HitlFromManifest)'
        /\ (mtime[r] <= now)'
    BY <1>0, <1>1 DEF Verify, Goto, ManifestInv, TypeOK, MtimesPast, SecondCall
  <2> QED
    BY <1>a, <2>1, <2>2, <2>3, <2>4
<1>2. ASSUME NEW r \in Threads, Stat(r) PROVE ManifestInv'
  <2>1. CacheTrue'
    BY <1>2 DEF Stat, ManifestInv, CacheTrue
  <2>2. \A q \in Threads \ {r} :
          /\ pc'[q] = pc[q] /\ call'[q] = call[q] /\ mtime'[q] = mtime[q]
          /\ fm'[q] = fm[q] /\ stable'[q] = stable[q]
    BY <1>0, <1>2 DEF Stat, Goto, TypeOK
  <2>3. (stable[r] => StableRequest(r))'
    BY <1>0, <1>2 DEF Stat, Goto, ManifestInv, TypeOK, CacheTrue, SecondCall, StableRequest, InRequest,
       Admits, rrn_binding, hitl_required, Parse
  <2>4. /\ file' = file /\ now' = now
        /\ (pc[r] = "store" /\ file # Gone /\ mtime[r] = file.mtime => fm[r] = Parse(file.text))'
        /\ (call[r] = "hitl" => HitlFromManifest)'
        /\ (mtime[r] <= now)'
    BY <1>0, <1>2 DEF Stat, Goto, ManifestInv, TypeOK, MtimesPast, SecondCall
  <2> QED
    BY <1>a, <2>1, <2>2, <2>3, <2>4
<1>3. ASSUME NEW r \in Threads, Lookup(r) PROVE ManifestInv'
  <2>1. CacheTrue'
    BY <1>3 DEF Lookup, ManifestInv, CacheTrue
  <2>2. \A q \in Threads \ {r} :
          /\ pc'[q] = pc[q] /\ call'[q] = call[q] /\ mtime'[q] = mtime[q]
          /\ fm'[q] = fm[q] /\ stable'[q] = stable[q]
    BY <1>0, <1>3 DEF Lookup, Goto, TypeOK
  <2>3. (stable[r] => StableRequest(r))'
    BY <1>0, <1>3 DEF Lookup, Goto, ManifestInv, TypeOK, CacheTrue, SecondCall, StableRequest, InRequest,
       Admits, rrn_binding, hitl_required, Parse
  <2>4. /\ file' = file /\ now' = now
        /\ (pc[r] = "store" /\ file # Gone /\ mtime[r] = file.mtime => fm[r] = Parse(file.text))'
        /\ (call[r] = "hitl" => HitlFromManifest)'
        /\ (mtime[r] <= now)'
    BY <1>0, <1>3 DEF Lookup, Goto, ManifestInv, TypeOK, MtimesPast, SecondCall
  <2> QED
    BY <1>a, <2>1, <2>2, <2>3, <2>4
<1>4. ASSUME NEW r \in Threads, Read(r) PROVE ManifestInv'
  <2>1. CacheTrue'
    BY <1>4 DEF Read, ManifestInv, CacheTrue
  <2>2. \A q \in Threads \ {r} :
          /\ pc'[q] = pc[q] /\ call'[q] = call[q] /\ mtime'[q] = mtime[q]
          /\ fm'[q] = fm[q] /\ stable'[q] = stable[q]
    BY <1>0, <1>4 DEF Read, Goto, TypeOK
  <2>3. (stable[r] => StableRequest(r))'
    BY <1>0, <1>4 DEF Read, Goto, ManifestInv, TypeOK, CacheTrue, SecondCall, StableRequest, InRequest,
       Admits, rrn_binding, hitl_required, Parse
  <2>4. /\ file' = file /\ now' = now
        /\ (pc[r] = "store" /\ file # Gone /\ mtime[r] = file.mtime => fm[r] = Parse(file.text))'
        /\ (call[r] = "hitl" => HitlFromManifest)'
        /\ (mtime[r] <= now)'
    BY <1>0, <1>4 DEF Read, Goto, ManifestInv, TypeOK, MtimesPast, SecondCall
  <2> QED
    BY <1>a, <2>1, <2>2, <2>3, <2>4
<1>5. ASSUME NEW r \in Threads, Store(r) PROVE ManifestInv'
  <2>1. CacheTrue'
    BY <1>5 DEF Store, ManifestInv, CacheTrue, MtimesPast, ReadTrue
  <2>2. \A q \in Threads \ {r} :
          /\ pc'[q] = pc[q] /\ call'[q] = call[q] /\ mtime'[q] = mtime[q]
          /\ fm'[q] = fm[q] /\ stable'[q] = stable[q]
    BY <1>0, <1>5 DEF Store, Goto, TypeOK
  <2>3. (stable[r] => StableRequest(r))'
    BY <1>0, <1>5 DEF Store, Goto, ManifestInv, TypeOK, ReadTrue, SecondCall, StableRequest, InRequest,
       Admits
  <2>4. /\ file' = file /\ now' = now
        /\ (pc[r] = "store" /\ file # Gone /\ mtime[r] = file.mtime => fm[r] = Parse(file.text))'
        /\ (call[r] = "hitl" => HitlFromManifest)'
        /\ (mtime[r] <= now)'
    BY <1>0, <1>5 DEF Store, Goto, ManifestInv, TypeOK, MtimesPast, SecondCall
  <2> QED
    BY <1>a, <2>1, <2>2, <2>3, <2>4
<1>6. ASSUME NEW r \in Threads, Judge(r) PROVE ManifestInv'
  <2>1. CacheTrue'
    BY <1>6 DEF Judge, ManifestInv, CacheTrue
  <2>2. \A q \in Threads \ {r} :
          /\ pc'[q] = pc[q] /\ call'[q] = call[q] /\ mtime'[q] = mtime[q]
          /\ fm'[q] = fm[q] /\ stable'[q] = stable[q]
    BY <1>0, <1>6 DEF Judge, Goto, TypeOK
  <2>3. (stable[r] => StableRequest(r))'
    BY <1>0, <1>6 DEF Judge, Goto, ManifestInv, TypeOK, CacheTrue, SecondCall, StableRequest, InRequest,
       Admits, rrn_binding, hitl_required, Parse
  <2>4. /\ file' = file /\ now' = now
        /\ (pc[r] = "store" /\ file # Gone /\ mtime[r] = file.mtime => fm[r] = Parse(file.text))'
        /\ (call[r] = "hitl" => HitlFromManifest)'
        /\ (mtime[r] <= now)'
    BY <1>0, <1>6 DEF Judge, Goto, ManifestInv, TypeOK, MtimesPast, SecondCall
  <2> QED
    BY <1>a, <2>1, <2>2, <2>3, <2>4
<1>7. ASSUME Write PROVE ManifestInv'
  <2>1. now' = now + 1 /\ file'.mtime = now' /\ stable' = [r \in Threads |-> FALSE]
    BY <1>7 DEF Write, Written
  <2>2. CacheTrue'
    BY <1>0, <1>7, <2>1 DEF Write, ManifestInv, TypeOK, CacheTrue, Entry
  <2>3. MtimesPast'
    BY <1>0, <1>7, <2>1 DEF Write, ManifestInv, TypeOK, MtimesPast
  <2>4. ReadTrue'
    BY <1>0, <1>7, <2>1 DEF Write, ManifestInv, TypeOK, MtimesPast, ReadTrue
  <2> QED
    BY <1>0, <1>7, <2>1, <2>2, <2>3, <2>4 DEF Write, ManifestInv, SecondCall
<1>8. ASSUME RemoveManifest PROVE ManifestInv'
  BY <1>0, <1>8 DEF RemoveManifest, Written, ManifestInv, CacheTrue, MtimesPast, ReadTrue, SecondCall
<1>9. ASSUME UNCHANGED vars PROVE ManifestInv'
  BY <1>9 DEF vars, ManifestInv, TypeOK, CacheTrue, MtimesPast, ReadTrue, SecondCall, StableRequest,
     Admits, rrn_binding, hitl_required, Parse
<1> QED
  BY <1>1, <1>2, <1>3, <1>4, <1>5, <1>6, <1>7, <1>8, <1>9 DEF Next

\* Type correctness of the manifest cache, under any clock.
THEOREM ManifestTypeCorrect == Spec => []TypeOK
<1>1. TypeOK /\ [Next]_vars => TypeOK'
  BY ManifestTypeStep
<1> QED
  BY ManifestTypeInit, <1>1, PTL DEF Spec

\* _manifest_frontmatter: for any threads, texts and deployments, a request under an
\* unchanged manifest gets the verdict of that manifest, never of an earlier one that the
\* shared cache still holds, provided that each write gets an mtime of its own.
THEOREM ManifestAuthoritativeAlways ==
  ASSUME ~CoarseClock
  PROVE  Spec => []ManifestAuthoritative
<1>1. ManifestInv => ManifestAuthoritative
  BY DEF ManifestInv, StableRequest, ManifestAuthoritative
<1>2. ManifestInv /\ [Next]_vars => ManifestInv'
  BY ManifestInvStep
<1> QED
  BY ManifestInvInit, <1>1, <1>2, PTL DEF Spec
=============================================================================
