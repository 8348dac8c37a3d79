------------------------- MODULE EnvelopeGate_proofs -------------------------
(***************************************************************************)
(* For any number of threads, envelopes and keys, any window no smaller    *)
(* than the threads, any skew and any timestamps: what the unlocked window, *)
(* the freshness check and the kept keys give together.                     *)
(***************************************************************************)
EXTENDS EnvelopeGate, TLAPS, FiniteSetTheorems, SequenceTheorems

\* The threads at one place of their request.
At(place) == {t \in Threads : pc[t] = place}

AfterSeen == Steps \cup {"revocation", "accepted"}
AfterFreshness == AfterSeen \cup {"replay"}
AfterSignature == AfterFreshness \cup {"freshness"}

-----------------------------------------------------------------------------
(* How many threads are at a place *)

LEMMA Counts ==
  ASSUME NEW place
  PROVE  /\ IsFiniteSet(At(place))
         /\ Cardinality(At(place)) \in Nat
         /\ Cardinality(At(place)) <= Cardinality(Threads)
         /\ Cardinality(Threads) \in Nat
<1>1. At(place) \in SUBSET Threads
  BY DEF At
<1> QED
  BY <1>1, MaxSizeAssumption, FS_Subset, FS_CardinalityType

LEMMA CountMoves ==
  ASSUME NEW place, NEW t \in Threads, NEW next,
         DOMAIN pc = Threads, pc' = [pc EXCEPT ![t] = next]
  PROVE  Cardinality(At(place)') =
           IF next = place
           THEN IF pc[t] = place THEN Cardinality(At(place)) ELSE Cardinality(At(place)) + 1
           ELSE IF pc[t] = place THEN Cardinality(At(place)) - 1 ELSE Cardinality(At(place))
<1>1. CASE next = place
  <2>1. At(place)' = At(place) \cup {t}
    BY <1>1 DEF At
  <2>2. t \in At(place) <=> pc[t] = place
    BY DEF At
  <2> QED
    BY <1>1, <2>1, <2>2, Counts, FS_AddElement
<1>2. CASE next # place
  <2>1. At(place)' = At(place) \ {t}
    BY <1>2 DEF At
  <2>2. t \in At(place) <=> pc[t] = place
    BY DEF At
  <2> QED
    BY <1>2, <2>1, <2>2, Counts, FS_RemoveElement
<1> QED
  BY <1>1, <1>2

-----------------------------------------------------------------------------
(* The window and the types *)

\* The window is a tail of the ids recorded.
Suffix ==
  /\ Len(seen) <= Len(recorded)
  /\ \A i \in 1..Len(seen) : seen[i] = recorded[Len(recorded) - Len(seen) + i]

\* A thread about to insert has found room, for itself only; one about to evict has
\* found a full window, which the other threads about to evict also count on.
Sizes ==
  /\ Len(seen) + Cardinality(At("inserting")) < MaxSize + Cardinality(Threads)
  /\ \/ Cardinality(At("popping")) = 0 /\ seen = recorded
     \/ Len(seen) + Cardinality(Threads) >= MaxSize + Cardinality(At("popping"))

\* A busy thread has an envelope.
Busy == \A t \in Threads : pc[t] # "idle" => msg_id[t] \in MsgIds

Window == TypeOK /\ Busy /\ Sizes /\ Suffix

\* An eviction finds an id to evict: popitem never raises.
LEMMA PopFindsAnId ==
  ASSUME Window, NEW t \in Threads, pc[t] = "popping"
  PROVE  Len(seen) \in Nat \ {0}
<1>1. At("popping") # {}
  BY DEF At
<1>2. Cardinality(At("popping")) > 0
  BY <1>1, Counts, FS_EmptySet
<1>3. Len(seen) \in Nat
  BY DEF Window, TypeOK
<1> QED
  BY <1>2, <1>3, Counts, MaxSizeAssumption DEF Window, Sizes

\* The steps of a thread that leave the window as it is, and neither go to nor come
\* from a place that is counted.
Quiet(t) ==
  \/ Arrive(t) \/ ResolveKey(t) \/ DenySignature(t) \/ Freshness(t) \/ DenyFreshness(t)
  \/ HasSeen(t) \/ DenyReplay(t) \/ Record(t) \/ Accept(t) \/ DenyRevoked(t) \/ Leave(t)

LEMMA QuietKeepsWindow ==
  ASSUME NEW t \in Threads, DOMAIN pc = Threads, Quiet(t)
  PROVE  /\ UNCHANGED <<seen, recorded>>
         /\ Cardinality(At("inserting")') = Cardinality(At("inserting"))
         /\ Cardinality(At("popping")') = Cardinality(At("popping"))
<1>1. PICK next : /\ pc' = [pc EXCEPT ![t] = next]
                  /\ next \notin {"inserting", "popping"}
                  /\ pc[t] \notin {"inserting", "popping"}
                  /\ UNCHANGED <<seen, recorded>>
  BY DEF Quiet, Arrive, ResolveKey, DenySignature, Freshness, DenyFreshness, HasSeen,
         DenyReplay, Record, Accept, DenyRevoked, Leave, End, to, window
<1>2. Cardinality(At("inserting")') = Cardinality(At("inserting"))
  BY <1>1, CountMoves
<1>3. Cardinality(At("popping")') = Cardinality(At("popping"))
  BY <1>1, CountMoves
<1> QED
  BY <1>1, <1>2, <1>3

LEMMA InitWindow == Init => Window
<1> SUFFICES ASSUME Init PROVE Window
  OBVIOUS
<1>1. policy \in [max_skew_s : Nat \cup {NaN}, require_timestamp : BOOLEAN]
  BY SkewAssumption, NoNumberAssumption DEF Init, FreshnessPolicyFromEnv
<1>2. TypeOK
  BY <1>1, BoundsAssumption DEF Init, TypeOK, Times, Steps
<1>3. At("inserting") = {} /\ At("popping") = {}
  BY DEF Init, At
<1>4. Sizes
  BY <1>3, FS_EmptySet, Counts, MaxSizeAssumption DEF Init, Sizes
<1> QED
  BY <1>2, <1>4 DEF Window, Busy, Suffix, Init

LEMMA StepKeepsTypeOK == Window /\ [Next]_vars => TypeOK'
<1> SUFFICES ASSUME Window, [Next]_vars PROVE TypeOK'
  OBVIOUS
<1>0. TypeOK
  BY DEF Window
<1> USE <1>0, BoundsAssumption DEF TypeOK, Steps, Times
<1>1. ASSUME NEW t \in Threads, Arrive(t) \/ ResolveKey(t) \/ Freshness(t)
      PROVE  TypeOK'
  <2>1. CASE Arrive(t)
    BY <2>1 DEF Arrive, to, fixed, window
  <2>2. CASE ResolveKey(t)
    <3>1. signer[msg_id[t]] \in Kids
      BY <2>2 DEF ResolveKey, Window, Busy
    <3> QED
      BY <2>2, <3>1 DEF ResolveKey, to, fixed, window
  <2>3. CASE Freshness(t)
    BY <2>3 DEF Freshness, to, fixed, window
  <2> QED
    BY <1>1, <2>1, <2>2, <2>3
<1>2. ASSUME NEW t \in Threads,
             DenySignature(t) \/ DenyFreshness(t) \/ DenyReplay(t) \/ DenyRevoked(t) \/ Leave(t)
      PROVE  TypeOK'
  <2>1. End(t) /\ UNCHANGED <<fixed, clock, registry, cache, seen, recorded, first>>
    BY <1>2 DEF DenySignature, DenyFreshness, DenyReplay, DenyRevoked, Leave
  <2>2. checked' \in [Threads -> Times] /\ begun' \in [Threads -> Nat]
    BY <2>1 DEF End
  <2>3. msg_id' \in [Threads -> MsgIds \cup {NoMsg}]
    BY <2>1 DEF End
  <2> QED
    BY <2>1, <2>2, <2>3 DEF End, to, fixed
<1>3. ASSUME NEW t \in Threads, HasSeen(t) \/ Record(t) \/ EvictTest(t) \/ Accept(t)
      PROVE  TypeOK'
  <2>1. CASE HasSeen(t)
    <3>1. Len(recorded) \in Nat
      BY LenProperties
    <3> QED
      BY <2>1, <3>1 DEF HasSeen, to, fixed
  <2>2. CASE Record(t)
    BY <2>2 DEF Record, to, fixed, window
  <2>3. CASE EvictTest(t)
    BY <2>3 DEF EvictTest, to, fixed, window
  <2>4. CASE Accept(t)
    BY <2>4 DEF Accept, to, fixed, window
  <2> QED
    BY <1>3, <2>1, <2>2, <2>3, <2>4
<1>4. ASSUME NEW t \in Threads, Pop(t) PROVE TypeOK'
  <2>1. seen # <<>>
    BY <1>4, PopFindsAnId, EmptySeq DEF Pop
  <2>2. seen' \in Seq(MsgIds)
    BY <1>4, <2>1, HeadTailProperties DEF Pop
  <2> QED
    BY <1>4, <2>2 DEF Pop, to, fixed
<1>5. ASSUME NEW t \in Threads, Insert(t) PROVE TypeOK'
  <2>1. msg_id[t] \in MsgIds
    BY <1>5 DEF Insert, Window, Busy
  <2>2. seen' \in Seq(MsgIds) /\ recorded' \in Seq(MsgIds)
    <3>1. CASE InWindow(msg_id[t])
      BY <1>5, <3>1 DEF Insert
    <3>2. CASE ~InWindow(msg_id[t])
      <4>1. seen' = Append(seen, msg_id[t]) /\ recorded' = Append(recorded, msg_id[t])
        BY <1>5, <3>2 DEF Insert
      <4>2. seen \in Seq(MsgIds) /\ recorded \in Seq(MsgIds)
        OBVIOUS
      <4> QED
        BY <2>1, <4>1, <4>2, AppendProperties
    <3> QED
      BY <3>1, <3>2
  <2> QED
    BY <1>5, <2>2 DEF Insert, to, fixed
<1>6. ASSUME NEW k \in Kids, Withdraw(k) PROVE TypeOK'
  BY <1>6 DEF Withdraw, fixed, window
<1>7. CASE Tick
  BY <1>7 DEF Tick, fixed, window
<1>8. CASE Restart
  BY <1>8 DEF Restart, fixed
<1>9. CASE UNCHANGED vars
  BY <1>9 DEF vars
<1> QED
  BY <1>1, <1>2, <1>3, <1>4, <1>5, <1>6, <1>7, <1>8, <1>9 DEF Next

LEMMA StepKeepsBusy == Window /\ [Next]_vars => Busy'
<1> SUFFICES ASSUME Window, [Next]_vars PROVE Busy'
  OBVIOUS
<1>0. TypeOK /\ Busy
  BY DEF Window
<1> USE <1>0 DEF TypeOK, Busy
<1>1. ASSUME NEW t \in Threads, Arrive(t) \/ ResolveKey(t) \/ Freshness(t)
      PROVE  Busy'
  BY <1>1 DEF Arrive, ResolveKey, Freshness, to
<1>2. ASSUME NEW t \in Threads,
             DenySignature(t) \/ DenyFreshness(t) \/ DenyReplay(t) \/ DenyRevoked(t) \/ Leave(t)
      PROVE  Busy'
  BY <1>2 DEF DenySignature, DenyFreshness, DenyReplay, DenyRevoked, Leave, End, to
<1>3. ASSUME NEW t \in Threads,
             HasSeen(t) \/ Record(t) \/ EvictTest(t) \/ Accept(t) \/ Pop(t) \/ Insert(t)
      PROVE  Busy'
  BY <1>3 DEF HasSeen, Record, EvictTest, Accept, Pop, Insert, to
<1>4. CASE (\E k \in Kids : Withdraw(k)) \/ Tick \/ Restart
  BY <1>4 DEF Withdraw, Tick, Restart
<1>5. CASE UNCHANGED vars
  BY <1>5 DEF vars
<1> QED
  BY <1>1, <1>2, <1>3, <1>4, <1>5 DEF Next

\* Each step keeps the bounds on the window and its being a tail of the ids recorded.
LEMMA StepKeepsSizes == Window /\ [Next]_vars => Sizes' /\ Suffix'
<1> SUFFICES ASSUME Window, [Next]_vars PROVE Sizes' /\ Suffix'
  OBVIOUS
<1>0. /\ TypeOK /\ Sizes /\ Suffix
      /\ DOMAIN pc = Threads /\ seen \in Seq(MsgIds) /\ recorded \in Seq(MsgIds)
  BY DEF Window, TypeOK
<1>a. /\ Len(seen) \in Nat /\ Len(recorded) \in Nat /\ MaxSize \in Nat \ {0}
      /\ Cardinality(At("inserting")) \in Nat /\ Cardinality(At("popping")) \in Nat
      /\ Cardinality(Threads) \in Nat /\ MaxSize >= Cardinality(Threads)
      /\ Cardinality(At("popping")) <= Cardinality(Threads)
  BY <1>0, Counts, MaxSizeAssumption, LenProperties
<1>1. ASSUME NEW t \in Threads, Quiet(t) PROVE Sizes' /\ Suffix'
  BY <1>0, <1>1, QuietKeepsWindow DEF Sizes, Suffix
<1>2. ASSUME NEW t \in Threads, EvictTest(t) PROVE Sizes' /\ Suffix'
  <2>1. UNCHANGED <<seen, recorded>>
    BY <1>2 DEF EvictTest, window
  <2>2. Suffix'
    BY <1>0, <2>1 DEF Suffix
  <2>3. CASE Len(seen) >= MaxSize
    <3>1. pc' = [pc EXCEPT ![t] = "popping"] /\ pc[t] = "evicting"
      BY <1>2, <2>3 DEF EvictTest, to
    <3>2. /\ Cardinality(At("inserting")') = Cardinality(At("inserting"))
          /\ Cardinality(At("popping")') = Cardinality(At("popping")) + 1
      BY <1>0, <3>1, CountMoves
    <3>3. Cardinality(At("popping")') <= Cardinality(Threads)
      <4>1. At("popping")' \in SUBSET Threads
        BY DEF At
      <4> QED
        BY <4>1, MaxSizeAssumption, FS_Subset
    <3> QED
      BY <1>0, <1>a, <2>1, <2>2, <2>3, <3>2, <3>3 DEF Sizes
  <2>4. CASE ~(Len(seen) >= MaxSize)
    <3>1. pc' = [pc EXCEPT ![t] = "inserting"] /\ pc[t] = "evicting"
      BY <1>2, <2>4 DEF EvictTest, to
    <3>2. /\ Cardinality(At("inserting")') = Cardinality(At("inserting")) + 1
          /\ Cardinality(At("popping")') = Cardinality(At("popping"))
      BY <1>0, <3>1, CountMoves
    <3>3. Cardinality(At("inserting")') <= Cardinality(Threads)
      <4>1. At("inserting")' \in SUBSET Threads
        BY DEF At
      <4> QED
        BY <4>1, MaxSizeAssumption, FS_Subset
    <3> QED
      BY <1>0, <1>a, <2>1, <2>2, <2>4, <3>2, <3>3 DEF Sizes
  <2> QED
    BY <2>3, <2>4
\* Of the threads that found the window full together each evicts one id: it ends at
\* most one short per thread.
<1>3. ASSUME NEW t \in Threads, Pop(t) PROVE Sizes' /\ Suffix'
  <2>1. /\ pc' = [pc EXCEPT ![t] = "evicting"] /\ pc[t] = "popping"
        /\ recorded' = recorded /\ seen' = Tail(seen)
    BY <1>3 DEF Pop, to
  <2>2. /\ Cardinality(At("inserting")') = Cardinality(At("inserting"))
        /\ Cardinality(At("popping")') = Cardinality(At("popping")) - 1
    BY <1>0, <2>1, CountMoves
  <2>3. seen # <<>> /\ Len(seen) \in Nat \ {0}
    BY <2>1, PopFindsAnId, EmptySeq
  <2>4. /\ Len(seen') = Len(seen) - 1
        /\ \A i \in 1..Len(seen') : seen'[i] = seen[i + 1]
    BY <1>0, <2>1, <2>3, HeadTailProperties
  <2>5. Cardinality(At("popping")) # 0
    <3>1. At("popping") # {}
      BY <2>1 DEF At
    <3> QED
      BY <3>1, Counts, FS_EmptySet
  <2>6. Sizes'
    BY <1>0, <1>a, <2>1, <2>2, <2>4, <2>5 DEF Sizes
  <2>7. Suffix'
    <3>1. Len(seen') <= Len(recorded')
      BY <1>0, <1>a, <2>1, <2>4 DEF Suffix
    <3>2. ASSUME NEW i \in 1..Len(seen')
          PROVE  seen'[i] = recorded'[Len(recorded') - Len(seen') + i]
      <4>1. i + 1 \in 1..Len(seen)
            /\ Len(recorded) - Len(seen) + (i + 1) = Len(recorded') - Len(seen') + i
        BY <1>a, <2>1, <2>3, <2>4
      <4>2. seen[i + 1] = recorded[Len(recorded) - Len(seen) + (i + 1)]
        BY <1>0, <4>1 DEF Suffix
      <4> QED
        BY <2>1, <2>4, <4>1, <4>2
    <3> QED
      BY <3>1, <3>2 DEF Suffix
  <2> QED
    BY <2>6, <2>7
<1>4. ASSUME NEW t \in Threads, Insert(t) PROVE Sizes' /\ Suffix'
  <2>1. pc' = [pc EXCEPT ![t] = "revocation"] /\ pc[t] = "inserting"
    BY <1>4 DEF Insert, to
  <2>2. /\ Cardinality(At("inserting")') = Cardinality(At("inserting")) - 1
        /\ Cardinality(At("popping")') = Cardinality(At("popping"))
    BY <1>0, <2>1, CountMoves
  <2>3. CASE InWindow(msg_id[t])
    <3>1. UNCHANGED <<seen, recorded>>
      BY <1>4, <2>3 DEF Insert
    <3> QED
      BY <1>0, <1>a, <2>2, <3>1 DEF Sizes, Suffix
  <2>4. CASE ~InWindow(msg_id[t])
    <3>1. seen' = Append(seen, msg_id[t]) /\ recorded' = Append(recorded, msg_id[t])
      BY <1>4, <2>4 DEF Insert
    <3>2. msg_id[t] \in MsgIds
      BY <1>4 DEF Insert, Window, Busy
    <3>3. /\ Len(seen') = Len(seen) + 1 /\ Len(recorded') = Len(recorded) + 1
          /\ \A i \in 1..Len(seen) : seen'[i] = seen[i]
          /\ \A i \in 1..Len(recorded) : recorded'[i] = recorded[i]
          /\ seen'[Len(seen) + 1] = msg_id[t] /\ recorded'[Len(recorded) + 1] = msg_id[t]
      BY <1>0, <3>1, <3>2, AppendProperties
    <3>4. Sizes'
      <4>1. /\ Len(seen') \in Nat /\ Len(recorded') \in Nat
            /\ Len(seen') = Len(seen) + 1 /\ Len(recorded') = Len(recorded) + 1
        BY <1>0, <3>3
      <4>2. Len(seen') + Cardinality(At("inserting")') < MaxSize + Cardinality(Threads)
        BY <1>0, <1>a, <2>2, <4>1 DEF Sizes
      <4>3. CASE Cardinality(At("popping")) = 0 /\ seen = recorded
        BY <2>2, <3>1, <4>2, <4>3 DEF Sizes
      <4>4. CASE Len(seen) + Cardinality(Threads) >= MaxSize + Cardinality(At("popping"))
        <5>1. Len(seen') + Cardinality(Threads) >= MaxSize + Cardinality(At("popping")')
          BY <1>a, <2>2, <4>1, <4>4
        <5> QED
          BY <4>2, <5>1 DEF Sizes
      <4> QED
        BY <1>0, <4>3, <4>4 DEF Sizes
    <3>5. Suffix'
      <4>1. Len(seen') <= Len(recorded')
        BY <1>0, <1>a, <3>3 DEF Suffix
      <4>2. ASSUME NEW i \in 1..Len(seen')
            PROVE  seen'[i] = recorded'[Len(recorded') - Len(seen') + i]
        <5>1. CASE i = Len(seen) + 1
          BY <1>0, <1>a, <3>3, <5>1 DEF Suffix
        <5>2. CASE i \in 1..Len(seen)
          <6>1. Len(recorded) - Len(seen) + i \in 1..Len(recorded)
            BY <1>0, <1>a, <5>2 DEF Suffix
          <6> QED
            BY <1>0, <1>a, <3>3, <5>2, <6>1 DEF Suffix
        <5> QED
          BY <1>a, <3>3, <5>1, <5>2
      <4> QED
        BY <4>1, <4>2 DEF Suffix
    <3> QED
      BY <3>4, <3>5
  <2> QED
    BY <2>3, <2>4
<1>5. CASE (\E k \in Kids : Withdraw(k)) \/ Tick \/ UNCHANGED vars
  <2>1. UNCHANGED <<pc, seen, recorded>>
    BY <1>5 DEF Withdraw, Tick, vars, window
  <2> QED
    BY <1>0, <2>1 DEF Sizes, Suffix, At
<1>6. CASE Restart
  <2>1. /\ seen' = <<>> /\ recorded' = <<>>
        /\ At("inserting")' = {} /\ At("popping")' = {}
    BY <1>6 DEF Restart, At
  <2>2. /\ Cardinality(At("inserting")') = 0 /\ Cardinality(At("popping")') = 0
        /\ Len(seen') = 0 /\ Len(recorded') = 0
    BY <2>1, FS_EmptySet, EmptySeq
  <2> QED
    BY <1>a, <2>1, <2>2 DEF Sizes, Suffix
<1> QED
  BY <1>1, <1>2, <1>3, <1>4, <1>5, <1>6 DEF Next, Quiet

LEMMA WindowHolds == Spec => []Window
<1>1. Window /\ [Next]_vars => Window'
  BY StepKeepsTypeOK, StepKeepsBusy, StepKeepsSizes DEF Window
<1> QED
  BY <1>1, InitWindow, PTL DEF Spec

\* Every variable of the gate keeps its type; the eviction of record never runs on an
\* empty window.
THEOREM TypeCorrect == Spec => []TypeOK
<1>1. Window => TypeOK
  BY DEF Window
<1> QED
  BY <1>1, WindowHolds, PTL

\* The replay window is the newest ids in order, and as long as promised
\* (ReplayCache.record), for any number of threads that race in it.
THEOREM WindowIsNewestAlways == Spec => []WindowIsNewest
<1>1. Window => WindowIsNewest
  <2> SUFFICES ASSUME Window PROVE WindowIsNewest
    OBVIOUS
  <2>0. /\ Sizes /\ Suffix /\ seen \in Seq(MsgIds) /\ recorded \in Seq(MsgIds)
        /\ Len(seen) \in Nat /\ Len(recorded) \in Nat /\ MaxSize \in Nat
        /\ Cardinality(At("inserting")) \in Nat /\ Cardinality(At("popping")) \in Nat
        /\ Cardinality(Threads) \in Nat
    BY Counts, MaxSizeAssumption, LenProperties DEF Window, TypeOK
  <2> DEFINE from == Len(recorded) - Len(seen) + 1
             tail == SubSeq(recorded, from, Len(recorded))
  <2>1. /\ tail \in Seq(MsgIds) /\ Len(tail) = Len(seen)
        /\ \A i \in 1..Len(seen) : tail[i] = recorded[from + i - 1]
    <3>1. from \in Int /\ Len(recorded) - from + 1 = Len(seen)
          /\ \A i \in from..Len(recorded) : recorded[i] \in MsgIds
      BY <2>0, LenProperties DEF Suffix
    <3> QED
      BY <2>0, <3>1, SubSeqProperties DEF Suffix
  <2>2. seen = tail
    BY <2>0, <2>1, SeqEqual DEF Suffix
  <2>3. Len(seen) + Cardinality(Threads) >= MaxSize \/ seen = recorded
    BY <2>0 DEF Sizes
  <2>4. Len(seen) < MaxSize + Cardinality(Threads)
    BY <2>0 DEF Sizes
  <2> QED
    BY <2>2, <2>3, <2>4 DEF WindowIsNewest
<1> QED
  BY <1>1, WindowHolds, PTL

-----------------------------------------------------------------------------
(* How long an id is refused *)

\* What a check that found the watched id missing knows from then on: every earlier
\* record of the id had left the window by the time it began.
Recent ==
  \A t \in Threads :
    pc[t] \in AfterSeen /\ msg_id[t] = watched =>
      /\ begun[t] <= Len(recorded)
      /\ \A p \in 1..Len(recorded) :
           recorded[p] = watched /\ p <= begun[t] =>
             begun[t] - p >= MaxSize - Cardinality(Threads)

\* An id that is not in the window was recorded before the whole of it.
LEMMA OutsideIsOld ==
  ASSUME Window, ~InWindow(watched), NEW p \in 1..Len(recorded), recorded[p] = watched
  PROVE  Len(recorded) - p >= MaxSize - Cardinality(Threads)
<1>0. /\ Sizes /\ Suffix /\ seen \in Seq(MsgIds) /\ recorded \in Seq(MsgIds)
      /\ Len(seen) \in Nat /\ Len(recorded) \in Nat /\ MaxSize \in Nat
      /\ Cardinality(At("popping")) \in Nat /\ Cardinality(Threads) \in Nat
  BY Counts, MaxSizeAssumption, LenProperties DEF Window, TypeOK
<1>1. Len(seen) <= Len(recorded) - p
  <2>1. SUFFICES ASSUME Len(seen) > Len(recorded) - p PROVE FALSE
    BY <1>0
  <2> DEFINE i == p - (Len(recorded) - Len(seen))
  <2>2. i \in 1..Len(seen) /\ Len(recorded) - Len(seen) + i = p
    BY <1>0, <2>1
  <2>3. seen[i] = watched
    BY <1>0, <2>2 DEF Suffix
  <2> QED
    BY <2>2, <2>3 DEF InWindow
<1>2. seen # recorded
  BY <1>0 DEF InWindow
<1>3. Len(seen) + Cardinality(Threads) >= MaxSize
  BY <1>0, <1>2 DEF Sizes
<1> QED
  BY <1>0, <1>1, <1>3

LEMMA StepKeepsRecent == Window /\ Recent /\ [Next]_vars => Recent'
<1> SUFFICES ASSUME Window, Recent, [Next]_vars PROVE Recent'
  OBVIOUS
<1>0. /\ pc \in [Threads -> Steps \cup {"idle", "signature", "freshness", "replay",
                                     "revocation", "accepted"}]
      /\ msg_id \in [Threads -> MsgIds \cup {NoMsg}] /\ begun \in [Threads -> Nat]
      /\ recorded \in Seq(MsgIds) /\ Len(recorded) \in Nat /\ NoMsg # watched
      /\ MaxSize \in Nat /\ Cardinality(Threads) \in Nat
  BY NoMsgAssumption, LenProperties, MaxSizeAssumption, Counts DEF Window, TypeOK
<1>1. ASSUME NEW t \in Threads, Arrive(t) \/ ResolveKey(t) \/ Freshness(t)
      PROVE  Recent'
  BY <1>0, <1>1 DEF Recent, AfterSeen, Steps, Arrive, ResolveKey, Freshness, to, fixed, window
<1>2. ASSUME NEW t \in Threads,
             DenySignature(t) \/ DenyFreshness(t) \/ DenyReplay(t) \/ DenyRevoked(t) \/ Leave(t)
      PROVE  Recent'
  <2>1. End(t) /\ UNCHANGED <<fixed, recorded>>
    BY <1>2 DEF DenySignature, DenyFreshness, DenyReplay, DenyRevoked, Leave
  <2> QED
    BY <1>0, <2>1 DEF Recent, AfterSeen, Steps, End, to, fixed
\* The check begins: here the window says how old the id is.
<1>3. ASSUME NEW t \in Threads, HasSeen(t) PROVE Recent'
  <2>1. /\ pc[t] = "replay" /\ ~InWindow(msg_id[t])
        /\ UNCHANGED <<watched, recorded, msg_id>>
        /\ pc' = [pc EXCEPT ![t] = "recording"]
        /\ begun' = [begun EXCEPT ![t] = IF msg_id[t] = watched THEN Len(recorded) ELSE 0]
    BY <1>3 DEF HasSeen, to, fixed
  <2>2. ASSUME msg_id[t] = watched, NEW p \in 1..Len(recorded), recorded[p] = watched
        PROVE  Len(recorded) - p >= MaxSize - Cardinality(Threads)
    BY <2>1, <2>2, OutsideIsOld
  <2>3. ASSUME NEW u \in Threads, pc'[u] \in AfterSeen, msg_id'[u] = watched'
        PROVE  /\ begun'[u] <= Len(recorded)
               /\ \A p \in 1..Len(recorded) :
                    recorded[p] = watched /\ p <= begun'[u] =>
                      begun'[u] - p >= MaxSize - Cardinality(Threads)
    <3>1. CASE u = t
      BY <1>0, <2>1, <2>2, <2>3, <3>1
    <3>2. CASE u # t
      BY <1>0, <2>1, <2>3, <3>2 DEF Recent
    <3> QED
      BY <3>1, <3>2
  <2> QED
    BY <2>1, <2>3 DEF Recent
<1>4. ASSUME NEW t \in Threads, Record(t) \/ EvictTest(t) \/ Pop(t) \/ Accept(t)
      PROVE  Recent'
  <2>1. /\ pc[t] \in AfterSeen /\ UNCHANGED <<watched, recorded, msg_id, begun>>
        /\ \A u \in Threads : u # t => pc'[u] = pc[u]
    BY <1>0, <1>4 DEF Record, EvictTest, Pop, Accept, to, fixed, window, AfterSeen, Steps
  <2> QED
    BY <2>1 DEF Recent
\* An insertion leaves the ids that were there when the check began where they were.
<1>5. ASSUME NEW t \in Threads, Insert(t) PROVE Recent'
  <2>1. /\ pc[t] \in AfterSeen /\ UNCHANGED <<watched, msg_id, begun>>
        /\ \A u \in Threads : u # t => pc'[u] = pc[u]
    BY <1>0, <1>5 DEF Insert, to, fixed, AfterSeen, Steps
  <2>2. /\ Len(recorded') \in Nat /\ Len(recorded) <= Len(recorded')
        /\ \A p \in 1..Len(recorded) : recorded'[p] = recorded[p]
    <3>1. CASE UNCHANGED recorded
      BY <1>0, <3>1
    <3>2. CASE recorded' = Append(recorded, msg_id[t])
      <4>1. msg_id[t] \in MsgIds
        BY <1>5 DEF Insert, Window, Busy
      <4> QED
        BY <1>0, <3>2, <4>1, AppendProperties
    <3> QED
      BY <1>5, <3>1, <3>2 DEF Insert
  <2>3. ASSUME NEW u \in Threads, pc'[u] \in AfterSeen, msg_id'[u] = watched'
        PROVE  /\ begun'[u] <= Len(recorded')
               /\ \A p \in 1..Len(recorded') :
                    recorded'[p] = watched /\ p <= begun'[u] =>
                      begun'[u] - p >= MaxSize - Cardinality(Threads)
    <3>1. /\ begun[u] <= Len(recorded) /\ begun'[u] = begun[u] /\ begun[u] \in Nat
          /\ \A p \in 1..Len(recorded) :
               recorded[p] = watched /\ p <= begun[u] =>
                 begun[u] - p >= MaxSize - Cardinality(Threads)
      BY <1>0, <2>1, <2>3 DEF Recent
    <3>2. ASSUME NEW p \in 1..Len(recorded'), p <= begun[u]
          PROVE  p \in 1..Len(recorded)
      BY <1>0, <2>2, <3>1, <3>2
    <3> QED
      BY <1>0, <2>2, <3>1, <3>2
  <2> QED
    BY <2>1, <2>3 DEF Recent
<1>6. CASE (\E k \in Kids : Withdraw(k)) \/ Tick \/ UNCHANGED vars
  <2>1. UNCHANGED <<pc, msg_id, recorded, begun, watched>>
    BY <1>6 DEF Withdraw, Tick, vars, window, fixed
  <2> QED
    BY <2>1 DEF Recent
<1>7. CASE Restart
  BY <1>7 DEF Restart, Recent, AfterSeen, Steps
<1> QED
  BY <1>1, <1>2, <1>3, <1>4, <1>5, <1>6, <1>7 DEF Next

\* check_replay: an id stays refused until MaxSize newer ones, less one per thread,
\* have been recorded.
THEOREM RecentIdsRejectedAlways == Spec => []RecentIdsRejected
<1>1. Init => Recent
  BY DEF Init, Recent, AfterSeen, Steps
<1>2. Window /\ Recent => RecentIdsRejected
  BY DEF Recent, AfterSeen, RecentIdsRejected, Positions
<1> QED
  BY <1>1, <1>2, StepKeepsRecent, WindowHolds, PTL DEF Spec

-----------------------------------------------------------------------------
(* The horizon of a captured envelope *)

HasBound == stamp[watched] # NoStamp /\ policy.max_skew_s # NaN

LEMMA BoundTypes ==
  ASSUME TypeOK
  PROVE  /\ stamp[watched] # NoStamp => stamp[watched] \in Int
         /\ policy.max_skew_s # NaN => policy.max_skew_s \in Int
         /\ clock \in Int /\ (first # Never => first \in Int)
         /\ \A t \in Threads : checked[t] \in Int /\ checked[t] # Never
<1>1. watched \in MsgIds /\ stamp \in [MsgIds -> Stamps \cup {NoStamp}]
  BY DEF TypeOK
<1>2. stamp[watched] # NoStamp => stamp[watched] \in Int
  BY <1>1, StampsAssumption
<1>3. policy \in [max_skew_s : Nat \cup {NaN}, require_timestamp : BOOLEAN]
  BY DEF TypeOK
<1>4. policy.max_skew_s # NaN => policy.max_skew_s \in Int
  BY <1>3
<1>5. Times \subseteq Int
  BY BoundsAssumption DEF Times
<1>6. /\ clock \in Times /\ first \in Times \cup {Never} /\ checked \in [Threads -> Times]
  BY DEF TypeOK
<1> QED
  BY <1>2, <1>4, <1>5, <1>6, NoNumberAssumption

\* A time the freshness check let the watched envelope pass at.
WithinSkew(time) ==
  time - stamp[watched] <= policy.max_skew_s /\ stamp[watched] - time <= policy.max_skew_s

Horizon ==
  /\ \A t \in Threads :
       pc[t] \in AfterFreshness /\ msg_id[t] = watched =>
         /\ stamp[watched] = NoStamp => ~policy.require_timestamp
         /\ HasBound => WithinSkew(checked[t])
  /\ \A t \in Threads : pc[t] = "accepted" /\ msg_id[t] = watched => first # Never
  /\ first # Never /\ HasBound => WithinSkew(first)

LEMMA StepKeepsHorizon == TypeOK /\ Horizon /\ [Next]_vars => Horizon'
<1> SUFFICES ASSUME TypeOK, Horizon, [Next]_vars PROVE Horizon'
  OBVIOUS
<1>0. /\ pc \in [Threads -> Steps \cup {"idle", "signature", "freshness", "replay",
                                     "revocation", "accepted"}]
      /\ msg_id \in [Threads -> MsgIds \cup {NoMsg}]
      /\ checked \in [Threads -> Times] /\ NoMsg # watched
  BY NoMsgAssumption DEF TypeOK
<1>a. /\ stamp[watched] # NoStamp => stamp[watched] \in Int
      /\ policy.max_skew_s # NaN => policy.max_skew_s \in Int
      /\ clock \in Int
      /\ \A t \in Threads : checked[t] \in Int /\ checked[t] # Never
  BY BoundTypes
<1> USE DEF AfterFreshness, AfterSeen, Steps
<1>1. ASSUME NEW t \in Threads, Arrive(t) \/ ResolveKey(t)
      PROVE  Horizon'
  BY <1>0, <1>1 DEF Horizon, HasBound, WithinSkew, Arrive, ResolveKey, to, fixed
<1>2. ASSUME NEW t \in Threads,
             DenySignature(t) \/ DenyFreshness(t) \/ DenyReplay(t) \/ DenyRevoked(t) \/ Leave(t)
      PROVE  Horizon'
  <2>1. End(t) /\ UNCHANGED <<fixed, first>>
    BY <1>2 DEF DenySignature, DenyFreshness, DenyReplay, DenyRevoked, Leave
  <2> QED
    BY <1>0, <2>1 DEF Horizon, HasBound, WithinSkew, End, to, fixed
<1>3. ASSUME NEW t \in Threads, Freshness(t) PROVE Horizon'
  <2>1. /\ UNCHANGED <<policy, stamp, watched, msg_id, first>>
        /\ pc' = [pc EXCEPT ![t] = "replay"]
        /\ checked' = [checked EXCEPT ![t] = IF msg_id[t] = watched THEN clock ELSE 0]
    BY <1>3 DEF Freshness, to, fixed
  <2>2. ASSUME msg_id[t] = watched
        PROVE  /\ stamp[watched] = NoStamp => ~policy.require_timestamp
               /\ HasBound => WithinSkew(clock)
    BY <1>a, <1>3, <2>2 DEF Freshness, check_freshness, Stale, HasBound, WithinSkew
  <2> QED
    BY <1>0, <2>1, <2>2 DEF Horizon, HasBound, WithinSkew
<1>4. ASSUME NEW t \in Threads,
             HasSeen(t) \/ Record(t) \/ EvictTest(t) \/ Pop(t) \/ Insert(t)
      PROVE  Horizon'
  <2>1. /\ pc[t] \in AfterFreshness /\ pc'[t] # "accepted"
        /\ UNCHANGED <<policy, stamp, watched, msg_id, checked, first>>
        /\ \A u \in Threads : u # t => pc'[u] = pc[u]
    BY <1>0, <1>4 DEF HasSeen, Record, EvictTest, Pop, Insert, to, fixed, window
  <2> QED
    BY <2>1 DEF Horizon, HasBound, WithinSkew
<1>5. ASSUME NEW t \in Threads, Accept(t) PROVE Horizon'
  <2>1. /\ pc[t] = "revocation" /\ UNCHANGED <<policy, stamp, watched, msg_id, checked>>
        /\ \A u \in Threads : u # t => pc'[u] = pc[u]
        /\ first' = IF msg_id[t] = watched /\ first = Never THEN checked[t] ELSE first
    BY <1>0, <1>5 DEF Accept, to, fixed
  <2> QED
    BY <1>0, <1>a, <2>1 DEF Horizon, HasBound, WithinSkew
<1>6. CASE (\E k \in Kids : Withdraw(k)) \/ Tick \/ UNCHANGED vars
  <2>1. UNCHANGED <<pc, msg_id, checked, policy, stamp, watched, first>>
    BY <1>6 DEF Withdraw, Tick, vars, window, fixed
  <2> QED
    BY <2>1 DEF Horizon, HasBound, WithinSkew
<1>7. CASE Restart
  BY <1>7 DEF Restart, Horizon, HasBound, WithinSkew, fixed
<1> QED
  BY <1>1, <1>2, <1>3, <1>4, <1>5, <1>6, <1>7 DEF Next

\* A captured envelope is of use for twice the skew at most, whatever the window
\* evicted and however often the process restarted (check_freshness).
THEOREM ReplayHorizonAlways == Spec => []ReplayHorizon
<1>1. Init => Horizon
  BY DEF Init, Horizon, AfterFreshness, AfterSeen, Steps
<1>2. TypeOK /\ Horizon => ReplayHorizon
  <2> SUFFICES ASSUME TypeOK, Horizon,
                      NEW t \in Threads, pc[t] = "accepted", msg_id[t] = watched
               PROVE  /\ stamp[watched] = NoStamp => ~policy.require_timestamp
                      /\ HasBound => checked[t] <= first + 2 * policy.max_skew_s
    BY DEF ReplayHorizon, HasBound
  <2>1. first # Never /\ (stamp[watched] = NoStamp => ~policy.require_timestamp)
    BY DEF Horizon, AfterFreshness, AfterSeen
  <2>2. ASSUME HasBound PROVE checked[t] <= first + 2 * policy.max_skew_s
    <3>1. WithinSkew(checked[t]) /\ WithinSkew(first)
      BY <2>1, <2>2 DEF Horizon, AfterFreshness, AfterSeen
    <3>2. /\ checked[t] \in Int /\ first \in Int
          /\ stamp[watched] \in Int /\ policy.max_skew_s \in Int
      BY <2>1, <2>2, BoundTypes DEF HasBound
    <3> QED
      BY <3>1, <3>2 DEF WithinSkew
  <2> QED
    BY <2>1, <2>2
<1> QED
  BY <1>1, <1>2, StepKeepsHorizon, TypeCorrect, PTL DEF Spec

-----------------------------------------------------------------------------
(* Withdrawn keys *)

\* A request past the signature check has its key kept, and the kept keys are of this
\* life of the process.
KeysOfThisLife ==
  /\ \A t \in Threads : pc[t] \in AfterSignature => signer[msg_id[t]] \in cache
  /\ \A k \in cache : registry[k] # "before"

LEMMA StepKeepsKeys == TypeOK /\ KeysOfThisLife /\ [Next]_vars => KeysOfThisLife'
<1> SUFFICES ASSUME TypeOK, KeysOfThisLife, [Next]_vars PROVE KeysOfThisLife'
  OBVIOUS
<1>0. /\ pc \in [Threads -> Steps \cup {"idle", "signature", "freshness", "replay",
                                     "revocation", "accepted"}]
      /\ msg_id \in [Threads -> MsgIds \cup {NoMsg}]
      /\ registry \in [Kids -> {"served", "withdrawn", "before"}] /\ cache \subseteq Kids
  BY DEF TypeOK
<1> USE DEF AfterSignature, AfterFreshness, AfterSeen, Steps
<1>1. ASSUME NEW t \in Threads, Arrive(t) PROVE KeysOfThisLife'
  BY <1>0, <1>1 DEF KeysOfThisLife, Arrive, to, fixed
<1>2. ASSUME NEW t \in Threads, ResolveKey(t) PROVE KeysOfThisLife'
  BY <1>0, <1>2 DEF KeysOfThisLife, ResolveKey, to, fixed
<1>3. ASSUME NEW t \in Threads,
             DenySignature(t) \/ DenyFreshness(t) \/ DenyReplay(t) \/ DenyRevoked(t) \/ Leave(t)
      PROVE  KeysOfThisLife'
  <2>1. End(t) /\ UNCHANGED <<fixed, cache, registry>>
    BY <1>3 DEF DenySignature, DenyFreshness, DenyReplay, DenyRevoked, Leave
  <2> QED
    BY <1>0, <2>1 DEF KeysOfThisLife, End, to, fixed
<1>4. ASSUME NEW t \in Threads,
             Freshness(t) \/ HasSeen(t) \/ Record(t) \/ EvictTest(t) \/ Pop(t) \/ Insert(t)
               \/ Accept(t)
      PROVE  KeysOfThisLife'
  <2>1. /\ pc[t] \in AfterSignature /\ UNCHANGED <<signer, msg_id, cache, registry>>
        /\ \A u \in Threads : u # t => pc'[u] = pc[u]
    BY <1>0, <1>4 DEF Freshness, HasSeen, Record, EvictTest, Pop, Insert, Accept, to, fixed, window
  <2> QED
    BY <2>1 DEF KeysOfThisLife
<1>5. ASSUME NEW k \in Kids, Withdraw(k) PROVE KeysOfThisLife'
  BY <1>0, <1>5 DEF KeysOfThisLife, Withdraw, fixed
<1>6. CASE Tick \/ UNCHANGED vars
  <2>1. UNCHANGED <<pc, msg_id, signer, cache, registry>>
    BY <1>6 DEF Tick, vars, fixed
  <2> QED
    BY <2>1 DEF KeysOfThisLife
<1>7. CASE Restart
  BY <1>7 DEF Restart, KeysOfThisLife
<1> QED
  BY <1>1, <1>2, <1>3, <1>4, <1>5, <1>6, <1>7 DEF Next

\* RRFResolverFromEnv keeps a withdrawn key for the life of the process and no longer.
THEOREM WithdrawnKeyEndsAtRestartAlways == Spec => []WithdrawnKeyEndsAtRestart
<1>1. Init => KeysOfThisLife
  BY DEF Init, KeysOfThisLife, AfterSignature, AfterFreshness, AfterSeen, Steps
<1>2. KeysOfThisLife => WithdrawnKeyEndsAtRestart
  BY DEF KeysOfThisLife, WithdrawnKeyEndsAtRestart, AfterSignature, AfterFreshness, AfterSeen
<1> QED
  BY <1>1, <1>2, StepKeepsKeys, TypeCorrect, PTL DEF Spec
=============================================================================
