------------------------- MODULE TraceExport_proofs -------------------------
(***************************************************************************)
(* For every number of threads, lines and faults: the export is type       *)
(* correct, no seq is ever reused, the head is never behind the file, the  *)
(* walk fails on no file that lost nothing and, power cuts aside, calls no *)
(* file with a hole clean.                                                 *)
(*                                                                         *)
(* The safety properties are not inductive by themselves: between the head *)
(* write and the line write the head is ahead of the file, and after a     *)
(* power cut it may be the head before it.  IInv says where the number in  *)
(* flight is (the lock's holder, nobody else), and that every line but the *)
(* one the head describes was already covered by the head before it.       *)
(***************************************************************************)
EXTENDS TraceExport, TLAPS, SequenceTheorems, WellFoundedInduction

\* A thread inside append_trace_line holds the lock.
HolderOnly == \A t \in Threads : pc[t] # "idle" => lock = t

\* The number a thread has taken is above every number in the file and in the head.
LinkedAhead ==
  \A t \in Threads : pc[t] = "linked" =>
    /\ line[t].seq > 0
    /\ \A i \in 1..Len(file) : file[i].seq < line[t].seq
    /\ head # NoHead => head.seq < line[t].seq

\* Once the head is written it describes the line about to land, unless it was lost.
HeadedAhead ==
  \A t \in Threads : pc[t] = "headed" =>
    /\ line[t].seq > 0
    /\ \A i \in 1..Len(file) : file[i].seq < line[t].seq
    /\ head # NoHead => head = [seq |-> line[t].seq, chain_hash |-> line[t].hash]

\* The head a dropped rename would bring back covers every line but the last head's.
OldHeadCovers ==
  /\ head = NoHead => oldHead = NoHead
  /\ head # NoHead /\ oldHead # NoHead =>
       \A i \in 1..Len(file) :
         file[i].hash \notin {head.chain_hash, -head.chain_hash} => file[i].seq <= oldHead.seq

IInv == HolderOnly /\ SeqNeverReused /\ HeadNeverBehind /\ LinkedAhead /\ HeadedAhead
        /\ OldHeadCovers

-----------------------------------------------------------------------------
(* Lemmas about the operators *)

\* A nonempty set of positions has a greatest one, and Max returns it.
LEMMA MaxOfPositions ==
  ASSUME NEW n \in Nat, NEW S, S \subseteq 1..n, S # {}
  PROVE  Max(S) \in S /\ \A x \in S : x <= Max(S)
<1> DEFINE R == OpToRel(<, Nat)
           D == {n - i : i \in S}
<1>1. IsWellFoundedOn(R, Nat)
  BY NatLessThanWellFounded
<1>2. D \subseteq Nat /\ D # {}
  OBVIOUS
<1>3. PICK d \in D : \A y \in D : ~(<<y, d>> \in R)
  BY <1>1, <1>2, WFMin
<1>4. PICK m \in S : d = n - m
  BY <1>3
<1>5. \A x \in S : x <= m
  <2>1. SUFFICES ASSUME NEW x \in S, x > m PROVE FALSE
    OBVIOUS
  <2>2. n - x \in D /\ n - x < d /\ n - x \in Nat /\ d \in Nat
    BY <2>1, <1>2, <1>4
  <2>3. <<n - x, d>> \in R
    BY <2>2 DEF OpToRel
  <2>4. QED
    BY <1>3, <2>2, <2>3
<1>6. \E x \in S : \A y \in S : x >= y
  BY <1>4, <1>5
<1>7. QED
  BY <1>6 DEF Max

\* The fields of a line of the export.
LEMMA LineFields ==
  ASSUME NEW f \in Seq(Lines)
  PROVE  /\ Len(f) \in Nat
         /\ f # <<>> => Len(f) \in 1..Len(f)
         /\ \A i \in 1..Len(f) :
              f[i] \in Lines /\ f[i].seq \in Nat /\ f[i].hash \in Int
<1>1. \A i \in 1..Len(f) : f[i] \in Lines
  BY ElementOfSeq
<1>2. Len(f) \in Nat /\ (f # <<>> => Len(f) \in 1..Len(f))
  BY LenProperties, EmptySeq
<1>3. QED
  BY <1>1, <1>2 DEF Lines

\* NextTraceLink returns a link.
LEMMA LinkType ==
  ASSUME NEW h \in Heads \cup {NoHead}, NEW f \in Seq(Lines)
  PROVE  NextTraceLink(h, f) \in [seq : Nat, prev : Int, note : Notes]
<1>1. CASE h # NoHead
  BY <1>1 DEF NextTraceLink, Heads, Notes
<1>2. CASE h = NoHead /\ f = <<>>
  BY <1>2 DEF NextTraceLink, Notes, GENESIS_CHAIN_PREV
<1>3. CASE h = NoHead /\ f # <<>>
  <2>1. f[Len(f)].seq \in Nat /\ f[Len(f)].hash \in Int
    BY <1>3, LineFields
  <2>2. Numbered(f, Len(f)) # {} => f[Max(Numbered(f, Len(f)))].seq \in Nat
    <3>1. SUFFICES ASSUME Numbered(f, Len(f)) # {}
                   PROVE  f[Max(Numbered(f, Len(f)))].seq \in Nat
      OBVIOUS
    <3>2. Max(Numbered(f, Len(f))) \in 1..Len(f)
      BY <3>1, LineFields, MaxOfPositions, Numbered(f, Len(f)) \subseteq 1..Len(f) DEF Numbered
    <3>3. QED
      BY <3>2, LineFields
  <2>3. QED
    BY <1>3, <2>1, <2>2 DEF NextTraceLink, Notes
<1>4. QED
  BY <1>1, <1>2, <1>3

\* The next seq is above every seq in the file, whichever branch computes it.
LEMMA LinkAhead ==
  ASSUME NEW h \in Heads \cup {NoHead}, NEW f \in Seq(Lines),
         h # NoHead => \A i \in 1..Len(f) : f[i].seq <= h.seq,
         \A i, j \in 1..Len(f) :
           i < j /\ f[i].seq > 0 /\ f[j].seq > 0 => f[i].seq < f[j].seq
  PROVE  /\ NextTraceLink(h, f).seq > 0
         /\ \A i \in 1..Len(f) : f[i].seq < NextTraceLink(h, f).seq
         /\ h # NoHead => h.seq < NextTraceLink(h, f).seq
<1> DEFINE link == NextTraceLink(h, f)
           N == Numbered(f, Len(f))
<1>0. Len(f) \in Nat /\ \A i \in 1..Len(f) : f[i].seq \in Nat
  BY LineFields
<1>1. CASE h # NoHead
  BY <1>0, <1>1 DEF NextTraceLink, Heads
<1>2. CASE h = NoHead /\ f = <<>>
  BY <1>2 DEF NextTraceLink
<1>3. CASE h = NoHead /\ f # <<>> /\ f[Len(f)].seq > 0
  <2>1. link.seq = f[Len(f)].seq + 1 /\ Len(f) \in 1..Len(f)
    BY <1>0, <1>3 DEF NextTraceLink
  <2>2. QED
    BY <1>0, <1>3, <2>1
<1>4. CASE h = NoHead /\ f # <<>> /\ ~(f[Len(f)].seq > 0) /\ N # {}
  <2>1. /\ Max(N) \in N
        /\ \A i \in N : i <= Max(N)
        /\ N \subseteq 1..Len(f)
    BY <1>0, <1>4, MaxOfPositions DEF Numbered
  <2>2. link.seq = f[Max(N)].seq + 1
    BY <1>4 DEF NextTraceLink
  <2>3. \A i \in 1..Len(f) : f[i].seq <= f[Max(N)].seq
    <3>1. TAKE i \in 1..Len(f)
    <3>2. CASE i \in N
      <4>1. i = Max(N) \/ i < Max(N)
        BY <2>1, <3>2
      <4>2. f[Max(N)].seq > 0 /\ f[i].seq > 0
        BY <2>1, <3>2 DEF Numbered
      <4>3. QED
        BY <1>0, <2>1, <4>1, <4>2
    <3>3. CASE i \notin N
      BY <1>0, <2>1, <3>3 DEF Numbered
    <3>4. QED
      BY <3>2, <3>3
  <2>4. QED
    BY <1>0, <1>4, <2>1, <2>2, <2>3
<1>5. CASE h = NoHead /\ f # <<>> /\ ~(f[Len(f)].seq > 0) /\ N = {}
  <2>1. link.seq = 1
    BY <1>5 DEF NextTraceLink
  <2>2. QED
    BY <1>0, <1>5, <2>1 DEF Numbered
<1>6. QED
  BY <1>1, <1>2, <1>3, <1>4, <1>5
-----------------------------------------------------------------------------
(* Type correctness *)

\* A partial write of a line is a line.
LEMMA PartialType == ASSUME NEW l \in Lines PROVE Partial(l) \in Lines
BY DEF Partial, Lines, Notes, GENESIS_CHAIN_PREV

\* A write that was interrupted leaves a well-formed file.
LEMMA InterruptedType ==
  ASSUME TypeOK, NEW t \in Threads, Interrupted(t)
  PROVE  file' \in Seq(Lines) /\ newline' \in BOOLEAN /\ lost' \subseteq Int
<1>1. line[t] \in Lines /\ line[t].hash \in Int
  BY DEF TypeOK, Lines
<1>2. Partial(line[t]) \in Lines
  BY <1>1, PartialType
<1>3. file' \in Seq(Lines) /\ lost' \subseteq Int
  <2>1. file \in Seq(Lines) /\ lost \subseteq Int
    BY DEF TypeOK
  <2>2. Append(file, line[t]) \in Seq(Lines) /\ Append(file, Partial(line[t])) \in Seq(Lines)
    BY <1>1, <1>2, <2>1, AppendProperties
  <2>3. QED
    BY <1>1, <2>1, <2>2 DEF Interrupted
<1>4. newline' \in BOOLEAN
  BY Zenon DEF TypeOK, Interrupted
<1>5. QED
  BY <1>3, <1>4

\* Restarting the process leaves well-formed local state.
LEMMA RestartType ==
  ASSUME TypeOK, Restart
  PROVE  /\ lock' \in Threads \cup {NoThread}
         /\ pc' \in [Threads -> {"idle", "linked", "headed"}]
         /\ line' \in [Threads -> Lines]
         /\ open' \in [Threads -> Nat]
BY DEF TypeOK, Restart, V1Line, Lines, Notes, GENESIS_CHAIN_PREV

\* Ending an append leaves well-formed local state.
LEMMA EndAppendType ==
  ASSUME TypeOK, NEW t \in Threads, EndAppend(t)
  PROVE  /\ lock' \in Threads \cup {NoThread}
         /\ pc' \in [Threads -> {"idle", "linked", "headed"}]
         /\ open' \in [Threads -> Nat]
<1>1. line[t].corr \in Nat
  BY DEF TypeOK, Lines
<1>2. QED
  BY <1>1 DEF TypeOK, EndAppend

\* A fault only counts.
LEMMA FaultType ==
  ASSUME TypeOK, NEW k \in {"crash", "powercut", "headloss", "write"}, NEW b, Fault(k, b)
  PROVE  faults' \in [{"crash", "powercut", "headloss", "write"} -> Nat]
BY DEF TypeOK, Fault

\* A thread that has read its link holds a line with that link.
LEMMA BeginAppendLine ==
  ASSUME TypeOK, NEW t \in Threads, BeginAppend(t)
  PROVE  /\ line' \in [Threads -> Lines]
         /\ line'[t].seq = NextTraceLink(head, file).seq
         /\ line'[t].prev = NextTraceLink(head, file).prev
         /\ line'[t].note = NextTraceLink(head, file).note
         /\ line'[t].hash = built + 1
         /\ line'[t].kind # "partial"
         /\ \A u \in Threads \ {t} : line'[u] = line[u]
<1>1. PICK r \in Record(t, built + 1) :
        line' = [line EXCEPT ![t] =
                  [hash |-> built + 1, seq |-> NextTraceLink(head, file).seq,
                   prev |-> NextTraceLink(head, file).prev,
                   note |-> NextTraceLink(head, file).note,
                   kind |-> r.kind, corr |-> r.corr]]
  BY DEF BeginAppend
<1>2. r.kind \in {"intent", "outcome"} /\ r.corr \in Nat
  BY DEF Record, TypeOK
<1>3. NextTraceLink(head, file) \in [seq : Nat, prev : Int, note : Notes]
  BY LinkType DEF TypeOK
<1>4. /\ NextTraceLink(head, file).seq \in Nat
      /\ NextTraceLink(head, file).prev \in Int
      /\ NextTraceLink(head, file).note \in Notes
      /\ built + 1 \in Int
  BY <1>3 DEF TypeOK
<1> DEFINE l == [hash |-> built + 1, seq |-> NextTraceLink(head, file).seq,
                 prev |-> NextTraceLink(head, file).prev,
                 note |-> NextTraceLink(head, file).note,
                 kind |-> r.kind, corr |-> r.corr]
<1>5. /\ l \in Lines
      /\ l.seq = NextTraceLink(head, file).seq
      /\ l.prev = NextTraceLink(head, file).prev
      /\ l.note = NextTraceLink(head, file).note
      /\ l.hash = built + 1
      /\ l.kind # "partial"
  BY <1>2, <1>4 DEF Lines
<1>6. line \in [Threads -> Lines] /\ line' = [line EXCEPT ![t] = l]
  BY <1>1 DEF TypeOK
<1> HIDE DEF l
<1>7. QED
  BY <1>5, <1>6

\* TypeOK: every step keeps every variable in its type.
THEOREM TypeCorrect == Spec => []TypeOK
<1>1. Init => TypeOK
  <2>1. SUFFICES ASSUME Init PROVE TypeOK
    OBVIOUS
  <2>2. PICK n \in V1Lengths : file = [i \in 1..n |-> V1Line(i)] /\ built = n
    BY <2>1 DEF Init
  <2>3. n \in Nat
    BY BoundsAssumption
  <2>4. \A i \in Nat : V1Line(i) \in Lines
    BY DEF V1Line, Lines, Notes, GENESIS_CHAIN_PREV
  <2>5. file \in Seq(Lines)
    BY <2>2, <2>3, <2>4, IsASeq
  <2>6. QED
    BY <2>1, <2>2, <2>3, <2>4, <2>5 DEF Init, TypeOK
<1>2. TypeOK /\ [Next]_vars => TypeOK'
  <2> SUFFICES ASSUME TypeOK, [Next]_vars PROVE TypeOK'
    OBVIOUS
  <2>1. ASSUME NEW t \in Threads, BeginAppend(t) PROVE TypeOK'
    <3>1. line' \in [Threads -> Lines]
      BY <2>1, BeginAppendLine
    <3>2. QED
      BY <2>1, <3>1 DEF TypeOK, BeginAppend
  <2>2. ASSUME NEW t \in Threads, WriteTraceHead(t) PROVE TypeOK'
    <3>1. [seq |-> line[t].seq, chain_hash |-> line[t].hash] \in Heads
      BY DEF TypeOK, Lines, Heads
    <3>2. QED
      BY <2>2, <3>1 DEF TypeOK, WriteTraceHead
  <2>3. ASSUME NEW t \in Threads, WriteTraceHeadFails(t) PROVE TypeOK'
    BY <2>3, EndAppendType, FaultType DEF TypeOK, WriteTraceHeadFails
  <2>4. ASSUME NEW t \in Threads, WriteLine(t) PROVE TypeOK'
    <3>1. file' \in Seq(Lines)
      BY <2>4, AppendProperties DEF TypeOK, WriteLine
    <3>2. QED
      BY <2>4, <3>1, EndAppendType DEF TypeOK, WriteLine
  <2>5. ASSUME NEW t \in Threads, WriteLineFails(t) PROVE TypeOK'
    BY <2>5, EndAppendType, FaultType, InterruptedType DEF TypeOK, WriteLineFails
  <2>6. CASE Crash
    <3>1. file' \in Seq(Lines) /\ newline' \in BOOLEAN /\ lost' \subseteq Int
      BY <2>6, InterruptedType DEF TypeOK, Crash
    <3>2. QED
      BY <2>6, <3>1, RestartType, FaultType DEF TypeOK, Crash
  <2>7. CASE LoseHead
    BY <2>7, FaultType DEF TypeOK, LoseHead
  <2>8. CASE PowerCut
    <3>1. PICK n \in 0..Len(file) :
            /\ \/ /\ file' = SubSeq(file, 1, n)
                  /\ newline' = (n < Len(file) \/ newline)
               \/ /\ n < Len(file)
                  /\ file' = Append(SubSeq(file, 1, n), Partial(file[n + 1]))
                  /\ newline' = FALSE
            /\ head' \in {head, oldHead}
            /\ lost' = lost \cup {line[t].hash : t \in {u \in Threads : pc[u] = "headed"}}
                        \cup {file[i].hash : i \in {j \in n+1..Len(file) : file[j].seq > 0}}
      BY <2>8 DEF PowerCut
    <3>2. SubSeq(file, 1, n) \in Seq(Lines)
      BY <3>1, LineFields, SubSeqProperties DEF TypeOK
    <3>3. n < Len(file) => Partial(file[n + 1]) \in Lines
      BY <3>1, LineFields, PartialType DEF TypeOK
    <3>4. file' \in Seq(Lines)
      <4>1. n < Len(file) => Append(SubSeq(file, 1, n), Partial(file[n + 1])) \in Seq(Lines)
        BY <3>2, <3>3, AppendProperties
      <4>2. QED
        BY <3>1, <3>2, <4>1
    <3>5. newline' \in BOOLEAN
      BY <3>1, Zenon
    <3>6. lost' \subseteq Int
      <4>1. \A t \in Threads : line[t].hash \in Int
        BY DEF TypeOK, Lines
      <4>2. \A i \in n+1..Len(file) : file[i].hash \in Int
        BY LineFields DEF TypeOK
      <4>3. QED
        BY <3>1, <4>1, <4>2 DEF TypeOK
    <3>7. QED
      BY <2>8, <3>1, <3>4, <3>5, <3>6, RestartType, FaultType DEF TypeOK, PowerCut
  <2>9. CASE UNCHANGED vars
    BY <2>9 DEF TypeOK, vars
  <2>10. QED
    BY <2>1, <2>2, <2>3, <2>4, <2>5, <2>6, <2>7, <2>8, <2>9 DEF Next
<1>3. QED
  BY <1>1, <1>2, PTL DEF Spec
-----------------------------------------------------------------------------
(* The sequence *)

\* Appending a line that carries no seq, or one above all others, keeps the order.
LEMMA AppendKeepsOrder ==
  ASSUME TypeOK, SeqNeverReused, NEW l \in Lines, file' = Append(file, l),
         l.seq = 0 \/ \A i \in 1..Len(file) : file[i].seq < l.seq
  PROVE  SeqNeverReused'
<1>1. /\ Len(file) \in Nat
      /\ Len(file') = Len(file) + 1
      /\ \A i \in 1..Len(file) : file'[i] = file[i]
      /\ file'[Len(file) + 1] = l
  BY LineFields, AppendProperties DEF TypeOK
<1>2. SUFFICES ASSUME NEW i \in 1..Len(file'), NEW j \in 1..Len(file'),
                      i < j, file'[i].seq > 0, file'[j].seq > 0
               PROVE  file'[i].seq < file'[j].seq
  BY DEF SeqNeverReused
<1>3. i \in 1..Len(file)
  BY <1>1, <1>2
<1>4. CASE j \in 1..Len(file)
  BY <1>1, <1>2, <1>3, <1>4 DEF SeqNeverReused
<1>5. CASE j = Len(file) + 1
  <2>1. file'[j] = l /\ file'[i] = file[i]
    BY <1>1, <1>3, <1>5
  <2>2. l.seq # 0
    BY <1>2, <2>1
  <2>3. QED
    BY <1>3, <2>1, <2>2
<1>6. QED
  BY <1>1, <1>2, <1>4, <1>5

\* A write of the line in flight, whole, partial or not at all, keeps the file
\* ordered and covered by both heads.
LEMMA WriteKeepsOrder ==
  ASSUME TypeOK, IInv, NEW t \in Threads, pc[t] = "headed",
         file' \in {file, Append(file, Partial(line[t])), Append(file, line[t])},
         head' = head, oldHead' = oldHead
  PROVE  SeqNeverReused' /\ HeadNeverBehind' /\ OldHeadCovers'
<1>1. CASE file' = file
  BY <1>1 DEF IInv, SeqNeverReused, HeadNeverBehind, OldHeadCovers
<1>2. ASSUME NEW l \in {line[t], Partial(line[t])}, file' = Append(file, l)
      PROVE  SeqNeverReused' /\ HeadNeverBehind' /\ OldHeadCovers'
  <2>1. line[t] \in Lines /\ line[t].hash \in Int /\ line[t].seq \in Nat
    BY DEF TypeOK, Lines
  <2>2. /\ l \in Lines
        /\ l.seq = 0 \/ l.seq = line[t].seq
        /\ l.hash \in {line[t].hash, -line[t].hash}
    BY <2>1, <1>2, PartialType DEF Partial
  <2>3. /\ line[t].seq > 0
        /\ \A i \in 1..Len(file) : file[i].seq < line[t].seq
        /\ head # NoHead => head = [seq |-> line[t].seq, chain_hash |-> line[t].hash]
    BY DEF IInv, HeadedAhead
  <2>4. SeqNeverReused'
    BY <1>2, <2>2, <2>3, AppendKeepsOrder DEF IInv
  <2>5. /\ Len(file) \in Nat
        /\ Len(file') = Len(file) + 1
        /\ \A i \in 1..Len(file) : file'[i] = file[i]
        /\ file'[Len(file) + 1] = l
    BY <1>2, <2>2, LineFields, AppendProperties DEF TypeOK
  <2>6. HeadNeverBehind'
    BY <2>1, <2>2, <2>3, <2>5 DEF IInv, HeadNeverBehind
  <2>7. OldHeadCovers'
    BY <2>1, <2>2, <2>3, <2>5 DEF IInv, OldHeadCovers
  <2>8. QED
    BY <2>4, <2>6, <2>7
<1>3. QED
  BY <1>1, <1>2

\* While one thread is inside append_trace_line every other is outside it.
LEMMA OthersIdle ==
  ASSUME TypeOK, HolderOnly, NEW t \in Threads, pc[t] # "idle"
  PROVE  \A u \in Threads : u # t => pc[u] = "idle"
BY DEF HolderOnly

\* When no thread is inside append_trace_line nothing is claimed about the lock's
\* holder or the number in flight.
LEMMA NobodyInside ==
  ASSUME \A t \in Threads : pc'[t] = "idle"
  PROVE  HolderOnly' /\ LinkedAhead' /\ HeadedAhead'
BY DEF HolderOnly, LinkedAhead, HeadedAhead

\* Ending an append leaves no thread inside.
LEMMA EndAppendEmpties ==
  ASSUME TypeOK, HolderOnly, NEW t \in Threads, pc[t] # "idle", EndAppend(t)
  PROVE  HolderOnly' /\ LinkedAhead' /\ HeadedAhead'
<1>1. \A u \in Threads : pc'[u] = "idle"
  BY OthersIdle DEF EndAppend, TypeOK
<1>2. QED
  BY <1>1, NobodyInside

\* The strengthened invariant is inductive.
LEMMA Inductive == TypeOK /\ TypeOK' /\ IInv /\ [Next]_vars => IInv'
<1> SUFFICES ASSUME TypeOK, TypeOK', IInv, [Next]_vars PROVE IInv'
  OBVIOUS
<1> USE DEF IInv
<1>1. ASSUME NEW t \in Threads, BeginAppend(t) PROVE IInv'
  <2>1. \A u \in Threads : pc[u] = "idle"
    BY <1>1, ThreadsAssumption DEF BeginAppend, HolderOnly
  <2>2. /\ lock' = t
        /\ \A u \in Threads : pc'[u] = IF u = t THEN "linked" ELSE "idle"
        /\ UNCHANGED <<file, head, oldHead>>
    BY <1>1, <2>1 DEF BeginAppend, TypeOK
  <2>3. line'[t].seq = NextTraceLink(head, file).seq
    BY <1>1, BeginAppendLine
  <2>4. /\ NextTraceLink(head, file).seq > 0
        /\ \A i \in 1..Len(file) : file[i].seq < NextTraceLink(head, file).seq
        /\ head # NoHead => head.seq < NextTraceLink(head, file).seq
    BY LinkAhead DEF TypeOK, SeqNeverReused, HeadNeverBehind
  <2>5. HolderOnly' /\ HeadedAhead'
    BY <2>2 DEF HolderOnly, HeadedAhead
  <2>6. LinkedAhead'
    BY <2>2, <2>3, <2>4 DEF LinkedAhead
  <2>7. SeqNeverReused' /\ HeadNeverBehind' /\ OldHeadCovers'
    BY <2>2 DEF SeqNeverReused, HeadNeverBehind, OldHeadCovers
  <2>8. QED
    BY <2>5, <2>6, <2>7
<1>2. ASSUME NEW t \in Threads, WriteTraceHead(t) PROVE IInv'
  <2>1. \A u \in Threads : u # t => pc[u] = "idle"
    BY <1>2, OthersIdle DEF WriteTraceHead
  <2>2. /\ head' = [seq |-> line[t].seq, chain_hash |-> line[t].hash]
        /\ oldHead' = head
        /\ \A u \in Threads : pc'[u] = IF u = t THEN "headed" ELSE "idle"
        /\ UNCHANGED <<file, lock, line>>
    BY <1>2, <2>1 DEF WriteTraceHead, TypeOK
  <2>3. /\ line[t].seq > 0 /\ line[t].seq \in Nat
        /\ \A i \in 1..Len(file) : file[i].seq < line[t].seq /\ file[i].seq \in Nat
    BY <1>2, LineFields DEF WriteTraceHead, LinkedAhead, TypeOK, Lines
  <2>4. head'.seq = line[t].seq /\ head' # NoHead
    BY <2>2, <2>3, NoHeadAssumption DEF TypeOK, Lines
  <2>5. HolderOnly' /\ LinkedAhead'
    BY <1>2, <2>2 DEF HolderOnly, LinkedAhead, WriteTraceHead
  <2>6. HeadedAhead'
    BY <2>2, <2>3 DEF HeadedAhead
  <2>7. HeadNeverBehind' /\ SeqNeverReused'
    BY <2>2, <2>3, <2>4 DEF HeadNeverBehind, SeqNeverReused
  <2>8. OldHeadCovers'
    BY <2>2, <2>4 DEF OldHeadCovers, HeadNeverBehind
  <2>9. QED
    BY <2>5, <2>6, <2>7, <2>8
<1>3. ASSUME NEW t \in Threads, WriteTraceHeadFails(t) PROVE IInv'
  <2>1. HolderOnly' /\ LinkedAhead' /\ HeadedAhead'
    BY <1>3, EndAppendEmpties DEF WriteTraceHeadFails
  <2>2. SeqNeverReused' /\ HeadNeverBehind' /\ OldHeadCovers'
    BY <1>3 DEF WriteTraceHeadFails, SeqNeverReused, HeadNeverBehind, OldHeadCovers
  <2>3. QED
    BY <2>1, <2>2
<1>4. ASSUME NEW t \in Threads, WriteLine(t) PROVE IInv'
  <2>1. HolderOnly' /\ LinkedAhead' /\ HeadedAhead'
    BY <1>4, EndAppendEmpties DEF WriteLine
  <2>2. SeqNeverReused' /\ HeadNeverBehind' /\ OldHeadCovers'
    BY <1>4, WriteKeepsOrder DEF WriteLine
  <2>3. QED
    BY <2>1, <2>2
<1>5. ASSUME NEW t \in Threads, WriteLineFails(t) PROVE IInv'
  <2>1. HolderOnly' /\ LinkedAhead' /\ HeadedAhead'
    BY <1>5, EndAppendEmpties DEF WriteLineFails
  <2>2. SeqNeverReused' /\ HeadNeverBehind' /\ OldHeadCovers'
    BY <1>5, WriteKeepsOrder DEF WriteLineFails, Interrupted
  <2>3. QED
    BY <2>1, <2>2
<1>6. CASE Crash
  <2>1. HolderOnly' /\ LinkedAhead' /\ HeadedAhead'
    BY <1>6, NobodyInside DEF Crash, Restart
  <2>2. CASE \E t \in Threads : pc[t] = "headed"
    <3>1. PICK t \in Threads : pc[t] = "headed" /\ Interrupted(t)
      BY <1>6, <2>2 DEF Crash
    <3>2. file' \in {file, Append(file, Partial(line[t])), Append(file, line[t])}
      BY <3>1 DEF Interrupted
    <3>3. head' = head /\ oldHead' = oldHead
      BY <1>6 DEF Crash
    <3>4. SeqNeverReused' /\ HeadNeverBehind' /\ OldHeadCovers'
      BY <3>1, <3>2, <3>3, WriteKeepsOrder
    <3>5. QED
      BY <2>1, <3>4
  <2>3. CASE ~ \E t \in Threads : pc[t] = "headed"
    <3>1. UNCHANGED <<file, head, oldHead>>
      BY <1>6, <2>3 DEF Crash
    <3>2. SeqNeverReused' /\ HeadNeverBehind' /\ OldHeadCovers'
      BY <3>1 DEF SeqNeverReused, HeadNeverBehind, OldHeadCovers
    <3>3. QED
      BY <2>1, <3>2
  <2>4. QED
    BY <2>2, <2>3
<1>7. CASE LoseHead
  BY <1>7 DEF LoseHead, HolderOnly, SeqNeverReused, HeadNeverBehind, LinkedAhead,
              HeadedAhead, OldHeadCovers
<1>8. CASE PowerCut
  <2>1. HolderOnly' /\ LinkedAhead' /\ HeadedAhead'
    BY <1>8, NobodyInside DEF PowerCut, Restart
  <2>2. PICK n \in 0..Len(file) :
          /\ \/ file' = SubSeq(file, 1, n)
             \/ n < Len(file) /\ file' = Append(SubSeq(file, 1, n), Partial(file[n + 1]))
          /\ head' \in {head, oldHead}
          /\ head' # head => \A i \in 1..Len(file') :
                               file'[i].hash \notin {head.chain_hash, -head.chain_hash}
    BY <1>8 DEF PowerCut
  <2>3. \A i \in 1..Len(file') : file'[i].seq = 0 \/ (i \in 1..Len(file) /\ file'[i] = file[i])
    <3>1. /\ Len(file) \in Nat
          /\ SubSeq(file, 1, n) \in Seq(Lines)
          /\ Len(SubSeq(file, 1, n)) = n
          /\ \A i \in 1..n : SubSeq(file, 1, n)[i] = file[i]
      BY LineFields, SubSeqProperties DEF TypeOK
    <3>2. CASE file' = SubSeq(file, 1, n)
      BY <3>1, <3>2
    <3>3. CASE n < Len(file) /\ file' = Append(SubSeq(file, 1, n), Partial(file[n + 1]))
      <4>1. Partial(file[n + 1]) \in Lines /\ Partial(file[n + 1]).seq = 0
        BY <3>1, <3>3, LineFields, PartialType DEF TypeOK, Partial
      <4>2. /\ Len(file') = n + 1
            /\ \A i \in 1..n : file'[i] = file[i]
            /\ file'[n + 1].seq = 0
        BY <3>1, <3>3, <4>1, AppendProperties
      <4>3. QED
        BY <3>1, <4>2
    <3>4. QED
      BY <2>2, <3>2, <3>3
  <2>4. SeqNeverReused'
    BY <2>3 DEF SeqNeverReused
  <2>5. HeadNeverBehind'
    <3>1. head' # NoHead => head'.seq \in Nat /\ 0 <= head'.seq
      BY DEF TypeOK, Heads
    <3>2. CASE head' = head
      BY <2>3, <3>1, <3>2 DEF HeadNeverBehind
    <3>3. CASE head' # head
      <4>1. head' = oldHead /\ head # NoHead
        BY <2>2, <3>3 DEF OldHeadCovers
      <4>2. QED
        BY <2>2, <2>3, <3>1, <3>3, <4>1 DEF HeadNeverBehind, OldHeadCovers
    <3>4. QED
      BY <3>2, <3>3
  <2>6. OldHeadCovers'
    <3>1. oldHead' = head'
      BY <1>8 DEF PowerCut
    <3>2. QED
      BY <2>5, <3>1 DEF OldHeadCovers, HeadNeverBehind
  <2>7. QED
    BY <2>1, <2>4, <2>5, <2>6
<1>9. CASE UNCHANGED vars
  BY <1>9 DEF vars, HolderOnly, SeqNeverReused, HeadNeverBehind, LinkedAhead,
              HeadedAhead, OldHeadCovers
<1>10. QED
  BY <1>1, <1>2, <1>3, <1>4, <1>5, <1>6, <1>7, <1>8, <1>9 DEF Next

\* Before the first append the file is whole, or v1 history that nobody has numbered.
LEMMA IInvInitially == Init => IInv
<1> SUFFICES ASSUME Init PROVE IInv
  OBVIOUS
<1>1. PICK n \in V1Lengths : file = [i \in 1..n |-> V1Line(i)]
  BY DEF Init
<1>2. n \in Nat
  BY BoundsAssumption
<1>3. Len(file) = n /\ \A i \in 1..Len(file) : file[i].seq = 0
  BY <1>1, <1>2 DEF V1Line
<1>4. QED
  BY <1>3 DEF Init, IInv, HolderOnly, SeqNeverReused, HeadNeverBehind, LinkedAhead,
              HeadedAhead, OldHeadCovers

\* append_trace_line, its crashes and its recoveries keep the invariant.
LEMMA IInvAlways == Spec => []IInv
<1>1. TypeOK /\ TypeOK' /\ IInv /\ [Next]_vars => IInv'
  BY Inductive
<1>2. QED
  BY <1>1, IInvInitially, TypeCorrect, PTL DEF Spec

\* SeqNeverReused: the numbering of the export never restarts and never repeats,
\* whatever is killed, torn, lost or cut between two lines.
THEOREM SeqNeverReusedAlways == Spec => []SeqNeverReused
<1>1. IInv => SeqNeverReused
  BY DEF IInv
<1>2. QED
  BY <1>1, IInvAlways, PTL

\* HeadNeverBehind: a head that can be read is level with the file or ahead of it.
THEOREM HeadNeverBehindAlways == Spec => []HeadNeverBehind
<1>1. IInv => HeadNeverBehind
  BY DEF IInv
<1>2. QED
  BY <1>1, IInvAlways, PTL
-----------------------------------------------------------------------------
(* No false alarm *)

Last == file[Len(file)]

\* No line is torn, once a line is numbered every later one is, and a numbered line
\* links to the bytes of the line before it and counts on from its number.
Unbroken ==
  /\ \A i \in 1..Len(file) : file[i].kind # "partial"
  /\ \A i \in 1..Len(file) : \A j \in 1..i-1 : file[j].seq > 0 => file[i].seq > 0
  /\ \A i \in 2..Len(file) :
       file[i].seq > 0 =>
         /\ file[i].prev = file[i-1].hash
         /\ file[i-1].seq > 0 => file[i].seq = file[i-1].seq + 1

\* The line in flight continues the file as it is.
LineFits ==
  \A t \in Threads : pc[t] # "idle" =>
    /\ line[t].kind # "partial"
    /\ line[t].seq > 0
    /\ file # <<>> =>
         /\ line[t].prev = Last.hash
         /\ Last.seq > 0 => line[t].seq = Last.seq + 1

\* Between two appends the head, when it can be read, describes the last line.
HeadIsLast ==
  (\A t \in Threads : pc[t] # "headed") /\ head # NoHead =>
    file # <<>> /\ head = [seq |-> Last.seq, chain_hash |-> Last.hash]

NothingLost == lost = {} => Unbroken /\ LineFits /\ HeadIsLast

\* The positions of an appended file.
LEMMA AppendPositions ==
  ASSUME TypeOK, NEW l \in Lines, file' = Append(file, l)
  PROVE  /\ Len(file) \in Nat
         /\ Len(file') = Len(file) + 1
         /\ \A i \in 1..Len(file) : file'[i] = file[i]
         /\ file'[Len(file')] = l
         /\ file' # <<>>
         /\ file # <<>> => Len(file) \in 1..Len(file)
BY LineFields, AppendProperties DEF TypeOK

\* The walk finds nothing to fail in an unbroken file.
LEMMA UnbrokenPasses ==
  ASSUME TypeOK, Unbroken
  PROVE  Failures(file, newline) = {}
<1>0. Len(file) \in Nat /\ \A i \in 1..Len(file) : file[i].seq \in Nat
  BY LineFields DEF TypeOK
<1>1. NotJson(file, newline) = {}
  BY DEF Unbroken, NotJson
<1>2. NumberingStops(file) = {}
  <2>1. SUFFICES ASSUME NEW i \in 1..Len(file), file[i].seq = 0, Numbered(file, i - 1) # {}
                 PROVE  FALSE
    BY DEF NumberingStops
  <2>2. PICK j \in 1..i-1 : file[j].seq > 0
    BY <2>1 DEF Numbered
  <2>3. file[i].seq > 0
    BY <2>2 DEF Unbroken
  <2>4. QED
    BY <2>1, <2>3
<1>3. Gaps(file) = {}
  <2>1. SUFFICES ASSUME NEW i \in 1..Len(file), file[i].seq > 0, Numbered(file, i - 1) # {}
                 PROVE  file[i].seq = ExpectedSeq(file, i)
    BY DEF Gaps
  <2> DEFINE N == Numbered(file, i - 1)
  <2>2. PICK j \in 1..i-1 : file[j].seq > 0
    BY <2>1 DEF Numbered
  <2>3. i - 1 \in 1..Len(file) /\ i - 1 \in Nat /\ i \in 2..Len(file)
    BY <1>0, <2>2
  <2>4. file[i-1].seq > 0
    <3>1. CASE j = i - 1
      BY <2>2, <3>1
    <3>2. CASE j # i - 1
      <4>1. j \in 1..(i-1)-1
        BY <1>0, <2>2, <3>2
      <4>2. QED
        BY <2>2, <2>3, <4>1 DEF Unbroken
    <3>3. QED
      BY <3>1, <3>2
  <2>5. i - 1 \in N /\ N \subseteq 1..i-1
    BY <2>2, <2>3, <2>4 DEF Numbered
  <2>6. Max(N) \in N /\ \A x \in N : x <= Max(N)
    BY <2>3, <2>5, MaxOfPositions
  <2>7. Max(N) = i - 1
    BY <2>3, <2>5, <2>6
  <2>8. file[i].seq = file[i-1].seq + 1
    BY <2>1, <2>3, <2>4 DEF Unbroken
  <2>9. QED
    BY <2>7, <2>8 DEF ExpectedSeq
<1>4. ChainBreaks(file) = {}
  BY DEF Unbroken, ChainBreaks
<1>5. QED
  BY <1>1, <1>2, <1>3, <1>4 DEF Failures

\* The line in flight, written whole, keeps the file unbroken.
LEMMA AppendKeepsUnbroken ==
  ASSUME TypeOK, Unbroken, LineFits, NEW t \in Threads, pc[t] # "idle",
         file' = Append(file, line[t])
  PROVE  Unbroken'
<1>1. line[t] \in Lines
  BY DEF TypeOK
<1>2. /\ Len(file) \in Nat
      /\ Len(file') = Len(file) + 1
      /\ \A i \in 1..Len(file) : file'[i] = file[i]
      /\ file'[Len(file')] = line[t]
      /\ file # <<>> => Len(file) \in 1..Len(file)
  BY <1>1, AppendPositions
<1>3. \A i \in 1..Len(file') : file'[i].kind # "partial"
  <2>1. TAKE i \in 1..Len(file')
  <2>2. CASE i = Len(file')
    BY <1>2, <2>2 DEF LineFits
  <2>3. CASE i # Len(file')
    BY <1>2, <2>3 DEF Unbroken
  <2>4. QED
    BY <2>2, <2>3
<1>4. \A i \in 1..Len(file') : \A j \in 1..i-1 : file'[j].seq > 0 => file'[i].seq > 0
  <2> TAKE i \in 1..Len(file')
  <2> TAKE j \in 1..i-1
  <2>2. CASE i = Len(file')
    BY <1>2, <2>2 DEF LineFits
  <2>3. CASE i # Len(file')
    <3>1. i \in 1..Len(file) /\ j \in 1..Len(file)
      BY <1>2, <2>3
    <3>2. QED
      BY <1>2, <3>1 DEF Unbroken
  <2>4. QED
    BY <2>2, <2>3
<1>5. ASSUME NEW i \in 2..Len(file'), file'[i].seq > 0
      PROVE  /\ file'[i].prev = file'[i-1].hash
             /\ file'[i-1].seq > 0 => file'[i].seq = file'[i-1].seq + 1
  <2>1. CASE i = Len(file')
    <3>1. i - 1 = Len(file) /\ i - 1 \in 1..Len(file)
      BY <1>2, <1>5, <2>1
    <3>2. file # <<>>
      BY <3>1
    <3>3. file'[i-1] = Last /\ file'[i] = line[t]
      BY <1>2, <2>1, <3>1 DEF Last
    <3>4. QED
      BY <3>2, <3>3 DEF LineFits
  <2>2. CASE i # Len(file')
    <3>1. i \in 2..Len(file) /\ i - 1 \in 1..Len(file) /\ i \in 1..Len(file)
      BY <1>2, <1>5, <2>2
    <3>2. file'[i] = file[i] /\ file'[i-1] = file[i-1]
      BY <1>2, <3>1
    <3>3. QED
      BY <1>5, <3>1, <3>2 DEF Unbroken
  <2>3. QED
    BY <2>1, <2>2
<1>6. QED
  BY <1>3, <1>4, <1>5 DEF Unbroken

\* The line in flight, written whole: what is left is a file whose last line the head
\* describes, whoever is inside next.
LEMMA WrittenWhole ==
  ASSUME TypeOK, IInv, Unbroken, LineFits, NEW t \in Threads, pc[t] = "headed",
         file' = Append(file, line[t]), head' = head, \A u \in Threads : pc'[u] = "idle"
  PROVE  Unbroken' /\ LineFits' /\ HeadIsLast'
<1>1. Unbroken'
  BY AppendKeepsUnbroken
<1>2. LineFits'
  BY DEF LineFits
<1>3. HeadIsLast'
  <2>1. line[t] \in Lines
    BY DEF TypeOK
  <2>2. file' # <<>> /\ Last' = line[t]
    BY <2>1, AppendPositions DEF Last
  <2>3. head # NoHead => head = [seq |-> line[t].seq, chain_hash |-> line[t].hash]
    BY DEF IInv, HeadedAhead
  <2>4. QED
    BY <2>2, <2>3 DEF HeadIsLast
<1>4. QED
  BY <1>1, <1>2, <1>3
\* The link of a record that begins on an intact file continues it.
LEMMA LinkFits ==
  ASSUME TypeOK, IInv, HeadIsLast, \A u \in Threads : pc[u] = "idle", file # <<>>
  PROVE  /\ NextTraceLink(head, file).prev = Last.hash
         /\ Last.seq > 0 => NextTraceLink(head, file).seq = Last.seq + 1
<1>1. CASE head # NoHead
  BY <1>1 DEF HeadIsLast, NextTraceLink
<1>2. CASE head = NoHead
  BY <1>2 DEF NextTraceLink, Last
<1>3. QED
  BY <1>1, <1>2

\* An interrupted write that loses nothing left the whole line but its newline.
LEMMA InterruptedWhole ==
  ASSUME TypeOK, NEW t \in Threads, Interrupted(t), lost' = {}
  PROVE  file' = Append(file, line[t]) /\ lost = {}
BY DEF Interrupted

\* A power cut that loses nothing left the files as they were.
LEMMA PowerCutWhole ==
  ASSUME TypeOK, IInv, Unbroken, HeadIsLast, PowerCut, lost' = {}
  PROVE  /\ file' = file /\ head' = head
         /\ \A t \in Threads : pc[t] # "headed" /\ pc'[t] = "idle"
<1>1. PICK n \in 0..Len(file) :
        /\ \A i \in n+1..Len(file) : file[i].seq > 0 \/ file[i].kind = "partial"
        /\ \/ file' = SubSeq(file, 1, n)
           \/ n < Len(file) /\ file' = Append(SubSeq(file, 1, n), Partial(file[n + 1]))
        /\ head' \in {head, oldHead}
        /\ head' # head =>
             \A i \in 1..Len(file') : file'[i].hash \notin {head.chain_hash, -head.chain_hash}
        /\ lost' = lost \cup {line[t].hash : t \in {u \in Threads : pc[u] = "headed"}}
                        \cup {file[i].hash : i \in {j \in n+1..Len(file) : file[j].seq > 0}}
  BY DEF PowerCut
<1>2. Len(file) \in Nat /\ (file # <<>> => Len(file) \in 1..Len(file))
  BY LineFields DEF TypeOK
<1>3. \A t \in Threads : pc[t] # "headed"
  BY <1>1
<1>4. \A j \in n+1..Len(file) : ~(file[j].seq > 0)
  BY <1>1
<1>5. n = Len(file)
  <2>1. SUFFICES ASSUME n < Len(file) PROVE FALSE
    BY <1>1, <1>2
  <2>2. n + 1 \in n+1..Len(file) /\ n + 1 \in 1..Len(file)
    BY <1>1, <1>2, <2>1
  <2>3. QED
    BY <1>1, <1>4, <2>2 DEF Unbroken
<1>6. file' = file
  <2>1. file \in Seq(Lines) /\ SubSeq(file, 1, n) \in Seq(Lines)
    BY <1>1, LineFields, SubSeqProperties DEF TypeOK
  <2>2. SubSeq(file, 1, n) = file
    BY <1>2, <1>5, <2>1, SubSeqProperties, SeqEqual
  <2>3. QED
    BY <1>1, <1>2, <1>5, <2>2
<1>7. head' = head
  <2>1. SUFFICES ASSUME head' # head PROVE FALSE
    OBVIOUS
  <2>2. head # NoHead
    BY <1>1, <2>1 DEF IInv, OldHeadCovers
  <2>3. file # <<>> /\ head.chain_hash = Last.hash
    BY <1>3, <2>2 DEF HeadIsLast
  <2>4. QED
    BY <1>1, <1>2, <1>6, <2>1, <2>3 DEF Last
<1>8. \A t \in Threads : pc'[t] = "idle"
  BY DEF PowerCut, Restart
<1>9. QED
  BY <1>3, <1>6, <1>7, <1>8

\* As long as no numbered record is gone the export is unbroken, and the head and the
\* line in flight continue it.
LEMMA NothingLostStep ==
  TypeOK /\ TypeOK' /\ IInv /\ NothingLost /\ [Next]_vars => NothingLost'
<1> SUFFICES ASSUME TypeOK, TypeOK', IInv, NothingLost, [Next]_vars, lost' = {}
             PROVE  Unbroken' /\ LineFits' /\ HeadIsLast'
  BY DEF NothingLost
<1>1. lost = {} /\ Unbroken /\ LineFits /\ HeadIsLast
  <2>1. lost \subseteq lost'
    BY DEF Next, BeginAppend, WriteTraceHead, WriteTraceHeadFails, WriteLine, WriteLineFails,
           Interrupted, Crash, LoseHead, PowerCut, vars
  <2>2. QED
    BY <2>1 DEF NothingLost
<1> USE <1>1
<1>2. ASSUME NEW t \in Threads, BeginAppend(t) PROVE Unbroken' /\ LineFits' /\ HeadIsLast'
  <2>1. \A u \in Threads : pc[u] = "idle"
    BY <1>2, ThreadsAssumption DEF BeginAppend, IInv, HolderOnly
  <2>2. /\ \A u \in Threads : pc'[u] = IF u = t THEN "linked" ELSE "idle"
        /\ UNCHANGED <<file, head>>
    BY <1>2, <2>1 DEF BeginAppend, TypeOK
  <2>3. /\ line'[t].seq = NextTraceLink(head, file).seq
        /\ line'[t].prev = NextTraceLink(head, file).prev
        /\ line'[t].kind # "partial"
    BY <1>2, BeginAppendLine
  <2>4. NextTraceLink(head, file).seq > 0
    BY LinkAhead DEF TypeOK, IInv, SeqNeverReused, HeadNeverBehind
  <2>5. LineFits'
    BY <2>1, <2>2, <2>3, <2>4, LinkFits DEF LineFits, Last
  <2>6. Unbroken' /\ HeadIsLast'
    BY <2>1, <2>2 DEF Unbroken, HeadIsLast, Last
  <2>7. QED
    BY <2>5, <2>6
<1>3. ASSUME NEW t \in Threads, WriteTraceHead(t) PROVE Unbroken' /\ LineFits' /\ HeadIsLast'
  <2>1. pc'[t] = "headed" /\ \A u \in Threads : pc'[u] # "idle" => pc[u] # "idle"
    BY <1>3 DEF WriteTraceHead, TypeOK
  <2>2. UNCHANGED <<file, line>>
    BY <1>3 DEF WriteTraceHead
  <2>3. QED
    BY <2>1, <2>2 DEF Unbroken, LineFits, HeadIsLast, Last
<1>4. ASSUME NEW t \in Threads, WriteTraceHeadFails(t)
      PROVE  Unbroken' /\ LineFits' /\ HeadIsLast'
  <2>1. /\ \A u \in Threads : pc[u] # "headed" /\ pc'[u] = "idle"
        /\ UNCHANGED <<file, head>>
    BY <1>4, OthersIdle DEF WriteTraceHeadFails, EndAppend, TypeOK, IInv
  <2>2. QED
    BY <2>1 DEF Unbroken, LineFits, HeadIsLast, Last
<1>5. ASSUME NEW t \in Threads, WriteLine(t) PROVE Unbroken' /\ LineFits' /\ HeadIsLast'
  <2>1. \A u \in Threads : pc'[u] = "idle"
    BY <1>5, OthersIdle DEF WriteLine, EndAppend, TypeOK, IInv
  <2>2. QED
    BY <1>5, <2>1, WrittenWhole DEF WriteLine
<1>6. ASSUME NEW t \in Threads, WriteLineFails(t) PROVE Unbroken' /\ LineFits' /\ HeadIsLast'
  <2>1. \A u \in Threads : pc'[u] = "idle"
    BY <1>6, OthersIdle DEF WriteLineFails, EndAppend, TypeOK, IInv
  <2>2. QED
    BY <1>6, <2>1, InterruptedWhole, WrittenWhole DEF WriteLineFails
<1>7. CASE Crash
  <2>1. \A u \in Threads : pc'[u] = "idle"
    BY <1>7 DEF Crash, Restart
  <2>2. head' = head
    BY <1>7 DEF Crash
  <2>3. CASE \E t \in Threads : pc[t] = "headed"
    <3>1. PICK t \in Threads : pc[t] = "headed" /\ Interrupted(t)
      BY <1>7, <2>3 DEF Crash
    <3>2. QED
      BY <2>1, <2>2, <3>1, InterruptedWhole, WrittenWhole
  <2>4. CASE ~ \E t \in Threads : pc[t] = "headed"
    <3>1. file' = file
      BY <1>7, <2>4 DEF Crash
    <3>2. QED
      BY <2>1, <2>2, <2>4, <3>1 DEF Unbroken, LineFits, HeadIsLast, Last
  <2>5. QED
    BY <2>3, <2>4
<1>8. CASE LoseHead
  BY <1>8 DEF LoseHead, Unbroken, LineFits, HeadIsLast, Last
<1>9. CASE PowerCut
  <2>1. /\ file' = file /\ head' = head
        /\ \A t \in Threads : pc[t] # "headed" /\ pc'[t] = "idle"
    BY <1>9, PowerCutWhole
  <2>2. QED
    BY <2>1 DEF Unbroken, LineFits, HeadIsLast, Last
<1>10. CASE UNCHANGED vars
  BY <1>10 DEF vars, Unbroken, LineFits, HeadIsLast, Last
<1>11. QED
  BY <1>2, <1>3, <1>4, <1>5, <1>6, <1>7, <1>8, <1>9, <1>10 DEF Next

\* An export nobody has appended to yet is unbroken: its v1 lines carry no number.
LEMMA NothingLostInitially == Init => NothingLost
<1> SUFFICES ASSUME Init PROVE Unbroken /\ LineFits /\ HeadIsLast
  BY DEF NothingLost
<1>1. PICK n \in V1Lengths : file = [i \in 1..n |-> V1Line(i)]
  BY DEF Init
<1>2. n \in Nat
  BY BoundsAssumption
<1>3. Len(file) = n /\ \A i \in 1..Len(file) : file[i].seq = 0 /\ file[i].kind = "outcome"
  BY <1>1, <1>2 DEF V1Line
<1>4. Unbroken
  <2>1. \A i \in 1..Len(file) : \A j \in 1..i-1 : j \in 1..Len(file)
    BY <1>2, <1>3
  <2>2. 2..Len(file) \subseteq 1..Len(file)
    BY <1>2, <1>3
  <2>3. QED
    BY <1>3, <2>1, <2>2 DEF Unbroken
<1>5. LineFits /\ HeadIsLast
  BY DEF Init, LineFits, HeadIsLast
<1>6. QED
  BY <1>4, <1>5

\* NoFalseAlarm: the walk fails no export from which no numbered line is missing, however
\* many threads append, and whatever was killed, lost, dropped or cut meanwhile.
THEOREM NoFalseAlarmAlways == Spec => []NoFalseAlarm
<1>1. TypeOK /\ TypeOK' /\ IInv /\ NothingLost /\ [Next]_vars => NothingLost'
  BY NothingLostStep
<1>2. TypeOK /\ NothingLost => NoFalseAlarm
  BY UnbrokenPasses DEF NothingLost, NoFalseAlarm
<1>3. QED
  BY <1>1, <1>2, NothingLostInitially, IInvAlways, TypeCorrect, PTL DEF Spec
-----------------------------------------------------------------------------
(* No silent loss *)

\* Records are built in the order of their hashes, and the line in flight is the newest.
Newest ==
  /\ \A i \in 1..Len(file) : file[i].hash <= built
  /\ \A l \in lost : l <= built
  /\ \A t \in Threads : pc[t] # "idle" =>
       /\ line[t].kind # "partial" /\ line[t].seq > 0
       /\ 0 < line[t].hash /\ line[t].hash <= built
       /\ \A i \in 1..Len(file) : file[i].hash < line[t].hash
       /\ \A l \in lost : l < line[t].hash

\* What the walk never calls clean: bytes that do not parse, a note, a broken link.
Marked(i) ==
  \/ file[i].kind = "partial"
  \/ file[i].note # "none"
  \/ i > 1 /\ file[i].seq > 0 /\ file[i].prev # file[i-1].hash

\* The next line that lands will be such a line: it is in flight with a note or a link to
\* what the file does not end in, or the head that it will take its link from is such.
NextIsMarked ==
  /\ file # <<>>
  /\ (\A t \in Threads : pc[t] # "headed") => head = NoHead \/ head.chain_hash # Last.hash
  /\ \A t \in Threads : pc[t] # "idle" => line[t].note # "none" \/ line[t].prev # Last.hash

Before(l) == \E i \in 1..Len(file) : file[i].kind # "partial" /\ file[i].hash < l
After(l) == \E i \in 1..Len(file) : file[i].kind # "partial" /\ file[i].hash > l

\* A lost record with a survivor before it has left its mark, or the next line brings it
\* before anything lands behind the record.
LossMarked ==
  \A l \in lost : Before(l) =>
    \/ \E i \in 1..Len(file) : Marked(i)
    \/ NextIsMarked /\ ~After(l)

NoPowerCut == faults.powercut = 0 => Newest /\ LossMarked

\* A marked line is a failure or a finding of the walk.
LEMMA MarkedShows ==
  ASSUME TypeOK, NEW i \in 1..Len(file), Marked(i)
  PROVE  Walk(file, newline) # 0
<1>1. SUFFICES Failures(file, newline) # {} \/ Findings(file, newline) # {}
  BY DEF Walk
<1>2. CASE file[i].kind = "partial"
  <2>1. CASE PartialTail(file, newline) /\ i = Len(file)
    BY <2>1 DEF Findings
  <2>2. CASE ~(PartialTail(file, newline) /\ i = Len(file))
    BY <1>2, <2>2 DEF Failures, NotJson
  <2>3. QED
    BY <2>1, <2>2
<1>3. CASE file[i].note # "none"
  BY <1>3 DEF Findings
<1>4. CASE i > 1 /\ file[i].seq > 0 /\ file[i].prev # file[i-1].hash
  <2>1. i \in 2..Len(file)
    BY <1>4, LineFields DEF TypeOK
  <2>2. QED
    BY <1>4, <2>1 DEF Failures, ChainBreaks
<1>5. QED
  BY <1>2, <1>3, <1>4 DEF Marked

\* The hashes of lines, and the records of threads, are numbers.
LEMMA Hashes ==
  ASSUME TypeOK
  PROVE  /\ Len(file) \in Nat /\ built \in Nat /\ lost \subseteq Int
         /\ \A i \in 1..Len(file) : file[i].hash \in Int
         /\ \A t \in Threads : line[t] \in Lines /\ line[t].hash \in Int /\ line[t].seq \in Nat
         /\ file # <<>> => Last = file[Len(file)] /\ Len(file) \in 1..Len(file)
BY LineFields DEF TypeOK, Lines, Last

\* A write that did not reach the file: its head, if it is still there, names a hash that
\* the file does not end in.
LEMMA WriteLost ==
  ASSUME TypeOK, IInv, Newest, LossMarked, NEW t \in Threads, pc[t] = "headed",
         UNCHANGED <<file, head, built>>, lost' = lost \cup {line[t].hash},
         \A u \in Threads : pc'[u] = "idle"
  PROVE  Newest' /\ LossMarked'
<1>1. /\ line[t].hash \in Int /\ line[t].hash <= built
      /\ \A i \in 1..Len(file) : file[i].hash \in Int /\ file[i].hash < line[t].hash
      /\ lost \subseteq Int /\ built \in Nat
  BY Hashes DEF Newest
<1>2. Newest'
  BY <1>1 DEF Newest
<1>3. file # <<>> => NextIsMarked'
  <2>1. SUFFICES ASSUME file # <<>>, head # NoHead PROVE head.chain_hash # Last.hash
    BY DEF NextIsMarked, Last
  <2>2. head.chain_hash = line[t].hash
    BY <2>1 DEF IInv, HeadedAhead
  <2>3. Last.hash < line[t].hash /\ Last.hash \in Int
    BY <1>1, <2>1, Hashes DEF Last
  <2>4. QED
    BY <1>1, <2>2, <2>3
<1>4. ASSUME NEW l \in lost', Before(l), ~ \E i \in 1..Len(file) : Marked(i)
      PROVE  NextIsMarked' /\ ~After(l)
  <2>1. file # <<>>
    BY <1>4 DEF Before
  <2>2. CASE l \in lost
    BY <1>3, <1>4, <2>1, <2>2 DEF LossMarked
  <2>3. CASE l = line[t].hash
    BY <1>1, <1>3, <2>1, <2>3 DEF After
  <2>4. QED
    BY <1>4, <2>2, <2>3
<1>5. /\ \A l : Before(l)' = Before(l) /\ After(l)' = After(l)
      /\ \A i : Marked(i)' = Marked(i)
      /\ Len(file') = Len(file)
  BY DEF Before, After, Marked
<1>6. LossMarked'
  BY <1>4, <1>5 DEF LossMarked
<1>7. QED
  BY <1>2, <1>6

\* A write that was torn is its own mark.
LEMMA WriteTorn ==
  ASSUME TypeOK, IInv, Newest, LossMarked, NEW t \in Threads, pc[t] = "headed",
         UNCHANGED <<head, built>>, lost' = lost \cup {line[t].hash},
         file' = Append(file, Partial(line[t])), \A u \in Threads : pc'[u] = "idle"
  PROVE  Newest' /\ LossMarked'
<1>1. /\ line[t] \in Lines /\ line[t].hash \in Int /\ line[t].hash <= built /\ 0 < line[t].hash
      /\ line[t].kind # "partial"
      /\ \A i \in 1..Len(file) : file[i].hash \in Int /\ file[i].hash <= built
      /\ lost \subseteq Int /\ built \in Nat
  BY Hashes DEF Newest
<1> DEFINE p == Partial(line[t])
<1>2. p \in Lines
  BY <1>1, PartialType
<1>3. p.kind = "partial" /\ p.hash = -line[t].hash
  BY <1>1 DEF Partial
<1> HIDE DEF p
<1>4. /\ Len(file) \in Nat
      /\ Len(file') = Len(file) + 1
      /\ \A i \in 1..Len(file) : file'[i] = file[i]
      /\ file'[Len(file')] = p
  <2>1. file' = Append(file, p)
    BY DEF p
  <2>2. QED
    BY <1>2, <2>1, AppendPositions
<1>5. Newest'
  <2>1. p.hash <= built
    BY <1>1, <1>3
  <2>2. \A i \in 1..Len(file') : file'[i].hash <= built
    BY <1>1, <1>4, <2>1
  <2>3. QED
    BY <1>1, <2>2 DEF Newest
<1>6. Len(file') \in 1..Len(file') /\ file'[Len(file')].kind = "partial"
  BY <1>3, <1>4
<1>7. QED
  BY <1>5, <1>6 DEF LossMarked, Marked

\* A line that lands whole is marked when the file was waiting for a mark.
LEMMA WriteLands ==
  ASSUME TypeOK, IInv, Newest, LossMarked, NEW t \in Threads, pc[t] = "headed",
         UNCHANGED <<head, built, lost>>, file' = Append(file, line[t]),
         \A u \in Threads : pc'[u] = "idle"
  PROVE  Newest' /\ LossMarked'
<1>1. /\ line[t] \in Lines /\ line[t].hash \in Int /\ line[t].hash <= built
      /\ line[t].kind # "partial" /\ line[t].seq > 0
      /\ \A i \in 1..Len(file) : file[i].hash \in Int /\ file[i].hash <= built
      /\ \A l \in lost : l \in Int /\ l < line[t].hash
      /\ built \in Nat
  BY Hashes DEF Newest
<1>2. /\ Len(file) \in Nat
      /\ Len(file') = Len(file) + 1
      /\ \A i \in 1..Len(file) : file'[i] = file[i]
      /\ file'[Len(file')] = line[t]
      /\ file # <<>> => Len(file) \in 1..Len(file)
  BY <1>1, AppendPositions
<1>3. Newest'
  <2>1. \A i \in 1..Len(file') : file'[i].hash <= built
    BY <1>1, <1>2
  <2>2. QED
    BY <2>1 DEF Newest
<1>4. ASSUME NEW l \in lost, Before(l)' PROVE \E i \in 1..Len(file') : Marked(i)'
  <2>1. PICK i \in 1..Len(file') : file'[i].kind # "partial" /\ file'[i].hash < l
    BY <1>4 DEF Before
  <2>2. l \in Int /\ l < line[t].hash /\ i # Len(file')
    BY <1>1, <1>2, <2>1
  <2>3. i \in 1..Len(file) /\ file[i] = file'[i]
    BY <1>2, <2>1, <2>2
  <2>4. Before(l)
    BY <2>1, <2>3 DEF Before
  <2>5. CASE \E j \in 1..Len(file) : Marked(j)
    <3>1. PICK j \in 1..Len(file) : Marked(j)
      BY <2>5
    <3>2. j \in 1..Len(file') /\ file'[j] = file[j] /\ (j > 1 => file'[j-1] = file[j-1])
      BY <1>2
    <3>3. QED
      BY <3>1, <3>2 DEF Marked
  <2>6. CASE NextIsMarked
    <3>1. PICK n \in 1..Len(file') : n > 1 /\ file'[n-1] = Last /\ file'[n] = line[t]
      BY <1>2, <2>6 DEF NextIsMarked, Last
    <3>2. line[t].note # "none" \/ line[t].prev # Last.hash
      BY <2>6 DEF NextIsMarked
    <3>3. Marked(n)'
      BY <1>1, <3>1, <3>2 DEF Marked
    <3>4. QED
      BY <3>1, <3>3
  <2>7. QED
    BY <2>4, <2>5, <2>6 DEF LossMarked
<1>5. LossMarked'
  BY <1>4 DEF LossMarked
<1>6. QED
  BY <1>3, <1>5

\* What an interrupted write leaves.
LEMMA WriteInterrupted ==
  ASSUME TypeOK, IInv, Newest, LossMarked, NEW t \in Threads, pc[t] = "headed",
         Interrupted(t), UNCHANGED <<head, built>>, \A u \in Threads : pc'[u] = "idle"
  PROVE  Newest' /\ LossMarked'
<1>1. CASE file' = file /\ lost' = lost \cup {line[t].hash}
  BY <1>1, WriteLost
<1>2. CASE file' = Append(file, Partial(line[t])) /\ lost' = lost \cup {line[t].hash}
  BY <1>2, WriteTorn
<1>3. CASE file' = Append(file, line[t]) /\ lost' = lost
  BY <1>3, WriteLands
<1>4. QED
  BY <1>1, <1>2, <1>3 DEF Interrupted

\* A step that leaves the file alone and nobody's line headed keeps a mark coming.
LEMMA FileUntouched ==
  ASSUME TypeOK, Newest, LossMarked, UNCHANGED <<file, lost, built>>,
         \A t \in Threads : pc'[t] # "idle" => pc[t] # "idle" /\ line'[t] = line[t],
         \/ \E t \in Threads : pc'[t] = "headed"
         \/ head' = NoHead
         \/ head' = head /\ \A t \in Threads : pc[t] # "headed"
  PROVE  Newest' /\ LossMarked'
<1>1. Newest'
  BY DEF Newest
<1>2. NextIsMarked => NextIsMarked'
  BY DEF NextIsMarked, Last
<1>3. /\ \A l : Before(l)' = Before(l) /\ After(l)' = After(l)
      /\ \A i : Marked(i)' = Marked(i)
      /\ Len(file') = Len(file)
  BY DEF Before, After, Marked
<1>4. QED
  BY <1>1, <1>2, <1>3 DEF LossMarked

\* Without power cuts every loss that a reader could overlook has its mark, or the next
\* line will carry it.
LEMMA LossMarkedStep ==
  TypeOK /\ TypeOK' /\ IInv /\ NoPowerCut /\ [Next]_vars => NoPowerCut'
<1> SUFFICES ASSUME TypeOK, TypeOK', IInv, NoPowerCut, [Next]_vars, faults'.powercut = 0
             PROVE  Newest' /\ LossMarked'
  BY DEF NoPowerCut
<1>1. faults \in [{"crash", "powercut", "headloss", "write"} -> Nat] /\ faults.powercut \in Nat
  BY DEF TypeOK
<1>2. ~PowerCut
  BY <1>1 DEF PowerCut, Fault
<1>3. Newest /\ LossMarked
  <2>1. faults' = faults \/ \E k \in {"crash", "headloss", "write"} :
                              faults' = [faults EXCEPT ![k] = @ + 1]
    BY <1>2 DEF Next, BeginAppend, WriteTraceHead, WriteTraceHeadFails, WriteLine,
                WriteLineFails, Crash, LoseHead, Fault, vars
  <2>2. faults'.powercut = faults.powercut
    BY <1>1, <2>1
  <2>3. QED
    BY <2>2 DEF NoPowerCut
<1> USE <1>3
<1>4. ASSUME NEW t \in Threads, BeginAppend(t) PROVE Newest' /\ LossMarked'
  <2>1. \A u \in Threads : pc[u] = "idle"
    BY <1>4, ThreadsAssumption DEF BeginAppend, IInv, HolderOnly
  <2>2. /\ \A u \in Threads : pc'[u] = IF u = t THEN "linked" ELSE "idle"
        /\ UNCHANGED <<file, head, lost>>
        /\ built' = built + 1
    BY <1>4, <2>1 DEF BeginAppend, TypeOK
  <2>3. /\ line'[t].seq = NextTraceLink(head, file).seq
        /\ line'[t].prev = NextTraceLink(head, file).prev
        /\ line'[t].note = NextTraceLink(head, file).note
        /\ line'[t].hash = built + 1
        /\ line'[t].kind # "partial"
    BY <1>4, BeginAppendLine
  <2>4. NextTraceLink(head, file).seq > 0
    BY LinkAhead DEF TypeOK, IInv, SeqNeverReused, HeadNeverBehind
  <2>5. Newest'
    <3>1. /\ built \in Nat
          /\ \A i \in 1..Len(file) : file[i].hash \in Int /\ file[i].hash <= built
          /\ \A l \in lost : l \in Int /\ l <= built
      BY Hashes DEF Newest
    <3>2. /\ \A i \in 1..Len(file) : file[i].hash < built + 1 /\ file[i].hash <= built + 1
          /\ \A l \in lost : l < built + 1 /\ l <= built + 1
          /\ 0 < built + 1 /\ built + 1 <= built + 1
      BY <3>1
    <3>3. QED
      BY <2>2, <2>3, <2>4, <3>2 DEF Newest
  <2>6. NextIsMarked => NextIsMarked'
    <3>1. SUFFICES ASSUME NextIsMarked
                   PROVE  \/ NextTraceLink(head, file).note # "none"
                          \/ NextTraceLink(head, file).prev # Last.hash
      BY <2>1, <2>2, <2>3 DEF NextIsMarked, Last
    <3>2. CASE head # NoHead
      BY <2>1, <3>1, <3>2 DEF NextIsMarked, NextTraceLink
    <3>3. CASE head = NoHead
      BY <3>1, <3>3 DEF NextIsMarked, NextTraceLink
    <3>4. QED
      BY <3>2, <3>3
  <2>7. /\ \A l : Before(l)' = Before(l) /\ After(l)' = After(l)
        /\ \A i : Marked(i)' = Marked(i)
        /\ Len(file') = Len(file)
    BY <2>2 DEF Before, After, Marked
  <2>8. LossMarked'
    BY <2>2, <2>6, <2>7 DEF LossMarked
  <2>9. QED
    BY <2>5, <2>8
<1>5. ASSUME NEW t \in Threads, WriteTraceHead(t) PROVE Newest' /\ LossMarked'
  <2>1. pc'[t] = "headed" /\ \A u \in Threads : pc'[u] # "idle" => pc[u] # "idle"
    BY <1>5 DEF WriteTraceHead, TypeOK
  <2>2. UNCHANGED <<file, line, lost, built>>
    BY <1>5 DEF WriteTraceHead
  <2>3. QED
    BY <2>1, <2>2, FileUntouched
<1>6. ASSUME NEW t \in Threads, WriteTraceHeadFails(t) PROVE Newest' /\ LossMarked'
  <2>1. /\ \A u \in Threads : pc[u] # "headed" /\ pc'[u] = "idle"
        /\ UNCHANGED <<file, head, lost, built>>
    BY <1>6, OthersIdle DEF WriteTraceHeadFails, EndAppend, TypeOK, IInv
  <2>2. QED
    BY <2>1, FileUntouched
<1>7. ASSUME NEW t \in Threads, WriteLine(t) PROVE Newest' /\ LossMarked'
  <2>1. \A u \in Threads : pc'[u] = "idle"
    BY <1>7, OthersIdle DEF WriteLine, EndAppend, TypeOK, IInv
  <2>2. QED
    BY <1>7, <2>1, WriteLands DEF WriteLine
<1>8. ASSUME NEW t \in Threads, WriteLineFails(t) PROVE Newest' /\ LossMarked'
  <2>1. \A u \in Threads : pc'[u] = "idle"
    BY <1>8, OthersIdle DEF WriteLineFails, EndAppend, TypeOK, IInv
  <2>2. QED
    BY <1>8, <2>1, WriteInterrupted DEF WriteLineFails
<1>9. CASE Crash
  <2>1. \A u \in Threads : pc'[u] = "idle"
    BY <1>9 DEF Crash, Restart
  <2>2. head' = head /\ built' = built
    BY <1>9 DEF Crash
  <2>3. CASE \E t \in Threads : pc[t] = "headed"
    <3>1. PICK t \in Threads : pc[t] = "headed" /\ Interrupted(t)
      BY <1>9, <2>3 DEF Crash
    <3>2. QED
      BY <2>1, <2>2, <3>1, WriteInterrupted
  <2>4. CASE ~ \E t \in Threads : pc[t] = "headed"
    <3>1. UNCHANGED <<file, lost>>
      BY <1>9, <2>4 DEF Crash
    <3>2. QED
      BY <2>1, <2>2, <2>4, <3>1, FileUntouched
  <2>5. QED
    BY <2>3, <2>4
<1>10. CASE LoseHead
  BY <1>10, FileUntouched DEF LoseHead
<1>11. CASE UNCHANGED vars
  <2>1. UNCHANGED <<file, head, pc, line, lost, built>>
    BY <1>11 DEF vars
  <2>2. QED
    BY <2>1 DEF Newest, LossMarked, Before, After, Marked, NextIsMarked, Last
<1>12. QED
  BY <1>2, <1>4, <1>5, <1>6, <1>7, <1>8, <1>9, <1>10, <1>11 DEF Next

\* Nothing is lost before the first append.
LEMMA LossMarkedInitially == Init => NoPowerCut
<1> SUFFICES ASSUME Init PROVE Newest /\ LossMarked
  BY DEF NoPowerCut
<1>1. PICK n \in V1Lengths : file = [i \in 1..n |-> V1Line(i)] /\ built = n
  BY DEF Init
<1>2. n \in Nat
  BY BoundsAssumption
<1>3. Len(file) = n /\ \A i \in 1..Len(file) : file[i].hash <= built
  BY <1>1, <1>2 DEF V1Line
<1>4. QED
  BY <1>3 DEF Init, Newest, LossMarked

\* NoSilentLoss: kills, failed writes and lost heads, in any order and number and among
\* any threads, never leave a hole between two survivors that the walk calls clean.
THEOREM NoSilentLossAlways == Spec => []NoSilentLoss
<1>1. TypeOK /\ TypeOK' /\ IInv /\ NoPowerCut /\ [Next]_vars => NoPowerCut'
  BY LossMarkedStep
<1>2. TypeOK /\ NoPowerCut => NoSilentLoss
  <2>1. SUFFICES ASSUME TypeOK, Newest, LossMarked, Holes # {} PROVE Walk(file, newline) # 0
    BY DEF NoPowerCut, NoSilentLoss
  <2>2. PICK l \in lost : Before(l) /\ After(l)
    BY <2>1 DEF Holes, Before, After
  <2>3. PICK i \in 1..Len(file) : Marked(i)
    BY <2>1, <2>2 DEF LossMarked
  <2>4. QED
    BY <2>1, <2>3, MarkedShows
<1>3. QED
  BY <1>1, <1>2, LossMarkedInitially, IInvAlways, TypeCorrect, PTL DEF Spec
=============================================================================
