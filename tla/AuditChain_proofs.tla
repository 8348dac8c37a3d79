------------------------- MODULE AuditChain_proofs -------------------------
(***************************************************************************)
(* For every number of threads and entries: the audit chain never forks,   *)
(* it implements the atomic evidence log, and a bundle signed while        *)
(* entries are being appended verifies.                                    *)
(*                                                                         *)
(* The link is read in one step and stored in another, so the chain's      *)
(* linkedness is not inductive: IInv adds that whoever has read the tail   *)
(* holds the lock, hence that the tail has not moved since.                *)
(***************************************************************************)
EXTENDS AuditChain, TLAPS, SequenceTheorems

\* A thread inside append holds the lock.
HolderOnly == \A t \in Threads : pc[t] = "hashed" => lock = t

\* Its entry still continues the chain: the tail it read is the tail, and no entry
\* built before it has its hash.
PendingExtends ==
  \A t \in Threads : pc[t] = "hashed" =>
    /\ entry[t].chain_hash \in 1..built
    /\ Log!Extends(entries, entry[t])

\* Every stored hash was built.
HashesBuilt == \A i \in 1..Len(entries) : entries[i].chain_hash \in 1..built

\* es is the beginning of the chain, and at least n entries long.
Beginning(es, n) ==
  /\ Len(es) <= Len(entries)
  /\ \A i \in 1..Len(es) : es[i] = entries[i]
  /\ n <= Len(entries)

\* The copy under way and the bundle signed are beginnings of the chain.
CopiesAreBeginnings ==
  /\ export.running => Beginning(export.entries, export.entry_count)
  /\ Beginning(bundle.entries, bundle.entry_count)
  /\ bundle.entry_count <= Len(bundle.entries)

\* Every entry names the hash of the entry before it (Linked, without SubSeq).
Chained ==
  \A i \in 1..Len(entries) :
    entries[i].chain_prev = IF i = 1 THEN Genesis ELSE entries[i - 1].chain_hash

IInv == HolderOnly /\ PendingExtends /\ HashesBuilt /\ CopiesAreBeginnings /\ Chained

-----------------------------------------------------------------------------
\* Linked, pointwise: the tail of a prefix is the entry before it.
LEMMA LinkedPointwise ==
  ASSUME NEW es \in Seq(Entries)
  PROVE  Log!Linked(es) <=>
           \A i \in 1..Len(es) :
             es[i].chain_prev = IF i = 1 THEN Genesis ELSE es[i - 1].chain_hash
<1>1. SUFFICES ASSUME NEW i \in 1..Len(es)
               PROVE  Log!TailHash(SubSeq(es, 1, i - 1))
                        = IF i = 1 THEN Genesis ELSE es[i - 1].chain_hash
  BY DEF Log!Linked
<1>2. CASE i = 1
  BY <1>2, SubSeqEmpty DEF Log!TailHash
<1>3. CASE i # 1
  <2>1. /\ SubSeq(es, 1, i - 1) \in Seq(Entries)
        /\ Len(SubSeq(es, 1, i - 1)) = i - 1
        /\ SubSeq(es, 1, i - 1)[i - 1] = es[i - 1]
    BY <1>3, SubSeqProperties
  <2> QED
    BY <1>3, <2>1 DEF Log!TailHash
<1> QED
  BY <1>2, <1>3

\* The code's tail and the abstract log's tail are the same.
LEMMA SameTail == TailHash(entries) = Log!TailHash(entries)
BY DEF TailHash, Log!TailHash

-----------------------------------------------------------------------------
\* Every variable keeps its type (AuditChain, its lock and its export).
THEOREM TypeCorrect == Spec => []TypeOK
<1>1. Init => TypeOK
  BY ThreadsAssumption DEF Init, TypeOK, Entries, NoEntry, NoExport
<1>2. TypeOK /\ [Next]_vars => TypeOK'
  <2> SUFFICES ASSUME TypeOK, [Next]_vars PROVE TypeOK'
    OBVIOUS
  <2> USE DEF TypeOK
  <2>1. ASSUME NEW t \in Threads, LinkEntry(t) PROVE TypeOK'
    <3>1. TailHash(entries) \in Nat
      <4>1. CASE entries = <<>>
        BY <4>1 DEF TailHash, Genesis
      <4>2. CASE entries # <<>>
        <5>1. entries[Len(entries)] \in Entries
          BY <4>2, EmptySeq
        <5> QED
          BY <4>2, <5>1 DEF TailHash, Entries
      <4> QED
        BY <4>1, <4>2
    <3> QED
      BY <2>1, <3>1 DEF LinkEntry, Entries
  <2>2. ASSUME NEW t \in Threads, Store(t) PROVE TypeOK'
    <3>1. entries' \in Seq(Entries)
      BY <2>2, AppendProperties DEF Store
    <3> QED
      BY <2>2, <3>1 DEF Store, Release, Entries, NoEntry
  <2>3. ASSUME NEW t \in Threads, AppendRaises(t) PROVE TypeOK'
    BY <2>3 DEF AppendRaises, Release, Entries, NoEntry
  <2>4. CASE CountEntries
    BY <2>4 DEF CountEntries
  <2>5. CASE CopyEntry
    <3>1. entries[Len(export.entries) + 1] \in Entries
      BY <2>5 DEF CopyEntry
    <3>2. Append(export.entries, entries[Len(export.entries) + 1]) \in Seq(Entries)
      BY <3>1, AppendProperties
    <3>3. export' \in [running : BOOLEAN, entry_count : Nat, entries : Seq(Entries)]
      BY <2>5, <3>2 DEF CopyEntry
    <3> QED
      BY <2>5, <3>3 DEF CopyEntry
  <2>6. CASE SignBundle
    BY <2>6 DEF SignBundle, NoExport
  <2>7. CASE UNCHANGED vars
    BY <2>7 DEF vars
  <2> QED
    BY <2>1, <2>2, <2>3, <2>4, <2>5, <2>6, <2>7 DEF Next
<1> QED
  BY <1>1, <1>2, PTL DEF Spec

\* A step keeps every conjunct of the inductive invariant.
LEMMA StepKeepsIInv == TypeOK /\ IInv /\ [Next]_vars => IInv'
<1> SUFFICES ASSUME TypeOK, IInv, [Next]_vars PROVE IInv'
  OBVIOUS
<1> USE DEF TypeOK, IInv
<1>1. ASSUME NEW t \in Threads, LinkEntry(t) PROVE IInv'
  <2>1. HolderOnly'
    BY <1>1, ThreadsAssumption DEF LinkEntry, HolderOnly
  <2>2. PendingExtends'
    <3>1. SUFFICES ASSUME NEW u \in Threads, pc'[u] = "hashed"
                   PROVE  /\ entry'[u].chain_hash \in 1..built'
                          /\ Log!Extends(entries, entry'[u])
      BY <1>1 DEF PendingExtends, LinkEntry, Log!Extends, Log!TailHash, Log!Hashes
    <3>2. u = t
      BY <1>1, <3>1, ThreadsAssumption DEF LinkEntry, HolderOnly
    <3>3. entry'[u] = [chain_hash |-> built + 1, chain_prev |-> TailHash(entries)]
      BY <1>1, <3>2 DEF LinkEntry
    <3>4. built + 1 \notin Log!Hashes(entries) \cup {Genesis}
      BY DEF HashesBuilt, Log!Hashes, Genesis
    <3> QED
      BY <1>1, <3>3, <3>4, SameTail DEF Log!Extends, LinkEntry
  <2>3. HashesBuilt'
    BY <1>1 DEF LinkEntry, HashesBuilt
  <2>4. CopiesAreBeginnings' /\ Chained'
    BY <1>1 DEF LinkEntry, CopiesAreBeginnings, Beginning, Chained
  <2> QED
    BY <2>1, <2>2, <2>3, <2>4
<1>2. ASSUME NEW t \in Threads, Store(t) PROVE IInv'
  <2>1. /\ entries' \in Seq(Entries)
        /\ Len(entries') = Len(entries) + 1
        /\ \A i \in 1..Len(entries) : entries'[i] = entries[i]
        /\ entries'[Len(entries) + 1] = entry[t]
    BY <1>2, AppendProperties DEF Store
  <2>2. \A u \in Threads : pc'[u] # "hashed"
    BY <1>2, ThreadsAssumption DEF Store, Release, HolderOnly
  <2>3. HolderOnly' /\ PendingExtends'
    BY <2>2 DEF HolderOnly, PendingExtends
  <2>4. HashesBuilt'
    BY <1>2, <2>1 DEF Store, HashesBuilt, PendingExtends
  <2>5. CopiesAreBeginnings'
    BY <1>2, <2>1 DEF Store, CopiesAreBeginnings, Beginning
  <2>6. Chained'
    <3>1. SUFFICES ASSUME NEW i \in 1..Len(entries)+1
                   PROVE  entries'[i].chain_prev =
                            IF i = 1 THEN Genesis ELSE entries'[i - 1].chain_hash
      BY <2>1 DEF Chained
    <3>2. CASE i \in 1..Len(entries)
      <4>1. entries'[i] = entries[i] /\ (i # 1 => entries'[i - 1] = entries[i - 1])
        <5>1. Len(entries) \in Nat
          BY LenProperties
        <5>2. i # 1 => i - 1 \in 1..Len(entries)
          BY <3>2, <5>1
        <5> HIDE DEF TypeOK, IInv
        <5> QED
          BY <2>1, <3>2, <5>2, Zenon
      <4>2. entries[i].chain_prev = IF i = 1 THEN Genesis ELSE entries[i - 1].chain_hash
        BY <3>2 DEF Chained
      <4> QED
        BY <4>1, <4>2
    <3>3. CASE i = Len(entries) + 1
      <4>1. entry[t].chain_prev = TailHash(entries)
        BY <1>2, SameTail DEF Store, PendingExtends, Log!Extends
      <4>2. CASE entries = <<>>
        BY <2>1, <3>3, <4>1, <4>2 DEF TailHash
      <4>3. CASE entries # <<>>
        <5>1. Len(entries) \in Nat \ {0}
          BY <4>3, EmptySeq
        <5> QED
          BY <2>1, <3>3, <4>1, <4>3, <5>1 DEF TailHash
      <4> QED
        BY <4>2, <4>3
    <3> QED
      BY <3>1, <3>2, <3>3
  <2> QED
    BY <2>3, <2>4, <2>5, <2>6
<1>3. ASSUME NEW t \in Threads, AppendRaises(t) PROVE IInv'
  <2>1. \A u \in Threads : pc'[u] # "hashed"
    BY <1>3, ThreadsAssumption DEF AppendRaises, Release, HolderOnly
  <2> QED
    BY <1>3, <2>1 DEF AppendRaises, HolderOnly, PendingExtends, HashesBuilt,
                      CopiesAreBeginnings, Beginning, Chained
<1>4. CASE CountEntries
  <2>1. CopiesAreBeginnings'
    BY <1>4 DEF CountEntries, CopiesAreBeginnings, Beginning
  <2> QED
    BY <1>4, <2>1 DEF CountEntries, HolderOnly, PendingExtends, HashesBuilt, Chained,
                      Log!Extends, Log!TailHash, Log!Hashes
<1>5. CASE CopyEntry
  <2>1. entries[Len(export.entries) + 1] \in Entries
    BY <1>5 DEF CopyEntry
  <2>2. /\ export'.running
        /\ export'.entry_count = export.entry_count
        /\ export'.entries = Append(export.entries, entries[Len(export.entries) + 1])
    BY <1>5 DEF CopyEntry
  <2>3. /\ Len(export'.entries) = Len(export.entries) + 1
        /\ \A i \in 1..Len(export.entries) : export'.entries[i] = export.entries[i]
        /\ export'.entries[Len(export.entries) + 1] = entries[Len(export.entries) + 1]
    BY <2>1, <2>2, AppendProperties
  <2>4. CopiesAreBeginnings'
    BY <1>5, <2>2, <2>3 DEF CopyEntry, CopiesAreBeginnings, Beginning
  <2> QED
    BY <1>5, <2>4 DEF CopyEntry, HolderOnly, PendingExtends, HashesBuilt, Chained,
                      Log!Extends, Log!TailHash, Log!Hashes
<1>6. CASE SignBundle
  <2>1. CopiesAreBeginnings'
    BY <1>6 DEF SignBundle, CopiesAreBeginnings, Beginning, NoExport
  <2> QED
    BY <1>6, <2>1 DEF SignBundle, HolderOnly, PendingExtends, HashesBuilt, Chained,
                      Log!Extends, Log!TailHash, Log!Hashes
<1>7. CASE UNCHANGED vars
  BY <1>7 DEF vars, HolderOnly, PendingExtends, HashesBuilt, CopiesAreBeginnings,
              Beginning, Chained, Log!Extends, Log!TailHash, Log!Hashes
<1> QED
  BY <1>1, <1>2, <1>3, <1>4, <1>5, <1>6, <1>7 DEF Next

\* The invariant holds throughout.
LEMMA IInvAlways == Spec => []IInv
<1>1. Init => IInv
  BY DEF Init, IInv, HolderOnly, PendingExtends, HashesBuilt, CopiesAreBeginnings,
         Beginning, Chained, NoExport
<1> QED
  BY <1>1, StepKeepsIInv, TypeCorrect, PTL DEF Spec

\* Two threads never link to the same predecessor (AuditChain.append).
THEOREM ChainNeverForksAlways == Spec => []ChainNeverForks
<1>1. TypeOK /\ IInv => ChainNeverForks
  BY LinkedPointwise DEF TypeOK, IInv, Chained, ChainNeverForks, verify_audit_bundle
<1> QED
  BY <1>1, IInvAlways, TypeCorrect, PTL

\* A bundle signed while entries are appended verifies offline (export_signed).
THEOREM BundleVerifiesAlways == Spec => []BundleVerifies
<1>1. TypeOK /\ IInv => BundleVerifies
  <2> SUFFICES ASSUME TypeOK, IInv PROVE BundleVerifies
    OBVIOUS
  <2> DEFINE b == bundle.entries
  <2>1. /\ b \in Seq(Entries) /\ entries \in Seq(Entries)
        /\ Len(b) \in 0..Len(entries)
        /\ \A i \in 1..Len(b) : b[i] = entries[i]
        /\ bundle.entry_count <= Len(b)
    BY DEF TypeOK, IInv, CopiesAreBeginnings, Beginning
  <2>2. verify_audit_bundle(b)
    <3>1. \A i \in 1..Len(b) : b[i].chain_prev = IF i = 1 THEN Genesis ELSE b[i - 1].chain_hash
      BY <2>1 DEF IInv, Chained
    <3> QED
      BY <2>1, <3>1, LinkedPointwise DEF verify_audit_bundle
  <2>3. b = SubSeq(entries, 1, Len(b))
    <3>1. /\ SubSeq(entries, 1, Len(b)) \in Seq(Entries)
          /\ Len(SubSeq(entries, 1, Len(b))) = Len(b)
          /\ \A i \in 1..Len(b) : SubSeq(entries, 1, Len(b))[i] = entries[i]
      BY <2>1, SubSeqProperties
    <3> QED
      BY <2>1, <3>1, SeqEqual
  <2> QED
    BY <2>1, <2>2, <2>3 DEF BundleVerifies
<1> QED
  BY <1>1, IInvAlways, TypeCorrect, PTL

\* Read, hash and store under the lock are one atomic append of the evidence log.
THEOREM ImplementsEvidenceLog == Spec => ImplementsLog
<1>1. Init => Log!Init
  BY DEF Init, Log!Init
<1>2. TypeOK /\ IInv /\ [Next]_vars => [Log!Add]_entries
  <2> SUFFICES ASSUME TypeOK, IInv, Next PROVE Log!Add \/ entries' = entries
    BY DEF vars
  <2>1. ASSUME NEW t \in Threads, Store(t) PROVE Log!Add
    <3>1. /\ Len(entries') = Len(entries) + 1
          /\ \A i \in 1..Len(entries) : entries'[i] = entries[i]
          /\ entries'[Len(entries) + 1] = entry[t]
      BY <2>1, AppendProperties DEF Store, TypeOK
    <3>2. Log!Extends(entries, entry[t])
      BY <2>1 DEF Store, IInv, PendingExtends
    <3> QED
      BY <3>1, <3>2 DEF Log!Add
  <2> QED
    BY <2>1 DEF Next, LinkEntry, AppendRaises, CountEntries, CopyEntry, SignBundle
<1> QED
  BY <1>1, <1>2, IInvAlways, TypeCorrect, PTL DEF Spec, ImplementsLog, Log!Spec
=============================================================================
