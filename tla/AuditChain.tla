----------------------------- MODULE AuditChain -----------------------------
(***************************************************************************)
(* cert/audit.py: the in-memory audit chain of one gateway process, the    *)
(* worker threads that append to it and the export that signs a copy of it *)
(* while they do.                                                          *)
(*                                                                         *)
(* append reads the tail hash, hashes the entry and stores it, under       *)
(* AuditChain._lock; export_signed takes no lock.  An entry's sha256 is a  *)
(* number, fresh for every entry built; what the entry says is left out.   *)
(***************************************************************************)
EXTENDS Integers, Sequences

CONSTANTS
  Threads,     \* the worker threads that append
  NoThread,    \* the lock is free
  MaxEntries   \* bound: entries ever built

ASSUME ThreadsAssumption == NoThread \notin Threads
ASSUME MaxEntriesAssumption == MaxEntries \in Nat

VARIABLES
  entries,   \* self.entries
  lock,      \* the holder of self._lock
  pc,        \* "idle", or "hashed": inside append with its entry linked and hashed
  entry,     \* the entry each thread is about to store
  built,     \* how many entries have been built so far
  export,    \* where export_signed is: its entry_count and the entries copied
  bundle     \* the last bundle signed

vars == <<entries, lock, pc, entry, built, export, bundle>>

Genesis == 0
NoEntry == [chain_hash |-> 0, chain_prev |-> 0]
NoExport == [running |-> FALSE, entry_count |-> 0, entries |-> <<>>]

Entries == [chain_hash : Nat, chain_prev : Nat]

Log == INSTANCE EvidenceLog WITH log <- entries

-----------------------------------------------------------------------------
Init ==
  /\ entries = <<>>
  /\ lock = NoThread
  /\ pc = [t \in Threads |-> "idle"]
  /\ entry = [t \in Threads |-> NoEntry]
  /\ built = 0
  /\ export = NoExport
  /\ bundle = [entry_count |-> 0, entries |-> <<>>]

\* The chain_prev of the next entry.
TailHash(es) == IF es = <<>> THEN Genesis ELSE es[Len(es)].chain_hash

\* LinkEntry as it was before the lock.
LinkEntryUnlocked(t) ==
  /\ pc[t] = "idle"
  /\ built < MaxEntries
  /\ lock' = t
  /\ built' = built + 1
  /\ entry' = [entry EXCEPT ![t] = [chain_hash |-> built + 1, chain_prev |-> TailHash(entries)]]
  /\ pc' = [pc EXCEPT ![t] = "hashed"]
  /\ UNCHANGED <<entries, export, bundle>>

\* append, up to the hash: the lock is taken and the tail is read.
LinkEntry(t) ==
  /\ pc[t] = "idle"
  /\ lock = NoThread
  /\ built < MaxEntries
  /\ lock' = t
  /\ built' = built + 1
  /\ entry' = [entry EXCEPT ![t] = [chain_hash |-> built + 1, chain_prev |-> TailHash(entries)]]
  /\ pc' = [pc EXCEPT ![t] = "hashed"]
  /\ UNCHANGED <<entries, export, bundle>>

Release(t) ==
  /\ lock' = NoThread
  /\ pc' = [pc EXCEPT ![t] = "idle"]
  /\ entry' = [entry EXCEPT ![t] = NoEntry]

\* Store on a chain that forgets its oldest entry to stay small.
StoreEvicting(t) ==
  /\ pc[t] = "hashed"
  /\ entries' = Append(IF Len(entries) >= 2 THEN Tail(entries) ELSE entries, entry[t])
  /\ Release(t)
  /\ UNCHANGED <<built, export, bundle>>

\* append stores the entry and returns it, releasing the lock.
Store(t) ==
  /\ pc[t] = "hashed"
  /\ entries' = Append(entries, entry[t])
  /\ Release(t)
  /\ UNCHANGED <<built, export, bundle>>

\* Canonicalising the entry raises (a field that does not serialise): the lock is
\* released by the with statement and nothing is stored.
AppendRaises(t) ==
  /\ pc[t] = "hashed"
  /\ Release(t)
  /\ UNCHANGED <<entries, built, export, bundle>>

\* export_signed reads len(self.entries) ...
CountEntries ==
  /\ ~export.running
  /\ export' = [running |-> TRUE, entry_count |-> Len(entries), entries |-> <<>>]
  /\ UNCHANGED <<entries, lock, pc, entry, built, bundle>>

\* ... then iterates over the live list: an entry stored meanwhile is copied too.
CopyEntry ==
  /\ export.running
  /\ Len(export.entries) < Len(entries)
  /\ export' = [export EXCEPT !.entries = Append(@, entries[Len(@) + 1])]
  /\ UNCHANGED <<entries, lock, pc, entry, built, bundle>>

\* The iterator has reached the end of the list; the body is signed.
SignBundle ==
  /\ export.running
  /\ Len(export.entries) >= Len(entries)
  /\ bundle' = [entry_count |-> export.entry_count, entries |-> export.entries]
  /\ export' = NoExport
  /\ UNCHANGED <<entries, lock, pc, entry, built>>

Next ==
  \/ \E t \in Threads : LinkEntry(t) \/ Store(t) \/ AppendRaises(t)
  \/ CountEntries \/ CopyEntry \/ SignBundle

Spec == Init /\ [][Next]_vars

-----------------------------------------------------------------------------
\* Entries, copies and bundles hold AuditEntry records whose chain_prev and chain_hash
\* are filled in.
TypeOK ==
  /\ entries \in Seq(Entries)
  /\ lock \in Threads \cup {NoThread}
  /\ pc \in [Threads -> {"idle", "hashed"}]
  /\ entry \in [Threads -> Entries]
  /\ built \in Nat
  /\ export \in [running : BOOLEAN, entry_count : Nat, entries : Seq(Entries)]
  /\ bundle \in [entry_count : Nat, entries : Seq(Entries)]

\* verify_audit_bundle's walk over a list of entries.
verify_audit_bundle(es) == Log!Linked(es)

\* However the threads interleave, the chain never forks: every chain_prev is the
\* chain_hash of the entry before it ("their ORDER stopped being provable").
ChainNeverForks == verify_audit_bundle(entries)

\* A bundle signed while entries were being appended still verifies offline, is
\* the beginning of the chain, and misses no entry that was counted.
BundleVerifies ==
  /\ verify_audit_bundle(bundle.entries)
  /\ Len(bundle.entries) <= Len(entries)
  /\ bundle.entries = SubSeq(entries, 1, Len(bundle.entries))
  /\ bundle.entry_count <= Len(bundle.entries)

\* The threaded chain implements the atomic evidence log.
ImplementsLog == Log!Spec
=============================================================================
