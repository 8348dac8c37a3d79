---------------------------- MODULE EvidenceLog ----------------------------
(***************************************************************************)
(* What a hash-linked evidence log promises, whoever writes it and however *)
(* many of them there are: it only grows, one entry at a time, and every   *)
(* entry names the hash of the entry before it.                            *)
(***************************************************************************)
EXTENDS Integers, Sequences

CONSTANT Genesis   \* sixty-four zeros, the chain_prev of the first entry

VARIABLE log

TailHash(l) == IF l = <<>> THEN Genesis ELSE l[Len(l)].chain_hash

Hashes(l) == {l[i].chain_hash : i \in 1..Len(l)}

\* e continues l: it is linked to the tail and no entry has its hash.
Extends(l, e) ==
  /\ e.chain_prev = TailHash(l)
  /\ e.chain_hash \notin Hashes(l) \cup {Genesis}

Init == log = <<>>

Add ==
  /\ Len(log') = Len(log) + 1
  /\ \A i \in 1..Len(log) : log'[i] = log[i]
  /\ Extends(log, log'[Len(log) + 1])

Spec == Init /\ [][Add]_log

\* The link check of verify_audit_bundle: a reader walking l finds no break.
Linked(l) ==
  \A i \in 1..Len(l) : l[i].chain_prev = TailHash(SubSeq(l, 1, i - 1))
=============================================================================
