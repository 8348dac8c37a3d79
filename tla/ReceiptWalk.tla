---------------------------- MODULE ReceiptWalk ----------------------------
(***************************************************************************)
(* What scripts/verify_receipt.py --walk answers about an export: the      *)
(* integrity failures and the named findings of a sequence of lines, and   *)
(* the exit code.  The walk needs no key and reads nothing but the file.   *)
(*                                                                         *)
(* f is the sequence of non-empty lines, records with the fields hash,     *)
(* seq (0: none), prev, note, kind and corr; nl says whether the file      *)
(* ends with a newline.  A line of kind "partial" does not parse.          *)
(***************************************************************************)
EXTENDS Integers, Sequences, FiniteSets, FiniteSetsExt

GENESIS_CHAIN_PREV == 0

\* The positions among the first n lines of f whose seq can be read.
Numbered(f, n) == {i \in 1..n : f[i].seq > 0}

\* The seq the walk expects at line i, once some line before it was numbered.
ExpectedSeq(f, i) == f[Max(Numbered(f, i - 1))].seq + 1

\* A last line with no newline after it that does not parse is a finding; a line
\* that does not parse anywhere else is a failure.
PartialTail(f, nl) == f # <<>> /\ ~nl /\ f[Len(f)].kind = "partial"

NotJson(f, nl) ==
  {i \in 1..Len(f) : f[i].kind = "partial" /\ ~(PartialTail(f, nl) /\ i = Len(f))}

\* No seq, after an earlier line carried one.
NumberingStops(f) ==
  {i \in 1..Len(f) : f[i].kind # "partial" /\ f[i].seq = 0 /\ Numbered(f, i - 1) # {}}

Gaps(f) ==
  {i \in 1..Len(f) : /\ f[i].seq > 0
                     /\ Numbered(f, i - 1) # {}
                     /\ f[i].seq # ExpectedSeq(f, i)}

ChainBreaks(f) ==
  {i \in 2..Len(f) : f[i].seq > 0 /\ f[i].prev # f[i - 1].hash}

Failures(f, nl) == NotJson(f, nl) \cup NumberingStops(f) \cup Gaps(f) \cup ChainBreaks(f)

\* Unnumbered lines ahead of the first numbered one.
UnnumberedHistory(f) ==
  {i \in 1..Len(f) : f[i].kind # "partial" /\ f[i].seq = 0 /\ Numbered(f, i - 1) = {}}

\* Intents that no outcome in the file answers.
NeverReported(f) ==
  {i \in 1..Len(f) : /\ f[i].kind = "intent"
                     /\ \A j \in 1..Len(f) : f[j].kind = "outcome" => f[j].corr # f[i].corr}

\* Lines the walk names for a person to read.
Findings(f, nl) ==
  {i \in 1..Len(f) :
     \/ f[i].note # "none"
     \/ i = 1 /\ f[i].seq > 0 /\ f[i].prev # GENESIS_CHAIN_PREV
     \/ i = Len(f) /\ PartialTail(f, nl)}
  \cup UnnumberedHistory(f) \cup NeverReported(f)

\* 1: this file is not whole.  3: named findings a person has to read.  0: clean.
Walk(f, nl) ==
  IF Failures(f, nl) # {} THEN 1 ELSE IF Findings(f, nl) # {} THEN 3 ELSE 0
=============================================================================
