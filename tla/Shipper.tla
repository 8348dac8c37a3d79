------------------------------ MODULE Shipper ------------------------------
(***************************************************************************)
(* shipper.py: the sidecar that tails the exported file and posts each     *)
(* complete line, keeping its place in an offset file.                     *)
(*                                                                         *)
(* A byte of the export names the line it belongs to and says whether it   *)
(* is a newline.  A line is two bytes; the gateway may die between them,   *)
(* and its next append closes the torn line with a newline first.  Odd     *)
(* lines are intents, even ones outcomes, and a torn line is neither: it   *)
(* does not parse.  The offset file is written in place: opening it empties *)
(* it, and an empty offset file is read as zero.                           *)
(***************************************************************************)
EXTENDS Integers, Sequences

CONSTANTS
  Empty,       \* the offset file has been truncated and not yet written
  ShipIntents, \* PLATATLAS_SHIP_INTENTS
  CanCut,      \* whether the export may be cut
  MaxLines,    \* bound on the lines the gateway writes
  MaxFaults    \* bound on crashes and failed offset writes

ASSUME ShipperAssumption ==
  /\ Empty \notin Nat
  /\ ShipIntents \in BOOLEAN /\ CanCut \in BOOLEAN
  /\ MaxLines \in Nat /\ MaxFaults \in Nat

VARIABLES
  file,     \* the export's bytes
  offset,   \* the offset file
  remote,   \* the set of lines the ingest holds
  pc,       \* the shipper: idle, checked, reading, save, saving or stopped
  pos,      \* its local position, in bytes
  lines,    \* history: how many lines the gateway has begun
  acked,    \* history: the highest offset ever written
  cut,      \* history: the export has been cut
  faults    \* history: the faults so far

vars == <<file, offset, remote, pc, pos, lines, acked, cut, faults>>
gateway == <<file, lines, cut>>

Byte == [line : 0..MaxLines, nl : BOOLEAN]
Kind(i) == IF i % 2 = 1 THEN "intent" ELSE "outcome"
Whole(i) == <<[line |-> i, nl |-> FALSE], [line |-> i, nl |-> TRUE]>>
Newline == <<[line |-> 0, nl |-> TRUE]>>

IsPartial == file # << >> /\ ~file[Len(file)].nl

\* The ends of the complete lines that start at p or later.
Ends(p) == {n \in p + 1 .. Len(file) : file[n].nl}

\* readline at p, when the line is complete: where it ends, and its bytes.
LineEnd(p) == CHOOSE n \in Ends(p) : \A m \in Ends(p) : n <= m
Line(p) == SubSeq(file, p + 1, LineEnd(p))

\* Only a line that says it is an intent counts; one that does not parse does not.
_is_intent_line(line) == \E i \in 1..MaxLines : Kind(i) = "intent" /\ line = Whole(i)
Kept(line) == ~ShipIntents /\ _is_intent_line(line)

_read_offset == IF offset = Empty THEN 0 ELSE offset

-----------------------------------------------------------------------------
(* The gateway and the operator *)

Init ==
  /\ file = << >> /\ offset = 0 /\ remote = {} /\ pc = "idle" /\ pos = 0
  /\ lines = 0 /\ acked = 0 /\ cut = FALSE /\ faults = 0

\* append_trace_line begins a line, closing one that a crash left open.
BeginLine ==
  /\ lines < MaxLines
  /\ lines' = lines + 1
  /\ file' = file \o (IF IsPartial THEN Newline ELSE << >>)
                  \o <<[line |-> lines + 1, nl |-> FALSE]>>
  /\ UNCHANGED <<offset, remote, pc, pos, acked, cut, faults>>

EndLine ==
  /\ IsPartial
  /\ file' = file \o <<[line |-> file[Len(file)].line, nl |-> TRUE]>>
  /\ UNCHANGED <<offset, remote, pc, pos, lines, acked, cut, faults>>

\* The export is truncated, rotated or edited while the shipper does not read it.
Cut ==
  /\ CanCut
  /\ pc \in {"idle", "checked"}
  /\ \E n \in 0 .. Len(file) - 1 : file' = SubSeq(file, 1, n)
  /\ cut' = TRUE
  /\ UNCHANGED <<offset, remote, pc, pos, lines, acked, faults>>

-----------------------------------------------------------------------------
(* ship_once *)

\* Read the offset and the size: past the end of the file the shipper stops for good.
ReadOffset ==
  /\ pc = "idle"
  /\ pos' = _read_offset
  /\ pc' = IF _read_offset > Len(file) THEN "stopped" ELSE "checked"
  /\ UNCHANGED <<gateway, offset, remote, acked, faults>>

Open ==
  /\ pc = "checked"
  /\ pc' = "reading"
  /\ UNCHANGED <<gateway, offset, remote, pos, acked, faults>>

\* NoLine as it would be if a partial line were taken for a whole one.
NoLineTakesPartial ==
  /\ pc = "reading"
  /\ Ends(pos) = {}
  /\ pos' = IF Len(file) > pos THEN pos + 2 ELSE pos
  /\ pc' = IF Len(file) > pos THEN "save" ELSE "idle"
  /\ UNCHANGED <<gateway, offset, remote, acked, faults>>

\* End of file, or a partial line that is left for the next pass.
NoLine ==
  /\ pc = "reading"
  /\ Ends(pos) = {}
  /\ pc' = "idle"
  /\ UNCHANGED <<gateway, offset, remote, pos, acked, faults>>

\* KeepIntent as it would be if the pass ended at an intent.
KeepIntentBreaks ==
  /\ pc = "reading"
  /\ Ends(pos) # {}
  /\ Kept(Line(pos))
  /\ pc' = "idle"
  /\ UNCHANGED <<gateway, offset, remote, pos, acked, faults>>

\* An intent is passed over: the place moves past it without a post.
KeepIntent ==
  /\ pc = "reading"
  /\ Ends(pos) # {}
  /\ Kept(Line(pos))
  /\ pos' = LineEnd(pos)
  /\ pc' = "save"
  /\ UNCHANGED <<gateway, offset, remote, acked, faults>>

\* The post is answered 2xx.
PostAccepted ==
  /\ pc = "reading"
  /\ Ends(pos) # {}
  /\ ~Kept(Line(pos))
  /\ remote' = remote \cup {Line(pos)}
  /\ pos' = LineEnd(pos)
  /\ pc' = "save"
  /\ UNCHANGED <<gateway, offset, acked, faults>>

\* PostFails as it would be if a line that was refused were passed over.
PostFailsSkips ==
  /\ pc = "reading"
  /\ Ends(pos) # {}
  /\ ~Kept(Line(pos))
  /\ remote' \in {remote, remote \cup {Line(pos)}}
  /\ pos' = LineEnd(pos)
  /\ pc' = "reading"
  /\ UNCHANGED <<gateway, offset, acked, faults>>

\* The post is refused, or its answer is lost after the ingest stored the line or before.
PostFails ==
  /\ pc = "reading"
  /\ Ends(pos) # {}
  /\ ~Kept(Line(pos))
  /\ remote' \in {remote, remote \cup {Line(pos)}}
  /\ pc' = "idle"
  /\ UNCHANGED <<gateway, offset, pos, acked, faults>>

-----------------------------------------------------------------------------
(* _write_offset: write_text empties the file and then writes it *)

BeginSave ==
  /\ pc = "save"
  /\ offset' = Empty
  /\ pc' = "saving"
  /\ UNCHANGED <<gateway, remote, pos, acked, faults>>

\* _write_offset, second half: the place after the line is in the file.
EndSave ==
  /\ pc = "saving"
  /\ offset' = pos
  /\ acked' = IF pos > acked THEN pos ELSE acked
  /\ pc' = "reading"
  /\ UNCHANGED <<gateway, remote, pos, faults>>

\* The shipper is killed and restarted, or the offset cannot be written, and main
\* starts another pass: either way the offset file stays as it is.
Fault ==
  /\ pc \notin {"idle", "stopped"}
  /\ faults < MaxFaults
  /\ faults' = faults + 1
  /\ pc' = "idle"
  /\ UNCHANGED <<gateway, offset, remote, pos, acked>>

Ship ==
  \/ ReadOffset \/ Open \/ NoLine \/ KeepIntent \/ PostAccepted \/ PostFails
  \/ BeginSave \/ EndSave

Next == BeginLine \/ EndLine \/ Cut \/ Ship \/ Fault

Spec == Init /\ [][Next]_vars

\* main polls for ever, and the ingest does not refuse for ever.
FairSpec == Spec /\ WF_vars(Ship) /\ SF_vars(PostAccepted)

-----------------------------------------------------------------------------
(* Properties *)

\* The offset file holds a number or nothing at all, never a place before the file's
\* beginning, and what the remote has are lines.
TypeOK ==
  /\ file \in Seq(Byte)
  /\ offset \in Nat \cup {Empty}
  /\ \A line \in remote : line \in Seq(Byte)
  /\ pc \in {"idle", "checked", "reading", "save", "saving", "stopped"}
  /\ pos \in Nat /\ acked \in Nat
  /\ lines \in 0..MaxLines /\ cut \in BOOLEAN /\ faults \in 0..MaxFaults

\* The complete lines of the export, by where they start, that the ingest should hold.
Starts == {0} \cup {n \in 1 .. Len(file) : file[n].nl}
Owed(n) == {p \in Starts : Ends(p) # {} /\ LineEnd(p) <= n /\ ~Kept(Line(p))}

\* The offset advances only after a 2xx: while the export is whole, every line before
\* the place the shipper has kept was delivered, torn lines included.
NothingSkipped ==
  ~cut => \A p \in Owed(acked) : Line(p) \in remote

\* Lines reach the ingest in the order of the export: one that was delivered has every
\* owed line before it delivered too, whatever was refused, lost or retried in between.
DeliveredInOrder ==
  ~cut => \A p, q \in Owed(Len(file)) : p < q /\ Line(q) \in remote => Line(p) \in remote

\* ShipperTamperStop is no false alarm: the shipper stops only when bytes it had delivered
\* are gone, never because of a line that was only half written when it looked.
StopIsTrue == pc = "stopped" => cut

\* "Report it by name and stop; never re-deliver from zero" (shipper.py): after a cut,
\* lines that were delivered and kept account of are not posted from the start again.
CutNeverRedelivered ==
  [][cut /\ acked > 0 /\ (PostAccepted \/ PostFails) => pos > 0]_vars

\* Every outcome written whole is delivered in the end, past intents, refusals, lost
\* answers and faults, unless the export is cut (a shipper that reports a cut stops).
EventuallyShipped ==
  \A i \in 1..MaxLines :
    Kind(i) = "outcome" =>
      (\E p \in Starts : Ends(p) # {} /\ Line(p) = Whole(i)) ~> (Whole(i) \in remote \/ cut)
=============================================================================
