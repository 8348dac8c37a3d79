---------------------------- MODULE TraceExport ----------------------------
(***************************************************************************)
(* The NDJSON attestation export and its sibling `.head` file, as          *)
(* attestation.py writes them: every signed intent and outcome is          *)
(* numbered, linked to the bytes of the line before it and appended, under *)
(* a per-file lock, by whichever worker thread handles the request.        *)
(*                                                                         *)
(* A line's bytes are abstracted to its hash: a positive number, fresh for *)
(* every record built (two records differ at least in their timestamp).    *)
(* The bytes left by a partial write of line h hash to -h.  0 is the       *)
(* genesis value, sixty-four zeros.                                        *)
(*                                                                         *)
(* The environment kills the process at any point (Crash), cuts the power  *)
(* (PowerCut), makes a write fail (full disk) and loses or corrupts the    *)
(* head file (LoseHead).  The power cut assumes a journalling file system  *)
(* that commits metadata in order, such as the ext4 the source names.      *)
(***************************************************************************)
EXTENDS ReceiptWalk

CONSTANTS
  Threads,        \* the worker threads that run /v1/invoke
  NoThread,       \* the lock is free
  NoHead,         \* read_trace_head returned None
  V1Lengths,      \* how many unnumbered v1 lines the export may start with
  MaxLines,       \* bound: records ever built
  MaxCrashes,     \* bound: process kills
  MaxPowerCuts,   \* bound: power cuts
  MaxHeadLosses,  \* bound: losses of the head file
  MaxWriteErrors  \* bound: failing writes (OSError)

ASSUME ThreadsAssumption == NoThread \notin Threads
ASSUME BoundsAssumption ==
  /\ V1Lengths \subseteq Nat
  /\ {MaxLines, MaxCrashes, MaxPowerCuts, MaxHeadLosses, MaxWriteErrors} \subseteq Nat
ASSUME NoHeadAssumption == NoHead \notin [seq : Nat, chain_hash : Int]

VARIABLES
  file,      \* the export: the sequence of its non-empty lines
  newline,   \* ends_with_newline(export_file)
  head,      \* what read_trace_head returns
  oldHead,   \* the head the last rename replaced; that rename is not yet durable
  lock,      \* the holder of _append_lock(export_file)
  pc,        \* where each thread is inside append_trace_line
  line,      \* the line_record each thread is about to write
  open,      \* corr_id of the dispatch a thread has recorded an intent for, or 0
  built,     \* how many records have been built so far
  lost,      \* history: numbered records whose line is not whole in the file
  faults     \* history: how often each fault has happened

vars == <<file, newline, head, oldHead, lock, pc, line, open, built, lost, faults>>

Notes == {"none", "unnumbered_history", "head_recovered_from_file", "previous_line_partial"}

Lines == [hash : Int, seq : Nat, prev : Int, note : Notes,
          kind : {"intent", "outcome", "partial"}, corr : Nat]
Heads == [seq : Nat, chain_hash : Int]

-----------------------------------------------------------------------------
(* Reading the export back *)

\* A v1 line: signed, but carrying neither seq nor chain_prev.
V1Line(h) == [hash |-> h, seq |-> 0, prev |-> GENESIS_CHAIN_PREV, note |-> "none",
              kind |-> "outcome", corr |-> 0]

\* What a partial write of a line leaves: bytes that do not parse, so nothing of
\* the record can be read back, its seq included.
Partial(l) ==
  [hash |-> IF l.kind = "partial" THEN l.hash ELSE -l.hash,
   seq |-> 0, prev |-> GENESIS_CHAIN_PREV, note |-> "none", kind |-> "partial", corr |-> 0]

\* The link as it was before the look-back past a partial line was added.
NextTraceLinkNoLookBack(h, f) ==
  IF h # NoHead
    THEN [seq |-> h.seq + 1, prev |-> h.chain_hash, note |-> "none"]
  ELSE IF f = <<>>
    THEN [seq |-> 1, prev |-> GENESIS_CHAIN_PREV, note |-> "none"]
  ELSE IF f[Len(f)].seq > 0
    THEN [seq |-> f[Len(f)].seq + 1, prev |-> f[Len(f)].hash,
          note |-> "head_recovered_from_file"]
  ELSE [seq |-> 1, prev |-> f[Len(f)].hash, note |-> "unnumbered_history"]

\* The link without the marker on a lost head.
NextTraceLinkUnmarked(h, f) == [NextTraceLinkNoLookBack(h, f) EXCEPT !.note = "none"]

\* Where the next line goes: (seq, chain_prev, chain_note).
NextTraceLink(h, f) ==
  IF h # NoHead
    THEN [seq |-> h.seq + 1, prev |-> h.chain_hash, note |-> "none"]
  ELSE IF f = <<>>
    THEN [seq |-> 1, prev |-> GENESIS_CHAIN_PREV, note |-> "none"]
  ELSE IF f[Len(f)].seq > 0
    THEN [seq |-> f[Len(f)].seq + 1, prev |-> f[Len(f)].hash,
          note |-> "head_recovered_from_file"]
  ELSE IF Numbered(f, Len(f)) # {}
    THEN [seq |-> f[Max(Numbered(f, Len(f)))].seq + 1, prev |-> f[Len(f)].hash,
          note |-> "previous_line_partial"]
  ELSE [seq |-> 1, prev |-> f[Len(f)].hash, note |-> "unnumbered_history"]

-----------------------------------------------------------------------------
Init ==
  /\ \E n \in V1Lengths : file = [i \in 1..n |-> V1Line(i)] /\ built = n
  /\ newline = TRUE
  /\ head = NoHead
  /\ oldHead = NoHead
  /\ lock = NoThread
  /\ pc = [t \in Threads |-> "idle"]
  /\ line = [t \in Threads |-> V1Line(0)]
  /\ open = [t \in Threads |-> 0]
  /\ lost = {}
  /\ faults = [crash |-> 0, powercut |-> 0, headloss |-> 0, write |-> 0]

Fault(kind, bound) ==
  /\ faults[kind] < bound
  /\ faults' = [faults EXCEPT ![kind] = @ + 1]

\* The records a thread may export next: the intent of a dispatch, then its
\* outcome; or a lone outcome (a deny, or a dispatch whose intent was dropped).
Record(t, id) ==
  IF open[t] # 0 THEN {[kind |-> "outcome", corr |-> open[t]]}
  ELSE {[kind |-> k, corr |-> id] : k \in {"intent", "outcome"}}

\* BeginAppend without the per-file lock.
BeginAppendUnlocked(t) ==
  /\ pc[t] = "idle"
  /\ built < MaxLines
  /\ lock' = t
  /\ built' = built + 1
  /\ \E r \in Record(t, built + 1) :
       LET link == NextTraceLink(head, file) IN
       line' = [line EXCEPT ![t] =
                 [hash |-> built + 1, seq |-> link.seq, prev |-> link.prev,
                  note |-> link.note, kind |-> r.kind, corr |-> r.corr]]
  /\ pc' = [pc EXCEPT ![t] = "linked"]
  /\ UNCHANGED <<file, newline, head, oldHead, open, lost, faults>>

\* append_trace_line up to write_trace_head: the lock is taken, the link is read
\* and the line is built.  Nothing else in the process touches the files.
BeginAppend(t) ==
  /\ pc[t] = "idle"
  /\ lock = NoThread
  /\ built < MaxLines
  /\ lock' = t
  /\ built' = built + 1
  /\ \E r \in Record(t, built + 1) :
       LET link == NextTraceLink(head, file) IN
       line' = [line EXCEPT ![t] =
                 [hash |-> built + 1, seq |-> link.seq, prev |-> link.prev,
                  note |-> link.note, kind |-> r.kind, corr |-> r.corr]]
  /\ pc' = [pc EXCEPT ![t] = "linked"]
  /\ UNCHANGED <<file, newline, head, oldHead, open, lost, faults>>

\* append_trace_line returns or raises; its caller swallows an exception and the
\* request goes on either way.
EndAppend(t) ==
  /\ lock' = NoThread
  /\ pc' = [pc EXCEPT ![t] = "idle"]
  /\ open' = [open EXCEPT ![t] = IF line[t].kind = "intent" THEN line[t].corr ELSE 0]

\* write_trace_head: temp file, fsync, rename.  The fsync also commits the
\* rename before it.
WriteTraceHead(t) ==
  /\ pc[t] = "linked"
  /\ head' = [seq |-> line[t].seq, chain_hash |-> line[t].hash]
  /\ oldHead' = head
  /\ pc' = [pc EXCEPT ![t] = "headed"]
  /\ UNCHANGED <<file, newline, lock, line, open, built, lost, faults>>

\* write_trace_head raises before the rename: the record is dropped unnumbered.
WriteTraceHeadFails(t) ==
  /\ pc[t] = "linked"
  /\ Fault("write", MaxWriteErrors)
  /\ EndAppend(t)
  /\ UNCHANGED <<file, newline, head, oldHead, line, built, lost>>

\* WriteLine without the separator: on a file that does not end in a newline the
\* new record is welded onto the last line.
WriteLineWelds(t) ==
  /\ pc[t] = "headed"
  /\ file' = IF newline THEN Append(file, line[t])
             ELSE [file EXCEPT ![Len(file)] = Partial(file[Len(file)])]
  /\ newline' = TRUE
  /\ EndAppend(t)
  /\ UNCHANGED <<head, oldHead, line, built, lost, faults>>

\* The buffered write and flush of the separator, the line and its newline.
WriteLine(t) ==
  /\ pc[t] = "headed"
  /\ file' = Append(file, line[t])
  /\ newline' = TRUE
  /\ EndAppend(t)
  /\ UNCHANGED <<head, oldHead, line, built, lost, faults>>

\* What an interrupted write of thread t's line can leave in the file.  The
\* separator goes first, so the damaged tail it closes stays one line.
Interrupted(t) ==
  \/ /\ file' = file                                      \* nothing, or the separator
     /\ newline' \in {newline, TRUE}
     /\ lost' = lost \cup {line[t].hash}
  \/ /\ file' = Append(file, Partial(line[t]))            \* some of the line
     /\ newline' = FALSE
     /\ lost' = lost \cup {line[t].hash}
  \/ /\ file' = Append(file, line[t])                     \* all but its newline
     /\ newline' = FALSE
     /\ lost' = lost

\* The write of the line raises, having written none or some of it.
WriteLineFails(t) ==
  /\ pc[t] = "headed"
  /\ Fault("write", MaxWriteErrors)
  /\ Interrupted(t)
  /\ EndAppend(t)
  /\ UNCHANGED <<head, oldHead, line, built>>

-----------------------------------------------------------------------------
(* The environment *)

\* Everything in the process's memory is gone; the files stay.
Restart ==
  /\ lock' = NoThread
  /\ pc' = [t \in Threads |-> "idle"]
  /\ line' = [t \in Threads |-> V1Line(0)]
  /\ open' = [t \in Threads |-> 0]

\* The process is killed, in the middle of a line or not.
Crash ==
  /\ Fault("crash", MaxCrashes)
  /\ Restart
  /\ IF \E t \in Threads : pc[t] = "headed"
       THEN \E t \in Threads : pc[t] = "headed" /\ Interrupted(t)
       ELSE UNCHANGED <<file, newline, lost>>
  /\ UNCHANGED <<head, oldHead, built>>

\* The head file is removed, or its bytes are corrupted: both read as None.
LoseHead ==
  /\ head # NoHead
  /\ Fault("headloss", MaxHeadLosses)
  /\ head' = NoHead
  /\ oldHead' = NoHead
  /\ UNCHANGED <<file, newline, lock, pc, line, open, built, lost>>

\* A power cut drops every line the kernel had not written back, tearing at most
\* one, and may drop the last rename of the head file.  Lines are not fsynced; a
\* line whose size update was committed had the rename before it committed too.
PowerCut ==
  /\ Fault("powercut", MaxPowerCuts)
  /\ Restart
  /\ \E n \in 0..Len(file) :
       /\ \A i \in n+1..Len(file) : file[i].seq > 0 \/ file[i].kind = "partial"
       /\ \/ /\ file' = SubSeq(file, 1, n)
             /\ newline' = (n < Len(file) \/ newline)
          \/ /\ n < Len(file)
             /\ file' = Append(SubSeq(file, 1, n), Partial(file[n + 1]))
             /\ newline' = FALSE
       /\ head' \in {head, oldHead}
       /\ head' # head =>
            \A i \in 1..Len(file') :
              file'[i].hash \notin {head.chain_hash, -head.chain_hash}
       /\ lost' = lost \cup {line[t].hash : t \in {u \in Threads : pc[u] = "headed"}}
                       \cup {file[i].hash : i \in {j \in n+1..Len(file) : file[j].seq > 0}}
  /\ oldHead' = head'
  /\ UNCHANGED built

Next ==
  \/ \E t \in Threads :
       \/ BeginAppend(t)
       \/ WriteTraceHead(t) \/ WriteTraceHeadFails(t)
       \/ WriteLine(t) \/ WriteLineFails(t)
  \/ Crash \/ LoseHead \/ PowerCut

Spec == Init /\ [][Next]_vars
-----------------------------------------------------------------------------
(* What the export promises *)

\* The export holds lines with a number or none, the head file a number and a hash or
\* nothing, and a torn line is none that has a number.
TypeOK ==
  /\ file \in Seq(Lines)
  /\ newline \in BOOLEAN
  /\ head \in Heads \cup {NoHead}
  /\ oldHead \in Heads \cup {NoHead}
  /\ lock \in Threads \cup {NoThread}
  /\ pc \in [Threads -> {"idle", "linked", "headed"}]
  /\ line \in [Threads -> Lines]
  /\ open \in [Threads -> Nat]
  /\ built \in Nat
  /\ lost \subseteq Int
  /\ faults \in [{"crash", "powercut", "headloss", "write"} -> Nat]

\* The sequence never restarts and no number is handed to two lines that can be
\* read, whatever was killed, torn, lost or cut in between: "the silent restart
\* this whole file exists to make impossible" (attestation.py).
SeqNeverReused ==
  \A i, j \in 1..Len(file) :
    i < j /\ file[i].seq > 0 /\ file[j].seq > 0 => file[i].seq < file[j].seq

\* The head is written before the line it describes, so it is level with the
\* file or one ahead, never behind (write_trace_head).
HeadNeverBehind ==
  head # NoHead => \A i \in 1..Len(file) : file[i].seq <= head.seq

\* Concurrency, restarts, lost heads and dropped records alone never make the
\* walk cry tamper: it fails only on a file that a numbered line went missing
\* from or was torn in ("an integrity report that is not about integrity").
NoFalseAlarm ==
  lost = {} => Failures(file, newline) = {}

\* Numbered records that are gone between two lines that survived them.
Holes ==
  {l \in lost :
     /\ \E i \in 1..Len(file) : file[i].kind # "partial" /\ file[i].hash < l
     /\ \E i \in 1..Len(file) : file[i].kind # "partial" /\ file[i].hash > l}

\* Kills, failed writes and lost heads, in any order and number, never leave a
\* hole that the walk calls clean (exit 0): "every way it can be lost is named on
\* the next line written or reported by --walk" (attestation.py).
NoSilentLoss ==
  Holes # {} /\ faults.powercut = 0 => Walk(file, newline) # 0

\* The same sentence without the exception: a power cut that rolls back a line
\* and the rename of its head together refutes it.
EveryLossShown ==
  Holes # {} => Walk(file, newline) # 0

\* verify_receipt.py, on a partial last line: "the next line written will carry
\* chain_note 'previous_line_partial'".
PartialNamedByNextLine ==
  [][PartialTail(file, newline) /\ Len(file') > Len(file)
                                /\ file'[Len(file')].kind # "partial"
       => file'[Len(file')].note = "previous_line_partial"]_file
=============================================================================
