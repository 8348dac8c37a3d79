---------------------------- MODULE ManifestCache ----------------------------
(***************************************************************************)
(* receiver.py: what a request makes of the manifest file.  verify_manifest*)
(* reads it and checks its signature; _manifest_frontmatter then reads it  *)
(* again, through a cache keyed by the file's mtime, once for the robot's  *)
(* RRN and once more for safety.hitl_gates.  Worker threads share the      *)
(* cache without a lock, and the file is replaced while they run.          *)
(*                                                                         *)
(* A text is what the gates can tell of it: whether its signature verifies,*)
(* whether metadata.rrn is the RRN the envelope names, and whether its     *)
(* hitl_gates ask for a human for the envelope's scope.  A text without a  *)
(* readable frontmatter is one with neither.                               *)
(***************************************************************************)
EXTENDS Integers

CONSTANTS
  Threads,           \* worker threads, each with one request at a time
  HasHuman,          \* the threads whose requests carry a human in delegation_chain
  Texts,             \* the texts that may be deployed
  Gone,              \* the manifest file does not exist
  None,              \* no entry in _MANIFEST_FM_CACHE
  RequireRrn,        \* require_rrn_binding
  HitlFromManifest,  \* hitl_from_manifest
  CoarseClock,       \* two writes may fall into one tick of the file system's clock
  MaxWrites          \* bound: writes and removals of the file

Text == [signed : BOOLEAN, bound : BOOLEAN, gated : BOOLEAN]

ASSUME TextsAssumption == Texts \subseteq Text /\ Texts # {}
ASSUME ThreadsAssumption == HasHuman \subseteq Threads
ASSUME FlagsAssumption == {RequireRrn, HitlFromManifest, CoarseClock} \subseteq BOOLEAN
ASSUME BoundAssumption == MaxWrites \in Nat

\* fm: the frontmatter, as far as the gates use it; {} declares nothing.
FrontMatter == [bound : BOOLEAN, gated : BOOLEAN]
Empty == [bound |-> FALSE, gated |-> FALSE]
Parse(text) == [bound |-> text.bound, gated |-> text.gated]

File == [text : Texts, mtime : Nat]
Entry == [mtime : Nat, fm : FrontMatter]

ASSUME AbsentAssumption == Gone \notin File /\ None \notin Entry

VARIABLES
  file,      \* the manifest: its text and mtime, or Gone
  now,       \* the file system's clock
  writes,    \* history: writes and removals so far
  cache,     \* _MANIFEST_FM_CACHE[path]: an mtime and a frontmatter, or None
  pc,        \* where each request is
  call,      \* what its _manifest_frontmatter call is for: "rrn" or "hitl"
  mtime,     \* the local mtime of that call
  fm,        \* its result
  verified,  \* history: the text verify_manifest accepted
  stable     \* history: the file has not changed since the request began

vars == <<file, now, writes, cache, pc, call, mtime, fm, verified, stable>>

Init ==
  /\ file \in [text : Texts, mtime : {0}]
  /\ now = 0
  /\ writes = 0
  /\ cache = None
  /\ pc = [r \in Threads |-> "idle"]
  /\ call = [r \in Threads |-> "rrn"]
  /\ mtime = [r \in Threads |-> 0]
  /\ fm = [r \in Threads |-> Empty]
  /\ verified \in [Threads -> {file.text}]
  /\ stable = [r \in Threads |-> FALSE]

Goto(r, label) == pc' = [pc EXCEPT ![r] = label]

-----------------------------------------------------------------------------
(* The request *)

\* verify_manifest: an unreadable file or one whose signature does not verify is denied.
Verify(r) ==
  /\ pc[r] \in {"idle", "allowed", "denied"}
  /\ stable' = [stable EXCEPT ![r] = TRUE]
  /\ IF file # Gone /\ file.text.signed
       THEN Goto(r, "stat") /\ verified' = [verified EXCEPT ![r] = file.text]
       ELSE Goto(r, "denied") /\ verified' = verified
  /\ call' = [call EXCEPT ![r] = "rrn"]
  /\ UNCHANGED <<file, now, writes, cache, mtime, fm>>

\* _manifest_frontmatter: os.path.getmtime; a file that is gone declares nothing.
Stat(r) ==
  /\ pc[r] = "stat"
  /\ IF file = Gone
       THEN Goto(r, "judge") /\ fm' = [fm EXCEPT ![r] = Empty] /\ mtime' = mtime
       ELSE Goto(r, "lookup") /\ mtime' = [mtime EXCEPT ![r] = file.mtime] /\ fm' = fm
  /\ UNCHANGED <<file, now, writes, cache, call, verified, stable>>

\* The cache: a hit is an entry with the file's mtime.
Lookup(r) ==
  /\ pc[r] = "lookup"
  /\ IF cache # None /\ cache.mtime = mtime[r]
       THEN Goto(r, "judge") /\ fm' = [fm EXCEPT ![r] = cache.fm]
       ELSE Goto(r, "read") /\ fm' = fm
  /\ UNCHANGED <<file, now, writes, cache, call, mtime, verified, stable>>

\* read_text and safe_load, of what the file says by then.
Read(r) ==
  /\ pc[r] = "read"
  /\ fm' = [fm EXCEPT ![r] = IF file = Gone THEN Empty ELSE Parse(file.text)]
  /\ Goto(r, "store")
  /\ UNCHANGED <<file, now, writes, cache, call, mtime, verified, stable>>

\* An entry stamped with the mtime the file has once its text has been read.
StoreStampedLate(r) ==
  /\ pc[r] = "store"
  /\ cache' = [mtime |-> IF file = Gone THEN mtime[r] ELSE file.mtime, fm |-> fm[r]]
  /\ Goto(r, "judge")
  /\ UNCHANGED <<file, now, writes, call, mtime, fm, verified, stable>>

\* The entry is stamped with the mtime from before the read.
Store(r) ==
  /\ pc[r] = "store"
  /\ cache' = [mtime |-> mtime[r], fm |-> fm[r]]
  /\ Goto(r, "judge")
  /\ UNCHANGED <<file, now, writes, call, mtime, fm, verified, stable>>

\* verify_rrn_binding, only under require_rrn_binding.
rrn_binding(f) == RequireRrn => f.bound
\* check_hitl under HiTLPolicy.from_manifest_gates, only under hitl_from_manifest.
hitl_required(f, r) == f.gated => r \in HasHuman

\* The gate the frontmatter was read for.  The one after the RRN is the second read.
Judge(r) ==
  /\ pc[r] = "judge"
  /\ \/ /\ call[r] = "rrn"
        /\ IF ~rrn_binding(fm[r]) THEN Goto(r, "denied") /\ call' = call
           ELSE IF HitlFromManifest THEN Goto(r, "stat") /\ call' = [call EXCEPT ![r] = "hitl"]
           ELSE Goto(r, "allowed") /\ call' = call
     \/ /\ call[r] = "hitl"
        /\ Goto(r, IF hitl_required(fm[r], r) THEN "allowed" ELSE "denied")
        /\ call' = call
  /\ UNCHANGED <<file, now, writes, cache, mtime, fm, verified, stable>>

-----------------------------------------------------------------------------
(* Whoever deploys the manifest *)

Written == writes < MaxWrites /\ writes' = writes + 1 /\ stable' = [r \in Threads |-> FALSE]

\* A deployment replaces the text; under a coarse clock perhaps within the same tick.
Write ==
  /\ Written
  /\ now' \in (IF CoarseClock THEN {now, now + 1} ELSE {now + 1})
  /\ \E t \in Texts : file' = [text |-> t, mtime |-> now']
  /\ UNCHANGED <<cache, pc, call, mtime, fm, verified>>

RemoveManifest ==
  /\ Written
  /\ file # Gone
  /\ file' = Gone
  /\ UNCHANGED <<now, cache, pc, call, mtime, fm, verified>>

Next ==
  \/ \E r \in Threads :
       Verify(r) \/ Stat(r) \/ Lookup(r) \/ Read(r) \/ Store(r) \/ Judge(r)
  \/ Write \/ RemoveManifest

Spec == Init /\ [][Next]_vars

-----------------------------------------------------------------------------
\* The cache holds an mtime and a frontmatter, never an entry in a frontmatter's place,
\* and a request has the frontmatter that _manifest_frontmatter returned to it.
TypeOK ==
  /\ file \in File \cup {Gone}
  /\ now \in Nat
  /\ writes \in Nat
  /\ cache \in Entry \cup {None}
  /\ pc \in [Threads -> {"idle", "stat", "lookup", "read", "store", "judge", "allowed", "denied"}]
  /\ call \in [Threads -> {"rrn", "hitl"}]
  /\ mtime \in [Threads -> Nat]
  /\ fm \in [Threads -> FrontMatter]
  /\ verified \in [Threads -> Texts]
  /\ stable \in [Threads -> BOOLEAN]

\* What the file as it is says of a request of r.
Admits(r) ==
  /\ file # Gone
  /\ file.text.signed
  /\ rrn_binding(Parse(file.text))
  /\ HitlFromManifest => hitl_required(Parse(file.text), r)

\* "The manifest's declared safety.hitl_gates are authoritative": a request during which
\* the manifest stays as it is gets that manifest's verdict, whatever other threads read
\* before a deployment and store in the shared cache after it.
ManifestAuthoritative ==
  \A r \in Threads : stable[r] =>
    /\ pc[r] = "allowed" => Admits(r)
    /\ pc[r] = "denied" => ~Admits(r)

\* README.md, check 1: "the ROBOT.md being actuated against has a verified signature":
\* an admitted request was judged by the text whose signature was verified.
GatesFromVerifiedText ==
  \A r \in Threads : pc[r] = "allowed" => fm[r] = Parse(verified[r])
=============================================================================
