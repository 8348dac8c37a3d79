---------------------------- MODULE Bringup_proofs ----------------------------
(***************************************************************************)
(* The two programs an operator runs before a gateway serves: the wizard   *)
(* that writes its files (Setup) and the check of the robot's keys         *)
(* (Preflight).  They keep no state in common.                             *)
(*                                                                         *)
(* The wizard, for any number of runs, kills and failing writes: FilesInv  *)
(* ties a run's temporary file to the file it is about to be renamed to.   *)
(* That a failed run without --force leaves what it found needs an         *)
(* operator who leaves the files alone meanwhile (~Concurrent, as          *)
(* Setup.cfg; Setup_prompt.cfg shows what happens without it).             *)
(*                                                                         *)
(* The preflight, for any kids and keys and whatever is read of the host   *)
(* and the registry: the argument is that at every step the findings that  *)
(* stop a mode are exactly what is wrong, so far, with the things read for *)
(* it.  A kid's findings are given once, with its first use; that this is  *)
(* enough is UsesInv: every kid but a retired pin is first met by a live   *)
(* use, the manifest's by a use in both modes.                             *)
(***************************************************************************)
EXTENDS Setup, Preflight, SequenceTheorems, TLAPS

-----------------------------------------------------------------------------
(* The wizard *)

\* The steps at which the wizard writes a file, and the ones from its questions to the
\* end of a rollback.
Writing == pc \in {"mkstemp", "write", "chmod", "replace"}
AtWork == pc = "asking" \/ Writing \/ pc = "rollback"

\* What a temporary file of this run is: of the file it writes, and whole once written.
MineIs ==
  /\ pc \in {"checking", "asking", "mkstemp"} => \A f \in temps : f.run # run
  /\ Writing => \A f \in temps : f.run = run => f.name = target
  /\ pc \in {"chmod", "replace"} => \A f \in Mine : f.whole
  /\ \A f \in temps : f.run <= run

FilesInv == TypeOK /\ MineIs /\ TargetsAreWhole /\ TokensStayPrivate

\* The run has written this file.
Created(name) == \E i \in 1..Len(created) : created[i] = name

\* The files still to be written.
Later(name) ==
  CASE name = "bearers.yaml" -> Targets
    [] name = ".env" -> {".env", "dispatch-test.sh"}
    [] OTHER -> {"dispatch-test.sh"}

\* A run without --force began with none of the files, and the rollback knows of each
\* file that is there now.
Restorable ==
  /\ pc \in {"idle", "checking", "asking"} => created = <<>>
  /\ Writing => \A name \in Later(target) : ~Created(name)
  /\ AtWork /\ ~force =>
       \A name \in Targets : before[name] = Absent /\ (dir[name] # Absent => Created(name))
  /\ FailedRunRestores

\* A file that was written is one more created, and the rollback takes one off.
LEMMA CreatedSteps ==
  ASSUME TypeOK
  PROVE  /\ created = <<>> => \A name : ~Created(name)
         /\ \A t \in Targets : created' = Append(created, t) =>
              created' \in Seq(Targets) /\ \A name : Created(name)' <=> Created(name) \/ name = t
         /\ created # <<>> =>
              /\ Head(created) \in Targets /\ Tail(created) \in Seq(Targets)
              /\ created' = Tail(created) =>
                   \A name : Created(name) => Created(name)' \/ name = Head(created)
<1>1. created \in Seq(Targets) /\ Len(created) \in Nat
  BY LenProperties DEF TypeOK
<1>2. created = <<>> => \A name : ~Created(name)
  BY <1>1 DEF Created
<1>3. ASSUME NEW t \in Targets, created' = Append(created, t)
      PROVE  created' \in Seq(Targets) /\ \A name : Created(name)' <=> Created(name) \/ name = t
  <2>1. /\ created' \in Seq(Targets) /\ Len(created') = Len(created) + 1
        /\ \A i \in 1..Len(created) : created'[i] = created[i]
        /\ created'[Len(created) + 1] = t
    BY <1>1, <1>3, AppendProperties
  <2>2. \A i : i \in 1..Len(created') <=> i \in 1..Len(created) \/ i = Len(created) + 1
    BY <1>1, <2>1
  <2> QED
    BY <2>1, <2>2 DEF Created
<1>4. ASSUME created # <<>>
      PROVE  /\ Head(created) \in Targets /\ Tail(created) \in Seq(Targets)
             /\ created' = Tail(created) =>
                  \A name : Created(name) => Created(name)' \/ name = Head(created)
  <2>1. /\ Head(created) \in Targets /\ Tail(created) \in Seq(Targets)
        /\ Len(Tail(created)) = Len(created) - 1
        /\ \A i \in 1..Len(Tail(created)) : Tail(created)[i] = created[i + 1]
    BY <1>1, <1>4, HeadTailProperties
  <2>2. Head(created) = created[1]
    BY <1>1, <1>4
  <2>3. ASSUME created' = Tail(created), NEW name, Created(name), name # Head(created)
        PROVE  Created(name)'
    <3>1. PICK i \in 1..Len(created) : created[i] = name
      BY <2>3 DEF Created
    <3>2. i - 1 \in 1..Len(Tail(created)) /\ (i - 1) + 1 = i
      BY <1>1, <2>1, <2>2, <2>3, <3>1
    <3>3. Tail(created)[i - 1] = name
      BY <2>1, <3>1, <3>2
    <3> QED
      BY <2>3, <3>2, <3>3 DEF Created
  <2> QED
    BY <2>1, <2>3
<1> QED
  BY <1>2, <1>3, <1>4

\* The files of the operator, before the first run.
LEMMA FilesInit == Init => FilesInv
<1> SUFFICES ASSUME Init PROVE FilesInv
  OBVIOUS
<1>1. TypeOK
  <2>1. /\ dir \in [Targets -> Files \cup {Absent}] /\ before = dir
        /\ temps \in SUBSET Temps /\ target \in Targets
    BY DEF Init, Targets
  <2>2. run \in 0..MaxRuns /\ created \in Seq(Targets)
    BY MaxRunsAssumption, EmptySeq DEF Init
  <2> QED
    BY <2>1, <2>2 DEF Init, TypeOK
<1>2. MineIs /\ TargetsAreWhole /\ TokensStayPrivate
  BY DEF Init, MineIs, Writing, TargetsAreWhole, TokensStayPrivate, Targets, Secret
<1> QED
  BY <1>1, <1>2 DEF FilesInv

\* mkstemp's file, and what a write and a chmod make of one.
LEMMA NewTemp ==
  ASSUME TypeOK
  PROVE  /\ Temp(FALSE, TRUE) \in Temps /\ Temp(FALSE, TRUE).name = target
         /\ Temp(FALSE, TRUE).run = run /\ Temp(FALSE, TRUE).private
  BY DEF TypeOK, Temp, Temps

\* A temporary file of this run that is written to.
LEMMA WrittenTemp ==
  ASSUME NEW f \in Temps, NEW w, w = [f EXCEPT !.whole = TRUE]
  PROVE  w \in Temps /\ w.name = f.name /\ w.run = f.run /\ w.whole /\ w.private = f.private
  BY DEF Temps

\* A temporary file of this run that is protected.
LEMMA ChmodTemp ==
  ASSUME NEW f \in Temps, NEW b \in BOOLEAN, NEW p, p = [f EXCEPT !.private = b]
  PROVE  p \in Temps /\ p.name = f.name /\ p.run = f.run /\ p.private = b /\ p.whole = f.whole
  BY DEF Temps

\* The wizard's file: each step finds the one it has made.
LEMMA WriterKeepsFiles ==
  ASSUME FilesInv, MkTemp \/ MkTempFails \/ Write \/ Chmod \/ Replace \/ WriteFails
  PROVE  FilesInv'
<1>0. /\ run \in 0..MaxRuns /\ run <= run /\ target \in Targets
      /\ temps \subseteq Temps /\ Mine \subseteq temps
      /\ \A f \in Mine : f.name = target /\ f.run = run
      /\ \A f \in temps : f.run <= run
      /\ Writing => \A f \in temps : f.run = run => f \in Mine
      /\ \A f \in temps : f.name \in Secret => f.private
  BY MaxRunsAssumption DEF FilesInv, TypeOK, MineIs, Mine, TokensStayPrivate
<1>1. CASE MkTemp
  <2> DEFINE t == Temp(FALSE, TRUE)
  <2>1. t \in Temps /\ t.name = target /\ t.run = run /\ t.private
    BY NewTemp DEF FilesInv
  <2>2. /\ temps' = temps \cup {t} /\ pc' = "write"
        /\ UNCHANGED <<dir, run, force, actuate, read, target, created, before, gateway>>
    BY <1>1 DEF MkTemp
  <2> HIDE DEF t
  <2>3. TypeOK'
    BY <2>1, <2>2 DEF FilesInv, TypeOK, gateway
  <2>4. \A f \in temps' : f.run <= run /\ (f.run = run => f.name = target)
    BY <1>0, <1>1, <2>1, <2>2 DEF MkTemp, Writing
  <2>5. MineIs'
    BY <2>2, <2>4 DEF MineIs
  <2>6. (TargetsAreWhole /\ TokensStayPrivate)'
    BY <2>1, <2>2 DEF FilesInv, TargetsAreWhole, TokensStayPrivate, gateway
  <2> QED
    BY <2>3, <2>5, <2>6 DEF FilesInv
<1>2. CASE Write
  <2>1. /\ temps' = (temps \ Mine) \cup {[f EXCEPT !.whole = TRUE] : f \in Mine} /\ pc' = "chmod"
        /\ UNCHANGED <<dir, run, force, actuate, read, target, created, before, gateway>>
    BY <1>2 DEF Write
  <2>2. \A f \in temps' :
          /\ f \in Temps /\ f.run <= run /\ (f.name \in Secret => f.private)
          /\ f.run = run => f.name = target /\ f.whole
    <3> TAKE f \in temps'
    <3>1. CASE f \in temps \ Mine
      BY <1>0, <1>2, <3>1 DEF Write, Writing
    <3>2. CASE f \in {[g EXCEPT !.whole = TRUE] : g \in Mine}
      <4>1. PICK g \in Mine : f = [g EXCEPT !.whole = TRUE]
        BY <3>2
      <4>2. g \in Temps
        BY <1>0
      <4>3. f \in Temps /\ f.name = g.name /\ f.run = g.run /\ f.whole /\ f.private = g.private
        BY <4>1, <4>2, WrittenTemp
      <4> QED
        BY <1>0, <4>1, <4>3
    <3> QED
      BY <2>1, <3>1, <3>2
  <2>3. TypeOK'
    BY <2>1, <2>2 DEF FilesInv, TypeOK, gateway
  <2>4. MineIs'
    BY <2>1, <2>2 DEF MineIs, Mine
  <2>5. (TargetsAreWhole /\ TokensStayPrivate)'
    BY <2>1, <2>2 DEF FilesInv, TargetsAreWhole, TokensStayPrivate, gateway
  <2> QED
    BY <2>3, <2>4, <2>5 DEF FilesInv
<1>3. CASE Chmod
  <2>1. /\ temps' = (temps \ Mine) \cup {[f EXCEPT !.private = target \in Secret] : f \in Mine}
        /\ pc = "chmod" /\ pc' = "replace"
        /\ UNCHANGED <<dir, run, force, actuate, read, target, created, before, gateway>>
    BY <1>3 DEF Chmod
  <2>2. \A f \in temps' :
          /\ f \in Temps /\ f.run <= run /\ (f.name \in Secret => f.private)
          /\ f.run = run => f.name = target /\ f.whole
    <3> TAKE f \in temps'
    <3>1. CASE f \in temps \ Mine
      BY <1>0, <2>1, <3>1 DEF Writing
    <3>2. CASE f \in {[g EXCEPT !.private = target \in Secret] : g \in Mine}
      <4>1. PICK g \in Mine : f = [g EXCEPT !.private = target \in Secret]
        BY <3>2
      <4>2. /\ f \in Temps /\ f.name = g.name /\ f.run = g.run /\ f.whole = g.whole
            /\ target \in Secret => f.private
        <5>1. g \in Temps
          BY <1>0
        <5>2. CASE target \in Secret
          <6>1. f = [g EXCEPT !.private = TRUE]
            BY <4>1, <5>2
          <6> QED
            BY <5>1, <6>1, ChmodTemp
        <5>3. CASE target \notin Secret
          <6>1. (target \in Secret) = FALSE
            BY <5>3
          <6>2. f = [g EXCEPT !.private = FALSE]
            BY <4>1, <6>1, Zenon
          <6> QED
            BY <5>1, <5>3, <6>2, ChmodTemp
        <5> QED
          BY <5>2, <5>3
      <4>3. g.whole
        BY <2>1, <4>1 DEF FilesInv, MineIs
      <4> QED
        BY <1>0, <4>1, <4>2, <4>3
    <3> QED
      BY <2>1, <3>1, <3>2
  <2>3. TypeOK'
    BY <2>1, <2>2 DEF FilesInv, TypeOK, gateway
  <2>4. MineIs'
    BY <2>1, <2>2 DEF MineIs, Mine
  <2>5. (TargetsAreWhole /\ TokensStayPrivate)'
    BY <2>1, <2>2 DEF FilesInv, TargetsAreWhole, TokensStayPrivate, gateway
  <2> QED
    BY <2>3, <2>4, <2>5 DEF FilesInv
<1>4. CASE Replace
  <2>1. PICK f : /\ f \in Mine
                 /\ dir' = [dir EXCEPT ![target] =
                      [run |-> run, whole |-> f.whole, private |-> f.private,
                       tokens |-> target \in Secret /\ (actuate \/ read)]]
    BY <1>4 DEF Replace
  <2>2. f.whole /\ (target \in Secret => f.private) /\ f.whole \in BOOLEAN /\ f.private \in BOOLEAN
    BY <1>0, <1>4, <2>1 DEF Replace, FilesInv, MineIs, Temps
  <2> DEFINE new == [run |-> run, whole |-> f.whole, private |-> f.private,
                     tokens |-> target \in Secret /\ (actuate \/ read)]
  <2>3. dir' = [dir EXCEPT ![target] = new]
    BY <2>1
  <2>4. new \in Files /\ new.whole /\ (target \in Secret => new.private)
    <3>1. (target \in Secret /\ (actuate \/ read)) \in BOOLEAN
      OBVIOUS
    <3>2. new \in Files
      BY <1>0, <2>2, <3>1 DEF Files
    <3> QED
      BY <2>2, <3>2
  <2> HIDE DEF new
  <2>5. /\ temps' = temps \ Mine /\ created' = Append(created, target)
        /\ \/ pc' = "done" /\ target' = target
           \/ pc' = "mkstemp" /\ target' \in Targets
        /\ UNCHANGED <<run, force, actuate, read, before, serve, loaded, section, device>>
    BY <1>4 DEF Replace, Targets, gateway
  <2>6. TypeOK'
    BY <1>0, <2>3, <2>4, <2>5, CreatedSteps DEF FilesInv, TypeOK
  <2>7. MineIs'
    <3>1. \A g \in temps' : g.run <= run /\ g.run # run
      BY <1>0, <1>4, <2>5 DEF Replace, Writing
    <3> QED
      BY <2>5, <3>1 DEF MineIs
  <2>8. (TargetsAreWhole /\ TokensStayPrivate)'
    BY <1>0, <2>3, <2>4, <2>5
    DEF FilesInv, TypeOK, TargetsAreWhole, TokensStayPrivate, Targets, Secret
  <2> QED
    BY <2>6, <2>7, <2>8 DEF FilesInv
<1>5. CASE MkTempFails \/ WriteFails
  <2>1. /\ temps' \subseteq temps /\ pc' = "rollback"
        /\ UNCHANGED <<dir, run, force, actuate, read, target, created, before, gateway>>
    BY <1>5 DEF MkTempFails, WriteFails
  <2>2. TypeOK'
    BY <1>0, <2>1 DEF FilesInv, TypeOK, gateway
  <2>3. (MineIs /\ TargetsAreWhole /\ TokensStayPrivate)'
    BY <2>1 DEF FilesInv, MineIs, Writing, TargetsAreWhole, TokensStayPrivate, gateway
  <2> QED
    BY <2>2, <2>3 DEF FilesInv
<1> QED
  BY <1>1, <1>2, <1>3, <1>4, <1>5

\* The rest of the wizard's run, the operator and the gateway.
LEMMA OthersKeepFiles ==
  ASSUME FilesInv,
         \/ Start \/ Check \/ Answer \/ Decline \/ Rollback \/ RollbackFails \/ Exit
         \/ \E name \in Targets : Edit(name)
         \/ ReadTokens \/ ServeBare \/ ReadActuators \/ ClaimDevices \/ OtherProcess \/ Stop
         \/ UNCHANGED vars
  PROVE  FilesInv'
<1>1. CASE Start
  <2>1. /\ run' = run + 1 /\ run \in Nat /\ run' \in 0..MaxRuns /\ pc' = "checking" /\ force' \in BOOLEAN
        /\ UNCHANGED <<dir, temps, actuate, read, target, created, before, gateway>>
    BY <1>1, MaxRunsAssumption DEF Start, FilesInv, TypeOK
  <2>2. \A f \in temps : f.run \in Nat /\ f.run <= run
    BY MaxRunsAssumption DEF FilesInv, TypeOK, Temps, MineIs, Writing
  <2>3. MineIs'
    BY <2>1, <2>2 DEF MineIs, Writing
  <2>4. TypeOK'
    BY <2>1 DEF FilesInv, TypeOK, gateway
  <2>5. (TargetsAreWhole /\ TokensStayPrivate)'
    BY <2>1 DEF FilesInv, TargetsAreWhole, TokensStayPrivate, gateway
  <2> QED
    BY <2>3, <2>4, <2>5 DEF FilesInv
<1>2. CASE Check \/ Answer \/ Decline \/ RollbackFails \/ Exit
  <2>1. /\ UNCHANGED <<dir, temps, run, force, gateway>>
        /\ pc' \in {"asking", "failed", "done", "raised", "idle"}
             \/ (pc = "asking" /\ pc' = "mkstemp")
        /\ pc' = "asking" => pc = "checking"
    BY <1>2 DEF Check, Answer, Decline, RollbackFails, Exit
  <2>2. TypeOK'
    <3>1. CASE Check
      BY <3>1, EmptySeq DEF Check, FilesInv, TypeOK, gateway, Targets
    <3>2. CASE Answer
      BY <3>2, EmptySeq DEF Answer, FilesInv, TypeOK, gateway, Targets
    <3>3. CASE Decline
      BY <3>3, EmptySeq DEF Decline, FilesInv, TypeOK, gateway, Targets
    <3>4. CASE RollbackFails
      BY <3>4, EmptySeq DEF RollbackFails, FilesInv, TypeOK, gateway, Targets
    <3>5. CASE Exit
      BY <3>5, EmptySeq DEF Exit, FilesInv, TypeOK, gateway, Targets
    <3> QED
      BY <1>2, <3>1, <3>2, <3>3, <3>4, <3>5
  <2>3. MineIs'
    BY <2>1 DEF FilesInv, MineIs, Writing
  <2>4. (TargetsAreWhole /\ TokensStayPrivate)'
    BY <2>1 DEF FilesInv, TargetsAreWhole, TokensStayPrivate, gateway
  <2> QED
    BY <2>2, <2>3, <2>4 DEF FilesInv
<1>3. CASE Rollback
  <2>1. /\ UNCHANGED <<temps, run, force, actuate, read, target, before, serve, loaded, section, device>>
        /\ pc' \in {"failed", "rollback"} /\ pc = "rollback"
        /\ created' \in Seq(Targets)
        /\ \/ dir' = dir
           \/ \E name \in Targets : dir' = [dir EXCEPT ![name] = Absent]
    BY <1>3, CreatedSteps DEF Rollback, FilesInv, TypeOK, gateway
  <2>2. \A name \in Targets : dir'[name] \in {Absent, dir[name]}
    BY <2>1 DEF FilesInv, TypeOK
  <2>3. dir' \in [Targets -> Files \cup {Absent}]
    BY <2>1 DEF FilesInv, TypeOK
  <2>4. TypeOK'
    BY <2>1, <2>3 DEF FilesInv, TypeOK
  <2>5. MineIs'
    BY <2>1 DEF FilesInv, MineIs, Writing
  <2>6. (TargetsAreWhole /\ TokensStayPrivate)'
    BY <2>1, <2>2 DEF FilesInv, TargetsAreWhole, TokensStayPrivate, Targets, Secret
  <2> QED
    BY <2>4, <2>5, <2>6 DEF FilesInv
<1>4. ASSUME NEW name \in Targets, Edit(name) PROVE FilesInv'
  <2>1. PICK f \in {Absent, [run |-> 0, whole |-> TRUE, private |-> TRUE,
                             tokens |-> name \in Secret]} : dir' = [dir EXCEPT ![name] = f]
    BY <1>4 DEF Edit
  <2>2. f # Absent => f \in Files /\ f.whole /\ f.private
    <3>1. 0 \in 0..MaxRuns /\ (name \in Secret) \in BOOLEAN
      BY MaxRunsAssumption
    <3> DEFINE theirs == [run |-> 0, whole |-> TRUE, private |-> TRUE, tokens |-> name \in Secret]
    <3>2. theirs \in Files /\ theirs.whole /\ theirs.private
      BY <3>1 DEF Files
    <3>3. f # Absent => f = theirs
      BY <2>1
    <3> HIDE DEF theirs
    <3> QED
      BY <3>2, <3>3
  <2>3. UNCHANGED <<wizard, gateway>>
    BY <1>4 DEF Edit
  <2>4. /\ dir' \in [Targets -> Files \cup {Absent}]
        /\ \A n \in Targets : dir'[n] = dir[n] \/ dir'[n] = f
    BY <2>1, <2>2 DEF FilesInv, TypeOK
  <2>5. TypeOK'
    BY <2>3, <2>4 DEF FilesInv, TypeOK, wizard, gateway
  <2>6. MineIs'
    BY <2>3 DEF FilesInv, MineIs, Writing, Mine, Temp, wizard
  <2>7. (TargetsAreWhole /\ TokensStayPrivate)'
    BY <2>2, <2>3, <2>4
    DEF FilesInv, TargetsAreWhole, TokensStayPrivate, Targets, Secret, wizard, gateway
  <2> QED
    BY <2>5, <2>6, <2>7 DEF FilesInv
<1>5. CASE ReadTokens
  <2>1. /\ UNCHANGED <<dir, wizard, section, device>> /\ loaded' = dir["bearers.yaml"]
        /\ dir["bearers.yaml"] # Absent /\ serve' = "tokens"
    BY <1>5 DEF ReadTokens
  <2>2. loaded' \in Files /\ loaded'.whole
    BY <2>1 DEF FilesInv, TypeOK, TargetsAreWhole, Targets
  <2>3. TypeOK'
    BY <2>1, <2>2 DEF FilesInv, TypeOK, wizard
  <2>4. (MineIs /\ TargetsAreWhole /\ TokensStayPrivate)'
    BY <2>1, <2>2 DEF FilesInv, MineIs, Writing, Mine, Temp, TargetsAreWhole, TokensStayPrivate, wizard
  <2> QED
    BY <2>3, <2>4 DEF FilesInv
<1>6. CASE ServeBare \/ ReadActuators \/ ClaimDevices \/ OtherProcess \/ Stop
  <2>1. UNCHANGED <<dir, wizard>> /\ loaded' \in {loaded, NoFile}
    BY <1>6 DEF ServeBare, ReadActuators, ClaimDevices, OtherProcess, Stop
  <2>2. /\ serve' \in {"down", "tokens", "actuators", "up"}
        /\ section' \in Files \cup {NoFile} /\ device' \in {"free", "gateway", "other"}
    BY <1>6 DEF ServeBare, ReadActuators, ClaimDevices, OtherProcess, Stop, FilesInv, TypeOK, Targets
  <2>3. TypeOK'
    BY <2>1, <2>2 DEF FilesInv, TypeOK, wizard
  <2>4. (MineIs /\ TargetsAreWhole /\ TokensStayPrivate)'
    BY <2>1 DEF FilesInv, MineIs, Writing, Mine, Temp, TargetsAreWhole, TokensStayPrivate, wizard
  <2> QED
    BY <2>3, <2>4 DEF FilesInv
<1>7. CASE UNCHANGED vars
  <2>1. TypeOK'
    BY <1>7 DEF FilesInv, TypeOK, vars, wizard, gateway
  <2>2. (MineIs /\ TargetsAreWhole /\ TokensStayPrivate)'
    BY <1>7
    DEF FilesInv, MineIs, Writing, Mine, Temp, TargetsAreWhole, TokensStayPrivate, vars, wizard, gateway
  <2> QED
    BY <2>1, <2>2 DEF FilesInv
<1> QED
  BY <1>1, <1>2, <1>3, <1>4, <1>5, <1>6, <1>7

\* The invariant about the files.
LEMMA FilesInductive == Spec => []FilesInv
<1>1. FilesInv /\ [Next]_vars => FilesInv'
  <2> SUFFICES ASSUME FilesInv, [Next]_vars PROVE FilesInv'
    OBVIOUS
  <2> QED
    BY WriterKeepsFiles, OthersKeepFiles DEF Next
<1> QED
  BY <1>1, FilesInit, PTL DEF Spec

\* TypeOK: the files and the two programs' state keep their types.
THEOREM SetupTypeCorrect == Spec => []TypeOK
<1>1. FilesInv => TypeOK
  BY DEF FilesInv
<1> QED
  BY <1>1, FilesInductive, PTL

\* TargetsAreWhole: a name holds a whole file or none (_atomic_write), and so does what
\* a gateway has read, wherever a run is killed and whatever the operator edits.
THEOREM TargetsAreWholeAlways == Spec => []TargetsAreWhole
<1>1. FilesInv => TargetsAreWhole
  BY DEF FilesInv
<1> QED
  BY <1>1, FilesInductive, PTL

\* TokensStayPrivate: a token is never in a file that others can read.
THEOREM TokensStayPrivateAlways == Spec => []TokensStayPrivate
<1>1. FilesInv => TokensStayPrivate
  BY DEF FilesInv
<1> QED
  BY <1>1, FilesInductive, PTL

\* What the rollback needs is kept by every step, when nobody else edits.
LEMMA RestorableSteps ==
  ASSUME ~Concurrent, TypeOK, Restorable, [Next]_vars
  PROVE  Restorable'
<1>0. /\ created \in Seq(Targets) /\ target \in Targets
      /\ dir \in [Targets -> Files \cup {Absent}] /\ before \in [Targets -> Files \cup {Absent}]
  BY DEF TypeOK
<1>1. CASE Start
  <2>1. created = <<>> /\ created' = created /\ pc' = "checking"
    BY <1>1 DEF Start, Restorable
  <2> QED
    BY <2>1 DEF Restorable, Writing, AtWork, FailedRunRestores
<1>2. CASE Check
  <2>1. /\ before' = dir /\ dir' = dir /\ created = <<>> /\ created' = created /\ force' = force
        /\ pc' = "failed"
             \/ (pc' = "asking" /\ (~force => \A name \in Targets : dir[name] = Absent))
    BY <1>2 DEF Check, exists, Restorable
  <2> QED
    BY <2>1 DEF Restorable, Writing, AtWork, FailedRunRestores
<1>3. CASE Answer
  <2>1. /\ pc = "asking" /\ pc' = "mkstemp" /\ created = <<>>
        /\ UNCHANGED <<dir, force, created, before>>
    BY <1>3 DEF Answer, Restorable
  <2>2. \A name : ~Created(name)' /\ ~Created(name)
    BY <2>1, CreatedSteps DEF Created
  <2> QED
    BY <2>1, <2>2 DEF Restorable, Writing, AtWork, FailedRunRestores
<1>4. CASE Decline \/ RollbackFails
  BY <1>4 DEF Decline, RollbackFails, Restorable, Writing, AtWork, FailedRunRestores
<1>5. CASE MkTemp \/ Write \/ Chmod
  <2>1. /\ Writing /\ Writing' /\ pc' \in {"write", "chmod", "replace"}
        /\ UNCHANGED <<dir, force, target, created, before>>
    BY <1>5 DEF MkTemp, Write, Chmod, Writing
  <2> QED
    BY <2>1 DEF Restorable, AtWork, FailedRunRestores, Created
<1>6. CASE MkTempFails \/ WriteFails
  <2>1. /\ Writing /\ pc' = "rollback" /\ UNCHANGED <<dir, force, created, before>>
    BY <1>6 DEF MkTempFails, WriteFails, Writing
  <2> QED
    BY <2>1 DEF Restorable, AtWork, FailedRunRestores, Created, Writing
<1>7. CASE Replace
  <2>1. /\ Writing /\ created' = Append(created, target)
        /\ UNCHANGED <<force, before>>
        /\ \A name \in Targets : name # target => dir'[name] = dir[name]
        /\ \/ pc' = "done"
           \/ /\ pc' = "mkstemp" /\ target # "dispatch-test.sh"
              /\ target' = IF target = "bearers.yaml" THEN ".env" ELSE "dispatch-test.sh"
    BY <1>0, <1>7 DEF Replace, Writing
  <2>2. \A name : Created(name)' <=> Created(name) \/ name = target
    BY <1>0, <2>1, CreatedSteps
  <2>3. pc' = "mkstemp" => \A name \in Later(target') : name \in Later(target) /\ name # target
    BY <1>0, <2>1 DEF Later, Targets
  <2>4. pc' = "mkstemp" => \A name \in Later(target') : ~Created(name)'
    BY <2>1, <2>2, <2>3 DEF Restorable
  <2>5. ~force => \A name \in Targets : before[name] = Absent /\ (dir'[name] # Absent => Created(name)')
    BY <2>1, <2>2 DEF Restorable, AtWork
  <2> QED
    BY <2>1, <2>4, <2>5 DEF Restorable, AtWork, Writing, FailedRunRestores
<1>8. CASE Rollback
  <2>1. pc = "rollback" /\ UNCHANGED <<force, before>>
    BY <1>8 DEF Rollback
  <2>2. CASE created = <<>>
    <3>1. pc' = "failed" /\ dir' = dir /\ created' = created
      BY <1>8, <2>2 DEF Rollback
    <3>2. \A name : ~Created(name)
      BY <2>2, CreatedSteps
    <3>3. ~force => dir = before
      <4> SUFFICES ASSUME ~force PROVE dir = before
        OBVIOUS
      <4>1. \A name \in Targets : dir[name] = before[name]
        BY <2>1, <3>2 DEF Restorable, AtWork
      <4> QED
        BY <1>0, <4>1
    <3> QED
      BY <2>1, <3>1, <3>3 DEF Restorable, AtWork, Writing, FailedRunRestores
  <2>3. CASE created # <<>>
    <3>1. /\ dir' = [dir EXCEPT ![Head(created)] = Absent]
          /\ created' = Tail(created) /\ pc' = "rollback"
      BY <1>8, <2>1, <2>3 DEF Rollback
    <3>2. /\ Head(created) \in Targets
          /\ \A name : Created(name) => Created(name)' \/ name = Head(created)
      BY <2>3, <3>1, CreatedSteps
    <3>3. \A name \in Targets : dir'[name] # Absent => dir[name] # Absent /\ name # Head(created)
      BY <1>0, <3>1, <3>2
    <3>4. ~force => \A name \in Targets : before[name] = Absent /\ (dir'[name] # Absent => Created(name)')
      BY <2>1, <3>2, <3>3 DEF Restorable, AtWork
    <3> QED
      BY <2>1, <3>1, <3>4 DEF Restorable, AtWork, Writing, FailedRunRestores
  <2> QED
    BY <2>2, <2>3
<1>9. CASE Exit
  <2>1. pc' = "idle" /\ created' = <<>>
    BY <1>9 DEF Exit
  <2> QED
    BY <2>1 DEF Restorable, Writing, AtWork, FailedRunRestores
<1>10. ASSUME NEW name \in Targets, Edit(name) PROVE Restorable'
  <2>1. pc = "idle" /\ pc' = pc /\ created' = created
    BY <1>10 DEF Edit, wizard
  <2> QED
    BY <2>1 DEF Restorable, Writing, AtWork, FailedRunRestores
<1>11. CASE \/ ReadTokens \/ ServeBare \/ ReadActuators \/ ClaimDevices \/ OtherProcess \/ Stop
            \/ UNCHANGED vars
  <2>1. UNCHANGED <<dir, pc, force, target, created, before>>
    BY <1>11
    DEF ReadTokens, ServeBare, ReadActuators, ClaimDevices, OtherProcess, Stop, vars, wizard
  <2> QED
    BY <2>1 DEF Restorable, Writing, AtWork, FailedRunRestores, Created
<1> QED
  BY <1>1, <1>2, <1>3, <1>4, <1>5, <1>6, <1>7, <1>8, <1>9, <1>10, <1>11 DEF Next

\* The rollback can always restore what it found.
LEMMA RestorableAlways ==
  ASSUME ~Concurrent
  PROVE  Spec => []Restorable
<1>1. Init => Restorable
  BY DEF Init, Restorable, Writing, AtWork, FailedRunRestores
<1>2. TypeOK /\ Restorable /\ [Next]_vars => Restorable'
  BY RestorableSteps
<1> QED
  BY <1>1, <1>2, SetupTypeCorrect, PTL DEF Spec

\* NoForceNeverReplaces: without --force no file that is there is replaced, if the
\* operator does not edit the files while the wizard runs (Setup_prompt shows the other case).
THEOREM NoForceNeverReplacesAlways ==
  ASSUME ~Concurrent
  PROVE  Spec => []NoForceNeverReplaces
<1>1. TypeOK /\ Restorable => NoForceNeverReplaces
  BY DEF TypeOK, Targets, Restorable, Writing, AtWork, Later, NoForceNeverReplaces
<1> QED
  BY <1>1, SetupTypeCorrect, RestorableAlways, PTL

\* FailedRunRestores: a run without --force that fails leaves the three files as it found
\* them, if the operator leaves them alone meanwhile.
THEOREM FailedRunRestoresAlways ==
  ASSUME ~Concurrent
  PROVE  Spec => []FailedRunRestores
<1>1. Restorable => FailedRunRestores
  BY DEF Restorable
<1> QED
  BY <1>1, RestorableAlways, PTL
-----------------------------------------------------------------------------
(* The preflight: the findings that stop a mode *)

\* Findings that stop the mode.
StopIn(found, m) == \E f \in found : m \in f.stop_in

\* The answers for one kid, with its pin, contradict one another.
Contradictory(e, pin) ==
  \/ e.registry = "revoked"
  \/ e.registry = "found" /\ e.local # NoKey /\ e.key # e.local
  \/ e.registry = "found" /\ pin # NoKey /\ e.key # pin
  \/ e.local # NoKey /\ pin # NoKey /\ e.local # pin

Asked(kid) == kids[kid] # Unchecked

\* The manifest's key has been looked up, and the gateway's.
PastKeys == out.footer = "signed" /\ stage \notin {"manifest", "manifest_keys"}
PastGateway == out.gateway = "signing" /\ stage # "gateway_key"

\* The modes that use a kid, as far as the run has come.
Uses(kid) ==
  {m \in BOTH : \/ PastKeys /\ kid = inp.manifest
                \/ /\ m = "live"
                   /\ (PastGateway /\ kid = out.kid) \/ kid \in out.signers \ todo}

\* What is wrong with each thing that has been read.
WrongKids(m) == \E kid \in Kids : m \in in_use[kid] /\ Contradicts(kid)
WrongManifest == out.footer \notin {Unread, "signed"} \/ out.fixture \in {"differs", "unreadable"}
WrongSignature ==
  PastKeys /\ (out.signer = NoKey \/ out.signer # kids[inp.manifest].local)
WrongGateway ==
  out.gateway \in {"not-running", "not-signing"} \/ ~out.path \/ out.drive = "differs"
WrongKey ==
  /\ PastGateway
  /\ \/ kids[out.kid].local = NoKey
     \/ out.sidecar.state = "read" /\ out.sidecar.key # kids[out.kid].local
WrongPairing ==
  \/ out.pairing.state = "unreadable"
  \/ /\ out.pairing.state = "read"
     /\ \/ out.pairing.kid # out.kid
        \/ out.pairing.key = NoKey \/ out.pairing.key # kids[out.kid].local
WrongReceipt ==
  /\ out.receipt.state = "read"
  /\ out.receipt.key = NoKey \/ out.receipt.key # kids[out.kid].local
WrongSigners == out.enforce /\ \E kid \in out.signers \ todo : kids[kid].local = NoKey

WrongLive ==
  WrongGateway \/ WrongKey \/ out.ranRevoked \/ WrongPairing \/ WrongReceipt \/ WrongSigners
Wrong(m) ==
  \/ WrongKids(m) \/ WrongManifest \/ WrongSignature \/ out.robot = "revoked"
  \/ m = "live" /\ WrongLive

Early == {"manifest", "manifest_keys", "rrn", "gateway"}
Late == {"pins", "done"}

\* How far the run has come, and what it has not read yet.
Progress ==
  /\ stage = "manifest" => out.footer = Unread /\ out.fixture = Unread
  /\ stage \notin {"manifest", "done"} => out.footer = "signed"
  /\ stage = "done" => out.footer # Unread
  /\ stage \in {"manifest", "manifest_keys"} => \A kid \in Kids : ~Asked(kid)
  /\ stage \in {"manifest", "manifest_keys", "rrn"} => out.robot = Unread
  /\ stage \in Early => out.gateway = Unread /\ out.path /\ out.drive = "matches"
  /\ stage \notin Early \cup Late => out.gateway = "signing"
  /\ stage \notin {"manifest", "manifest_keys", "rrn"} \cup Late => inp.mode = "live"
  /\ stage \in Late /\ out.footer = "signed" /\ inp.mode = "live" => out.gateway # Unread
  /\ out.sidecar.state # Unread => PastGateway
  /\ stage \in Early \cup {"gateway_key", "ran"} => ~out.ranRevoked
  /\ stage \in Early \cup {"gateway_key", "ran", "pairing"} => out.pairing.state = Unread
  /\ out.pairing.state # Unread => PastGateway
  /\ stage \in Early \cup {"gateway_key", "ran", "pairing", "export"} =>
       out.receipt.state = Unread /\ out.signers = {}
  /\ out.receipt.state # Unread \/ out.signers # {} => PastGateway
  /\ todo \subseteq out.signers /\ (stage \in Late => todo = {})

\* A kid's uses are the ones it was first met with.
UsesInv ==
  /\ \A kid \in Kids : in_use[kid] = Uses(kid)
  /\ \A kid \in Kids : ~Asked(kid) => in_use[kid] = {}
  /\ \A kid \in Kids : Asked(kid) /\ stage \notin Late => "live" \in in_use[kid]

Types ==
  /\ inp \in [mode : BOTH, manifest : Kids, pins : [Kids -> MaybeKey], shared : BOOLEAN]
  /\ stage \in Early \cup Late \cup {"gateway_key", "ran", "pairing", "export", "signers"}
  /\ out \in Facts
  /\ kids \in [Kids -> Answers \cup {Unchecked}]
  /\ in_use \in [Kids -> SUBSET BOTH]
  /\ todo \in SUBSET Kids
  /\ checks = [m \in BOTH |-> checks[m]]

StopsInv == \A m \in BOTH : StopIn(findings, m) <=> Wrong(m)

\* A finding stops the modes it is given, if its condition holds.
LEMMA StopFind ==
  ASSUME NEW id, NEW c, NEW s, NEW m
  PROVE  StopIn(find(id, c, s), m) <=> c /\ m \in s
<1>1. CASE c
  <2>1. find(id, c, s) = {[id |-> id, stop_in |-> s]}
    BY <1>1 DEF find
  <2>2. [id |-> id, stop_in |-> s].stop_in = s
    OBVIOUS
  <2> QED
    BY <1>1, <2>1, <2>2 DEF StopIn
<1>2. CASE ~c
  <2>1. find(id, c, s) = {}
    BY <1>2 DEF find
  <2> QED
    BY <1>2, <2>1 DEF StopIn
<1> QED
  BY <1>1, <1>2

\* Findings are added up.
LEMMA StopUnion ==
  ASSUME NEW F, NEW G, NEW m
  PROVE  StopIn(F \cup G, m) <=> StopIn(F, m) \/ StopIn(G, m)
BY DEF StopIn

\* check_kid's findings for a kid that is met for the first time.
LEMMA KidFindingsStop ==
  ASSUME NEW kid, NEW e, NEW uses, NEW m, ~Asked(kid)
  PROVE  StopIn(KidFindings(kid, e, uses), m)
           <=> m \in uses /\ Contradictory(e, inp.pins[kid])
<1> DEFINE pin == inp.pins[kid]
           differs == e.registry = "found" /\ e.local # NoKey /\ e.key # e.local
           F1 == find("no-pin", pin = NoKey, {})
           F2 == find("local-key-differs-from-pin",
                      pin # NoKey /\ e.local # NoKey /\ e.local # pin, uses)
           F3 == find("registry-key-differs-from-local", differs, uses)
           F4 == find("registry-key-differs-from-pin",
                      /\ e.registry = "found" /\ ~differs
                      /\ pin # NoKey /\ e.key # pin, uses)
           F5 == find("kid-revoked", e.registry = "revoked", uses)
           F6 == find("kid-not-registered", e.registry = "not-registered", {})
           F7 == find("registry-unreachable", e.registry = "unreachable", {})
<1>1. KidFindings(kid, e, uses) = F1 \cup F2 \cup F3 \cup F4 \cup F5 \cup F6 \cup F7
  BY DEF KidFindings, Asked
<1>2. /\ ~StopIn(F1, m) /\ ~StopIn(F6, m) /\ ~StopIn(F7, m)
      /\ StopIn(F2, m) <=> pin # NoKey /\ e.local # NoKey /\ e.local # pin /\ m \in uses
      /\ StopIn(F3, m) <=> differs /\ m \in uses
      /\ StopIn(F4, m) <=> e.registry = "found" /\ ~differs /\ pin # NoKey /\ e.key # pin /\ m \in uses
      /\ StopIn(F5, m) <=> e.registry = "revoked" /\ m \in uses
  <2>1. ~StopIn(F1, m) /\ ~StopIn(F6, m) /\ ~StopIn(F7, m)
    BY StopFind
  <2>2. StopIn(F2, m) <=> pin # NoKey /\ e.local # NoKey /\ e.local # pin /\ m \in uses
    BY StopFind
  <2>3. StopIn(F3, m) <=> differs /\ m \in uses
    BY StopFind
  <2>4. StopIn(F4, m) <=> (/\ e.registry = "found" /\ ~differs
                           /\ pin # NoKey /\ e.key # pin) /\ m \in uses
    BY StopFind
  <2>5. StopIn(F5, m) <=> e.registry = "revoked" /\ m \in uses
    BY StopFind
  <2> HIDE DEF F1, F2, F3, F4, F5, F6, F7
  <2> QED
    BY <2>1, <2>2, <2>3, <2>4, <2>5
<1> HIDE DEF F1, F2, F3, F4, F5, F6, F7
<1>3. StopIn(KidFindings(kid, e, uses), m)
        <=> \/ StopIn(F1, m) \/ StopIn(F2, m) \/ StopIn(F3, m) \/ StopIn(F4, m)
            \/ StopIn(F5, m) \/ StopIn(F6, m) \/ StopIn(F7, m)
  BY <1>1 DEF StopIn
<1> QED
  BY <1>2, <1>3 DEF Contradictory

\* check_kid: the answers of a kid that was asked before stay, and the findings that
\* stop a mode are the contradictions of the kids it uses.
LEMMA CheckKid ==
  ASSUME Types, NEW kid \in Kids, NEW e \in Entries(kid), NEW uses \in SUBSET BOTH,
         check_kid(kid, e, uses), inp' = inp,
         ~Asked(kid) => in_use[kid] = {},
         Asked(kid) => uses \subseteq in_use[kid]
  PROVE  /\ \A k \in Kids : Asked(k) => kids'[k] = kids[k]
         /\ \A k \in Kids : Asked(k)' <=> Asked(k) \/ k = kid
         /\ kids'[kid] = e
         /\ kids' \in [Kids -> Answers' \cup {Unchecked}]
         /\ in_use' \in [Kids -> SUBSET BOTH]
         /\ \A k \in Kids : in_use'[k] = IF k = kid THEN in_use[k] \cup uses ELSE in_use[k]
         /\ \A m \in BOTH :
              WrongKids(m)' <=> WrongKids(m) \/ StopIn(KidFindings(kid, e, uses), m)
<1>1. /\ kids \in [Kids -> Answers \cup {Unchecked}] /\ in_use \in [Kids -> SUBSET BOTH]
      /\ Answers' = Answers
  BY DEF Types, Answers
<1>2. /\ \A k \in Kids : kids'[k] = IF k = kid THEN e ELSE kids[k]
      /\ \A k \in Kids : in_use'[k] = IF k = kid THEN in_use[k] \cup uses ELSE in_use[k]
      /\ kids' = [kids EXCEPT ![kid] = e]
      /\ in_use' = [in_use EXCEPT ![kid] = @ \cup uses]
  BY <1>1 DEF check_kid
<1>3. e \in Answers /\ e # Unchecked /\ (Asked(kid) => e = kids[kid])
  <2>1. \A a \in Answers : a # Unchecked
    BY DEF Answers, Unchecked, Results
  <2>2. e \in Answers /\ (Asked(kid) => e = kids[kid])
    BY <1>1 DEF Entries, Asked
  <2> QED
    BY <2>1, <2>2
<1>4. \A k \in Kids : Asked(k) => kids'[k] = kids[k]
  BY <1>2, <1>3
<1>5. \A k \in Kids : Asked(k)' <=> Asked(k) \/ k = kid
  BY <1>2, <1>3 DEF Asked
<1>6. kids' \in [Kids -> Answers' \cup {Unchecked}] /\ in_use' \in [Kids -> SUBSET BOTH]
  BY <1>1, <1>2, <1>3
<1>7. ASSUME NEW m \in BOTH
      PROVE  WrongKids(m)' <=> WrongKids(m) \/ StopIn(KidFindings(kid, e, uses), m)
  <2>1. \A k \in Kids : k # kid => (Contradicts(k)' <=> Contradicts(k)) /\ in_use'[k] = in_use[k]
    BY <1>2 DEF Contradicts
  <2>2. Contradicts(kid)' <=> Contradictory(e, inp.pins[kid])
    BY <1>2 DEF Contradicts, Contradictory
  <2>3. CASE ~Asked(kid)
    <3>1. m \in in_use'[kid] <=> m \in uses
      BY <1>2, <2>3
    <3>2. m \notin in_use[kid]
      BY <2>3
    <3>3. StopIn(KidFindings(kid, e, uses), m) <=> m \in uses /\ Contradictory(e, inp.pins[kid])
      BY <2>3, KidFindingsStop
    <3> QED
      BY <2>1, <2>2, <3>1, <3>2, <3>3 DEF WrongKids
  <2>4. CASE Asked(kid)
    <3>1. ~StopIn(KidFindings(kid, e, uses), m)
      BY <2>4 DEF KidFindings, Asked, StopIn
    <3>2. (Contradicts(kid)' <=> Contradicts(kid)) /\ in_use'[kid] = in_use[kid]
      BY <1>2, <1>3, <2>4 DEF Contradicts
    <3> QED
      BY <2>1, <3>1, <3>2 DEF WrongKids
  <2> QED
    BY <2>3, <2>4
<1> QED
  BY <1>2, <1>4, <1>5, <1>6, <1>7

\* A label's links, each of what it says.
AllOk(m) == \A c \in checks[m] : c.ok
OkManifest ==
  /\ \A m \in modes : PastKeys /\ AllOk(m) =>
       LET e == kids[inp.manifest] IN
       Backed(inp.manifest, e) /\ e.registry = "found" /\ e.key = out.signer
  /\ \A m \in modes : PastKeys /\ stage # "rrn" /\ AllOk(m) => out.robot = "active"
OkKey == PastGateway /\ AllOk("live") => Backed(out.kid, kids[out.kid])
OkRan == PastGateway /\ stage # "ran" /\ AllOk("live") => out.ran \in {"undeclared", "holds"}
OkInv == OkManifest /\ OkKey /\ OkRan

PreflightInv == Types /\ Progress /\ UsesInv /\ StopsInv /\ OkInv

\* A kid that a piece of evidence names has been asked for.
LEMMA AskedFacts ==
  ASSUME Types, UsesInv
  PROVE  /\ inp.manifest \in Kids /\ out.kid \in Kids /\ out.signers \subseteq Kids
         /\ PastKeys => Asked(inp.manifest)
         /\ PastGateway => Asked(out.kid)
         /\ \A kid \in out.signers \ todo : Asked(kid)
<1>1. /\ inp.manifest \in Kids /\ out.kid \in Kids /\ out.signers \subseteq Kids
      /\ "bench" \in BOTH /\ "live" \in BOTH
  BY DEF Types, Facts, BOTH
<1>2. \A kid \in Kids : (\E m \in BOTH : m \in Uses(kid)) => Asked(kid)
  BY DEF UsesInv
<1>3. PastKeys => "bench" \in Uses(inp.manifest)
  BY <1>1 DEF Uses
<1>4. PastGateway => "live" \in Uses(out.kid)
  BY <1>1 DEF Uses
<1>5. \A kid \in out.signers \ todo : "live" \in Uses(kid)
  BY <1>1 DEF Uses
<1> QED
  BY <1>1, <1>2, <1>3, <1>4, <1>5

\* What is wrong with a thing does not change when other things are read.
LEMMA PiecesKeep ==
  ASSUME Types, Progress, UsesInv, inp' = inp, \A k \in Kids : Asked(k) => kids'[k] = kids[k]
  PROVE  /\ out'.footer = out.footer /\ out'.fixture = out.fixture =>
              (WrongManifest' <=> WrongManifest)
         /\ (PastKeys' <=> PastKeys) /\ out'.signer = out.signer =>
              (WrongSignature' <=> WrongSignature)
         /\ out'.gateway = out.gateway /\ out'.path = out.path /\ out'.drive = out.drive =>
              (WrongGateway' <=> WrongGateway)
         /\ (PastGateway' <=> PastGateway) /\ out'.kid = out.kid /\ out'.sidecar = out.sidecar =>
              (WrongKey' <=> WrongKey)
         /\ out'.kid = out.kid /\ out'.pairing = out.pairing => (WrongPairing' <=> WrongPairing)
         /\ out'.kid = out.kid /\ out'.receipt = out.receipt => (WrongReceipt' <=> WrongReceipt)
         /\ out'.enforce = out.enforce /\ out'.signers = out.signers /\ todo' = todo =>
              (WrongSigners' <=> WrongSigners)
         /\ out'.enforce = out.enforce /\ out'.signers = {} /\ out.signers = {} =>
              (WrongSigners' <=> WrongSigners)
<1>1. /\ inp.manifest \in Kids /\ out.kid \in Kids /\ out.signers \subseteq Kids
      /\ PastKeys => Asked(inp.manifest)
      /\ PastGateway => Asked(out.kid)
      /\ \A kid \in out.signers \ todo : Asked(kid)
  BY AskedFacts
<1>2. out.pairing.state # Unread \/ out.receipt.state # Unread => kids'[out.kid] = kids[out.kid]
  BY <1>1 DEF Progress
<1>3. out.pairing.state \in {"read", "unreadable"} => out.pairing.state # Unread
  BY DEF Unread
<1>4. out.receipt.state = "read" => out.receipt.state # Unread
  BY DEF Unread
<1>5. out'.footer = out.footer /\ out'.fixture = out.fixture => (WrongManifest' <=> WrongManifest)
  BY DEF WrongManifest
<1>6. (PastKeys' <=> PastKeys) /\ out'.signer = out.signer => (WrongSignature' <=> WrongSignature)
  BY <1>1 DEF WrongSignature
<1>7. out'.gateway = out.gateway /\ out'.path = out.path /\ out'.drive = out.drive =>
        (WrongGateway' <=> WrongGateway)
  BY DEF WrongGateway
<1>8. (PastGateway' <=> PastGateway) /\ out'.kid = out.kid /\ out'.sidecar = out.sidecar =>
        (WrongKey' <=> WrongKey)
  BY <1>1 DEF WrongKey
<1>9. out'.kid = out.kid /\ out'.pairing = out.pairing => (WrongPairing' <=> WrongPairing)
  BY <1>2, <1>3 DEF WrongPairing
<1>10. out'.kid = out.kid /\ out'.receipt = out.receipt => (WrongReceipt' <=> WrongReceipt)
  BY <1>2, <1>4 DEF WrongReceipt
<1>11. out'.enforce = out.enforce /\ out'.signers = out.signers /\ todo' = todo =>
         (WrongSigners' <=> WrongSigners)
  BY <1>1 DEF WrongSigners
<1>12. out'.enforce = out.enforce /\ out'.signers = {} /\ out.signers = {} =>
         (WrongSigners' <=> WrongSigners)
  BY DEF WrongSigners
<1> QED
  BY <1>5, <1>6, <1>7, <1>8, <1>9, <1>10, <1>11, <1>12

\* A link that is recorded, and not undone.
LEMMA RecordAdds ==
  ASSUME Types, NEW made, NEW ms, checks' = record(made, ms)
  PROVE  /\ checks' = [m \in BOTH |-> checks'[m]]
         /\ \A m \in BOTH : AllOk(m)' => AllOk(m)
         /\ \A m \in BOTH \cap ms : AllOk(m)' => \A c \in made : c.ok
<1>1. \A m \in BOTH : checks'[m] = IF m \in ms THEN checks[m] \cup made ELSE checks[m]
  BY DEF record
<1>2. checks' = [m \in BOTH |-> checks'[m]]
  BY <1>1 DEF record
<1> QED
  BY <1>1, <1>2 DEF AllOk

\* The labels' links stay as they are when nothing they speak of is read.
LEMMA OkKeeps ==
  ASSUME Types, UsesInv, OkInv, inp' = inp, \A k \in Kids : Asked(k) => kids'[k] = kids[k],
         \A m \in BOTH : AllOk(m)' => AllOk(m), PastKeys' <=> PastKeys,
         stage # "rrn" \/ stage' = "rrn"
  PROVE  /\ out'.signer = out.signer /\ out'.robot = out.robot => OkManifest'
         /\ out'.kid = out.kid /\ (PastGateway' <=> PastGateway) => OkKey'
         /\ (/\ out'.ran = out.ran /\ (PastGateway' <=> PastGateway)
             /\ stage # "ran" \/ stage' = "ran") => OkRan'
<1>1. /\ inp.manifest \in Kids /\ out.kid \in Kids
      /\ PastKeys => Asked(inp.manifest)
      /\ PastGateway => Asked(out.kid)
  BY AskedFacts
<1>2. /\ modes' = modes /\ modes \subseteq BOTH /\ "live" \in BOTH
      /\ \A kid, e : Backed(kid, e)' <=> Backed(kid, e)
  BY DEF modes, BOTH, Backed
<1>3. out'.signer = out.signer /\ out'.robot = out.robot => OkManifest'
  BY <1>1, <1>2 DEF OkInv, OkManifest, Backed
<1>4. out'.kid = out.kid /\ (PastGateway' <=> PastGateway) => OkKey'
  BY <1>1, <1>2 DEF OkInv, OkKey, Backed
<1>5. (/\ out'.ran = out.ran /\ (PastGateway' <=> PastGateway)
       /\ stage # "ran" \/ stage' = "ran") => OkRan'
  BY <1>2 DEF OkInv, OkRan
<1> QED
  BY <1>3, <1>4, <1>5

\* Each step keeps the invariant: reading the manifest.
LEMMA ManifestStep ==
  ASSUME PreflightInv, Manifest
  PROVE  PreflightInv'
<1>0. Types /\ Progress /\ UsesInv /\ StopsInv /\ OkInv
  BY DEF PreflightInv
<1>1. PICK footer \in Footers :
        \E fixture \in IF footer = "unreadable" THEN {Unread} ELSE Fixtures :
         /\ out' = [out EXCEPT !.footer = footer, !.fixture = fixture]
         /\ findings' = findings
              \cup find("manifest-unreadable", footer = "unreadable", BOTH)
              \cup find("fixture-differs", fixture \in {"differs", "unreadable"}, BOTH)
              \cup find("manifest-not-signed",
                        footer \in {"unsigned", "malformed"}, BOTH)
         /\ stage' = IF footer = "signed" THEN "manifest_keys" ELSE "done"
  BY DEF Manifest
<1>2. PICK fixture \in Fixtures \cup {Unread} :
         /\ out' = [out EXCEPT !.footer = footer, !.fixture = fixture]
         /\ findings' = findings
              \cup find("manifest-unreadable", footer = "unreadable", BOTH)
              \cup find("fixture-differs", fixture \in {"differs", "unreadable"}, BOTH)
              \cup find("manifest-not-signed",
                        footer \in {"unsigned", "malformed"}, BOTH)
  BY <1>1
<1>3. /\ stage = "manifest" /\ stage' = IF footer = "signed" THEN "manifest_keys" ELSE "done"
      /\ UNCHANGED <<inp, kids, in_use, todo, checks>>
  BY <1>1 DEF Manifest
<1>4. /\ out' \in Facts /\ out'.footer = footer /\ out'.fixture = fixture
      /\ UNCHANGED <<out.signer, out.robot, out.gateway, out.path, out.drive, out.kid,
                     out.enforce, out.sidecar, out.ran, out.ranRevoked, out.pairing,
                     out.receipt, out.signers>>
  BY <1>0, <1>2 DEF Types, Facts
<1>5. Types'
  BY <1>0, <1>3, <1>4 DEF Types, Answers, Late, Early
<1>6. Progress'
  BY <1>0, <1>3, <1>4 DEF Progress, Asked, Early, Late, Footers, Unread, PastGateway
<1>7. ~PastKeys /\ ~PastKeys' /\ ~PastGateway /\ ~PastGateway'
  BY <1>0, <1>3, <1>4 DEF PastKeys, PastGateway, Progress, Early, Unread
<1>8. UsesInv'
  BY <1>0, <1>3, <1>4, <1>7 DEF UsesInv, Uses, Asked, Late, Early
<1>9. OkInv'
  BY <1>7 DEF OkInv, OkManifest, OkKey, OkRan
<1>10. StopsInv'
  <2> SUFFICES ASSUME NEW m \in BOTH PROVE StopIn(findings', m) <=> Wrong(m)'
    BY DEF StopsInv
  <2>1. StopIn(findings', m) <=>
          \/ StopIn(findings, m) \/ footer = "unreadable"
          \/ fixture \in {"differs", "unreadable"} \/ footer \in {"unsigned", "malformed"}
    <3> DEFINE differs == fixture \in {"differs", "unreadable"}
               unsigned == footer \in {"unsigned", "malformed"}
               F1 == find("manifest-unreadable", footer = "unreadable", BOTH)
               F2 == find("fixture-differs", differs, BOTH)
               F3 == find("manifest-not-signed", unsigned, BOTH)
    <3>1. findings' = findings \cup F1 \cup F2 \cup F3
      BY <1>2
    <3>2. /\ differs <=> fixture \in {"differs", "unreadable"}
          /\ unsigned <=> footer \in {"unsigned", "malformed"}
          /\ StopIn(F1, m) <=> footer = "unreadable"
      BY StopFind
    <3> HIDE DEF differs, unsigned
    <3>3. StopIn(F2, m) <=> differs
      BY StopFind
    <3>4. StopIn(F3, m) <=> unsigned
      BY StopFind
    <3> HIDE DEF F1, F2, F3
    <3>5. StopIn(findings', m) <=>
            StopIn(findings, m) \/ StopIn(F1, m) \/ StopIn(F2, m) \/ StopIn(F3, m)
      BY <3>1 DEF StopIn
    <3> QED
      BY <3>2, <3>3, <3>4, <3>5
  <2>2. ~WrongManifest /\ (WrongManifest' <=> \/ footer = "unreadable"
          \/ fixture \in {"differs", "unreadable"} \/ footer \in {"unsigned", "malformed"})
    BY <1>0, <1>3, <1>4 DEF WrongManifest, Progress, Footers, Unread
  <2>3. WrongKids(m)' <=> WrongKids(m)
    BY <1>3 DEF WrongKids, Contradicts
  <2>4. /\ WrongSignature' <=> WrongSignature
        /\ WrongLive' <=> WrongLive
    BY <1>0, <1>3, <1>4, <1>7, PiecesKeep DEF WrongLive
  <2>5. StopIn(findings, m) <=> Wrong(m)
    BY <1>0 DEF StopsInv
  <2> QED
    BY <1>4, <2>1, <2>2, <2>3, <2>4, <2>5 DEF Wrong
<1> QED
  BY <1>5, <1>6, <1>8, <1>9, <1>10 DEF PreflightInv

\* The manifest's kid and signature.
LEMMA ManifestKeysStep ==
  ASSUME PreflightInv, ManifestKeys
  PROVE  PreflightInv'
<1>0. /\ Types /\ Progress /\ UsesInv /\ StopsInv /\ OkInv
      /\ inp.manifest \in Kids /\ stage = "manifest_keys" /\ out.footer = "signed"
      /\ \A kid \in Kids : ~Asked(kid) /\ in_use[kid] = {}
      /\ BOTH \in SUBSET BOTH /\ modes \subseteq BOTH
  BY AskedFacts DEF PreflightInv, ManifestKeys, Progress, UsesInv, modes, BOTH
<1> DEFINE kid == inp.manifest
<1>1. PICK e \in Entries(inp.manifest), signer \in MaybeKey :
       /\ check_kid(inp.manifest, e, BOTH)
       /\ out' = [out EXCEPT !.signer = signer]
       /\ findings' = findings \cup KidFindings(inp.manifest, e, BOTH)
            \cup find("manifest-kid-not-resolvable-locally", e.local = NoKey, BOTH)
            \cup find("manifest-signature-fails-local-key",
                      e.local # NoKey /\ signer # e.local, BOTH)
       /\ checks' = record(
            {[check |-> "manifest_kid", ok |-> Backed(inp.manifest, e)],
             [check |-> "manifest_verifies",
              ok |-> e.registry = "found" /\ e.key = signer]}, modes)
  BY DEF ManifestKeys
<1>2. stage' = "rrn" /\ UNCHANGED <<inp, todo>>
  BY DEF ManifestKeys
<1>3. /\ out' \in Facts /\ out'.signer = signer
      /\ UNCHANGED <<out.footer, out.fixture, out.robot, out.gateway, out.path, out.drive, out.kid,
                     out.enforce, out.sidecar, out.ran, out.ranRevoked, out.pairing,
                     out.receipt, out.signers>>
  BY <1>0, <1>1 DEF Types, Facts
<1>4. /\ \A k \in Kids : Asked(k) => kids'[k] = kids[k]
      /\ \A k \in Kids : Asked(k)' <=> k = kid
      /\ kids'[kid] = e
      /\ kids' \in [Kids -> Answers' \cup {Unchecked}]
      /\ in_use' \in [Kids -> SUBSET BOTH]
      /\ \A k \in Kids : in_use'[k] = IF k = kid THEN BOTH ELSE {}
      /\ \A m \in BOTH :
           WrongKids(m)' <=> WrongKids(m) \/ StopIn(KidFindings(kid, e, BOTH), m)
  <2>1. /\ kid \in Kids /\ e \in Entries(kid) /\ BOTH \in SUBSET BOTH /\ inp' = inp
        /\ check_kid(kid, e, BOTH) /\ Types /\ ~Asked(kid) /\ in_use[kid] = {}
    BY <1>0, <1>1, <1>2
  <2>2. /\ \A k \in Kids : Asked(k) => kids'[k] = kids[k]
        /\ \A k \in Kids : Asked(k)' <=> Asked(k) \/ k = kid
        /\ kids'[kid] = e
        /\ kids' \in [Kids -> Answers' \cup {Unchecked}]
        /\ in_use' \in [Kids -> SUBSET BOTH]
        /\ \A k \in Kids : in_use'[k] = IF k = kid THEN in_use[k] \cup BOTH ELSE in_use[k]
        /\ \A m \in BOTH :
             WrongKids(m)' <=> WrongKids(m) \/ StopIn(KidFindings(kid, e, BOTH), m)
    BY <2>1, CheckKid
  <2>3. \A k \in Kids : in_use'[k] = IF k = kid THEN BOTH ELSE {}
    BY <1>0, <2>2
  <2> QED
    BY <1>0, <2>2, <2>3
<1>5. Types'
  <2>1. checks' = [m \in BOTH |-> checks'[m]]
    BY <1>0, <1>1, RecordAdds
  <2> QED
    BY <1>0, <1>2, <1>3, <1>4, <2>1 DEF Types, Early
<1>6. Progress'
  BY <1>0, <1>2, <1>3 DEF Progress, Early, Late, Unread, PastGateway
<1>7. PastKeys' /\ ~PastKeys /\ ~PastGateway /\ ~PastGateway'
  BY <1>0, <1>2, <1>3 DEF PastKeys, PastGateway, Progress, Early, Unread
<1>8. UsesInv'
  <2>1. out.signers = {} /\ out'.signers = {}
    BY <1>0, <1>3 DEF Progress, Early
  <2>2. \A k \in Kids : in_use'[k] = Uses(k)'
    BY <1>2, <1>4, <1>7, <2>1 DEF Uses
  <2> QED
    BY <1>4, <2>2 DEF UsesInv, BOTH
<1>9. OkInv'
  <2>1. modes' = modes
    BY <1>2 DEF modes
  <2>2. ASSUME NEW m \in modes, AllOk(m)'
        PROVE  Backed(kid, e) /\ e.registry = "found" /\ e.key = signer
    <3>1. m \in BOTH \cap modes
      BY <1>0
    <3> DEFINE c1 == [check |-> "manifest_kid", ok |-> Backed(kid, e)]
               c2 == [check |-> "manifest_verifies", ok |-> e.registry = "found" /\ e.key = signer]
    <3>2. checks' = record({c1, c2}, modes)
      BY <1>1
    <3>3. /\ c1.ok <=> Backed(kid, e)
          /\ c2.ok <=> e.registry = "found" /\ e.key = signer
      BY Zenon
    <3> HIDE DEF c1, c2
    <3>4. \A c \in {c1, c2} : c.ok
      BY <1>0, <2>2, <3>1, <3>2, RecordAdds
    <3> QED
      BY <3>3, <3>4
  <2>3. Backed(kid, e)' <=> Backed(kid, e)
    BY <1>2 DEF Backed
  <2> QED
    BY <1>2, <1>3, <1>4, <1>7, <2>1, <2>2, <2>3 DEF OkInv, OkManifest, OkKey, OkRan, Backed
<1>10. StopsInv'
  <2> SUFFICES ASSUME NEW m \in BOTH PROVE StopIn(findings', m) <=> Wrong(m)'
    BY DEF StopsInv
  <2>1. StopIn(findings', m) <=>
          \/ StopIn(findings, m) \/ StopIn(KidFindings(kid, e, BOTH), m)
          \/ e.local = NoKey \/ signer # e.local
    <3> DEFINE F1 == KidFindings(kid, e, BOTH)
               F2 == find("manifest-kid-not-resolvable-locally", e.local = NoKey, BOTH)
               F3 == find("manifest-signature-fails-local-key",
                          e.local # NoKey /\ signer # e.local, BOTH)
    <3>1. findings' = findings \cup F1 \cup F2 \cup F3
      BY <1>1
    <3>2. StopIn(F2, m) <=> e.local = NoKey
      BY StopFind
    <3>3. StopIn(F3, m) <=> e.local # NoKey /\ signer # e.local
      BY StopFind
    <3> HIDE DEF F1, F2, F3
    <3>4. StopIn(findings', m) <=>
            StopIn(findings, m) \/ StopIn(F1, m) \/ StopIn(F2, m) \/ StopIn(F3, m)
      BY <3>1 DEF StopIn
    <3> QED
      BY <3>2, <3>3, <3>4 DEF F1
  <2>2. ~WrongSignature /\ (WrongSignature' <=> e.local = NoKey \/ signer # e.local)
    BY <1>2, <1>3, <1>4, <1>7 DEF WrongSignature
  <2>3. (WrongManifest' <=> WrongManifest) /\ (WrongLive' <=> WrongLive)
    BY <1>0, <1>2, <1>3, <1>4, <1>7, PiecesKeep DEF WrongLive
  <2>4. StopIn(findings, m) <=> Wrong(m)
    BY <1>0 DEF StopsInv
  <2> QED
    BY <1>3, <1>4, <2>1, <2>2, <2>3, <2>4 DEF Wrong
<1> QED
  BY <1>5, <1>6, <1>8, <1>9, <1>10 DEF PreflightInv

\* The registry's record of the robot.
LEMMA RrnStep ==
  ASSUME PreflightInv, Rrn
  PROVE  PreflightInv'
<1>0. /\ Types /\ Progress /\ UsesInv /\ StopsInv /\ OkInv
      /\ stage = "rrn" /\ modes \subseteq BOTH
  BY DEF PreflightInv, Rrn, modes, BOTH
<1>1. PICK robot \in Robots :
       /\ out' = [out EXCEPT !.robot = robot]
       /\ findings' = findings \cup find("robot-revoked", robot = "revoked", BOTH)
       /\ checks' = record({[check |-> "rrn_record", ok |-> robot = "active"]}, modes)
  BY DEF Rrn
<1>2. /\ stage' = IF inp.mode = "live" THEN "gateway" ELSE "pins"
      /\ UNCHANGED <<inp, kids, in_use, todo>>
  BY DEF Rrn
<1>3. /\ out' \in Facts /\ out'.robot = robot
      /\ UNCHANGED <<out.footer, out.fixture, out.signer, out.gateway, out.path, out.drive, out.kid,
                     out.enforce, out.sidecar, out.ran, out.ranRevoked, out.pairing,
                     out.receipt, out.signers>>
  BY <1>0, <1>1 DEF Types, Facts
<1>4. Types'
  <2>1. checks' = [m \in BOTH |-> checks'[m]]
    BY <1>0, <1>1, RecordAdds
  <2> QED
    BY <1>0, <1>2, <1>3, <2>1 DEF Types, Early, Late, Answers
<1>5. Progress'
  BY <1>0, <1>2, <1>3 DEF Types, Progress, Early, Late, Unread, PastGateway, BOTH
<1>6. PastKeys' /\ PastKeys /\ ~PastGateway /\ ~PastGateway'
  BY <1>0, <1>2, <1>3 DEF PastKeys, PastGateway, Progress, Early, Late, Unread
<1>7. UsesInv'
  BY <1>0, <1>2, <1>3, <1>6 DEF UsesInv, Uses, Asked, Late
<1>8. OkInv'
  <2>1. modes' = modes
    BY <1>2 DEF modes
  <2>2. ASSUME NEW m \in modes, AllOk(m)'
        PROVE  robot = "active" /\ AllOk(m)
    <3>1. m \in BOTH \cap modes
      BY <1>0
    <3> DEFINE c == [check |-> "rrn_record", ok |-> robot = "active"]
    <3>2. checks' = record({c}, modes)
      BY <1>1
    <3>3. c.ok <=> robot = "active"
      BY Zenon
    <3> HIDE DEF c
    <3>4. c.ok /\ AllOk(m)
      BY <1>0, <2>2, <3>1, <3>2, RecordAdds
    <3> QED
      BY <3>3, <3>4
  <2> QED
    BY <1>0, <1>2, <1>3, <1>6, <2>1, <2>2 DEF OkInv, OkManifest, OkKey, OkRan, Backed
<1>9. StopsInv'
  <2> SUFFICES ASSUME NEW m \in BOTH PROVE StopIn(findings', m) <=> Wrong(m)'
    BY DEF StopsInv
  <2>1. StopIn(findings', m) <=> StopIn(findings, m) \/ robot = "revoked"
    <3> DEFINE F1 == find("robot-revoked", robot = "revoked", BOTH)
    <3>1. findings' = findings \cup F1
      BY <1>1
    <3>2. StopIn(F1, m) <=> robot = "revoked"
      BY StopFind
    <3> HIDE DEF F1
    <3> QED
      BY <3>1, <3>2, StopUnion
  <2>2. out.robot # "revoked"
    BY <1>0 DEF Progress, Unread
  <2>3. WrongKids(m)' <=> WrongKids(m)
    BY <1>2 DEF WrongKids, Contradicts
  <2>4. /\ WrongManifest' <=> WrongManifest
        /\ WrongSignature' <=> WrongSignature
        /\ WrongLive' <=> WrongLive
    BY <1>0, <1>2, <1>3, <1>6, PiecesKeep DEF WrongLive
  <2>5. StopIn(findings, m) <=> Wrong(m)
    BY <1>0 DEF StopsInv
  <2> QED
    BY <1>3, <2>1, <2>2, <2>3, <2>4, <2>5 DEF Wrong
<1> QED
  BY <1>4, <1>5, <1>7, <1>8, <1>9 DEF PreflightInv

\* The findings about the gateway itself.
LEMMA GatewayFindings ==
  ASSUME PreflightInv, Gateway
  PROVE  /\ stage = "gateway" /\ UNCHANGED <<inp, kids, in_use, todo, checks>>
         /\ out' \in Facts /\ out'.gateway # Unread
         /\ UNCHANGED <<out.footer, out.fixture, out.signer, out.robot, out.sidecar, out.ran,
                        out.ranRevoked, out.pairing, out.receipt, out.signers>>
         /\ stage' = IF out'.gateway = "signing" THEN "gateway_key" ELSE "pins"
         /\ \A m \in BOTH :
              StopIn(findings', m) <=> StopIn(findings, m) \/ (m = "live" /\ WrongGateway')
<1>0. /\ Types /\ stage = "gateway" /\ UNCHANGED <<inp, kids, in_use, todo, checks>>
      /\ out.path /\ out.drive = "matches" /\ out \in Facts
  BY DEF PreflightInv, Gateway, Progress, Early, Types
<1> DEFINE Read(gw, path, enforce, kid, drive) ==
       IF gw = "not-running"
       THEN /\ out' = [out EXCEPT !.gateway = gw]
            /\ findings' = findings \cup find("gateway-not-running", TRUE, LIVE)
            /\ stage' = "pins"
       ELSE /\ out' = [out EXCEPT !.gateway = gw, !.path = path, !.kid = kid,
                                  !.drive = drive, !.enforce = enforce]
            /\ findings' = findings
                 \cup find("gateway-manifest-path-differs", ~path, LIVE)
                 \cup find("drive-backend-differs", drive = "differs", LIVE)
                 \cup find("gateway-not-signing", gw = "not-signing", LIVE)
            /\ stage' = IF gw = "signing" THEN "gateway_key" ELSE "pins"
<1>1. PICK gw \in Gateways, path \in BOOLEAN, enforce \in BOOLEAN, kid \in Kids,
           drive \in {"matches", "differs"} : Read(gw, path, enforce, kid, drive)
  <2>1. PICK gw \in Gateways, path \in BOOLEAN, enforce \in BOOLEAN, kid \in Kids,
             env \in {"unset", "simulated", "tank", "unknown"},
             backend \in {"none", "SimulatedDrive", "PCA9685Drive"},
             hardware \in {"unset", "true", "false"} :
          Read(gw, path, enforce, kid,
               IF DriveMatches(env, backend, hardware) THEN "matches" ELSE "differs")
    BY Zenon DEF Gateway
  <2> DEFINE drive == IF DriveMatches(env, backend, hardware) THEN "matches" ELSE "differs"
  <2>2. drive \in {"matches", "differs"}
    OBVIOUS
  <2> HIDE DEF Read
  <2> QED
    BY <2>1, <2>2
<1>2. gw # Unread /\ out'.gateway = gw
  <2>1. CASE gw = "not-running"
    BY <1>0, <1>1, <2>1 DEF Unread, Facts
  <2>2. CASE gw # "not-running"
    <3>1. out' = [out EXCEPT !.gateway = gw, !.path = path, !.kid = kid,
                             !.drive = drive, !.enforce = enforce]
      BY <1>1, <2>2
    <3> HIDE DEF Read
    <3>2. out'.gateway = gw
      BY <1>0, <3>1 DEF Facts
    <3>3. gw # Unread
      BY DEF Gateways, Unread
    <3> QED
      BY <3>2, <3>3
  <2> QED
    BY <2>1, <2>2
<1>3. /\ out' \in Facts
      /\ UNCHANGED <<out.footer, out.fixture, out.signer, out.robot, out.sidecar, out.ran,
                     out.ranRevoked, out.pairing, out.receipt, out.signers>>
      /\ stage' = IF out'.gateway = "signing" THEN "gateway_key" ELSE "pins"
  <2>1. CASE gw = "not-running"
    BY <1>0, <1>1, <1>2, <2>1 DEF Facts
  <2>2. CASE gw # "not-running"
    <3>1. /\ out' = [out EXCEPT !.gateway = gw, !.path = path, !.kid = kid,
                                !.drive = drive, !.enforce = enforce]
          /\ stage' = IF gw = "signing" THEN "gateway_key" ELSE "pins"
      BY <1>1, <2>2
    <3>2. out' \in Facts
      <4> DEFINE o == [out EXCEPT !.gateway = gw, !.path = path, !.kid = kid]
      <4>1. o \in Facts
        BY <1>0 DEF Facts
      <4>2. out' = [o EXCEPT !.drive = drive, !.enforce = enforce]
        BY <3>1
      <4> HIDE DEF o
      <4> QED
        BY <4>1, <4>2 DEF Facts
    <3> QED
      BY <1>0, <1>2, <3>1, <3>2 DEF Facts
  <2> QED
    BY <2>1, <2>2
<1>4. ASSUME NEW m \in BOTH
      PROVE  StopIn(findings', m) <=> StopIn(findings, m) \/ (m = "live" /\ WrongGateway')
  <2>1. m \in LIVE <=> m = "live"
    BY DEF LIVE
  <2>2. CASE gw = "not-running"
    <3>1. StopIn(find("gateway-not-running", TRUE, LIVE), m) <=> m \in LIVE
      BY StopFind
    <3>2. findings' = findings \cup find("gateway-not-running", TRUE, LIVE)
      BY <1>1, <2>2
    <3>3. WrongGateway'
      BY <1>2, <2>2 DEF WrongGateway
    <3> QED
      BY <2>1, <3>1, <3>2, <3>3, StopUnion
  <2>3. CASE gw # "not-running"
    <3> DEFINE F1 == find("gateway-manifest-path-differs", ~path, LIVE)
               F2 == find("drive-backend-differs", drive = "differs", LIVE)
               F3 == find("gateway-not-signing", gw = "not-signing", LIVE)
    <3>1. findings' = findings \cup F1 \cup F2 \cup F3
      BY <1>1, <2>3
    <3>2. StopIn(F1, m) <=> ~path /\ m \in LIVE
      BY StopFind
    <3>3. StopIn(F2, m) <=> drive = "differs" /\ m \in LIVE
      BY StopFind
    <3>4. StopIn(F3, m) <=> gw = "not-signing" /\ m \in LIVE
      BY StopFind
    <3>5. WrongGateway' <=> gw = "not-signing" \/ ~path \/ drive = "differs"
      <4>1. out'.path = path /\ out'.drive = drive
        BY <1>0, <1>1, <2>3 DEF Facts
      <4> QED
        BY <1>2, <2>3, <4>1 DEF WrongGateway
    <3> HIDE DEF F1, F2, F3
    <3>6. StopIn(findings', m) <=>
            StopIn(findings, m) \/ StopIn(F1, m) \/ StopIn(F2, m) \/ StopIn(F3, m)
      BY <3>1 DEF StopIn
    <3> QED
      BY <2>1, <3>2, <3>3, <3>4, <3>5, <3>6
  <2> QED
    BY <2>2, <2>3
<1> QED
  BY <1>0, <1>2, <1>3, <1>4

\* The gateway's process; a gateway that signs has not been asked for its key yet.
LEMMA GatewayStep ==
  ASSUME PreflightInv, Gateway
  PROVE  PreflightInv'
<1>0. Types /\ Progress /\ UsesInv /\ StopsInv /\ OkInv
  BY DEF PreflightInv
<1>1. /\ stage = "gateway" /\ UNCHANGED <<inp, kids, in_use, todo, checks>>
      /\ out' \in Facts /\ out'.gateway # Unread
      /\ UNCHANGED <<out.footer, out.fixture, out.signer, out.robot, out.sidecar, out.ran,
                     out.ranRevoked, out.pairing, out.receipt, out.signers>>
      /\ stage' = IF out'.gateway = "signing" THEN "gateway_key" ELSE "pins"
      /\ \A m \in BOTH :
           StopIn(findings', m) <=> StopIn(findings, m) \/ (m = "live" /\ WrongGateway')
  BY GatewayFindings
<1>2. Types'
  BY <1>0, <1>1 DEF Types, Answers, Late, Early
<1>3. /\ out.gateway = Unread /\ out.path /\ out.drive = "matches" /\ out.footer = "signed"
      /\ out.sidecar.state = Unread /\ out.pairing.state = Unread /\ out.receipt.state = Unread
      /\ out.signers = {} /\ ~out.ranRevoked /\ todo = {} /\ inp.mode = "live"
  BY <1>0, <1>1 DEF Progress, Early, Late, PastGateway, Unread
<1>4. ~PastGateway /\ ~PastGateway' /\ PastKeys /\ PastKeys'
  BY <1>1, <1>3 DEF PastGateway, PastKeys, Unread
<1>5. Progress'
  BY <1>1, <1>3 DEF Progress, Early, Late, PastGateway, Asked, Unread
<1>6. UsesInv'
  BY <1>0, <1>1, <1>4 DEF UsesInv, Uses, Asked, Late
<1>7. OkInv'
  <2>1. OkManifest'
    BY <1>0, <1>1, <1>4, OkKeeps DEF AllOk
  <2>2. OkKey' /\ OkRan'
    BY <1>4 DEF OkKey, OkRan
  <2> QED
    BY <2>1, <2>2 DEF OkInv
<1>8. StopsInv'
  <2> SUFFICES ASSUME NEW m \in BOTH PROVE StopIn(findings', m) <=> Wrong(m)'
    BY DEF StopsInv
  <2>1. WrongKids(m)' <=> WrongKids(m)
    BY <1>1 DEF WrongKids, Contradicts
  <2>2. /\ WrongManifest' <=> WrongManifest
        /\ WrongSignature' <=> WrongSignature
    BY <1>0, <1>1, <1>4, PiecesKeep
  <2>3. ~WrongLive
    BY <1>3, <1>4 DEF WrongLive, WrongGateway, WrongKey, WrongPairing, WrongReceipt,
                      WrongSigners, Unread
  <2>4. WrongLive' <=> WrongGateway'
    BY <1>1, <1>3, <1>4 DEF WrongLive, WrongKey, WrongPairing, WrongReceipt, WrongSigners, Unread
  <2>5. StopIn(findings, m) <=> Wrong(m)
    BY <1>0 DEF StopsInv
  <2> QED
    BY <1>1, <2>1, <2>2, <2>3, <2>4, <2>5 DEF Wrong
<1> QED
  BY <1>2, <1>5, <1>6, <1>7, <1>8 DEF PreflightInv

\* The gateway's signing kid, which may be the manifest's.
LEMMA GatewayKeyStep ==
  ASSUME PreflightInv, GatewayKey
  PROVE  PreflightInv'
<1>0. /\ Types /\ Progress /\ UsesInv /\ StopsInv /\ OkInv
      /\ out.kid \in Kids /\ stage = "gateway_key" /\ out.gateway = "signing"
      /\ out.footer = "signed" /\ out.signers = {} /\ todo = {}
      /\ LIVE \in SUBSET BOTH
      /\ Asked(out.kid) => LIVE \subseteq in_use[out.kid]
      /\ ~Asked(out.kid) => in_use[out.kid] = {}
  BY AskedFacts DEF PreflightInv, GatewayKey, Progress, UsesInv, BOTH, LIVE, Early, Late
<1> DEFINE kid == out.kid
<1>1. PICK e \in Entries(out.kid), sidecar \in [state : {"none", "read"}, key : MaybeKey] :
       /\ check_kid(out.kid, e, LIVE)
       /\ out' = [out EXCEPT !.sidecar = sidecar]
       /\ findings' = findings \cup KidFindings(out.kid, e, LIVE)
            \cup find("gateway-kid-not-resolvable-locally", e.local = NoKey, LIVE)
            \cup find("gateway-key-file-differs-from-local-key",
                      sidecar.state = "read" /\ e.local # NoKey /\ sidecar.key # e.local, LIVE)
       /\ checks' = record({[check |-> "gateway_kid", ok |-> Backed(out.kid, e)]}, LIVE)
  BY DEF GatewayKey
<1>2. stage' = "ran" /\ UNCHANGED <<inp, todo>>
  BY DEF GatewayKey
<1>3. /\ out' \in Facts /\ out'.sidecar = sidecar
      /\ UNCHANGED <<out.footer, out.fixture, out.signer, out.robot, out.gateway, out.path,
                     out.drive, out.kid, out.enforce, out.ran, out.ranRevoked, out.pairing,
                     out.receipt, out.signers>>
  BY <1>0, <1>1 DEF Types, Facts
<1>4. /\ \A k \in Kids : Asked(k) => kids'[k] = kids[k]
      /\ \A k \in Kids : Asked(k)' <=> Asked(k) \/ k = kid
      /\ kids'[kid] = e
      /\ kids' \in [Kids -> Answers' \cup {Unchecked}]
      /\ in_use' \in [Kids -> SUBSET BOTH]
      /\ \A k \in Kids : in_use'[k] = IF k = kid THEN in_use[k] \cup LIVE ELSE in_use[k]
      /\ \A m \in BOTH :
           WrongKids(m)' <=> WrongKids(m) \/ StopIn(KidFindings(kid, e, LIVE), m)
  <2>1. /\ kid \in Kids /\ e \in Entries(kid) /\ LIVE \in SUBSET BOTH /\ inp' = inp
        /\ check_kid(kid, e, LIVE) /\ Types
        /\ ~Asked(kid) => in_use[kid] = {}
        /\ Asked(kid) => LIVE \subseteq in_use[kid]
    BY <1>0, <1>1, <1>2
  <2> HIDE DEF kid
  <2> QED
    BY <2>1, CheckKid
<1>5. PastKeys /\ PastKeys' /\ ~PastGateway /\ PastGateway'
  BY <1>0, <1>2, <1>3 DEF PastKeys, PastGateway
<1>6. /\ checks' = [m \in BOTH |-> checks'[m]]
      /\ \A m \in BOTH : AllOk(m)' => AllOk(m)
      /\ AllOk("live")' => Backed(kid, e)
  <2> DEFINE c == [check |-> "gateway_kid", ok |-> Backed(kid, e)]
  <2>1. checks' = record({c}, LIVE)
    BY <1>1
  <2>2. c.ok <=> Backed(kid, e)
    BY Zenon
  <2> HIDE DEF c
  <2>3. "live" \in BOTH \cap LIVE
    BY DEF BOTH, LIVE
  <2>4. /\ checks' = [m \in BOTH |-> checks'[m]]
        /\ \A m \in BOTH : AllOk(m)' => AllOk(m)
        /\ \A m \in BOTH \cap LIVE : AllOk(m)' => \A d \in {c} : d.ok
    BY <1>0, <2>1, RecordAdds
  <2> QED
    BY <2>2, <2>3, <2>4
<1>7. Types'
  BY <1>0, <1>2, <1>3, <1>4, <1>6 DEF Types
<1>8. Progress'
  BY <1>0, <1>2, <1>3, <1>5 DEF Progress, Early, Late
<1>9. UsesInv'
  <2>1. \A k \in Kids : Uses(k)' = IF k = kid THEN Uses(k) \cup LIVE ELSE Uses(k)
    BY <1>0, <1>2, <1>3, <1>5 DEF Uses, LIVE, BOTH
  <2>2. \A k \in Kids : in_use'[k] = Uses(k)'
    <3>1. \A k \in Kids : in_use[k] = Uses(k)
      BY <1>0 DEF UsesInv
    <3> QED
      BY <1>4, <2>1, <3>1
  <2>3. \A k \in Kids : ~Asked(k)' => in_use'[k] = {}
    BY <1>0, <1>4 DEF UsesInv
  <2>4. \A k \in Kids : Asked(k)' => "live" \in in_use'[k]
    BY <1>0, <1>4 DEF UsesInv, LIVE, Late
  <2> QED
    BY <2>2, <2>3, <2>4 DEF UsesInv
<1>10. OkInv'
  <2>1. OkManifest'
    BY <1>0, <1>2, <1>3, <1>4, <1>5, <1>6, OkKeeps
  <2>2. OkKey'
    BY <1>2, <1>3, <1>4, <1>6 DEF OkKey, Backed
  <2>3. OkRan'
    BY <1>2 DEF OkRan
  <2> QED
    BY <2>1, <2>2, <2>3 DEF OkInv
<1>11. StopsInv'
  <2> SUFFICES ASSUME NEW m \in BOTH PROVE StopIn(findings', m) <=> Wrong(m)'
    BY DEF StopsInv
  <2>1. m \in LIVE <=> m = "live"
    BY DEF LIVE
  <2>2. StopIn(findings', m) <=>
          \/ StopIn(findings, m) \/ StopIn(KidFindings(kid, e, LIVE), m)
          \/ /\ m = "live"
             /\ e.local = NoKey \/ (sidecar.state = "read" /\ sidecar.key # e.local)
    <3> DEFINE F1 == KidFindings(kid, e, LIVE)
               F2 == find("gateway-kid-not-resolvable-locally", e.local = NoKey, LIVE)
               F3 == find("gateway-key-file-differs-from-local-key",
                          /\ sidecar.state = "read" /\ e.local # NoKey
                          /\ sidecar.key # e.local, LIVE)
    <3>1. findings' = findings \cup F1 \cup F2 \cup F3
      BY <1>1
    <3>2. StopIn(F2, m) <=> e.local = NoKey /\ m \in LIVE
      BY StopFind
    <3>3. StopIn(F3, m) <=> (/\ sidecar.state = "read" /\ e.local # NoKey
                             /\ sidecar.key # e.local) /\ m \in LIVE
      BY StopFind
    <3> HIDE DEF F1, F2, F3
    <3>4. StopIn(findings', m) <=>
            StopIn(findings, m) \/ StopIn(F1, m) \/ StopIn(F2, m) \/ StopIn(F3, m)
      BY <3>1 DEF StopIn
    <3> QED
      BY <2>1, <3>2, <3>3, <3>4 DEF F1
  <2>3. ~WrongKey /\ (WrongKey' <=>
          e.local = NoKey \/ (sidecar.state = "read" /\ sidecar.key # e.local))
    BY <1>3, <1>4, <1>5 DEF WrongKey
  <2>4. /\ WrongManifest' <=> WrongManifest
        /\ WrongSignature' <=> WrongSignature
        /\ WrongGateway' <=> WrongGateway
        /\ WrongPairing' <=> WrongPairing
        /\ WrongReceipt' <=> WrongReceipt
        /\ WrongSigners' <=> WrongSigners
    BY <1>0, <1>2, <1>3, <1>4, <1>5, PiecesKeep
  <2>5. StopIn(findings, m) <=> Wrong(m)
    BY <1>0 DEF StopsInv
  <2>6. StopIn(findings', m) <=>
          \/ Wrong(m) \/ StopIn(KidFindings(kid, e, LIVE), m) \/ (m = "live" /\ WrongKey')
    BY <2>2, <2>3, <2>5
  <2> QED
    BY <1>3, <1>4, <2>3, <2>4, <2>6 DEF Wrong, WrongLive
<1> QED
  BY <1>7, <1>8, <1>9, <1>10, <1>11 DEF PreflightInv

\* The declared authority.
LEMMA RanStep ==
  ASSUME PreflightInv, Ran
  PROVE  PreflightInv'
<1>0. /\ Types /\ Progress /\ UsesInv /\ StopsInv /\ OkInv
      /\ stage = "ran" /\ out.gateway = "signing" /\ out.footer = "signed" /\ ~out.ranRevoked
      /\ out.signers = {} /\ todo = {}
  BY DEF PreflightInv, Ran, Progress, Early, Late
<1>1. PICK rn \in Rans, revoked \in BOOLEAN, kidRan \in BOOLEAN :
       /\ out' = [out EXCEPT !.ran = rn, !.ranRevoked = revoked, !.kidRan = kidRan]
       /\ findings' = findings \cup find("ran-revoked", revoked, LIVE)
       /\ checks' = record(
            {[check |-> "declared_ran",
              ok |-> rn = "undeclared" \/ (rn = "holds" /\ kidRan)]}, LIVE)
  BY Zenon DEF Ran
<1>2. stage' = "pairing" /\ UNCHANGED <<inp, kids, in_use, todo>>
  BY DEF Ran
<1>3. /\ out' \in Facts /\ out'.ran = rn /\ out'.ranRevoked = revoked
      /\ UNCHANGED <<out.footer, out.fixture, out.signer, out.robot, out.gateway, out.path,
                     out.drive, out.kid, out.enforce, out.sidecar, out.pairing,
                     out.receipt, out.signers>>
  <2> DEFINE o == [out EXCEPT !.ran = rn]
             p == [o EXCEPT !.ranRevoked = revoked]
  <2>1. o \in Facts
    BY <1>0 DEF Types, Facts
  <2>2. /\ UNCHANGED <<out.footer, out.fixture, out.signer, out.robot, out.gateway, out.path,
                       out.drive, out.kid, out.enforce, out.sidecar, out.pairing,
                       out.receipt, out.signers>>
        /\ out'.ran = rn /\ out'.ranRevoked = revoked
    BY <1>0, <1>1 DEF Types, Facts
  <2>3. out' = [p EXCEPT !.kidRan = kidRan]
    BY <1>1
  <2> HIDE DEF o
  <2>4. p \in Facts
    BY <2>1 DEF Facts
  <2> HIDE DEF p
  <2>5. out' \in Facts
    BY <2>3, <2>4 DEF Facts
  <2> QED
    BY <2>2, <2>5
<1>4. PastKeys /\ PastKeys' /\ PastGateway /\ PastGateway'
  BY <1>0, <1>2, <1>3 DEF PastKeys, PastGateway
<1>5. /\ checks' = [m \in BOTH |-> checks'[m]]
      /\ \A m \in BOTH : AllOk(m)' => AllOk(m)
      /\ AllOk("live")' => rn \in {"undeclared", "holds"}
  <2> DEFINE c == [check |-> "declared_ran", ok |-> rn = "undeclared" \/ (rn = "holds" /\ kidRan)]
  <2>1. checks' = record({c}, LIVE)
    BY <1>1
  <2>2. c.ok => rn = "undeclared" \/ rn = "holds"
    BY Zenon
  <2> HIDE DEF c
  <2>3. "live" \in BOTH \cap LIVE
    BY DEF BOTH, LIVE
  <2>4. /\ checks' = [m \in BOTH |-> checks'[m]]
        /\ \A m \in BOTH : AllOk(m)' => AllOk(m)
        /\ \A m \in BOTH \cap LIVE : AllOk(m)' => \A d \in {c} : d.ok
    BY <1>0, <2>1, RecordAdds
  <2> QED
    BY <2>2, <2>3, <2>4
<1>6. Types'
  BY <1>0, <1>2, <1>3, <1>5 DEF Types, Answers
<1>7. Progress'
  BY <1>0, <1>2, <1>3, <1>4 DEF Progress, Early, Late, Asked
<1>8. UsesInv'
  BY <1>0, <1>2, <1>3, <1>4 DEF UsesInv, Uses, Asked, Late
<1>9. OkInv'
  <2>1. OkManifest' /\ OkKey'
    BY <1>0, <1>2, <1>3, <1>4, <1>5, OkKeeps
  <2>2. OkRan'
    BY <1>3, <1>5 DEF OkRan
  <2> QED
    BY <2>1, <2>2 DEF OkInv
<1>10. StopsInv'
  <2> SUFFICES ASSUME NEW m \in BOTH PROVE StopIn(findings', m) <=> Wrong(m)'
    BY DEF StopsInv
  <2>1. StopIn(findings', m) <=> StopIn(findings, m) \/ (m = "live" /\ revoked)
    <3> DEFINE F1 == find("ran-revoked", revoked, LIVE)
    <3>1. findings' = findings \cup F1
      BY <1>1
    <3>2. StopIn(F1, m) <=> revoked /\ m \in LIVE
      BY StopFind
    <3> HIDE DEF F1
    <3> QED
      BY <3>1, <3>2, StopUnion DEF LIVE
  <2>2. WrongKids(m)' <=> WrongKids(m)
    BY <1>2 DEF WrongKids, Contradicts
  <2>3. /\ WrongManifest' <=> WrongManifest
        /\ WrongSignature' <=> WrongSignature
        /\ WrongGateway' <=> WrongGateway
        /\ WrongKey' <=> WrongKey
        /\ WrongPairing' <=> WrongPairing
        /\ WrongReceipt' <=> WrongReceipt
        /\ WrongSigners' <=> WrongSigners
    BY <1>0, <1>2, <1>3, <1>4, PiecesKeep
  <2>4. StopIn(findings, m) <=> Wrong(m)
    BY <1>0 DEF StopsInv
  <2> QED
    BY <1>0, <1>3, <2>1, <2>2, <2>3, <2>4 DEF Wrong, WrongLive
<1> QED
  BY <1>6, <1>7, <1>8, <1>9, <1>10 DEF PreflightInv

\* The pairing payload is judged by the gateway's key, which has been asked for.
LEMMA PairingStep ==
  ASSUME PreflightInv, Pairing
  PROVE  PreflightInv'
<1>0. /\ Types /\ Progress /\ UsesInv /\ StopsInv /\ OkInv
      /\ stage = "pairing" /\ out.gateway = "signing" /\ out.footer = "signed"
      /\ out.pairing.state = Unread /\ out.signers = {} /\ todo = {}
  BY DEF PreflightInv, Pairing, Progress, Early, Late
<1>1. PICK pairing \in [state : {"none", "unreadable", "read"}, kid : Kids, key : MaybeKey] :
       /\ out' = [out EXCEPT !.pairing = pairing]
       /\ findings' = findings
            \cup find("pairing-payload-unreadable", pairing.state = "unreadable", LIVE)
            \cup find("pairing-attest-kid-differs",
                      pairing.state = "read" /\ pairing.kid # out.kid, LIVE)
            \cup find("pairing-attest-pub-differs",
                      /\ pairing.state = "read"
                      /\ pairing.key = NoKey \/ pairing.key # kids[out.kid].local,
                      LIVE)
  BY DEF Pairing
<1>2. stage' = "export" /\ UNCHANGED <<inp, kids, in_use, todo, checks>>
  BY DEF Pairing
<1>3. /\ out' \in Facts /\ out'.pairing = pairing
      /\ UNCHANGED <<out.footer, out.fixture, out.signer, out.robot, out.gateway, out.path,
                     out.drive, out.kid, out.enforce, out.sidecar, out.ran, out.ranRevoked,
                     out.receipt, out.signers>>
  BY <1>0, <1>1 DEF Types, Facts
<1>4. PastKeys /\ PastKeys' /\ PastGateway /\ PastGateway'
  BY <1>0, <1>2, <1>3 DEF PastKeys, PastGateway
<1>5. Types'
  BY <1>0, <1>2, <1>3 DEF Types, Answers
<1>6. Progress'
  BY <1>0, <1>2, <1>3, <1>4 DEF Progress, Early, Late, Asked
<1>7. UsesInv'
  BY <1>0, <1>2, <1>3, <1>4 DEF UsesInv, Uses, Asked, Late
<1>8. OkInv'
  <2>1. OkManifest' /\ OkKey' /\ OkRan'
    BY <1>0, <1>2, <1>3, <1>4, OkKeeps DEF AllOk
  <2> QED
    BY <2>1 DEF OkInv
<1>9. StopsInv'
  <2> SUFFICES ASSUME NEW m \in BOTH PROVE StopIn(findings', m) <=> Wrong(m)'
    BY DEF StopsInv
  <2>1. StopIn(findings', m) <=> StopIn(findings, m) \/ (m = "live" /\ WrongPairing')
    <3> DEFINE F1 == find("pairing-payload-unreadable", pairing.state = "unreadable", LIVE)
               F2 == find("pairing-attest-kid-differs",
                          pairing.state = "read" /\ pairing.kid # out.kid, LIVE)
               F3 == find("pairing-attest-pub-differs",
                          /\ pairing.state = "read"
                          /\ pairing.key = NoKey \/ pairing.key # kids[out.kid].local, LIVE)
    <3>1. findings' = findings \cup F1 \cup F2 \cup F3
      BY <1>1
    <3>2. StopIn(F1, m) <=> pairing.state = "unreadable" /\ m \in LIVE
      BY StopFind
    <3>3. StopIn(F2, m) <=> (pairing.state = "read" /\ pairing.kid # out.kid) /\ m \in LIVE
      BY StopFind
    <3>4. StopIn(F3, m) <=> (/\ pairing.state = "read"
                             /\ pairing.key = NoKey \/ pairing.key # kids[out.kid].local)
                            /\ m \in LIVE
      BY StopFind
    <3> HIDE DEF F1, F2, F3
    <3>5. StopIn(findings', m) <=>
            StopIn(findings, m) \/ StopIn(F1, m) \/ StopIn(F2, m) \/ StopIn(F3, m)
      BY <3>1 DEF StopIn
    <3>6. m \in LIVE <=> m = "live"
      BY DEF LIVE
    <3>7. WrongPairing' <=>
            \/ pairing.state = "unreadable"
            \/ pairing.state = "read" /\ pairing.kid # out.kid
            \/ /\ pairing.state = "read"
               /\ pairing.key = NoKey \/ pairing.key # kids[out.kid].local
      BY <1>2, <1>3 DEF WrongPairing
    <3> QED
      BY <3>2, <3>3, <3>4, <3>5, <3>6, <3>7
  <2>2. WrongKids(m)' <=> WrongKids(m)
    BY <1>2 DEF WrongKids, Contradicts
  <2>3. /\ WrongManifest' <=> WrongManifest
        /\ WrongSignature' <=> WrongSignature
        /\ WrongGateway' <=> WrongGateway
        /\ WrongKey' <=> WrongKey
        /\ WrongReceipt' <=> WrongReceipt
        /\ WrongSigners' <=> WrongSigners
        /\ ~WrongPairing
    BY <1>0, <1>2, <1>3, <1>4, PiecesKeep DEF WrongPairing, Unread
  <2>4. StopIn(findings, m) <=> Wrong(m)
    BY <1>0 DEF StopsInv
  <2> QED
    BY <1>3, <2>1, <2>2, <2>3, <2>4 DEF Wrong, WrongLive
<1> QED
  BY <1>5, <1>6, <1>7, <1>8, <1>9 DEF PreflightInv

\* The newest receipt; the signers are still to be checked.
LEMMA ExportStep ==
  ASSUME PreflightInv, Export
  PROVE  PreflightInv'
<1>0. /\ Types /\ Progress /\ UsesInv /\ StopsInv /\ OkInv
      /\ stage = "export" /\ out.gateway = "signing" /\ out.footer = "signed"
      /\ out.receipt.state = Unread /\ out.signers = {} /\ todo = {}
  BY DEF PreflightInv, Export, Progress, Early, Late
<1>1. PICK receipt \in [state : {"none", "read"}, key : MaybeKey], signers \in SUBSET Kids :
       /\ out' = [out EXCEPT !.receipt = receipt, !.signers = signers]
       /\ todo' = signers
       /\ findings' = findings \cup
            find("gateway-receipt-fails-local-key",
                 /\ receipt.state = "read"
                 /\ receipt.key = NoKey \/ receipt.key # kids[out.kid].local, LIVE)
  BY DEF Export
<1>2. stage' = "signers" /\ UNCHANGED <<inp, kids, in_use, checks>>
  BY DEF Export
<1>3. /\ out' \in Facts /\ out'.receipt = receipt /\ out'.signers = signers
      /\ UNCHANGED <<out.footer, out.fixture, out.signer, out.robot, out.gateway, out.path,
                     out.drive, out.kid, out.enforce, out.sidecar, out.ran, out.ranRevoked,
                     out.pairing>>
  <2> DEFINE o == [out EXCEPT !.receipt = receipt]
  <2>1. o \in Facts /\ o.receipt = receipt
    BY <1>0 DEF Types, Facts
  <2>2. /\ UNCHANGED <<out.footer, out.fixture, out.signer, out.robot, out.gateway, out.path,
                       out.drive, out.kid, out.enforce, out.sidecar, out.ran, out.ranRevoked,
                       out.pairing>>
        /\ out'.receipt = receipt /\ out'.signers = signers
    BY <1>0, <1>1 DEF Types, Facts
  <2>3. out' = [o EXCEPT !.signers = signers]
    BY <1>1
  <2> HIDE DEF o
  <2>4. out' \in Facts
    BY <2>1, <2>3 DEF Facts
  <2> QED
    BY <2>2, <2>4
<1>4. PastKeys /\ PastKeys' /\ PastGateway /\ PastGateway'
  BY <1>0, <1>2, <1>3 DEF PastKeys, PastGateway
<1>5. Types'
  BY <1>0, <1>1, <1>2, <1>3 DEF Types, Answers
<1>6. Progress'
  BY <1>0, <1>1, <1>2, <1>3, <1>4 DEF Progress, Early, Late, Asked
<1>7. UsesInv'
  BY <1>0, <1>1, <1>2, <1>3, <1>4 DEF UsesInv, Uses, Asked, Late
<1>8. OkInv'
  <2>1. OkManifest' /\ OkKey' /\ OkRan'
    BY <1>0, <1>2, <1>3, <1>4, OkKeeps DEF AllOk
  <2> QED
    BY <2>1 DEF OkInv
<1>9. StopsInv'
  <2> SUFFICES ASSUME NEW m \in BOTH PROVE StopIn(findings', m) <=> Wrong(m)'
    BY DEF StopsInv
  <2>1. StopIn(findings', m) <=> StopIn(findings, m) \/ (m = "live" /\ WrongReceipt')
    <3> DEFINE F1 == find("gateway-receipt-fails-local-key",
                          /\ receipt.state = "read"
                          /\ receipt.key = NoKey \/ receipt.key # kids[out.kid].local, LIVE)
    <3>1. findings' = findings \cup F1
      BY <1>1
    <3>2. StopIn(F1, m) <=> (/\ receipt.state = "read"
                             /\ receipt.key = NoKey \/ receipt.key # kids[out.kid].local)
                            /\ m \in LIVE
      BY StopFind
    <3>3. WrongReceipt' <=> /\ receipt.state = "read"
                            /\ receipt.key = NoKey \/ receipt.key # kids[out.kid].local
      BY <1>2, <1>3 DEF WrongReceipt
    <3> HIDE DEF F1
    <3> QED
      BY <3>1, <3>2, <3>3, StopUnion DEF LIVE
  <2>2. WrongKids(m)' <=> WrongKids(m)
    BY <1>2 DEF WrongKids, Contradicts
  <2>3. /\ WrongManifest' <=> WrongManifest
        /\ WrongSignature' <=> WrongSignature
        /\ WrongGateway' <=> WrongGateway
        /\ WrongKey' <=> WrongKey
        /\ WrongPairing' <=> WrongPairing
        /\ ~WrongReceipt
    BY <1>0, <1>2, <1>3, <1>4, PiecesKeep DEF WrongReceipt, Unread
  <2>4. ~WrongSigners /\ ~WrongSigners'
    BY <1>0, <1>1, <1>3 DEF WrongSigners
  <2>5. StopIn(findings, m) <=> Wrong(m)
    BY <1>0 DEF StopsInv
  <2> QED
    BY <1>3, <2>1, <2>2, <2>3, <2>4, <2>5 DEF Wrong, WrongLive
<1> QED
  BY <1>5, <1>6, <1>7, <1>8, <1>9 DEF PreflightInv

\* One signer of the export, which may be a kid met before.
LEMMA SignerStep ==
  ASSUME PreflightInv, Signer
  PROVE  PreflightInv'
<1>0. /\ Types /\ Progress /\ UsesInv /\ StopsInv /\ OkInv
      /\ stage = "signers" /\ out.gateway = "signing" /\ out.footer = "signed"
      /\ LIVE \in SUBSET BOTH /\ todo \subseteq out.signers /\ out.signers \subseteq Kids
      /\ \A k \in Kids : Asked(k) => LIVE \subseteq in_use[k]
      /\ \A k \in Kids : ~Asked(k) => in_use[k] = {}
  BY AskedFacts DEF PreflightInv, Signer, Progress, UsesInv, BOTH, LIVE, Early, Late
<1>1. PICK kid \in todo : \E e \in Entries(kid) :
       /\ check_kid(kid, e, LIVE)
       /\ findings' = findings \cup KidFindings(kid, e, LIVE)
            \cup find("signer-kid-not-resolvable-locally", e.local = NoKey,
                      IF out.enforce THEN LIVE ELSE {})
       /\ todo' = todo \ {kid}
  BY DEF Signer
<1>2. PICK e \in Entries(kid) :
       /\ check_kid(kid, e, LIVE)
       /\ findings' = findings \cup KidFindings(kid, e, LIVE)
            \cup find("signer-kid-not-resolvable-locally", e.local = NoKey,
                      IF out.enforce THEN LIVE ELSE {})
       /\ todo' = todo \ {kid}
  BY <1>1
<1>3. UNCHANGED <<inp, stage, out, checks>> /\ kid \in Kids /\ kid \in out.signers
  BY <1>0 DEF Signer
<1>4. /\ \A k \in Kids : Asked(k) => kids'[k] = kids[k]
      /\ \A k \in Kids : Asked(k)' <=> Asked(k) \/ k = kid
      /\ kids'[kid] = e
      /\ kids' \in [Kids -> Answers' \cup {Unchecked}]
      /\ in_use' \in [Kids -> SUBSET BOTH]
      /\ \A k \in Kids : in_use'[k] = IF k = kid THEN in_use[k] \cup LIVE ELSE in_use[k]
      /\ \A m \in BOTH :
           WrongKids(m)' <=> WrongKids(m) \/ StopIn(KidFindings(kid, e, LIVE), m)
  BY <1>0, <1>2, <1>3, CheckKid
<1>5. PastKeys /\ PastKeys' /\ PastGateway /\ PastGateway'
  BY <1>0, <1>3 DEF PastKeys, PastGateway
<1>6. Types'
  BY <1>0, <1>2, <1>3, <1>4 DEF Types
<1>7. Progress'
  BY <1>0, <1>2, <1>3, <1>5 DEF Progress, Early, Late
<1>8. UsesInv'
  <2>1. out.signers \ todo' = (out.signers \ todo) \cup {kid}
    BY <1>2, <1>3
  <2>2. \A k \in Kids : Uses(k)' = IF k = kid THEN Uses(k) \cup LIVE ELSE Uses(k)
    BY <1>3, <1>5, <2>1 DEF Uses, LIVE, BOTH
  <2>3. \A k \in Kids : in_use'[k] = Uses(k)'
    <3>1. \A k \in Kids : in_use[k] = Uses(k)
      BY <1>0 DEF UsesInv
    <3> QED
      BY <1>4, <2>2, <3>1
  <2>4. \A k \in Kids : ~Asked(k)' => in_use'[k] = {}
    BY <1>0, <1>4
  <2>5. \A k \in Kids : Asked(k)' => "live" \in in_use'[k]
    BY <1>0, <1>4 DEF LIVE
  <2> QED
    BY <2>3, <2>4, <2>5 DEF UsesInv
<1>9. OkInv'
  <2>1. OkManifest' /\ OkKey' /\ OkRan'
    BY <1>0, <1>3, <1>4, <1>5, OkKeeps DEF AllOk
  <2> QED
    BY <2>1 DEF OkInv
<1>10. StopsInv'
  <2> SUFFICES ASSUME NEW m \in BOTH PROVE StopIn(findings', m) <=> Wrong(m)'
    BY DEF StopsInv
  <2>1. StopIn(findings', m) <=>
          \/ StopIn(findings, m) \/ StopIn(KidFindings(kid, e, LIVE), m)
          \/ m = "live" /\ out.enforce /\ e.local = NoKey
    <3> DEFINE uses == IF out.enforce THEN LIVE ELSE {}
               F1 == KidFindings(kid, e, LIVE)
               F2 == find("signer-kid-not-resolvable-locally", e.local = NoKey, uses)
    <3>1. findings' = findings \cup F1 \cup F2
      BY <1>2
    <3>2. m \in uses <=> out.enforce /\ m = "live"
      BY DEF LIVE
    <3> HIDE DEF uses
    <3>3. StopIn(F2, m) <=> e.local = NoKey /\ m \in uses
      BY StopFind
    <3> HIDE DEF F1, F2
    <3>4. StopIn(findings', m) <=> StopIn(findings, m) \/ StopIn(F1, m) \/ StopIn(F2, m)
      BY <3>1 DEF StopIn
    <3> QED
      BY <3>2, <3>3, <3>4 DEF F1
  <2>2. WrongSigners' <=> WrongSigners \/ (out.enforce /\ e.local = NoKey)
    <3>1. out.signers \ todo' = (out.signers \ todo) \cup {kid}
      BY <1>2, <1>3
    <3>2. \A k \in out.signers \ todo : kids'[k] = kids[k]
      BY <1>0, <1>4, AskedFacts
    <3> QED
      BY <1>3, <1>4, <3>1, <3>2 DEF WrongSigners
  <2>3. /\ WrongManifest' <=> WrongManifest
        /\ WrongSignature' <=> WrongSignature
        /\ WrongGateway' <=> WrongGateway
        /\ WrongKey' <=> WrongKey
        /\ WrongPairing' <=> WrongPairing
        /\ WrongReceipt' <=> WrongReceipt
    BY <1>0, <1>3, <1>4, <1>5, PiecesKeep
  <2>4. StopIn(findings, m) <=> Wrong(m)
    BY <1>0 DEF StopsInv
  <2> QED
    BY <1>3, <1>4, <2>1, <2>2, <2>3, <2>4 DEF Wrong, WrongLive
<1> QED
  BY <1>6, <1>7, <1>8, <1>9, <1>10 DEF PreflightInv

\* A retired pin's kid is looked up with no mode it could stop.
LEMMA OtherPinStep ==
  ASSUME PreflightInv, OtherPin
  PROVE  PreflightInv'
<1>0. /\ Types /\ Progress /\ UsesInv /\ StopsInv /\ OkInv /\ stage = "pins"
      /\ {} \in SUBSET BOTH
  BY DEF PreflightInv, OtherPin
<1>1. PICK kid \in Kids : \E e \in Entries(kid) :
       /\ kids[kid] = Unchecked
       /\ check_kid(kid, e, {})
       /\ findings' = findings \cup KidFindings(kid, e, {})
  BY DEF OtherPin
<1>2. PICK e \in Entries(kid) :
       /\ check_kid(kid, e, {})
       /\ findings' = findings \cup KidFindings(kid, e, {})
  BY <1>1
<1>3. UNCHANGED <<inp, stage, out, todo, checks>> /\ ~Asked(kid) /\ in_use[kid] = {}
  BY <1>0, <1>1 DEF OtherPin, Asked, UsesInv
<1>4. /\ \A k \in Kids : Asked(k) => kids'[k] = kids[k]
      /\ kids' \in [Kids -> Answers' \cup {Unchecked}]
      /\ in_use' \in [Kids -> SUBSET BOTH]
      /\ \A k \in Kids : Asked(k) => Asked(k)'
      /\ \A k \in Kids : in_use'[k] = in_use[k]
      /\ \A m \in BOTH :
           WrongKids(m)' <=> WrongKids(m) \/ StopIn(KidFindings(kid, e, {}), m)
  <2>1. /\ \A k \in Kids : Asked(k) => kids'[k] = kids[k]
        /\ \A k \in Kids : Asked(k)' <=> Asked(k) \/ k = kid
        /\ kids' \in [Kids -> Answers' \cup {Unchecked}]
        /\ in_use' \in [Kids -> SUBSET BOTH]
        /\ \A k \in Kids : in_use'[k] = IF k = kid THEN in_use[k] \cup {} ELSE in_use[k]
        /\ \A m \in BOTH :
             WrongKids(m)' <=> WrongKids(m) \/ StopIn(KidFindings(kid, e, {}), m)
    BY <1>0, <1>2, <1>3, CheckKid
  <2> QED
    BY <2>1
<1>5. (PastKeys' <=> PastKeys) /\ (PastGateway' <=> PastGateway)
  BY <1>3 DEF PastKeys, PastGateway
<1>6. Types'
  BY <1>0, <1>3, <1>4 DEF Types
<1>7. Progress'
  BY <1>0, <1>3, <1>5 DEF Progress, Early, Late
<1>8. UsesInv'
  <2>1. \A k \in Kids : Uses(k)' = Uses(k)
    BY <1>3, <1>5 DEF Uses
  <2> QED
    BY <1>0, <1>3, <1>4, <2>1 DEF UsesInv, Late
<1>9. OkInv'
  <2>1. OkManifest' /\ OkKey' /\ OkRan'
    BY <1>0, <1>3, <1>4, <1>5, OkKeeps DEF AllOk
  <2> QED
    BY <2>1 DEF OkInv
<1>10. StopsInv'
  <2> SUFFICES ASSUME NEW m \in BOTH PROVE StopIn(findings', m) <=> Wrong(m)'
    BY DEF StopsInv
  <2>1. StopIn(findings', m) <=> StopIn(findings, m) \/ StopIn(KidFindings(kid, e, {}), m)
    BY <1>2, StopUnion
  <2>2. /\ WrongManifest' <=> WrongManifest
        /\ WrongSignature' <=> WrongSignature
        /\ WrongGateway' <=> WrongGateway
        /\ WrongKey' <=> WrongKey
        /\ WrongPairing' <=> WrongPairing
        /\ WrongReceipt' <=> WrongReceipt
        /\ WrongSigners' <=> WrongSigners
    BY <1>0, <1>3, <1>4, <1>5, PiecesKeep
  <2>3. StopIn(findings, m) <=> Wrong(m)
    BY <1>0 DEF StopsInv
  <2> QED
    BY <1>3, <1>4, <2>1, <2>2, <2>3 DEF Wrong, WrongLive
<1> QED
  BY <1>6, <1>7, <1>8, <1>9, <1>10 DEF PreflightInv

\* The steps that only move on.
LEMMA DoneStep ==
  ASSUME PreflightInv, SignersDone \/ PinsDone
  PROVE  PreflightInv'
<1>0. /\ Types /\ Progress /\ UsesInv /\ StopsInv /\ OkInv
      /\ UNCHANGED <<inp, out, kids, in_use, todo, findings, checks>> /\ stage' \in Late
      /\ (stage = "signers" /\ stage' = "pins" /\ todo = {}) \/ (stage = "pins" /\ stage' = "done")
  BY DEF PreflightInv, SignersDone, PinsDone, Late
<1>1. (PastKeys' <=> PastKeys) /\ (PastGateway' <=> PastGateway)
  BY <1>0 DEF PastKeys, PastGateway
<1>2. Types'
  BY <1>0 DEF Types, Answers
<1>3. Progress'
  BY <1>0, <1>1 DEF Progress, Early, Late, Unread, Asked
<1>4. UsesInv'
  BY <1>0, <1>1 DEF UsesInv, Uses, Asked
<1>5. OkInv'
  <2>1. OkManifest' /\ OkKey' /\ OkRan'
    BY <1>0, <1>1, OkKeeps DEF AllOk
  <2> QED
    BY <2>1 DEF OkInv
<1>6. StopsInv'
  <2>1. \A m \in BOTH : WrongKids(m)' <=> WrongKids(m)
    BY <1>0 DEF WrongKids, Contradicts
  <2>2. /\ WrongManifest' <=> WrongManifest
        /\ WrongSignature' <=> WrongSignature
        /\ WrongGateway' <=> WrongGateway
        /\ WrongKey' <=> WrongKey
        /\ WrongPairing' <=> WrongPairing
        /\ WrongReceipt' <=> WrongReceipt
        /\ WrongSigners' <=> WrongSigners
    BY <1>0, <1>1, PiecesKeep
  <2> QED
    BY <1>0, <2>1, <2>2 DEF StopsInv, Wrong, WrongLive
<1> QED
  BY <1>2, <1>3, <1>4, <1>5, <1>6 DEF PreflightInv

\* A step that changes nothing.
LEMMA StutterStep ==
  ASSUME PreflightInv, UNCHANGED preflightVars
  PROVE  PreflightInv'
<1>0. /\ Types /\ Progress /\ UsesInv /\ StopsInv /\ OkInv
      /\ UNCHANGED <<inp, stage, out, kids, in_use, todo, findings, checks>>
  BY DEF PreflightInv, preflightVars
<1>1. (PastKeys' <=> PastKeys) /\ (PastGateway' <=> PastGateway)
  BY <1>0 DEF PastKeys, PastGateway
<1>2. Types'
  BY <1>0 DEF Types, Answers
<1>3. Progress'
  BY <1>0, <1>1 DEF Progress, Asked
<1>4. UsesInv'
  BY <1>0, <1>1 DEF UsesInv, Uses, Asked
<1>5. OkInv'
  <2>1. OkManifest' /\ OkKey' /\ OkRan'
    BY <1>0, <1>1, OkKeeps DEF AllOk
  <2> QED
    BY <2>1 DEF OkInv
<1>6. StopsInv'
  <2>1. \A m \in BOTH : WrongKids(m)' <=> WrongKids(m)
    BY <1>0 DEF WrongKids, Contradicts
  <2>2. /\ WrongManifest' <=> WrongManifest
        /\ WrongSignature' <=> WrongSignature
        /\ WrongGateway' <=> WrongGateway
        /\ WrongKey' <=> WrongKey
        /\ WrongPairing' <=> WrongPairing
        /\ WrongReceipt' <=> WrongReceipt
        /\ WrongSigners' <=> WrongSigners
    BY <1>0, <1>1, PiecesKeep
  <2> QED
    BY <1>0, <2>1, <2>2 DEF StopsInv, Wrong, WrongLive
<1> QED
  BY <1>2, <1>3, <1>4, <1>5, <1>6 DEF PreflightInv

\* Before anything is read nothing is wrong and nothing was found.
LEMMA InitStep ==
  ASSUME PreflightInit
  PROVE  PreflightInv
<1>1. inp \in [mode : BOTH, manifest : Kids, pins : [Kids -> MaybeKey], shared : BOOLEAN]
  BY DEF PreflightInit
<1>2. out \in Facts
  BY <1>1 DEF PreflightInit, Facts, MaybeKey
<1>3. /\ out.footer = Unread /\ out.fixture = Unread /\ out.robot = Unread
      /\ out.gateway = Unread /\ out.path /\ out.drive = "matches" /\ ~out.enforce
      /\ out.sidecar.state = Unread /\ out.pairing.state = Unread
      /\ out.receipt.state = Unread /\ ~out.ranRevoked /\ out.signers = {}
  BY DEF PreflightInit
<1>4. /\ stage = "manifest" /\ kids = [kid \in Kids |-> Unchecked]
      /\ in_use = [kid \in Kids |-> {}] /\ todo = {} /\ findings = {}
      /\ checks = [m \in BOTH |-> {}]
  BY DEF PreflightInit
<1>5. /\ \A kid \in Kids : ~Asked(kid) /\ in_use[kid] = {}
      /\ ~PastKeys /\ ~PastGateway
  BY <1>3, <1>4 DEF Asked, PastKeys, PastGateway, Unread
<1>6. Types
  BY <1>1, <1>2, <1>4 DEF Types, Early
<1>7. Progress
  BY <1>3, <1>4, <1>5 DEF Progress, Early, Late, Unread
<1>8. UsesInv
  BY <1>3, <1>4, <1>5 DEF UsesInv, Uses
<1>9. OkInv
  BY <1>5 DEF OkInv, OkManifest, OkKey, OkRan
<1>10. StopsInv
  <2>1. \A m \in BOTH : ~StopIn(findings, m)
    BY <1>4 DEF StopIn
  <2>2. \A m \in BOTH : ~WrongKids(m)
    BY <1>5 DEF WrongKids
  <2>3. ~WrongManifest /\ ~WrongSignature /\ ~WrongLive /\ out.robot # "revoked"
    BY <1>3, <1>4, <1>5 DEF WrongManifest, WrongSignature, WrongLive, WrongGateway, WrongKey,
       WrongPairing, WrongReceipt, WrongSigners, Unread
  <2> QED
    BY <2>1, <2>2, <2>3 DEF StopsInv, Wrong
<1> QED
  BY <1>6, <1>7, <1>8, <1>9, <1>10 DEF PreflightInv

\* Theorem: the invariant of the preflight: the findings stop a mode if and only if
\* something that was read is wrong for it, at every step and not only at the end.
THEOREM PreflightInvariant == PreflightSpec => []PreflightInv
<1>1. PreflightInit => PreflightInv
  BY InitStep
<1>2. PreflightInv /\ [PreflightNext]_preflightVars => PreflightInv'
  BY ManifestStep, ManifestKeysStep, RrnStep, GatewayStep, GatewayKeyStep, RanStep, PairingStep,
     ExportStep, SignerStep, OtherPinStep, DoneStep, StutterStep DEF PreflightNext, Terminated
<1> QED
  BY <1>1, <1>2, PTL DEF PreflightSpec

\* At the end of a run, a mode of the run stops exactly when something it uses
\* contradicts itself, or the host or the registry says it is wrong.
LEMMA WrongAtTheEnd ==
  ASSUME PreflightInv, stage = "done", NEW m \in modes
  PROVE  /\ verdict_for(m) = "STOP" <=> Wrong(m)
         /\ Wrong(m) <=> (\E kid \in InUse(m) : Contradicts(kid)) \/ HostIsWrong(m) \/ Revoked(m)
<1>0. /\ Types /\ Progress /\ UsesInv /\ StopsInv /\ m \in BOTH /\ todo = {}
      /\ out.footer # Unread /\ (m = "live" => inp.mode = "live")
  BY DEF PreflightInv, Progress, Late, modes, BOTH
<1>1. /\ out.footer = "signed" <=> PastKeys
      /\ out.gateway = "signing" <=> PastGateway
      /\ PastKeys /\ m = "live" => out.gateway \in Gateways
      /\ out.signers # {} => PastGateway
  BY <1>0 DEF Progress, PastKeys, PastGateway, Late, Types, Facts
<1>2. verdict_for(m) = "STOP" <=> Wrong(m)
  <2>1. Stops(m) # {} <=> StopIn(findings, m)
    BY DEF Stops, StopIn
  <2>2. verdict_for(m) = "STOP" <=> Stops(m) # {}
    BY DEF verdict_for
  <2> QED
    BY <1>0, <2>1, <2>2 DEF StopsInv
<1>3. Wrong(m) <=> (\E kid \in InUse(m) : Contradicts(kid)) \/ HostIsWrong(m) \/ Revoked(m)
  <2>1. CASE ~PastKeys
    BY <1>0, <1>1, <2>1 DEF Wrong, WrongManifest, HostIsWrong
  <2>2. CASE PastKeys
    <3>1. \A kid \in Kids : m \in in_use[kid] <=> kid \in InUse(m)
      <4>1. \A kid \in Kids : m \in Uses(kid) <=> kid \in InUse(m)
        BY <1>0, <1>1, <2>2 DEF Uses, InUse
      <4> QED
        BY <1>0, <4>1 DEF UsesInv
    <3>2. WrongKids(m) <=> \E kid \in InUse(m) : Contradicts(kid)
      <4>1. InUse(m) \subseteq Kids
        BY DEF InUse
      <4> QED
        BY <3>1, <4>1 DEF WrongKids
    <3>3. WrongManifest <=> out.fixture \in {"differs", "unreadable"}
      BY <1>1, <2>2 DEF WrongManifest
    <3>4. WrongSignature <=> out.signer = NoKey \/ out.signer # kids[inp.manifest].local
      BY <2>2 DEF WrongSignature
    <3>5. m = "live" => (WrongGateway <=>
            out.gateway # "signing" \/ ~out.path \/ out.drive = "differs")
      BY <1>1, <2>2 DEF WrongGateway, Gateways
    <3>6. PastGateway => (WrongKey <=>
            \/ kids[out.kid].local = NoKey
            \/ out.sidecar.state = "read" /\ out.sidecar.key # kids[out.kid].local)
      BY DEF WrongKey
    <3>7. WrongSigners <=> out.enforce /\ \E kid \in out.signers : kids[kid].local = NoKey
      BY <1>0 DEF WrongSigners
    <3>8. HostIsWrong(m) <=>
            \/ WrongManifest \/ WrongSignature
            \/ m = "live" /\ (WrongGateway \/ WrongKey \/ WrongPairing \/ WrongReceipt
                              \/ WrongSigners)
      BY <1>1, <2>2, <3>3, <3>4, <3>5, <3>6, <3>7
         DEF HostIsWrong, WrongPairing, WrongReceipt
    <3> QED
      BY <3>2, <3>8 DEF Wrong, WrongLive, Revoked
  <2> QED
    BY <2>1, <2>2
<1> QED
  BY <1>2, <1>3

\* Theorem: in every reachable state of the preflight, a mode of the run does stop at the
\* end when a kid it uses contradicts itself, or when the host or the registry says it is
\* wrong, whatever order the kids were met in.
THEOREM ContradictionStopsAlways == PreflightSpec => []ContradictionStops
<1>1. PreflightInv => ContradictionStops
  BY WrongAtTheEnd DEF ContradictionStops
<1> QED
  BY <1>1, PreflightInvariant, PTL

\* Theorem: nothing else stops a mode, in every reachable state of the preflight.
THEOREM AbsenceNeverStopsAlways == PreflightSpec => []AbsenceNeverStops
<1>1. PreflightInv => AbsenceNeverStops
  BY WrongAtTheEnd DEF AbsenceNeverStops
<1> QED
  BY <1>1, PreflightInvariant, PTL

\* Theorem: the label registry-resolves is given only to a run each of whose links was
\* read and holds, in every reachable state of the preflight.
THEOREM RegistryResolvesIsBackedAlways == PreflightSpec => []RegistryResolvesIsBacked
<1> DEFINE Holds(kid, key) ==
       /\ kids[kid].registry = "found" /\ kids[kid].key = key
       /\ inp.pins[kid] = key /\ kids[kid].local = key
<1>1. ASSUME PreflightInv, stage = "done", NEW m \in modes, verdict_for(m) = "registry-resolves"
      PROVE  /\ Holds(inp.manifest, out.signer) /\ out.robot = "active"
             /\ m = "live" =>
                  /\ Holds(out.kid, kids[out.kid].key)
                  /\ out.ran \in {"undeclared", "holds"} /\ ~out.ranRevoked
                  /\ out.pairing.state = "read" => Holds(out.pairing.kid, out.pairing.key)
                  /\ out.receipt.state = "read" => Holds(out.kid, out.receipt.key)
                  /\ out.sidecar.state = "read" => Holds(out.kid, out.sidecar.key)
                  /\ out.path /\ out.drive = "matches"
  <2>1. /\ AllOk(m) /\ ~Wrong(m)
    <3>1. verdict_for(m) # "STOP" /\ AllOk(m)
      BY <1>1 DEF verdict_for, AllOk
    <3> QED
      BY <1>1, <3>1, WrongAtTheEnd
  <2>2. ~HostIsWrong(m) /\ ~Revoked(m)
    BY <1>1, <2>1, WrongAtTheEnd
  <2>3. PastKeys /\ out.footer = "signed"
    BY <1>1, <2>2 DEF HostIsWrong, PastKeys
  <2>4. OkManifest /\ OkKey /\ OkRan
    BY <1>1 DEF PreflightInv, OkInv
  <2>5. Holds(inp.manifest, out.signer) /\ out.robot = "active"
    BY <1>1, <2>1, <2>3, <2>4 DEF OkManifest, Backed
  <2>6. ASSUME m = "live"
        PROVE  /\ Holds(out.kid, kids[out.kid].key)
               /\ out.ran \in {"undeclared", "holds"} /\ ~out.ranRevoked
               /\ out.pairing.state = "read" => Holds(out.pairing.kid, out.pairing.key)
               /\ out.receipt.state = "read" => Holds(out.kid, out.receipt.key)
               /\ out.sidecar.state = "read" => Holds(out.kid, out.sidecar.key)
               /\ out.path /\ out.drive = "matches"
    <3>1. PastGateway
      BY <1>1, <2>2, <2>6 DEF HostIsWrong, PastGateway
    <3>2. Backed(out.kid, kids[out.kid]) /\ out.ran \in {"undeclared", "holds"}
      BY <1>1, <2>1, <2>4, <2>6, <3>1 DEF OkKey, OkRan
    <3>3. out.path /\ out.drive = "matches" /\ ~out.ranRevoked
      BY <1>1, <2>2, <2>6 DEF HostIsWrong, Revoked, PreflightInv, Types, Facts
    <3>4. /\ out.sidecar.state = "read" => out.sidecar.key = kids[out.kid].local
          /\ out.receipt.state = "read" => out.receipt.key = kids[out.kid].local
          /\ out.pairing.state = "read" =>
               out.pairing.kid = out.kid /\ out.pairing.key = kids[out.kid].local
      BY <2>2, <2>6 DEF HostIsWrong
    <3> QED
      BY <3>2, <3>3, <3>4 DEF Backed
  <2> QED
    BY <2>5, <2>6
<1>2. PreflightInv => RegistryResolvesIsBacked
  BY <1>1 DEF RegistryResolvesIsBacked
<1> QED
  BY <1>2, PreflightInvariant, PTL
=============================================================================
