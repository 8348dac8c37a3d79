------------------------------- MODULE Setup -------------------------------
(***************************************************************************)
(* How a gateway comes to its configuration: init_wizard.py writes          *)
(* bearers.yaml, .env and dispatch-test.sh beside ROBOT.md, each through a  *)
(* temporary file, and __main__.py's serve reads bearers.yaml once for the  *)
(* tokens and again for the actuators.                                      *)
(*                                                                          *)
(* Every file operation of the wizard can fail, and the wizard can be       *)
(* killed at any step (KeyboardInterrupt counts: no handler of _atomic_write *)
(* or of the writing part of run catches it).  The operator edits the files *)
(* between the wizard's runs.  A file is told apart by the run that wrote   *)
(* it, 0 being the operator.                                                *)
(***************************************************************************)
EXTENDS Integers, Sequences

CONSTANTS
  MaxRuns,    \* bound: runs of the wizard
  Concurrent, \* the operator also edits while a wizard runs
  Absent,     \* there is no such file
  NoFile      \* serve has read nothing

ASSUME MaxRunsAssumption == MaxRuns \in Nat

Targets == {"bearers.yaml", ".env", "dispatch-test.sh"}
\* The files that hold a token.
Secret == {"bearers.yaml", "dispatch-test.sh"}

VARIABLES
  dir,      \* the three files
  temps,    \* the temporary files beside them
  pc,       \* where the wizard is
  run,      \* which run of it this is
  force,    \* --force
  actuate,  \* its answers: generate an actuate token,
  read,     \*   and a read token
  target,   \* the file it writes
  created,  \* the files it has written, in order
  before,   \* history: the files when it looked for existing ones
  serve,    \* where the starting gateway is
  loaded,   \* the file its tokens came from
  section,  \* the file its actuators came from
  device    \* who holds the actuator's device

wizard == <<temps, pc, run, force, actuate, read, target, created, before>>
gateway == <<serve, loaded, section, device>>
vars == <<dir, wizard, gateway>>

Files == [run : 0..MaxRuns, whole : BOOLEAN, private : BOOLEAN, tokens : BOOLEAN]
Temps == [name : Targets, run : 0..MaxRuns, whole : BOOLEAN, private : BOOLEAN]

Init ==
  /\ dir = [name \in Targets |-> Absent]
  /\ temps = {}
  /\ pc = "idle" /\ run = 0 /\ force = FALSE /\ actuate = TRUE /\ read = FALSE
  /\ target = "bearers.yaml" /\ created = <<>> /\ before = dir
  /\ serve = "down" /\ loaded = NoFile /\ section = NoFile /\ device = "free"
-----------------------------------------------------------------------------
\* run is called, with --force or without.
Start ==
  /\ pc = "idle" /\ run < MaxRuns
  /\ run' = run + 1
  /\ force' \in BOOLEAN
  /\ pc' = "checking"
  /\ UNCHANGED <<dir, temps, actuate, read, target, created, before, gateway>>

\* A check that looks for the tokens only.
check_bearers_only(name) == name = "bearers.yaml" /\ dir[name] # Absent
\* _check_no_existing_files.
exists(name) == dir[name] # Absent

\* The preconditions: no file that is there, unless forced; a valid ROBOT.md, the
\* MCP command, a terminal.  The prompts come after, and take as long as the
\* operator does.
Check ==
  /\ pc = "checking"
  /\ pc' \in IF ~force /\ \E name \in Targets : exists(name)
             THEN {"failed"} ELSE {"asking", "failed"}
  /\ before' = dir
  /\ UNCHANGED <<dir, temps, run, force, actuate, read, target, created, gateway>>

\* _prompt_config, or the defaults of --yes.
Answer ==
  /\ pc = "asking"
  /\ actuate' \in BOOLEAN /\ read' \in BOOLEAN
  /\ target' = "bearers.yaml"
  /\ pc' = "mkstemp"
  /\ UNCHANGED <<dir, temps, run, force, created, before, gateway>>

Decline ==
  /\ pc = "asking"
  /\ pc' = "done"
  /\ UNCHANGED <<dir, temps, run, force, actuate, read, target, created, before, gateway>>

Temp(whole, private) ==
  [name |-> target, run |-> run, whole |-> whole, private |-> private]
Mine == {f \in temps : f.name = target /\ f.run = run}

\* A temporary file made by open(), with the mode of the umask.
OpenTemp ==
  /\ pc = "mkstemp"
  /\ temps' = temps \cup {Temp(FALSE, FALSE)}
  /\ pc' = "write"
  /\ UNCHANGED <<dir, run, force, actuate, read, target, created, before, gateway>>

\* _atomic_write: mkstemp makes the file readable by its owner only.
MkTemp ==
  /\ pc = "mkstemp"
  /\ temps' = temps \cup {Temp(FALSE, TRUE)}
  /\ pc' = "write"
  /\ UNCHANGED <<dir, run, force, actuate, read, target, created, before, gateway>>

MkTempFails ==
  /\ pc = "mkstemp"
  /\ pc' = "rollback"
  /\ UNCHANGED <<dir, temps, run, force, actuate, read, target, created, before, gateway>>

\* Written straight to its name.
WriteInPlace ==
  /\ pc = "write"
  /\ dir' = [dir EXCEPT ![target] =
       [run |-> run, whole |-> FALSE, private |-> TRUE, tokens |-> actuate \/ read]]
  /\ pc' = "chmod"
  /\ temps' = (temps \ Mine) \cup {Temp(TRUE, TRUE)}
  /\ UNCHANGED <<run, force, actuate, read, target, created, before, gateway>>

Write ==
  /\ pc = "write"
  /\ temps' = (temps \ Mine) \cup {[f EXCEPT !.whole = TRUE] : f \in Mine}
  /\ pc' = "chmod"
  /\ UNCHANGED <<dir, run, force, actuate, read, target, created, before, gateway>>

\* chmod: 0600, 0644 for .env, 0700 for the script.
Chmod ==
  /\ pc = "chmod"
  /\ temps' = (temps \ Mine) \cup {[f EXCEPT !.private = target \in Secret] : f \in Mine}
  /\ pc' = "replace"
  /\ UNCHANGED <<dir, run, force, actuate, read, target, created, before, gateway>>

\* os.replace, and on to the next file; the script only with an actuate token.
Replace ==
  /\ pc = "replace"
  /\ \E f \in Mine :
       dir' = [dir EXCEPT ![target] =
         [run |-> run, whole |-> f.whole, private |-> f.private,
          tokens |-> target \in Secret /\ (actuate \/ read)]]
  /\ temps' = temps \ Mine
  /\ created' = Append(created, target)
  /\ LET next == IF target = "bearers.yaml" THEN ".env" ELSE "dispatch-test.sh"
         last == target = "dispatch-test.sh" \/ (target = ".env" /\ ~actuate)
     IN IF last THEN pc' = "done" /\ target' = target
                ELSE pc' = "mkstemp" /\ target' = next
  /\ UNCHANGED <<run, force, actuate, read, before, gateway>>

\* A write, chmod or replace that raises: the temporary file is removed, and
\* stays if that fails as well.
WriteFails ==
  /\ pc \in {"write", "chmod", "replace"}
  /\ temps' \in {temps \ Mine, temps}
  /\ pc' = "rollback"
  /\ UNCHANGED <<dir, run, force, actuate, read, target, created, before, gateway>>

\* A rollback that forgets the file it was about to write next to the last.
RollbackLast ==
  /\ pc = "rollback"
  /\ dir' = IF created = <<>> THEN dir
            ELSE [dir EXCEPT ![created[Len(created)]] = Absent]
  /\ created' = <<>>
  /\ pc' = "failed"
  /\ UNCHANGED <<temps, run, force, actuate, read, target, before, gateway>>

\* _rollback: the files this run created are unlinked, in the order they were
\* created; one that is gone is passed over.
Rollback ==
  /\ pc = "rollback"
  /\ IF created = <<>>
       THEN pc' = "failed" /\ UNCHANGED <<dir, created>>
       ELSE /\ dir' = [dir EXCEPT ![Head(created)] = Absent]
            /\ created' = Tail(created)
            /\ pc' = pc
  /\ UNCHANGED <<temps, run, force, actuate, read, target, before, gateway>>

\* Any other error of unlink ends the run in a traceback, the rest unremoved.
RollbackFails ==
  /\ pc = "rollback" /\ created # <<>>
  /\ pc' = "raised"
  /\ UNCHANGED <<dir, temps, run, force, actuate, read, target, created, before, gateway>>

\* The run has ended: exit code 0 ("done"), 1 ("failed") or a traceback; or it
\* is killed wherever it is.
Exit ==
  /\ pc # "idle"
  /\ pc' = "idle" /\ created' = <<>>
  /\ UNCHANGED <<dir, temps, run, force, actuate, read, target, before, gateway>>
-----------------------------------------------------------------------------
\* The operator writes a file, or removes one.
Edit(name) ==
  /\ pc = "idle" \/ Concurrent
  /\ \E f \in {Absent, [run |-> 0, whole |-> TRUE, private |-> TRUE,
                        tokens |-> name \in Secret]} : dir' = [dir EXCEPT ![name] = f]
  /\ UNCHANGED <<wizard, gateway>>

\* serve --bearers: a file that is missing, or without an entry, is an error
\* that ends the start.
ReadTokens ==
  LET f == dir["bearers.yaml"] IN
  /\ serve = "down"
  /\ f # Absent /\ f.tokens
  /\ loaded' = f
  /\ serve' = "tokens"
  /\ UNCHANGED <<dir, wizard, section, device>>

\* serve without --bearers: no tokens and the no-op actuator.  The file
\* ROBOT_MD_BEARERS_FILE names is not looked at.
ServeBare ==
  /\ serve = "down"
  /\ serve' = "actuators"
  /\ UNCHANGED <<dir, wizard, loaded, section, device>>

\* load_actuators_section and load_actuator_section read it again.
ReadActuators ==
  /\ serve = "tokens"
  /\ dir["bearers.yaml"] # Absent
  /\ section' = dir["bearers.yaml"]
  /\ serve' = "actuators"
  /\ UNCHANGED <<dir, wizard, loaded, device>>

\* _claim_devices: the operator's file may name an actuator with a device, the
\* wizard's never does.  A claim that fails does not end the start.
ClaimDevices ==
  /\ serve = "actuators"
  /\ device' \in IF device = "free" /\ section # NoFile /\ section.run = 0
                 THEN {"gateway", "free"} ELSE {device}
  /\ serve' = "up"
  /\ UNCHANGED <<dir, wizard, loaded, section>>

\* Another process opens or closes the device.
OtherProcess ==
  /\ \/ device = "free" /\ device' = "other"
     \/ device = "other" /\ device' = "free"
  /\ UNCHANGED <<dir, wizard, serve, loaded, section>>

\* The gateway stops, or its start ends in an error.
Stop ==
  /\ serve # "down"
  /\ serve' = "down" /\ loaded' = NoFile /\ section' = NoFile
  /\ device' = IF device = "gateway" THEN "free" ELSE device
  /\ UNCHANGED <<dir, wizard>>

Next ==
  \/ Start \/ Check \/ Answer \/ Decline
  \/ MkTemp \/ MkTempFails \/ Write \/ Chmod \/ Replace \/ WriteFails
  \/ Rollback \/ RollbackFails \/ Exit
  \/ \E name \in Targets : Edit(name)
  \/ ReadTokens \/ ServeBare \/ ReadActuators \/ ClaimDevices \/ OtherProcess \/ Stop

Spec == Init /\ [][Next]_vars
-----------------------------------------------------------------------------
\* The types of the files and of the two programs' state.
TypeOK ==
  /\ dir \in [Targets -> Files \cup {Absent}]
  /\ temps \in SUBSET Temps
  /\ pc \in {"idle", "checking", "asking", "mkstemp", "write", "chmod", "replace",
             "rollback", "failed", "raised", "done"}
  /\ run \in 0..MaxRuns
  /\ force \in BOOLEAN /\ actuate \in BOOLEAN /\ read \in BOOLEAN
  /\ target \in Targets
  /\ created \in Seq(Targets)
  /\ before \in [Targets -> Files \cup {Absent}]
  /\ serve \in {"down", "tokens", "actuators", "up"}
  /\ loaded \in Files \cup {NoFile} /\ section \in Files \cup {NoFile}
  /\ device \in {"free", "gateway", "other"}

\* Wherever a run fails or is killed, a name holds a whole file of one run or none,
\* so a gateway that starts meanwhile never reads half a file (_atomic_write).
TargetsAreWhole ==
  /\ \A name \in Targets : dir[name] # Absent => dir[name].whole
  /\ loaded # NoFile => loaded.whole

\* A token is never in a file others can read: not before its mode is set, not in a
\* temporary file a killed run leaves behind.
TokensStayPrivate ==
  /\ \A f \in temps : f.name \in Secret => f.private
  /\ \A name \in Secret : dir[name] # Absent => dir[name].private

\* Without --force no file that is there is ever replaced ("already exists.  Use
\* 'init --force' to regenerate").
NoForceNeverReplaces ==
  pc = "replace" /\ ~force => dir[target] = Absent

\* A run without --force that ends with "Write failed" leaves the three files as
\* it found them, whichever write failed.
FailedRunRestores ==
  pc = "failed" /\ ~force => dir = before

\* With --force as well a failed run leaves the files as it found them: false, the
\* rollback removes the new files and the old ones are gone.
ForcedFailureRestores ==
  pc = "failed" => dir = before

\* A gateway that serves has read its bearers file: false of one configured by its
\* environment alone, as the systemd unit is.
ServesConfiguredFile ==
  serve = "up" => loaded # NoFile

\* A gateway's tokens and actuators are of one file: false when the wizard or the
\* operator replaces it between the two reads.
ServesOneFile ==
  serve = "up" => loaded = section
=============================================================================
