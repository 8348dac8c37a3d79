------------------------------ MODULE Preflight ------------------------------
(***************************************************************************)
(* scripts/rrf_preflight.py: the check of a robot's keys before a bench or  *)
(* a live run.  It compares, for every key id (kid) the robot's evidence    *)
(* uses, three answers: the copy the gateway's own resolver serves, the     *)
(* public registry's, and the pinned key; adds what it reads of the host;   *)
(* and gives one verdict per mode: a stop, local-keys-only, or the label    *)
(* registry-resolves that the run's evidence is published under.            *)
(*                                                                          *)
(* The run is one sequence of steps.  What it reads (files, the gateway's   *)
(* process, HTTP answers) is chosen when the step reads it, and `out' is    *)
(* what the report then says.  A public key is a member of Keys; "verifies  *)
(* under a key" is "was made with that key".  Findings that are notes in    *)
(* every mode and that no decision reads are left out, except those that    *)
(* say a kid could only be checked locally.                                 *)
(***************************************************************************)
CONSTANTS
  Kids,   \* key ids
  Keys,   \* public keys
  NoKey   \* no key: not found, not pinned, not parsed, a forged signature

ASSUME NoKeyAssumption == NoKey \notin Keys

VARIABLES
  inp,       \* Inputs: the requested mode, the manifest's kid, the pins
  stage,     \* the step run() is at
  out,       \* the report: what was read
  kids,      \* self.kids: per kid, the local and the registry's answer
  in_use,    \* entry["in_use_in"]: per kid, the modes that use it
  todo,      \* the signer kids of the export still to be checked
  findings,  \* self.findings
  checks     \* registry_checks: per mode, the links the label needs

preflightVars == <<inp, stage, out, kids, in_use, todo, findings, checks>>

BOTH == {"bench", "live"}
LIVE == {"live"}
MaybeKey == Keys \cup {NoKey}

\* One kid's answers.  "unreachable" is every registry answer without a
\* usable meaning: none at all, a server error, a body without a key.
Unchecked == [local |-> NoKey, registry |-> "unasked", key |-> NoKey]
Results == {"found", "not-registered", "revoked", "unreachable"}
Answers ==
  {e \in [local : MaybeKey, registry : Results, key : MaybeKey] :
     /\ e.registry = "found" <=> e.key # NoKey
     \* Recorder: the same URL is asked once, so a resolver that is the
     \* registry gives the registry's answer.
     /\ inp.shared => e.local = e.key}

Footers == {"signed", "unsigned", "malformed", "unreadable"}
Fixtures == {"same", "differs", "unreadable", "none"}
Robots == {"active", "revoked", "not-registered", "unreachable", "none"}
Gateways == {"not-running", "not-signing", "signing"}
Rans == {"undeclared", "holds", "differs", "absent"}
Unread == "unread"

PreflightInit ==
  /\ inp \in [mode : BOTH, manifest : Kids, pins : [Kids -> MaybeKey],
              shared : BOOLEAN]
  /\ stage = "manifest"
  /\ out = [footer |-> Unread, fixture |-> Unread, signer |-> NoKey,
            robot |-> Unread, gateway |-> Unread, path |-> TRUE,
            drive |-> "matches", kid |-> inp.manifest, enforce |-> FALSE,
            sidecar |-> [state |-> Unread, key |-> NoKey],
            ran |-> Unread, ranRevoked |-> FALSE, kidRan |-> TRUE,
            pairing |-> [state |-> Unread, kid |-> inp.manifest, key |-> NoKey],
            receipt |-> [state |-> Unread, key |-> NoKey], signers |-> {}]
  /\ kids = [kid \in Kids |-> Unchecked]
  /\ in_use = [kid \in Kids |-> {}]
  /\ todo = {}
  /\ findings = {}
  /\ checks = [m \in BOTH |-> {}]

modes == IF inp.mode = "live" THEN BOTH ELSE {"bench"}

\* self.find: a finding stops the modes in stop_in and is a note elsewhere.
find(id, condition, stop_in) ==
  IF condition THEN {[id |-> id, stop_in |-> stop_in]} ELSE {}

record(made, ms) ==
  [m \in BOTH |-> IF m \in ms THEN checks[m] \cup made ELSE checks[m]]

\* check_kid.  A kid already checked keeps its answers and gets no finding
\* again, whatever the new use: only its list of uses grows.
Entries(kid) == IF kids[kid] = Unchecked THEN Answers ELSE {kids[kid]}

check_kid(kid, e, uses) ==
  /\ kids' = [kids EXCEPT ![kid] = e]
  /\ in_use' = [in_use EXCEPT ![kid] = @ \cup uses]

\* Findings that take a kid the registry does not know for a contradiction.
KidFindingsStrict(kid, e, uses) ==
  find("kid-revoked", e.registry \in {"revoked", "not-registered"}, uses)

KidFindings(kid, e, uses) ==
  LET pin == inp.pins[kid]
      localDiffers == e.registry = "found" /\ e.local # NoKey /\ e.key # e.local
  IN IF kids[kid] # Unchecked THEN {} ELSE
     find("no-pin", pin = NoKey, {})
       \cup find("local-key-differs-from-pin",
                 pin # NoKey /\ e.local # NoKey /\ e.local # pin, uses)
       \cup find("registry-key-differs-from-local", localDiffers, uses)
       \cup find("registry-key-differs-from-pin",
                 /\ e.registry = "found" /\ ~localDiffers
                 /\ pin # NoKey /\ e.key # pin, uses)
       \cup find("kid-revoked", e.registry = "revoked", uses)
       \cup find("kid-not-registered", e.registry = "not-registered", {})
       \cup find("registry-unreachable", e.registry = "unreachable", {})

\* A label that only asks whether the registry serves the local key.
BackedLocally(kid, e) == e.registry = "found" /\ e.key = e.local

\* The registry's key is the local one and the pinned one.
Backed(kid, e) ==
  e.registry = "found" /\ e.key = e.local /\ e.key = inp.pins[kid]
-----------------------------------------------------------------------------
\* _manifest: without a readable, signed manifest nothing else is looked at.
Manifest ==
  /\ stage = "manifest"
  /\ \E footer \in Footers :
       \E fixture \in IF footer = "unreadable" THEN {Unread} ELSE Fixtures :
         /\ out' = [out EXCEPT !.footer = footer, !.fixture = fixture]
         /\ findings' = findings
              \cup find("manifest-unreadable", footer = "unreadable", BOTH)
              \cup find("fixture-differs", fixture \in {"differs", "unreadable"}, BOTH)
              \cup find("manifest-not-signed",
                        footer \in {"unsigned", "malformed"}, BOTH)
         /\ stage' = IF footer = "signed" THEN "manifest_keys" ELSE "done"
  /\ UNCHANGED <<inp, kids, in_use, todo, checks>>

\* _manifest_keys: the manifest's kid, used in both modes, and its signature.
ManifestKeys ==
  /\ stage = "manifest_keys"
  /\ stage' = "rrn"
  /\ \E e \in Entries(inp.manifest), signer \in MaybeKey :
       /\ check_kid(inp.manifest, e, BOTH)
       /\ out' = [out EXCEPT !.signer = signer]
       /\ findings' = findings \cup KidFindings(inp.manifest, e, BOTH)
            \cup find("manifest-kid-not-resolvable-locally", e.local = NoKey, BOTH)
            \cup find("manifest-signature-fails-local-key",
                      e.local # NoKey /\ signer # e.local, BOTH)
       /\ checks' = record(
            {[check |-> "manifest_kid", ok |-> Backed(inp.manifest, e)],
             [check |-> "manifest_verifies",
              ok |-> e.registry = "found" /\ e.key = signer]}, modes)
  /\ UNCHANGED <<inp, todo>>

\* _rrn: the registry's record of the robot.
Rrn ==
  /\ stage = "rrn"
  /\ stage' = IF inp.mode = "live" THEN "gateway" ELSE "pins"
  /\ \E robot \in Robots :
       /\ out' = [out EXCEPT !.robot = robot]
       /\ findings' = findings \cup find("robot-revoked", robot = "revoked", BOTH)
       /\ checks' = record({[check |-> "rrn_record", ok |-> robot = "active"]}, modes)
  /\ UNCHANGED <<inp, kids, in_use, todo>>

\* _drive: the backends a manifest may declare for the gateway's OPENCASTOR_DRIVE.
DriveBackends == [simulated |-> {"SimulatedDrive"},
                  tank |-> {"PCA9685Drive", "DifferentialMixer"}]
DriveMatches(env, backend, hardware) ==
  LET name == IF env = "unset" THEN "simulated" ELSE env IN
  \/ env = "unset" /\ backend = "none"
  \/ /\ name \in DOMAIN DriveBackends
     /\ backend \in DriveBackends[name]
     /\ hardware # "unset" => (hardware = "true") = (name # "simulated")

\* _gateway, up to its signing identity: a gateway that is not running, or
\* that signs nothing, ends the gateway's part.
Gateway ==
  /\ stage = "gateway"
  /\ \E gateway \in Gateways, path, enforce \in BOOLEAN, kid \in Kids,
        env \in {"unset", "simulated", "tank", "unknown"},
        backend \in {"none", "SimulatedDrive", "PCA9685Drive"},
        hardware \in {"unset", "true", "false"} :
       LET drive == IF DriveMatches(env, backend, hardware)
                    THEN "matches" ELSE "differs"
       IN IF gateway = "not-running"
          THEN /\ out' = [out EXCEPT !.gateway = gateway]
               /\ findings' = findings \cup find("gateway-not-running", TRUE, LIVE)
               /\ stage' = "pins"
          ELSE /\ out' = [out EXCEPT !.gateway = gateway, !.path = path, !.kid = kid,
                                     !.drive = drive, !.enforce = enforce]
               /\ findings' = findings
                    \cup find("gateway-manifest-path-differs", ~path, LIVE)
                    \cup find("drive-backend-differs", drive = "differs", LIVE)
                    \cup find("gateway-not-signing", gateway = "not-signing", LIVE)
               /\ stage' = IF gateway = "signing" THEN "gateway_key" ELSE "pins"
  /\ UNCHANGED <<inp, kids, in_use, todo, checks>>

\* The gateway's signing kid, and the public half beside its key file.
GatewayKey ==
  /\ stage = "gateway_key"
  /\ stage' = "ran"
  /\ \E e \in Entries(out.kid),
        sidecar \in [state : {"none", "read"}, key : MaybeKey] :
       /\ check_kid(out.kid, e, LIVE)
       /\ sidecar.key # NoKey => sidecar.state = "read"
       /\ out' = [out EXCEPT !.sidecar = sidecar]
       /\ findings' = findings \cup KidFindings(out.kid, e, LIVE)
            \cup find("gateway-kid-not-resolvable-locally", e.local = NoKey, LIVE)
            \cup find("gateway-key-file-differs-from-local-key",
                      sidecar.state = "read" /\ e.local # NoKey /\ sidecar.key # e.local, LIVE)
       /\ checks' = record({[check |-> "gateway_kid", ok |-> Backed(out.kid, e)]}, LIVE)
  /\ UNCHANGED <<inp, todo>>

\* The gateway's declared authority.  kidRan: the registry maps the signing
\* kid to no authority, or to the declared one.
Ran ==
  /\ stage = "ran"
  /\ stage' = "pairing"
  /\ \E ran \in Rans, revoked, kidRan \in BOOLEAN :
       /\ ran = "holds" => kids[out.kid].local # NoKey
       /\ revoked => ran \in {"holds", "differs"}
       /\ out' = [out EXCEPT !.ran = ran, !.ranRevoked = revoked, !.kidRan = kidRan]
       /\ findings' = findings \cup find("ran-revoked", revoked, LIVE)
       /\ checks' = record(
            {[check |-> "declared_ran",
              ok |-> ran = "undeclared" \/ (ran = "holds" /\ kidRan)]}, LIVE)
  /\ UNCHANGED <<inp, kids, in_use, todo>>

\* _pairing: what the phone was told of the gateway's key.
Pairing ==
  /\ stage = "pairing"
  /\ stage' = "export"
  /\ \E pairing \in [state : {"none", "unreadable", "read"}, kid : Kids, key : MaybeKey] :
       /\ pairing.state # "read" =>
            pairing.kid = inp.manifest /\ pairing.key = NoKey
       /\ out' = [out EXCEPT !.pairing = pairing]
       /\ findings' = findings
            \cup find("pairing-payload-unreadable", pairing.state = "unreadable", LIVE)
            \cup find("pairing-attest-kid-differs",
                      pairing.state = "read" /\ pairing.kid # out.kid, LIVE)
            \cup find("pairing-attest-pub-differs",
                      /\ pairing.state = "read"
                      /\ pairing.key = NoKey \/ pairing.key # kids[out.kid].local,
                      LIVE)
  /\ UNCHANGED <<inp, kids, in_use, todo, checks>>

\* _export: the newest receipt and the signers in the tail of the export.
Export ==
  /\ stage = "export"
  /\ stage' = "signers"
  /\ \E receipt \in [state : {"none", "read"}, key : MaybeKey],
        signers \in SUBSET Kids :
       /\ receipt.key # NoKey => receipt.state = "read"
       /\ out' = [out EXCEPT !.receipt = receipt, !.signers = signers]
       /\ todo' = signers
       /\ findings' = findings \cup
            find("gateway-receipt-fails-local-key",
                 /\ receipt.state = "read"
                 /\ receipt.key = NoKey \/ receipt.key # kids[out.kid].local, LIVE)
  /\ UNCHANGED <<inp, kids, in_use, checks>>

Signer ==
  /\ stage = "signers"
  /\ \E kid \in todo : \E e \in Entries(kid) :
       /\ check_kid(kid, e, LIVE)
       /\ findings' = findings \cup KidFindings(kid, e, LIVE)
            \cup find("signer-kid-not-resolvable-locally", e.local = NoKey,
                      IF out.enforce THEN LIVE ELSE {})
       /\ todo' = todo \ {kid}
  /\ UNCHANGED <<inp, stage, out, checks>>

SignersDone ==
  /\ stage = "signers" /\ todo = {}
  /\ stage' = "pins"
  /\ UNCHANGED <<inp, out, kids, in_use, todo, findings, checks>>

\* The pins looked up before the gateway and the export are.
OtherPinEarly ==
  /\ stage \in {"gateway", "pins"} /\ out.robot # "none"
  /\ \E kid \in Kids : \E e \in Entries(kid) :
       /\ inp.pins[kid] # NoKey /\ kids[kid] = Unchecked
       /\ check_kid(kid, e, {})
       /\ findings' = findings \cup KidFindings(kid, e, {})
  /\ UNCHANGED <<inp, stage, out, todo, checks>>

\* _other_pins: a pin that names this robot and that nothing used, a retired
\* key, is looked up with no mode it could stop.
OtherPin ==
  /\ stage = "pins" /\ out.robot # "none"
  /\ \E kid \in Kids : \E e \in Entries(kid) :
       /\ inp.pins[kid] # NoKey /\ kids[kid] = Unchecked
       /\ check_kid(kid, e, {})
       /\ findings' = findings \cup KidFindings(kid, e, {})
  /\ UNCHANGED <<inp, stage, out, todo, checks>>

\* The pins left name another robot.
PinsDone ==
  /\ stage = "pins"
  /\ stage' = "done"
  /\ UNCHANGED <<inp, out, kids, in_use, todo, findings, checks>>

Terminated == stage = "done" /\ UNCHANGED preflightVars

PreflightNext ==
  \/ Manifest \/ ManifestKeys \/ Rrn \/ Gateway \/ GatewayKey \/ Ran \/ Pairing
  \/ Export \/ Signer \/ SignersDone \/ OtherPin \/ PinsDone \/ Terminated

PreflightSpec == PreflightInit /\ [][PreflightNext]_preflightVars
-----------------------------------------------------------------------------
\* verdict_for, and the process's exit code for the requested mode.
Stops(m) == {f \in findings : m \in f.stop_in}
verdict_for(m) ==
  IF Stops(m) # {} THEN "STOP"
  ELSE IF checks[m] # {} /\ \A c \in checks[m] : c.ok THEN "registry-resolves"
  ELSE "local-keys-only"
-----------------------------------------------------------------------------
Facts ==
  [footer : Footers \cup {Unread}, fixture : Fixtures \cup {Unread},
   signer : MaybeKey, robot : Robots \cup {Unread},
   gateway : Gateways \cup {Unread}, path : BOOLEAN,
   drive : {"matches", "differs"}, kid : Kids, enforce : BOOLEAN,
   sidecar : [state : {Unread, "none", "read"}, key : MaybeKey],
   ran : Rans \cup {Unread}, ranRevoked : BOOLEAN, kidRan : BOOLEAN,
   pairing : [state : {Unread, "none", "unreadable", "read"}, kid : Kids,
              key : MaybeKey],
   receipt : [state : {Unread, "none", "read"}, key : MaybeKey],
   signers : SUBSET Kids]

\* The types of the run's state.
PreflightTypeOK ==
  /\ inp \in [mode : BOTH, manifest : Kids, pins : [Kids -> MaybeKey],
              shared : BOOLEAN]
  /\ stage \in {"manifest", "manifest_keys", "rrn", "gateway", "gateway_key", "ran",
             "pairing", "export", "signers", "pins", "done"}
  /\ out \in Facts
  /\ kids \in [Kids -> Answers \cup {Unchecked}]
  /\ in_use \in [Kids -> SUBSET BOTH]
  /\ todo \in SUBSET Kids
  /\ findings \in SUBSET [id : STRING, stop_in : SUBSET BOTH]
  /\ checks \in [BOTH -> SUBSET [check : STRING, ok : BOOLEAN]]

\* The kids whose keys the evidence of a run in mode m rests on.
InUse(m) ==
  {kid \in Kids :
     /\ out.footer = "signed"
     /\ \/ kid = inp.manifest
        \/ m = "live" /\ out.gateway = "signing" /\ (kid = out.kid \/ kid \in out.signers)}

\* The three answers for a kid contradict one another.
Contradicts(kid) ==
  LET e == kids[kid]  pin == inp.pins[kid] IN
  \/ e.registry = "revoked"
  \/ e.registry = "found" /\ e.local # NoKey /\ e.key # e.local
  \/ e.registry = "found" /\ pin # NoKey /\ e.key # pin
  \/ e.local # NoKey /\ pin # NoKey /\ e.local # pin

\* What the host itself shows to be wrong, the registry aside.
HostIsWrong(m) ==
  LET Wrong(kid, key) == key = NoKey \/ key # kids[kid].local IN
  \/ out.footer # "signed" \/ out.fixture \in {"differs", "unreadable"}
  \/ Wrong(inp.manifest, out.signer)
  \/ /\ m = "live"
     /\ \/ out.gateway # "signing" \/ ~out.path \/ out.drive = "differs"
        \/ kids[out.kid].local = NoKey
        \/ out.sidecar.state = "read" /\ out.sidecar.key # kids[out.kid].local
        \/ out.pairing.state = "unreadable"
        \/ /\ out.pairing.state = "read"
           /\ out.pairing.kid # out.kid \/ Wrong(out.kid, out.pairing.key)
        \/ out.receipt.state = "read" /\ Wrong(out.kid, out.receipt.key)
        \/ out.enforce /\ \E kid \in out.signers : kids[kid].local = NoKey

\* The registry says the robot or its authority is revoked.
Revoked(m) == out.robot = "revoked" \/ (m = "live" /\ out.ranRevoked)

\* Whatever order the kids were met in, and however often one kid was met in
\* different roles, a kid whose answers contradict one another stops every mode
\* that uses it, and so does all that is wrong on the host (the documented stop
\* conditions).  check_kid gives its findings once, with the first use: a kid
\* first met as a retired pin would be used live without a stop.
ContradictionStops ==
  stage = "done" => \A m \in modes :
    ((\E kid \in InUse(m) : Contradicts(kid)) \/ HostIsWrong(m) \/ Revoked(m))
      => verdict_for(m) = "STOP"

\* Nothing else stops: not a registry that knows nothing or cannot be reached,
\* not a missing pin, not a contradiction about a pinned kid the mode does not
\* use, whose finding belongs to the other mode or to none.
AbsenceNeverStops ==
  stage = "done" => \A m \in modes :
    verdict_for(m) = "STOP" =>
      (\E kid \in InUse(m) : Contradicts(kid)) \/ HostIsWrong(m) \/ Revoked(m)

\* The label a run's evidence is published under.  It is given only when each
\* link was read and holds: the manifest's signature, and live the gateway's
\* key, the phone's copy of it, the newest receipt and the key file's public
\* half, are all of the key the registry serves and the pin names.
RegistryResolvesIsBacked ==
  stage = "done" => \A m \in modes :
    verdict_for(m) = "registry-resolves" =>
      LET Holds(kid, key) ==
            /\ kids[kid].registry = "found" /\ kids[kid].key = key
            /\ inp.pins[kid] = key /\ kids[kid].local = key
      IN /\ Holds(inp.manifest, out.signer) /\ out.robot = "active"
         /\ m = "live" =>
              /\ Holds(out.kid, kids[out.kid].key)
              /\ out.ran \in {"undeclared", "holds"} /\ ~out.ranRevoked
              /\ out.pairing.state = "read" => Holds(out.pairing.kid, out.pairing.key)
              /\ out.receipt.state = "read" => Holds(out.kid, out.receipt.key)
              /\ out.sidecar.state = "read" => Holds(out.kid, out.sidecar.key)
              /\ out.path /\ out.drive = "matches"

\* The documentation's sentence for the label: every in-use kid resolves
\* publicly to its pinned key.  The signers of the export are in use and are
\* not links of the label, so the code does not give this.
EveryInUseKidResolves ==
  stage = "done" => \A m \in modes : verdict_for(m) = "registry-resolves" =>
    \A kid \in InUse(m) :
      kids[kid].registry = "found" /\ kids[kid].key = inp.pins[kid]

\* The documentation's sentence for absence: a kid answering 404, or an
\* unreachable registry, is never a stop.  With a gateway that resolves keys at
\* the public registry itself, the local answer is the same 404 and it is one.
RegistryAbsenceNeverStops ==
  LET e == kids[inp.manifest]  pin == inp.pins[inp.manifest] IN
  (/\ stage = "done" /\ e.registry \in {"not-registered", "unreachable"}
   /\ out.footer = "signed" /\ out.fixture = "same" /\ ~Revoked("bench")
   /\ pin # NoKey /\ out.signer = pin /\ (inp.shared \/ e.local = pin))
    => verdict_for("bench") # "STOP"
=============================================================================
