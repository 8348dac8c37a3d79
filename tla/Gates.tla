------------------------------- MODULE Gates -------------------------------
(***************************************************************************)
(* cert/policy.py and cert/gates.py: the gates whose verdict depends on    *)
(* the request and the operator's configuration alone, in the order        *)
(* receiver.py runs them: tier, tool allowlist, tool tier, tool scope,     *)
(* confidence, human in the loop.                                          *)
(*                                                                         *)
(* A scope is caller-written: a name and whether the caller wrote it in    *)
(* upper case.  scope.upper() forgets the case.  A confidence is a number  *)
(* of steps, None, or the NaN that JSON parsing lets in, which is below    *)
(* no threshold.                                                           *)
(***************************************************************************)
EXTENDS Integers

CONSTANTS
  Tools,           \* tool names
  Tiers,           \* what a bearer resolves to
  OtherScopes,     \* scope names that are not actuation scopes
  DEFAULT_STRICT,  \* the threshold of a scope the policy does not list
  Confidences,     \* the inference_confidence numbers that arrive
  NaN,             \* not a number
  None,            \* a missing field, or a policy that is not configured
  Configs          \* the configurations to check

VARIABLES
  config,    \* what the operator configured
  envelope,  \* the request judged, with the tier its bearer resolved to
  verdict    \* "allow", or the gate that refused it

gatesVars == <<config, envelope, verdict>>

ACTUATION_SCOPES == {"MANIPULATE", "NAVIGATE", "ACTUATE", "EXECUTE", "COMMISSION"}
MOTION_SCOPES == ACTUATION_SCOPES \ {"COMMISSION"}
NON_ACTUATING_TIERS == {"read", "anon"}
ScopeNames == ACTUATION_SCOPES \cup OtherScopes
Scopes == [name : ScopeNames, upper : BOOLEAN]

ASSUME VerdictsAssumption == None # "allow"
ASSUME NamesAssumption == None \notin ScopeNames /\ NaN # None
ASSUME NumbersAssumption ==
  /\ DEFAULT_STRICT \in Nat
  /\ Confidences \subseteq Nat
  /\ NaN \notin Nat /\ None \notin Nat

\* A delegation chain, by its last link: the scope approved, and whether it names a human.
Chains == [scope : Scopes, human : BOOLEAN]

ASSUME ChainsAssumption == None \notin Chains

Envelopes ==
  [tool : Tools, scope : Scopes, tier : Tiers,
   confidence : Confidences \cup {NaN, None}, chain : Chains \cup {None}]

\* What the operator configured: the allowlist, the tiers a tool is bound to (None:
\* unconstrained), the tools the actuators declare as motion, the confidence
\* thresholds (None: no policy, or a scope it does not list), the scopes of the HiTL
\* policy, and the manifest's safety.hitl_gates when hitl_from_manifest is on (else None).
IsConfig(c) ==
  /\ c.allowed \subseteq Tools
  /\ c.toolTiers \in [Tools -> (SUBSET Tiers) \cup {None}]
  /\ c.motion \subseteq Tools
  /\ c.thresholds = None \/ c.thresholds \in [ScopeNames -> Nat \cup {None}]
  /\ c.hitl_policy = None \/ c.hitl_policy \subseteq ScopeNames

ASSUME ConfigsAssumption == \A c \in Configs : IsConfig(c)

\* The manifest's word for a gate, passed on as if it were a scope.
GateScopesUnmapped(scope) == {scope}

\* HiTLPolicy.from_manifest_gates: the manifest's safety.hitl_gates in RCAN scopes.
GateScopes(scope) ==
  CASE scope = "destructive" -> {"MANIPULATE"}
    [] scope = "system"      -> {"EXECUTE", "ACTUATE"}
    [] scope = "commission"  -> {"COMMISSION"}
    [] OTHER                 -> {}

from_manifest_gates(gates) == UNION {GateScopes(g.scope) : g \in {h \in gates : h.require_auth}}

-----------------------------------------------------------------------------
(* The gates *)

effective_hitl(c) ==
  IF c.gates # None THEN from_manifest_gates(c.gates) ELSE c.hitl_policy

is_actuation_scope(scope) == scope.name \in ACTUATION_SCOPES

\* check_tier as it was when it compared the caller's string exactly.
check_tierExact(e) ==
  /\ ~(e.tier \in NON_ACTUATING_TIERS /\ is_actuation_scope(e.scope) /\ e.scope.upper)
  /\ e.scope.name = "COMMISSION" => e.tier = "commission"

check_tier(e) ==
  /\ ~(e.tier \in NON_ACTUATING_TIERS /\ is_actuation_scope(e.scope))
  /\ e.scope.name = "COMMISSION" => e.tier = "commission"

check_tool(c, e) == e.tool \in c.allowed

check_tool_tier(c, e) == c.toolTiers[e.tool] = None \/ e.tier \in c.toolTiers[e.tool]

IsMotion(c, e) == e.tool \in c.motion

check_tool_scope(c, e) == IsMotion(c, e) => is_actuation_scope(e.scope)

\* The threshold of one scope name.
Listed(c, s) == IF c.thresholds[s] = None THEN DEFAULT_STRICT ELSE c.thresholds[s]

\* The bars as they were when a motion scope that was not listed was skipped.
BarsListedOnly(c, e) ==
  {Listed(c, e.scope.name)}
  \cup (IF IsMotion(c, e) THEN {c.thresholds[s] : s \in {m \in MOTION_SCOPES :
                                                          c.thresholds[m] # None}} ELSE {})

\* threshold_for is the greatest of these.
Bars(c, e) ==
  {Listed(c, e.scope.name)} \cup (IF IsMotion(c, e) THEN {Listed(c, s) : s \in MOTION_SCOPES}
                                  ELSE {})

\* confidence < threshold, which no NaN satisfies.
check_confidence(c, e) ==
  /\ e.confidence # None
  /\ e.confidence # NaN => \A bar \in Bars(c, e) : ~(e.confidence < bar)

\* HiTLPolicy.requires without the rule for motion tools.
RequiresByLabel(c, e) == e.scope.name \in effective_hitl(c)

\* HiTLPolicy.requires.
Requires(c, e) ==
  \/ e.scope.name \in effective_hitl(c)
  \/ IsMotion(c, e) /\ effective_hitl(c) \cap MOTION_SCOPES # {}

check_hitl(c, e) ==
  Requires(c, e) =>
    /\ e.chain # None
    /\ e.chain.scope.name = e.scope.name
    /\ e.chain.human

\* The order of _invoke: the first gate that refuses names the denial.
Verdict(c, e) ==
  IF ~check_tier(e) THEN "tier_policy"
  ELSE IF ~check_tool(c, e) THEN "tool_allowlist"
  ELSE IF ~check_tool_tier(c, e) THEN "tool_tier"
  ELSE IF ~check_tool_scope(c, e) THEN "tool_scope"
  ELSE IF c.thresholds # None /\ ~check_confidence(c, e) THEN "confidence_threshold"
  ELSE IF effective_hitl(c) # None /\ ~check_hitl(c, e) THEN "hitl_required"
  ELSE "allow"

-----------------------------------------------------------------------------
(* One request against one configuration *)

GatesInit == config \in Configs /\ envelope = None /\ verdict = None

Judge(e) ==
  /\ verdict = None
  /\ envelope' = e
  /\ verdict' = Verdict(config, e)
  /\ UNCHANGED config

GatesNext == \E e \in Envelopes : Judge(e)

GatesSpec == GatesInit /\ [][GatesNext]_gatesVars

-----------------------------------------------------------------------------
(* Properties *)

\* The configuration, the request and the verdict are well formed, and the manifest's
\* gates name RCAN scopes only: a gate that named anything else would never be required.
GatesTypeOK ==
  /\ IsConfig(config)
  /\ effective_hitl(config) = None \/ effective_hitl(config) \subseteq ScopeNames
  /\ \/ envelope = None /\ verdict = None
     \/ envelope \in Envelopes /\ verdict \in {"allow", "tier_policy", "tool_allowlist",
          "tool_tier", "tool_scope", "confidence_threshold", "hitl_required"}

Judged == verdict # None

\* A motion that is labelled with one of the motion scopes, whose chain, if it has one,
\* approves that label.
LabelledMotion(c, e) ==
  /\ IsMotion(c, e)
  /\ e.scope.name \in MOTION_SCOPES
  /\ e.chain # None => e.chain.scope.name = e.scope.name

\* The same request under another label, its chain relabelled with it.
Relabel(e, scope) ==
  [e EXCEPT !.scope = scope,
            !.chain = IF e.chain = None THEN None ELSE [scope |-> scope, human |-> e.chain.human]]

\* README.md, check 3: relabelling a motion among the motion scopes, in either case,
\* buys nothing: every gate gives the verdict it gave before.
RelabelBuysNothing ==
  Judged /\ LabelledMotion(config, envelope) =>
    \A scope \in Scopes :
      scope.name \in MOTION_SCOPES => Verdict(config, Relabel(envelope, scope)) = verdict

\* No principal of the read or anon tier moves the robot, whatever scope it writes: the
\* scope gate forces a motion under an actuation scope and the tier gate refuses it there.
MotionNeedsCredential ==
  verdict = "allow" /\ IsMotion(config, envelope) => envelope.tier \notin NON_ACTUATING_TIERS

\* HiTLPolicy.requires: a human gate on one motion scope covers every motion, whatever
\* scope labels it, COMMISSION included.
HumanInTheLoop ==
  (/\ verdict = "allow"
   /\ IsMotion(config, envelope)
   /\ effective_hitl(config) # None
   /\ effective_hitl(config) \cap MOTION_SCOPES # {}) =>
     /\ envelope.chain # None
     /\ envelope.chain.human
     /\ envelope.chain.scope.name = envelope.scope.name

\* README.md, check 4: with a confidence policy, an allowed request asserts a confidence
\* at or above the threshold of its scope.
ConfidenceAboveThreshold ==
  verdict = "allow" /\ config.thresholds # None =>
    /\ envelope.confidence \in Nat
    /\ envelope.confidence >= Listed(config, envelope.scope.name)
=============================================================================
