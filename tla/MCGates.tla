------------------------------ MODULE MCGates ------------------------------
(* Gates for TLC: one tool that moves the robot and one that looks, the four *)
(* tiers, and the configurations whose thresholds and HiTL scopes differ     *)
(* between motion scopes, which is where a label could choose the rule.      *)
EXTENDS Gates

MCTiers == {"anon", "read", "actuate", "commission"}

\* A policy that lists one motion scope low, one that lists one high, one that lists none.
MCThresholds ==
  {None} \cup {[s \in ScopeNames |-> IF s = "NAVIGATE" THEN n ELSE None] : n \in {1, 3, None}}

MCBase ==
  [allowed : {{"move", "look"}}, motion : {{"move"}},
   toolTiers : {[t \in Tools |-> None]},
   thresholds : MCThresholds,
   hitl_policy : {None, {"MANIPULATE"}}, gates : {None}]

\* hitl_from_manifest is on: gates the map knows, one it does not, one without require_auth.
MCFromManifest ==
  [allowed : {{"move"}}, motion : {{"move"}},
   toolTiers : {[t \in Tools |-> IF t = "move" THEN {"actuate", "commission"} ELSE None]},
   thresholds : {None}, hitl_policy : {{"MANIPULATE"}},
   gates : {{}, {[scope |-> "destructive", require_auth |-> TRUE],
                 [scope |-> "system", require_auth |-> FALSE]},
            {[scope |-> "system", require_auth |-> TRUE]},
            {[scope |-> "commission", require_auth |-> TRUE],
             [scope |-> "egress", require_auth |-> TRUE]}}]

MCConfigs == MCBase \cup MCFromManifest
=============================================================================
