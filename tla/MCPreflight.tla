----------------------------- MODULE MCPreflight -----------------------------
(***************************************************************************)
(* Runs in which at most MaxSurprises of the things read differ from those  *)
(* of a robot in good order, with keys the registry serves.                 *)
(***************************************************************************)
EXTENDS Preflight, FiniteSets, FiniteSetsExt, TLC

CONSTANTS c1, c2, c3, k1, k2, MaxSurprises

Symmetry == Permutations({c1, c2, c3}) \cup Permutations({k1, k2})

One(condition) == IF condition THEN 1 ELSE 0

\* How one kid's answers differ: no pin, another local key, another answer.
KidSurprises(kid) ==
  LET e == kids[kid]  pin == inp.pins[kid] IN
  One(e.local = NoKey \/ (pin # NoKey /\ e.local # pin))
    + One(e.registry # "found" \/ (e.local # NoKey /\ e.key # e.local))

\* Of the files that name a key: one that is missing, or that names another.
FileSurprises(file, kid) ==
  One(file.state \notin {Unread, "read"})
    + One(file.state = "read" /\ file.key # kids[kid].local)

Surprises ==
  One(out.footer \notin {Unread, "signed"}) + One(out.fixture \notin {Unread, "same"})
    + One(out.signer # kids[inp.manifest].local) + One(out.robot \notin {Unread, "active"})
    + One(out.gateway \notin {Unread, "signing"}) + One(~out.path)
    + One(out.drive = "differs")
    + FileSurprises(out.sidecar, out.kid) + FileSurprises(out.receipt, out.kid)
    + FileSurprises(out.pairing, out.kid)
    + One(out.pairing.state = "read" /\ out.pairing.kid # out.kid)
    + One(out.ran \notin {Unread, "holds"}) + One(out.ranRevoked) + One(~out.kidRan)
    + MapThenSumSet(KidSurprises, {kid \in Kids : kids[kid] # Unchecked})
    + Cardinality({kid \in Kids : inp.pins[kid] = NoKey})

FewSurprises == Surprises <= MaxSurprises
=============================================================================
