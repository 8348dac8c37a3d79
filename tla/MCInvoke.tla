------------------------------ MODULE MCInvoke ------------------------------
EXTENDS Invoke, TLC

CONSTANTS r1, r2, m1

\* Both requests carry the same msg_id.
MCMsgOf == r1 :> m1 @@ r2 :> m1
Symmetry == Permutations({r1, r2})
=============================================================================
