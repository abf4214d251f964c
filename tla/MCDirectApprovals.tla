-------------------------- MODULE MCDirectApprovals --------------------------
(* Small instances of DirectApprovals.  The calls are alike.                *)
EXTENDS DirectApprovals, TLC

Symmetric == Permutations(Call)
=============================================================================
