---------------------------- MODULE MCPolicyPool ----------------------------
(* Small instances of PolicyPool.  The runs are interchangeable. *)
EXTENDS PolicyPool

RunSymmetry == Permutations(Runs)
=============================================================================
