-------------------------- MODULE MCLangChainLife ---------------------------
(* Small instance of LangChainLife: handler calls are interchangeable. *)
EXTENDS LangChainLife, TLC

Symmetry == Permutations(Runs)
=============================================================================
