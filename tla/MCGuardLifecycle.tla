-------------------------- MODULE MCGuardLifecycle --------------------------
(* Small instances of GuardLifecycle: guards are interchangeable. *)
EXTENDS GuardLifecycle, TLC

Symmetry == Permutations(Guards)

\* Guards that are all used in one of the three ways, and all behind the synchronous facade.
Alike == {[g \in Guards |-> m] : m \in {"loop", "wrapped", "sync"}}
AllSync == {[g \in Guards |-> "sync"]}
=============================================================================
