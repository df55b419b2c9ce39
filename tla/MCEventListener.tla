-------------------------- MODULE MCEventListener ---------------------------
(* Model checking of module EventListener. *)
EXTENDS EventListener, TLC

CallerSymmetry == Permutations(Callers)
=============================================================================
