------------------------ MODULE MCPersistentListener ------------------------
(* Model checking of module PersistentListener. *)
EXTENDS PersistentListener, TLC

CallerSymmetry == Permutations(Callers)
=============================================================================
