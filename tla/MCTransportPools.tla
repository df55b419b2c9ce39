-------------------------- MODULE MCTransportPools --------------------------
(* Model checking of module TransportPools. *)
EXTENDS TransportPools, TLC

GoroutineSymmetry == Permutations(Goroutines)
=============================================================================
