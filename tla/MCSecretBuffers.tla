-------------------------- MODULE MCSecretBuffers --------------------------
(* Model checking of module SecretBuffers. *)
EXTENDS SecretBuffers, TLC

RequestSymmetry == Permutations(Requests)
=============================================================================
