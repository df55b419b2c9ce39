------------------------------- MODULE MCA2A -------------------------------
(* Model checking of module A2A. *)
EXTENDS A2A, TLC

A2ASymmetry == Permutations(Callers) \cup Permutations(Regs) \cup Permutations(Accounts)
               \cup Permutations(Passwords)
=============================================================================
