----------------------------- MODULE MCSession -----------------------------
(* Small instances of module Session for TLC. *)
EXTENDS Session, TLC

(* The callers run the same code: exchanging them changes nothing. *)
CallerSymmetry == Permutations(Callers)
=============================================================================
