--------------------------- MODULE SessionPromise ---------------------------
(***************************************************************************)
(* What a safeguard-go client promises about its authentication session,   *)
(* with no goroutines, locks or requests in sight: a session starts once,  *)
(* is renewed by at most one login at a time, each renewal advances the    *)
(* generation it was started for by exactly one, and an ended session      *)
(* never comes back.                                                       *)
(*                                                                         *)
(* The comments of tokenState (token.go:24-42), refreshOnce and doRefresh  *)
(* (refresh.go:47-53, 91-95), Logout and Close (client.go:116-120,         *)
(* 162-168) make this promise; module Session is shown to keep it.         *)
(***************************************************************************)
EXTENDS Naturals

VARIABLES
  phase,       \* "new" (no login yet), "live" or "ended"
  generation,  \* generation of the live session, 0 when there is none
  renewing     \* generation a login is running for, 0 when none is

vars == <<phase, generation, renewing>>

TypeOK ==
  /\ phase \in {"new", "live", "ended"}
  /\ generation \in Nat
  /\ renewing \in Nat

Init ==
  /\ phase = "new"
  /\ generation = 0
  /\ renewing = 0

(* Connect returned a client. *)
Start ==
  /\ phase = "new"
  /\ phase' = "live"
  /\ generation' = 1
  /\ UNCHANGED renewing

(* A login starts for the current generation; never two at a time. *)
BeginRenewal ==
  /\ phase = "live"
  /\ renewing = 0
  /\ renewing' = generation
  /\ UNCHANGED <<phase, generation>>

(* The login's token becomes the session's, if the session is still the    *)
(* one it was started for.                                                 *)
Renew ==
  /\ phase = "live"
  /\ renewing = generation
  /\ generation' = generation + 1
  /\ renewing' = 0
  /\ UNCHANGED phase

(* The login failed, or what it brought was superseded. *)
AbandonRenewal ==
  /\ renewing # 0
  /\ renewing' = 0
  /\ UNCHANGED <<phase, generation>>

(* Logout, Close, or a Connect that failed. *)
End ==
  /\ phase # "ended"
  /\ phase' = "ended"
  /\ generation' = 0
  /\ UNCHANGED renewing

Next == Start \/ BeginRenewal \/ Renew \/ AbandonRenewal \/ End

Spec == Init /\ [][Next]_vars
=============================================================================
