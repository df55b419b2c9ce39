---------------------------- MODULE EventSession ----------------------------
(***************************************************************************)
(* The session as the listeners of a client see it: what their auth        *)
(* callback (events.go:359-373) would answer now.  It ends, by Logout or   *)
(* Close, and never begins again under the same listener.  Module          *)
(* PersistentListener runs against this session; module Session is shown   *)
(* to be one.                                                              *)
(***************************************************************************)

VARIABLE session  \* "live", "ended" (ErrNotAuthenticated) or "closed" (ErrClosed)

Init == session = "live"

End ==
  \/ session = "live" /\ session' = "ended"
  \/ session # "closed" /\ session' = "closed"

Spec == Init /\ [][End]_session
=============================================================================
