----------------------------- MODULE EventFeed ------------------------------
(***************************************************************************)
(* What an event listener promises its handlers, with no goroutines,       *)
(* connections or locks in sight: events are handed over one at a time and *)
(* in the order they arrived, each at most once; a connection that ends by *)
(* itself has handed over all its events before the next one opens; and    *)
(* once the listener has stopped no further connection opens.              *)
(*                                                                         *)
(* The comments of EventHandlerFunc and serve (events.go:28-34,            *)
(* events_signalr.go:259-286) make this promise.                           *)
(***************************************************************************)
EXTENDS Naturals, Sequences

VARIABLES
  phase,     \* "down" (between connections), "up" or "stopped"
  queue,     \* events that wait for their handler
  handling,  \* the event in its handler, if any: a set
  last       \* the number of the last event queued

vars == <<phase, queue, handling, last>>

Init ==
  /\ phase = "down"
  /\ queue = <<>>
  /\ handling = {}
  /\ last = 0

Open ==
  /\ phase = "down"
  /\ queue = <<>>
  /\ handling = {}
  /\ phase' = "up"
  /\ UNCHANGED <<queue, handling, last>>

(* Events are numbered by arrival; an event lost to a cancellation leaves  *)
(* a gap.                                                                  *)
Arrive ==
  /\ phase = "up"
  /\ last' > last
  /\ queue' = Append(queue, last')
  /\ UNCHANGED <<phase, handling>>

Begin ==
  /\ queue # <<>>
  /\ handling = {}
  /\ handling' = {Head(queue)}
  /\ queue' = Tail(queue)
  /\ UNCHANGED <<phase, last>>

Finish ==
  /\ handling # {}
  /\ handling' = {}
  /\ UNCHANGED <<phase, queue, last>>

(* The connection ended by itself. *)
Close ==
  /\ phase = "up"
  /\ queue = <<>>
  /\ handling = {}
  /\ phase' = "down"
  /\ UNCHANGED <<queue, handling, last>>

(* Stop, the end of the owner's context, or a terminal error. *)
Shut ==
  /\ phase # "stopped"
  /\ phase' = "stopped"
  /\ UNCHANGED <<queue, handling, last>>

Next == Open \/ Arrive \/ Begin \/ Finish \/ Close \/ Shut

Spec == Init /\ [][Next]_vars
=============================================================================
