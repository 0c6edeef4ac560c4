------------------------------ MODULE EventQueue ------------------------------
(***************************************************************************)
(* What the rest of the emulator may rely on when it uses the scheduler: a *)
(* clock and a set of pending events.  A pending event sits in a slot; an  *)
(* event is delivered at most once, only when it is due, and never while   *)
(* an earlier one is pending; it leaves the queue in no other way than     *)
(* being delivered, cancelled or cleared.  One advance of the clock        *)
(* delivers at most one event.  Which of several events with the same time *)
(* goes first is left open.  Scheduler implements this specification.      *)
(***************************************************************************)
EXTENDS Integers

CONSTANTS Slot,       \* the places a pending event can be in
          EventType,  \* the kinds of event
          NoEvent     \* "nothing was delivered"

VARIABLES now,        \* the clock
          pending,    \* the pending events: a function from slots to events
          delivered   \* the event the last step delivered, or NoEvent

vars == <<now, pending, delivered>>

Event == [time : Nat, type : EventType]

Without(s) == [x \in DOMAIN pending \ {s} |-> pending[x]]

Init ==
  /\ now = 0
  /\ pending = << >>
  /\ delivered = NoEvent

(***************************************************************************)
(* The clock moves on: either nothing is due, or an earliest event is      *)
(* delivered.                                                              *)
(***************************************************************************)
Quiet ==
  /\ now' >= now
  /\ \A s \in DOMAIN pending : pending[s].time > now'
  /\ delivered' = NoEvent
  /\ UNCHANGED pending

Deliver(s) ==
  /\ now' >= now
  /\ s \in DOMAIN pending
  /\ \A other \in DOMAIN pending : pending[s].time <= pending[other].time
  /\ pending[s].time <= now'
  /\ delivered' = pending[s]
  /\ pending' = Without(s)

Schedule(s) ==
  /\ s \notin DOMAIN pending
  /\ DOMAIN pending' = DOMAIN pending \cup {s}
  /\ pending'[s] \in Event
  /\ \A x \in DOMAIN pending : pending'[x] = pending[x]
  /\ delivered' = NoEvent
  /\ UNCHANGED now

(***************************************************************************)
(* Cancelling a type removes an earliest event of that type.               *)
(***************************************************************************)
Cancel(s) ==
  /\ s \in DOMAIN pending
  /\ \A other \in DOMAIN pending :
       pending[other].type = pending[s].type => pending[s].time <= pending[other].time
  /\ pending' = Without(s)
  /\ delivered' = NoEvent
  /\ UNCHANGED now

CancelNothing ==
  /\ delivered' = NoEvent
  /\ UNCHANGED <<now, pending>>

Clear ==
  /\ now' = 0
  /\ pending' = << >>
  /\ delivered' = NoEvent

Next ==
  \/ Quiet
  \/ \E s \in Slot : Deliver(s) \/ Schedule(s) \/ Cancel(s)
  \/ CancelNothing
  \/ Clear

Spec == Init /\ [][Next]_vars
===============================================================================
