------------------------------- MODULE Scheduler -------------------------------
(***************************************************************************)
(* The event scheduler of src/src/system/scheduler.c: a clock, a pool of   *)
(* NUM_EVENT_NODES nodes handed out from a stack, and a linked list of the *)
(* nodes in use, sorted by the time of their event.                        *)
(*                                                                         *)
(* The list is the sequence of its nodes, each with the event it holds.    *)
(* The contents of a node on the free stack are left out: both fields are  *)
(* written when it is allocated, before anything reads them.               *)
(***************************************************************************)
EXTENDS Integers, Sequences, SequencesExt

CONSTANTS NUM_EVENT_NODES,  \* the size of the pool, 10 in the code
          EventType,        \* scheduler_event_type_t
          NoEvent,          \* *event is left alone: scheduler_tick returned false
          Ticks,            \* the numbers of ticks one call may add to the clock
          Delays,           \* the delays events are enqueued with
          MaxTicks          \* bound: the clock stops here

ASSUME SchedulerConstants ==
  /\ NUM_EVENT_NODES \in Nat \ {0}
  /\ Ticks \subseteq Nat
  /\ Delays \subseteq Int
  /\ MaxTicks \in Nat
  /\ NoEvent \notin [time : Nat, type : EventType]

VARIABLES scheduler_ticks,   \* the clock
          free_event_nodes,  \* the stack of free nodes; its top is the last
          scheduler_list,    \* the nodes in use, in list order
          event,             \* what the last call delivered, or NoEvent
          fatal              \* logfatal was called: the process is gone

vars == <<scheduler_ticks, free_event_nodes, scheduler_list, event, fatal>>

Nodes == 1..NUM_EVENT_NODES
ListEntry == [node : Nodes, time : Nat, type : EventType]
EventOf(entry) == [time |-> entry.time, type |-> entry.type]

(***************************************************************************)
(* scheduler_reset pushes every node on the stack in order.  The system    *)
(* calls it before anything else uses the scheduler.                       *)
(***************************************************************************)
AllFree == [n \in Nodes |-> n]

Init ==
  /\ scheduler_ticks = 0
  /\ free_event_nodes = AllFree
  /\ scheduler_list = << >>
  /\ event = NoEvent
  /\ fatal = FALSE

\* mutant: a non-empty list is always walked from its head
InsertsBehindHead(at_ticks, p) ==
  \/ p = 1 /\ scheduler_list = << >>
  \/ /\ p \in 2..(Len(scheduler_list) + 1)
     /\ \A i \in 2..(p - 1) : scheduler_list[i].time < at_ticks
     /\ p <= Len(scheduler_list) => scheduler_list[p].time >= at_ticks

(***************************************************************************)
(* Where the walk of scheduler_enqueue_absolute puts a new event.  In      *)
(* front of the head only if it is earlier than the head; otherwise the    *)
(* walk goes on from the head while the next node is earlier than it.      *)
(***************************************************************************)
InsertsAt(at_ticks, p) ==
  \/ /\ p = 1
     /\ ~(scheduler_list # << >> /\ scheduler_list[1].time <= at_ticks)
  \/ /\ p \in 2..(Len(scheduler_list) + 1)
     /\ scheduler_list[1].time <= at_ticks
     /\ \A i \in 2..(p - 1) : scheduler_list[i].time < at_ticks
     /\ p <= Len(scheduler_list) => scheduler_list[p].time >= at_ticks

EnqueueAbsolute(at_ticks, type) ==
  /\ ~fatal
  /\ free_event_nodes # << >>
  /\ \E p \in 1..(Len(scheduler_list) + 1) :
       /\ InsertsAt(at_ticks, p)
       /\ scheduler_list' =
            InsertAt(scheduler_list, p,
                     [node |-> Last(free_event_nodes), time |-> at_ticks, type |-> type])
  /\ free_event_nodes' = Front(free_event_nodes)
  /\ event' = NoEvent
  /\ UNCHANGED <<scheduler_ticks, fatal>>

EnqueueRelative(in_ticks, type) ==
  /\ scheduler_ticks + in_ticks >= 0
  /\ EnqueueAbsolute(scheduler_ticks + in_ticks, type)

(***************************************************************************)
(* alloc_event_node finds the stack empty: logfatal ends the process.      *)
(***************************************************************************)
PoolExhausted ==
  /\ ~fatal
  /\ free_event_nodes = << >>
  /\ fatal' = TRUE
  /\ event' = NoEvent
  /\ UNCHANGED <<scheduler_ticks, free_event_nodes, scheduler_list>>

(***************************************************************************)
(* scheduler_tick: the clock moves, and the head of the list is delivered  *)
(* if it is due.  Only the head: an event due at the same moment waits for *)
(* the next call.                                                          *)
(***************************************************************************)
HeadIsDue == scheduler_list # << >> /\ scheduler_list[1].time <= scheduler_ticks'

\* mutant: the node of a delivered event is not freed
TickLeaks(ticks) ==
  /\ ~fatal
  /\ scheduler_ticks + ticks <= MaxTicks
  /\ scheduler_ticks' = scheduler_ticks + ticks
  /\ IF HeadIsDue
       THEN event' = EventOf(Head(scheduler_list)) /\ scheduler_list' = Tail(scheduler_list)
       ELSE event' = NoEvent /\ UNCHANGED scheduler_list
  /\ UNCHANGED <<free_event_nodes, fatal>>

Tick(ticks) ==
  /\ ~fatal
  /\ scheduler_ticks + ticks <= MaxTicks
  /\ scheduler_ticks' = scheduler_ticks + ticks
  /\ IF HeadIsDue
       THEN /\ event' = EventOf(Head(scheduler_list))
            /\ free_event_nodes' = Append(free_event_nodes, Head(scheduler_list).node)
            /\ scheduler_list' = Tail(scheduler_list)
       ELSE /\ event' = NoEvent
            /\ UNCHANGED <<free_event_nodes, scheduler_list>>
  /\ UNCHANGED fatal

\* mutant: the walk does not stop at the first match
LastOfType(n, type) ==
  /\ scheduler_list[n].type = type
  /\ \A i \in (n + 1)..Len(scheduler_list) : scheduler_list[i].type # type

(***************************************************************************)
(* scheduler_remove_event unlinks the first node of the given type.        *)
(***************************************************************************)
FirstOfType(n, type) ==
  /\ scheduler_list[n].type = type
  /\ \A i \in 1..(n - 1) : scheduler_list[i].type # type

RemoveEvent(type) ==
  /\ ~fatal
  /\ \E n \in 1..Len(scheduler_list) :
       /\ FirstOfType(n, type)
       /\ scheduler_list' = RemoveAt(scheduler_list, n)
       /\ free_event_nodes' = Append(free_event_nodes, scheduler_list[n].node)
  /\ event' = NoEvent
  /\ UNCHANGED <<scheduler_ticks, fatal>>

RemoveNothing(type) ==
  /\ ~fatal
  /\ \A n \in 1..Len(scheduler_list) : scheduler_list[n].type # type
  /\ event' = NoEvent
  /\ UNCHANGED <<scheduler_ticks, free_event_nodes, scheduler_list, fatal>>

Reset ==
  /\ ~fatal
  /\ scheduler_ticks' = 0
  /\ free_event_nodes' = AllFree
  /\ scheduler_list' = << >>
  /\ event' = NoEvent
  /\ UNCHANGED fatal

Next ==
  \/ \E ticks \in Ticks : Tick(ticks)
  \/ \E delay \in Delays, type \in EventType : EnqueueRelative(delay, type)
  \/ \E type \in EventType : RemoveEvent(type) \/ RemoveNothing(type)
  \/ PoolExhausted
  \/ Reset

Spec == Init /\ [][Next]_vars

\* mutant: one tick too many
TicksPastNextEvent ==
  IF scheduler_list = << >> \/ scheduler_list[1].time < scheduler_ticks
    THEN 1
    ELSE scheduler_list[1].time - scheduler_ticks + 1

(***************************************************************************)
(* scheduler_ticks_until_next_event, and idle_loop_replacement: the ticks  *)
(* an idle loop skips in one go.                                           *)
(***************************************************************************)
TicksUntilNextEvent ==
  IF scheduler_list = << >> \/ scheduler_list[1].time < scheduler_ticks
    THEN 1
    ELSE scheduler_list[1].time - scheduler_ticks

IdleSkip == IF TicksUntilNextEvent = 0 THEN 1 ELSE TicksUntilNextEvent

--------------------------------------------------------------------------------
(***************************************************************************)
(* Every variable has its type.                                            *)
(***************************************************************************)
TypeOK ==
  /\ scheduler_ticks \in Nat
  /\ free_event_nodes \in Seq(Nodes)
  /\ scheduler_list \in Seq(ListEntry)
  /\ event \in [time : Nat, type : EventType] \cup {NoEvent}
  /\ fatal \in BOOLEAN

(***************************************************************************)
(* The list is sorted by time: scheduler_tick and                          *)
(* scheduler_ticks_until_next_event look at its head only.                 *)
(***************************************************************************)
Sorted ==
  \A i, j \in 1..Len(scheduler_list) :
    i < j => scheduler_list[i].time <= scheduler_list[j].time

(***************************************************************************)
(* No node is lost, handed out twice or freed twice: each is exactly once  *)
(* on the free stack or in the list, however calls are interleaved.        *)
(***************************************************************************)
NodesConserved ==
  /\ \A i, j \in 1..Len(free_event_nodes) :
       free_event_nodes[i] = free_event_nodes[j] => i = j
  /\ \A i, j \in 1..Len(scheduler_list) :
       scheduler_list[i].node = scheduler_list[j].node => i = j
  /\ \A n \in Nodes :
       (\E i \in 1..Len(free_event_nodes) : free_event_nodes[i] = n)
         <=> ~(\E i \in 1..Len(scheduler_list) : scheduler_list[i].node = n)

(***************************************************************************)
(* The scheduler implements the abstract event queue: an event is          *)
(* delivered once, when due, earliest first, and is never lost.            *)
(***************************************************************************)
InUse == {scheduler_list[i].node : i \in 1..Len(scheduler_list)}
IndexOf(n) == CHOOSE i \in 1..Len(scheduler_list) : scheduler_list[i].node = n
PendingEvents == [n \in InUse |-> EventOf(scheduler_list[IndexOf(n)])]

Queue == INSTANCE EventQueue WITH
           Slot <- Nodes, now <- scheduler_ticks,
           pending <- PendingEvents, delivered <- event

ImplementsEventQueue == Queue!Spec

(***************************************************************************)
(* An idle loop that skips IdleSkip ticks jumps over no event, and the     *)
(* call of scheduler_tick that follows delivers one if there is any.       *)
(***************************************************************************)
IdleSkipIsExact ==
  /\ \A i \in 1..Len(scheduler_list) :
       scheduler_list[i].time > scheduler_ticks
         => scheduler_list[i].time >= scheduler_ticks + IdleSkip
  /\ scheduler_list # << >> => scheduler_list[1].time <= scheduler_ticks + IdleSkip
===============================================================================
