----------------------------- MODULE BoundedQueue -----------------------------
(***************************************************************************)
(* What the ring buffer of src/common/fifo.h promises to the emulator and  *)
(* to the audio device: a queue of at most Capacity items, to which one    *)
(* side appends chunks and from which the other takes prefixes.            *)
(***************************************************************************)
EXTENDS Sequences, Integers

CONSTANTS
  Items,     \* what the queue holds
  Capacity   \* how many of them

VARIABLES
  queue,   \* appended and not yet taken
  put,     \* what the last append was given
  taken    \* what the last take returned

vars == <<queue, put, taken>>

Init == queue = <<>> /\ put = <<>> /\ taken = <<>>

Put ==
  /\ \E n \in 0..Capacity - Len(queue) : \E chunk \in [1..n -> Items] :
       put' = chunk /\ queue' = queue \o chunk
  /\ UNCHANGED taken

Take ==
  \E n \in 0..Len(queue) :
    /\ taken' = SubSeq(queue, 1, n)
    /\ queue' = SubSeq(queue, n + 1, Len(queue))
    /\ UNCHANGED put

Next == Put \/ Take

Spec == Init /\ [][Next]_vars
===============================================================================
