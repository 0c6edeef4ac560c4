----------------------------- MODULE MCExceptions -----------------------------
(***************************************************************************)
(* Exceptions for TLC: programs of six words in two pages that end with a  *)
(* jump to the start.  Word 0 may branch, with its slot in the same page,  *)
(* and so may word 2, the last of its page, with its slot in the next one; *)
(* a likely branch goes to the start, another into that slot.              *)
(***************************************************************************)
EXTENDS Exceptions, TLC

Work == [op |-> "work"]
Fpu  == [op |-> "fpu"]
Load == [op |-> "load", page |-> 1]
Back == [op |-> "jump", to |-> 0]

Conditional == {[op |-> "branch", to |-> 3, when |-> 1], [op |-> "likely", to |-> 0, when |-> 1]}

ProgramOf(a, b, c, d) == (0 :> a) @@ (1 :> b) @@ (2 :> c) @@ (3 :> d) @@ (4 :> Back) @@ (5 :> Work)

AllPrograms ==
  {ProgramOf(a, b, c, d) : a \in {Work} \cup Conditional, b \in {Work, Fpu, Load},
                           c \in {Work} \cup Conditional, d \in {Work, Fpu}}
===============================================================================
