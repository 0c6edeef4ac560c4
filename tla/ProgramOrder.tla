----------------------------- MODULE ProgramOrder -----------------------------
(***************************************************************************)
(* What a program relies on: its instructions take effect one at a time,   *)
(* each once, in the order its branches give, whatever exceptions happen   *)
(* in between.                                                             *)
(*                                                                         *)
(* The program matters by its control flow.  Its data is one bit, which    *)
(* each instruction but a branch turns over and which branches test: an    *)
(* instruction that takes effect twice, or not at all, is noticed.  A      *)
(* branch only says where to go after its delay slot, so it takes no step  *)
(* of its own here and may be executed again without harm.                 *)
(***************************************************************************)
EXTENDS Integers

VARIABLES text,      \* word -> instruction
          position,  \* the instruction to take effect next, and where to go then
          work       \* the program's data

Jumps    == {"jump", "branch", "likely"}
IsBranch(w) == text[w].op \in Jumps

(***************************************************************************)
(* Where the control stands when execution comes to a word: the first      *)
(* instruction that is not a branch.  A likely branch that is not taken    *)
(* skips its slot.                                                         *)
(***************************************************************************)
Taken(w, data) == text[w].op # "jump" => data = text[w].when

Settle(word, data) ==
  LET from[w \in DOMAIN text] ==
        IF ~IsBranch(w) THEN <<w, w + 1>>
        ELSE IF Taken(w, data) THEN <<w + 1, text[w].to>>
        ELSE IF text[w].op = "branch" THEN <<w + 1, w + 2>>
        ELSE from[w + 2]
  IN  from[word]

Init ==
  /\ position = Settle(0, 0)
  /\ work = 0

Execute ==
  /\ work' = 1 - work
  /\ position' = Settle(position[2], work')
  /\ UNCHANGED text

Spec == Init /\ [][Execute]_<<text, position, work>>

===============================================================================
