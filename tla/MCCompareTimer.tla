---------------------------- MODULE MCCompareTimer ----------------------------
(***************************************************************************)
(* The timer with registers of four bits for TLC: every value of count    *)
(* and Compare, every wrap-around.                                         *)
(***************************************************************************)
EXTENDS CompareTimer

AllValues == 0..(Size - 1)
===============================================================================
