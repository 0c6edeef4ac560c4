----------------------------- MODULE MCInterrupts -----------------------------
(***************************************************************************)
(* Interrupts for TLC: two MI lines and one software interrupt.            *)
(***************************************************************************)
EXTENDS Interrupts
===============================================================================
