--------------------------- MODULE MCVideoInterface ---------------------------
(***************************************************************************)
(* The video interface for TLC: three short halflines after a reset, two   *)
(* long ones when the program has set V_SYNC, and a V_SYNC that traps.     *)
(***************************************************************************)
EXTENDS VideoInterface

MCTicks == 1..2
MCSyncs == {1, 4}
MCInterrupts == {2}
===============================================================================
