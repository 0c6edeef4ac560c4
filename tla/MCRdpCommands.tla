--------------------------- MODULE MCRdpCommands ---------------------------
(***************************************************************************)
(* The CPU and the RSP, commands of one, two and three dwords, a memory    *)
(* for lists of three dwords and five dwords in all.                       *)
(***************************************************************************)
EXTENDS RdpCommands, TLC

\* Both masters write the same registers by the same functions.
MastersSymmetry == Permutations(Masters)

MCCommands == {FullSync, "texture rectangle", "triangle"}
MCLength   == [c \in MCCommands |-> CASE c = FullSync            -> 1
                                      [] c = "texture rectangle" -> 2
                                      [] c = "triangle"          -> 3]
=============================================================================
