--------------------------- MODULE MCRspOverlays ---------------------------
EXTENDS RspOverlays

\* Two programs that have a word in common, and one that ends in a branch in the
\* slot of another.
MCImages == {[w \in Words |-> IF w % 2 = 0 THEN "mtc0" ELSE "break"],
             [w \in Words |-> IF w % 2 = 0 THEN "nop" ELSE "break"],
             [w \in Words |-> "branch"]}
=============================================================================
