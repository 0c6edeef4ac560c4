---------------------------- MODULE MCBlockCache ----------------------------
EXTENDS BlockCache, TLC

CONSTANTS kseg0, kseg1

MCVirtualPages == {kseg0, kseg1}

\* Nothing in the code distinguishes virtual pages but whether they are equal.
VirtualPagesSymmetry == Permutations(MCVirtualPages)

\* A loop in its page, and a block that ends in the middle of its own.
MCPrograms == {(0 :> "b_self" @@ 1 :> "nop" @@ 2 :> "eret" @@ 3 :> "nop")}
=============================================================================
