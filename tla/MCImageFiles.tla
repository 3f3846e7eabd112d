---------------------------- MODULE MCImageFiles ----------------------------
(* Two images with one hash, so that a collision happens; a third job may   *)
(* look at what the first two have left.                                    *)
EXTENDS ImageFiles, TLC
CONSTANTS t1, t2, t3, c1, c2, h
MCHashOf == [c \in Contents |-> h]
Symmetry == Permutations(Threads) \union Permutations(Contents)
=============================================================================
