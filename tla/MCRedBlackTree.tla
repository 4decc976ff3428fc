--------------------------- MODULE MCRedBlackTree ---------------------------
(* Instances of RedBlackTree for TLC. *)
EXTENDS RedBlackTree

\* The array of the code.
Hundreds == {[n \in 0..element-1 |-> 100 * n]}

\* Every array over a few values, in any order and with duplicates.
AnyOrder == [0..element-1 -> 1..5]

=============================================================================
