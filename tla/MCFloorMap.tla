------------------------------ MODULE MCFloorMap ------------------------------
(* A thread of six floors on three pages, four of them the author's. *)
EXTENDS FloorMap
MCMine == {0, 2, 3, 5}
=============================================================================
