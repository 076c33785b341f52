-------------------------- MODULE MCSudokuGenerator --------------------------
(***************************************************************************)
(* The real size and the real bounds.  The shuffles have one outcome each  *)
(* when the grid is filled, for which fill_other_boxes has to go back, and *)
(* three when its cells are gone through: one after another with a step of *)
(* 5, 50 or 67 cells, between which every hardness is found.               *)
(***************************************************************************)
EXTENDS SudokuGenerator

OneDeal == {<< <<4, 2, 8, 9, 1, 6, 3, 5, 7>>,
               <<8, 2, 9, 1, 3, 6, 5, 7, 4>>,
               <<8, 7, 2, 6, 9, 1, 5, 4, 3>> >>}

OneShuffle == {<<5, 3, 9, 4, 7, 6, 1, 8, 2>>}

\* Every cell once, a apart.
Walk(a) == [i \in 1 .. 81 |-> (a * (i - 1) + 5) % 81]

Walks == {Walk(5), Walk(50), Walk(67)}
==============================================================================
