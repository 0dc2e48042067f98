----------------------------- MODULE MCNavigation -----------------------------
(* Grids for the planner of the navigation example.                          *)
EXTENDS GridPlanner

G(w, h, occ, r, s, g) ==
  [width |-> w, height |-> h, radius |-> r, start |-> s, goal |-> g,
   data |-> [c \in 0 .. w * h - 1 |->
               IF c \in occ THEN IF c % 2 = 0 THEN 100 ELSE -1
               ELSE IF c = 7 THEN 30 ELSE 0]]

(* Grids of two by three and of three by three cells, from a corner.           *)
SmallGrids  == {G(2, 3, occ, 0, 0, g) : occ \in SUBSET (1 .. 5), g \in 0 .. 5}
SquareGrids == {G(3, 3, occ, 0, 0, g) : occ \in {o \in SUBSET (0 .. 8) : Cardinality(o) <= 5},
                                        g \in {2, 4, 7, 8}}

(* Grids on which A* improves a cell it has opened already, grids that        *)
(* inflation changes, and one that exceeds the workspace.                     *)
DetourGrids == {G(4, 3, {1, 4}, 0, 11, 0), G(5, 3, {3}, 0, 5, 4)}
OtherGrids  == {G(3, 4, {4}, 0, 2, 9), G(4, 4, {6}, 0, 3, 12), G(4, 4, {0}, 1, 2, 15),
                G(4, 4, {5}, 0, 3, 12), G(4, 4, {0}, 1, 5, 15), G(5, 4, {}, 0, 0, 19),
                G(4, 4, {}, 1, 0, 15), G(4, 4, {12}, 1, 0, 6), G(2, 2, {}, 0, 0, 4), G(0, 2, {}, 0, 0, 0)}

MCWorkloads ==
  {<<g>> : g \in SquareGrids \cup OtherGrids}
  \cup {<<f, g>> : f \in DetourGrids, g \in SmallGrids}
==============================================================================
