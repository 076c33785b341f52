----------------------------- MODULE SudokuGrid -----------------------------
(***************************************************************************)
(* The grids of game_service, and what its solver and its hints make of    *)
(* them.  A cell is its number, row * N + column, as in mixed_sequence;    *)
(* an empty cell holds 0.                                                  *)
(***************************************************************************)
EXTENDS Integers, FiniteSetsExt

CONSTANT B  \* the side of a box: 3 in the code

ASSUME BoxAssumption == B \in Nat \ {0}

N == B * B
Index == 0 .. N - 1
Number == 1 .. N
Cell == 0 .. N * N - 1
Grid == [Cell -> 0 .. N]

RowOf(c) == c \div N
ColOf(c) == c % N
BoxOf(c) == (RowOf(c) \div B) * B + ColOf(c) \div B

\* Boxes, rows and columns, in the order in which find_hidden_single goes through them.
Houses == 1 .. 3 * N
House == [h \in Houses |->
  {c \in Cell : IF h <= N THEN BoxOf(c) = h - 1
                ELSE IF h <= 2 * N THEN RowOf(c) = h - N - 1
                ELSE ColOf(c) = h - 2 * N - 1}]

\* The cells that basic_check looks at for a cell.
\* Mutant: the box is not looked at.
MutSeen == [c \in Cell |-> UNION {House[h] : h \in {i \in Houses : i > N /\ c \in House[i]}}]
Seen == [c \in Cell |-> UNION {House[h] : h \in {i \in Houses : c \in House[i]}}]

BlankGrid == [c \in Cell |-> 0]
Holes(grid) == {c \in Cell : grid[c] = 0}
Put(grid, c, num) == [grid EXCEPT ![c] = num]

basic_check(grid, c, num) == \A d \in Seen[c] : grid[d] # num

\* The numbers that basic_check lets into a cell.
Candidates(grid, c) == Number \ {grid[d] : d \in Seen[c]}

Least(S) == CHOOSE x \in S : \A y \in S : x <= y

(***************************************************************************)
(* human_logic.cpp: the grid after one move, the same grid if there is     *)
(* none.                                                                   *)
(***************************************************************************)

\* The holes with one candidate; the first in row-major order is filled.
Naked(grid) == {c \in Holes(grid) : Cardinality(Candidates(grid, c)) = 1}

find_naked_single(grid) ==
  LET naked == Naked(grid)
      c     == Least(naked)
  IN  IF naked = {} THEN grid ELSE Put(grid, c, CHOOSE n \in Candidates(grid, c) : TRUE)

\* The places that a house has left for a number.
Places(grid, h, num) == {c \in House[h] : grid[c] = 0 /\ num \in Candidates(grid, c)}

\* Numbers with one place in a house; the first house, and in it the first
\* number, is taken.
\* Mutant: two places will do.
MutHidden(grid) ==
  LET open == [c \in Cell |-> IF grid[c] = 0 THEN Candidates(grid, c) ELSE {}]
  IN  {k \in Houses \X Number : Cardinality({c \in House[k[1]] : k[2] \in open[c]}) \in {1, 2}}
Hidden(grid) ==
  LET open == [c \in Cell |-> IF grid[c] = 0 THEN Candidates(grid, c) ELSE {}]
  IN  {k \in Houses \X Number : Cardinality({c \in House[k[1]] : k[2] \in open[c]}) = 1}

find_hidden_single(grid) ==
  LET hidden == Hidden(grid)
      h      == Least({k[1] : k \in hidden})
      num    == Least({k[2] : k \in {j \in hidden : j[1] = h}})
  IN  IF hidden = {} THEN grid
      ELSE Put(grid, CHOOSE c \in Places(grid, h, num) : TRUE, num)

\* Naked singles first, hidden ones when there are none; what is left of the
\* grid and how many hidden singles it took (hidden_total).
solve_with_logic[grid \in Grid] ==
  LET naked  == find_naked_single(grid)
      hidden == find_hidden_single(grid)
      rest   == solve_with_logic[hidden]
  IN  IF naked # grid THEN solve_with_logic[naked]
      ELSE IF hidden # grid THEN [rest EXCEPT !.hidden_total = @ + 1]
      ELSE [grid |-> grid, hidden_total |-> 0]

\* generate_hint_wrapper: the cell that a single changes and its number, if any.
\* Mutant: hidden singles are not looked for.
MutHint(grid) ==
  LET naked == find_naked_single(grid)
  IN  {<<c, naked[c]>> : c \in {d \in Cell : naked[d] # grid[d]}}
Hint(grid) ==
  LET naked == find_naked_single(grid)
      after == IF naked # grid THEN naked ELSE find_hidden_single(grid)
  IN  {<<c, after[c]>> : c \in {d \in Cell : after[d] # grid[d]}}

(***************************************************************************)
(* game_grid.cpp: the number of solutions, counted up to two.              *)
(***************************************************************************)

\* The first hole with the fewest candidates.  The search ends at a hole with
\* one candidate, also if one that comes later has none.
find_best_empty_location(grid) ==
  LET size == [c \in Holes(grid) |->
                 IF Candidates(grid, c) = {} THEN 1 ELSE Cardinality(Candidates(grid, c))]
  IN  CHOOSE c \in Holes(grid) :
        \A d \in Holes(grid) : size[c] < size[d] \/ (size[c] = size[d] /\ c <= d)

\* solution_count after the call, from solution_count before it.
check_uniqueness[grid \in Grid] == [found \in 0 .. 2 |->
  IF found > 1 THEN found
  ELSE IF Holes(grid) = {} THEN found + 1
  ELSE LET c == find_best_empty_location(grid)
       IN  FoldSet(LAMBDA num, count : check_uniqueness[Put(grid, c, num)][count],
                   found, Candidates(grid, c))]

(***************************************************************************)
(* What a solution is.                                                     *)
(***************************************************************************)

\* There is no hole, and every house has every number.
Complete(grid) == Holes(grid) = {} /\ \A h \in Houses, num \in Number : \E c \in House[h] : grid[c] = num

\* No cell sees its own number.
NoConflict(grid) ==
  \A c \in Cell : \A d \in Seen[c] : d # c /\ grid[c] # 0 => grid[d] # grid[c]

\* The solution has every number of the grid.
Within(grid, solution) == \A c \in Cell : grid[c] # 0 => grid[c] = solution[c]
==============================================================================
