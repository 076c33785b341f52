----------------------- MODULE SudokuGenerator_proofs -----------------------
(***************************************************************************)
(* Proofs about the grids of game_service, for boxes of any side and for   *)
(* all deals, shuffles, orders and bounds: that the recursive solver and   *)
(* counter are well defined and compute what the reference definitions     *)
(* say; that the backtracking fills the grid; and that a grid which is     *)
(* delivered has one solution, the hardness asked for, and hints that are  *)
(* there and right.  The last two parts and the filling need that every    *)
(* deal of the diagonal can be completed (DealsFill) and that a shuffle    *)
(* keeps all numbers (ShufflesAreFull).                                    *)
(***************************************************************************)
EXTENDS SudokuGenerator, FiniteSetTheorems, SequenceTheorems, WellFoundedInduction, TLAPS

LEMMA NType == N \in Nat /\ N * N \in Nat /\ Cell \subseteq Nat /\ Number \subseteq Nat /\ Houses \subseteq Nat
<1>1. B * B \in Nat
  BY BoxAssumption
<1>2. N \in Nat
  BY <1>1 DEF N
<1>3. N * N \in Nat /\ 3 * N \in Nat
  BY <1>2
<1>4. QED
  BY <1>2, <1>3 DEF Cell, Number, Houses

\* Least gives an element of a set of natural numbers.
LEMMA LeastIsIn == ASSUME NEW S \in SUBSET Nat, S # {} PROVE Least(S) \in S
<1>1. \E x \in S : \A y \in S : x <= y
  <2> DEFINE R == OpToRel(<, Nat)
  <2>1. IsWellFoundedOn(R, Nat)
    BY NatLessThanWellFounded
  <2>2. \A x, y \in Nat : <<x, y>> \in R <=> x < y
    BY DEF OpToRel
  <2> HIDE DEF R
  <2>3. PICK x \in S : \A y \in S : ~(<<y, x>> \in R)
    BY <2>1, WFMin
  <2>4. \A y \in S : x <= y
    <3> SUFFICES ASSUME NEW y \in S PROVE x <= y
      OBVIOUS
    <3>1. x \in Nat /\ y \in Nat /\ ~(<<y, x>> \in R)
      BY <2>3
    <3>2. ~(y < x)
      BY <2>2, <3>1
    <3>3. QED
      BY <3>1, <3>2
  <2>5. QED
    BY <2>4
<1>2. QED
  BY <1>1 DEF Least

\* Cells see each other; the cells of a house see each other.
LEMMA SeenIsMutual ==
  /\ \A c \in Cell : Seen[c] \subseteq Cell
  /\ \A c \in Cell : \A d \in Seen[c] : c \in Seen[d]
  /\ \A h \in Houses : House[h] \subseteq Cell /\ \A c, d \in House[h] : d \in Seen[c]
<1>1. \A h \in Houses : House[h] \subseteq Cell
  BY DEF House
<1>2. \A c \in Cell : \A d : d \in Seen[c] <=> \E h \in Houses : c \in House[h] /\ d \in House[h]
  BY DEF Seen
<1>3. QED
  BY <1>1, <1>2

(***************************************************************************)
(* Numbers put down and taken away                                         *)
(***************************************************************************)

LEMMA PutType == ASSUME NEW g \in Grid, NEW c, NEW n \in 0 .. N PROVE Put(g, c, n) \in Grid
BY DEF Put, Grid

LEMMA ZeroIsNumber == 0 \in 0 .. N
BY NType

LEMMA NumberOfGrid == ASSUME NEW n \in Number PROVE n \in 0 .. N
BY NType DEF Number

\* A number that basic_check lets in makes no conflict.
LEMMA PutKeepsPeace ==
  ASSUME NEW g \in Grid, NEW c \in Cell, NEW n \in Number, NoConflict(g), basic_check(g, c, n)
  PROVE  NoConflict(Put(g, c, n))
<1> DEFINE p == Put(g, c, n)
<1>1. p[c] = n /\ \A d \in Cell : d # c => p[d] = g[d]
  BY DEF Put, Grid
<1>2. ASSUME NEW a \in Cell, NEW d \in Seen[a], d # a, p[a] # 0 PROVE p[d] # p[a]
  <2>1. d \in Cell /\ a \in Seen[d]
    BY SeenIsMutual
  <2>2. CASE a = c
    BY <1>1, <1>2, <2>1, <2>2 DEF basic_check
  <2>3. CASE d = c
    BY <1>1, <1>2, <2>1, <2>3 DEF basic_check
  <2>4. CASE a # c /\ d # c
    BY <1>1, <1>2, <2>1, <2>4 DEF NoConflict
  <2>5. QED
    BY <2>2, <2>3, <2>4
<1>3. QED
  BY <1>2 DEF NoConflict

\* Neither does a hole.
LEMMA HoleKeepsPeace ==
  ASSUME NEW g \in Grid, NEW c, NoConflict(g)
  PROVE  NoConflict(Put(g, c, 0))
<1> DEFINE p == Put(g, c, 0)
<1>1. \A d \in Cell : p[d] = 0 \/ p[d] = g[d]
  BY DEF Put, Grid
<1>2. ASSUME NEW a \in Cell, NEW d \in Seen[a], d # a, p[a] # 0 PROVE p[d] # p[a]
  <2>1. d \in Cell
    BY SeenIsMutual
  <2>2. QED
    BY <1>1, <1>2, <2>1 DEF NoConflict
<1>3. QED
  BY <1>2 DEF NoConflict

LEMMA HoleStaysWithin ==
  ASSUME NEW g \in Grid, NEW s \in Grid, NEW c, Within(g, s) PROVE Within(Put(g, c, 0), s)
BY DEF Within, Put, Grid

LEMMA RightMoveStaysWithin ==
  ASSUME NEW g \in Grid, NEW s \in Grid, NEW c \in Cell, Within(g, s) PROVE Within(Put(g, c, s[c]), s)
BY DEF Within, Put, Grid

\* A grid within one without conflict has none.
LEMMA WithinKeepsPeace ==
  ASSUME NEW g \in Grid, NEW s \in Grid, Within(g, s), NoConflict(s) PROVE NoConflict(g)
<1>1. ASSUME NEW a \in Cell, NEW d \in Seen[a], d # a, g[a] # 0 PROVE g[d] # g[a]
  <2>1. d \in Cell
    BY SeenIsMutual
  <2>2. QED
    BY <1>1, <2>1 DEF Within, NoConflict
<1>2. QED
  BY <1>1 DEF NoConflict

LEMMA BlankGridFacts == BlankGrid \in Grid /\ NoConflict(BlankGrid) /\ Within(BlankGrid, BlankGrid)
<1>1. BlankGrid \in Grid /\ \A c \in Cell : BlankGrid[c] = 0
  BY ZeroIsNumber DEF BlankGrid, Grid
<1>2. QED
  BY <1>1 DEF NoConflict, Within

(***************************************************************************)
(* Singles and the solution                                                *)
(***************************************************************************)

\* The number of the solution is a candidate of every hole.
LEMMA SolutionIsCandidate ==
  ASSUME NEW g \in Grid, NEW s \in Grid, Complete(s), NoConflict(s), Within(g, s),
         NEW c \in Cell, g[c] = 0
  PROVE  s[c] \in Candidates(g, c)
<1>1. s[c] \in Number
  <2>1. s[c] # 0
    BY DEF Complete, Holes
  <2>2. s[c] \in 0 .. N
    BY DEF Grid
  <2>3. QED
    BY <2>1, <2>2, NType DEF Number
<1>2. ASSUME NEW d \in Seen[c], g[d] = s[c] PROVE FALSE
  <2>1. d \in Cell /\ s[c] # 0
    BY <1>1, SeenIsMutual, NType DEF Number
  <2>2. d # c /\ g[d] # 0
    BY <1>2, <2>1
  <2>3. s[d] = g[d]
    BY <2>1, <2>2 DEF Within
  <2>4. QED
    BY <1>2, <2>1, <2>2, <2>3 DEF NoConflict
<1>3. QED
  BY <1>1, <1>2 DEF Candidates

LEMMA OneElement ==
  ASSUME NEW S, IsFiniteSet(S), Cardinality(S) = 1, NEW x \in S PROVE S = {x}
<1>1. PICK y : S = {y}
  BY FS_Singleton
<1>2. QED
  BY <1>1

\* find_naked_single changes nothing, or puts down a number of the solution.
LEMMA NakedIsRight ==
  ASSUME NEW g \in Grid, NEW s \in Grid, Complete(s), NoConflict(s), Within(g, s)
  PROVE  find_naked_single(g) = g \/ \E c \in Holes(g) : find_naked_single(g) = Put(g, c, s[c])
<1>1. CASE Naked(g) = {}
  BY <1>1 DEF find_naked_single
<1>2. CASE Naked(g) # {}
  <2> DEFINE c == Least(Naked(g))
  <2>1. c \in Naked(g)
    BY <1>2, LeastIsIn, NType DEF Naked, Holes
  <2>2. c \in Cell /\ g[c] = 0 /\ c \in Holes(g) /\ Cardinality(Candidates(g, c)) = 1
    BY <2>1 DEF Naked, Holes
  <2>3. s[c] \in Candidates(g, c)
    BY <2>2, SolutionIsCandidate
  <2>4. IsFiniteSet(Candidates(g, c))
    <3>1. IsFiniteSet(Number)
      BY NType, FS_Interval DEF Number
    <3>2. QED
      BY <3>1, FS_Subset DEF Candidates
  <2>5. Candidates(g, c) = {s[c]}
    BY <2>2, <2>3, <2>4, OneElement
  <2>6. find_naked_single(g) = Put(g, c, s[c])
    BY <1>2, <2>5 DEF find_naked_single
  <2>7. QED
    BY <2>2, <2>6
<1>3. QED
  BY <1>1, <1>2

\* If a number has places left in a house, the cell where the solution has it is one.
LEMMA SolutionHasPlace ==
  ASSUME NEW g \in Grid, NEW s \in Grid, Complete(s), NoConflict(s), Within(g, s),
         NEW h \in Houses, NEW n \in Number, Places(g, h, n) # {}
  PROVE  \E e \in Places(g, h, n) : s[e] = n
<1>1. PICK e \in House[h] : s[e] = n
  BY DEF Complete
<1>2. e \in Cell
  BY SeenIsMutual
<1>3. g[e] = 0
  <2>1. SUFFICES ASSUME g[e] # 0 PROVE FALSE
    OBVIOUS
  <2>2. g[e] = n
    BY <1>1, <1>2, <2>1 DEF Within
  <2>3. PICK p \in Places(g, h, n) : TRUE
    OBVIOUS
  <2>4. p \in House[h] /\ n \in Candidates(g, p)
    BY <2>3 DEF Places
  <2>5. e \in Seen[p]
    BY <2>4, SeenIsMutual
  <2>6. QED
    BY <2>2, <2>4, <2>5 DEF Candidates
<1>4. n \in Candidates(g, e)
  BY <1>1, <1>2, <1>3, SolutionIsCandidate
<1>5. QED
  BY <1>1, <1>3, <1>4 DEF Places

\* find_hidden_single too.
LEMMA HiddenIsRight ==
  ASSUME NEW g \in Grid, NEW s \in Grid, Complete(s), NoConflict(s), Within(g, s)
  PROVE  find_hidden_single(g) = g \/ \E c \in Holes(g) : find_hidden_single(g) = Put(g, c, s[c])
<1> DEFINE H == Hidden(g)
           h == Least({k[1] : k \in H})
           num == Least({k[2] : k \in {j \in H : j[1] = h}})
<1>0. \A k \in H : k \in Houses \X Number /\ Cardinality(Places(g, k[1], k[2])) = 1
  <2> SUFFICES ASSUME NEW k \in H
               PROVE k \in Houses \X Number /\ Cardinality(Places(g, k[1], k[2])) = 1
    OBVIOUS
  <2> DEFINE open == [c \in Cell |-> IF g[c] = 0 THEN Candidates(g, c) ELSE {}]
  <2>1. k \in Houses \X Number /\ Cardinality({c \in House[k[1]] : k[2] \in open[c]}) = 1
    BY DEF Hidden
  <2>2. House[k[1]] \subseteq Cell
    BY <2>1, SeenIsMutual
  <2>3. {c \in House[k[1]] : k[2] \in open[c]} = Places(g, k[1], k[2])
    BY <2>2 DEF Places
  <2>4. QED
    BY <2>1, <2>3
<1>1. CASE H = {}
  BY <1>1 DEF find_hidden_single
<1>2. CASE H # {}
  <2>1. h \in {k[1] : k \in H}
    <3>1. {k[1] : k \in H} \in SUBSET Nat /\ {k[1] : k \in H} # {}
      BY <1>0, <1>2, NType
    <3>2. QED
      BY <3>1, LeastIsIn
  <2>2. num \in {k[2] : k \in {j \in H : j[1] = h}}
    <3> HIDE DEF h
    <3>1. {k[2] : k \in {j \in H : j[1] = h}} \in SUBSET Nat /\ {k[2] : k \in {j \in H : j[1] = h}} # {}
      BY <1>0, <2>1, NType
    <3>2. QED
      BY <3>1, LeastIsIn
  <2> HIDE DEF h, num
  <2>3. h \in Houses /\ num \in Number /\ Cardinality(Places(g, h, num)) = 1
    BY <1>0, <2>1, <2>2
  <2>4. IsFiniteSet(Places(g, h, num)) /\ Places(g, h, num) # {}
    <3>1. IsFiniteSet(Cell)
      BY NType, FS_Interval DEF Cell
    <3>2. Places(g, h, num) \subseteq Cell
      BY <2>3, SeenIsMutual DEF Places
    <3>3. QED
      BY <2>3, <3>1, <3>2, FS_Subset, FS_EmptySet
  <2>5. PICK e \in Places(g, h, num) : s[e] = num
    BY <2>3, <2>4, SolutionHasPlace
  <2>6. Places(g, h, num) = {e}
    BY <2>3, <2>4, <2>5, OneElement
  <2>7. e \in Holes(g)
    <3>1. e \in House[h] /\ g[e] = 0
      BY <2>5 DEF Places
    <3>2. QED
      BY <2>3, <3>1, SeenIsMutual DEF Holes
  <2>8. find_hidden_single(g) = Put(g, CHOOSE c \in Places(g, h, num) : TRUE, num)
    BY <1>2 DEF find_hidden_single, h, num
  <2>9. (CHOOSE c \in Places(g, h, num) : TRUE) = e
    BY <2>6
  <2>10. QED
    BY <2>5, <2>7, <2>8, <2>9
<1>3. QED
  BY <1>1, <1>2

(***************************************************************************)
(* The generator                                                           *)
(***************************************************************************)

\* The grid is without conflict while it is filled, and within the full grid
\* while it is dug and played.
GridsOK ==
  /\ pc \in {"idle", "loop", "fill", "dig", "ready"}
  /\ grid \in Grid /\ solved \in Grid /\ trail \in Seq(Call)
  /\ NoConflict(grid) /\ NoConflict(solved)
  /\ pc # "fill" => Within(grid, solved)

LEMMA InitGrids == Init => GridsOK
BY BlankGridFacts DEF Init, GridsOK

LEMMA GenerateGrids == ASSUME GridsOK, NEW r \in Requests, Generate(r) PROVE GridsOK'
BY BlankGridFacts DEF GridsOK, Generate

LEMMA DealGrids == ASSUME GridsOK, NEW deal \in Deals, Deal(deal) PROVE GridsOK'
BY GeneratorAssumption DEF GridsOK, Deal

LEMMA InnerType == ASSUME GridsOK, ~Advance PROVE Len(trail) \in Nat \ {0} /\ Inner \in Call
<1>1. trail # <<>> /\ trail \in Seq(Call)
  BY DEF Advance, GridsOK
<1>2. QED
  BY <1>1 DEF Inner

LEMMA EnterGrids == ASSUME GridsOK, NEW nums \in Shuffles, Enter(nums) PROVE GridsOK'
<1>1. Least(Ahead) \in Ahead
  <2>1. Ahead \in SUBSET Nat /\ Ahead # {}
    BY NType DEF Enter, Ahead, Holes
  <2>2. QED
    BY <2>1, LeastIsIn
<1>2. Least(Ahead) \in Cell
  BY <1>1 DEF Ahead, Holes
<1>3. [cell |-> Least(Ahead), left |-> nums] \in Call
  BY <1>2, GeneratorAssumption DEF Call
<1>4. trail' \in Seq(Call)
  <2>1. trail \in Seq(Call) /\ trail' = Append(trail, [cell |-> Least(Ahead), left |-> nums])
    BY DEF GridsOK, Enter
  <2> DEFINE call == [cell |-> Least(Ahead), left |-> nums]
  <2>2. call \in Call
    BY <1>3
  <2> HIDE DEF call
  <2>3. Append(trail, call) \in Seq(Call)
    BY <2>1, <2>2
  <2>4. QED
    BY <2>1, <2>3 DEF call
<1>5. QED
  BY <1>4 DEF GridsOK, Enter

LEMMA PlaceGrids == ASSUME GridsOK, Place PROVE GridsOK'
<1> DEFINE i == Least(Fits)
           c == Inner.cell
           n == Inner.left[i]
<1>1. Len(trail) \in Nat \ {0} /\ Inner \in Call
  BY InnerType DEF Place
<1>2. c \in Cell /\ Inner.left \in Seq(Number)
  BY <1>1 DEF Call
<1>3. i \in Fits
  <2>1. Fits \in SUBSET Nat /\ Fits # {}
    BY <1>2 DEF Place, Fits
  <2>2. QED
    BY <2>1, LeastIsIn
<1>4. n \in Number /\ basic_check(grid, c, n) /\ i \in 1 .. Len(Inner.left)
  <2>1. i \in DOMAIN Inner.left /\ basic_check(grid, Inner.cell, Inner.left[i])
    BY <1>3 DEF Fits
  <2> HIDE DEF i
  <2>2. i \in 1 .. Len(Inner.left)
    BY <1>2, <2>1
  <2>3. n \in Number
    BY <1>2, <2>2
  <2>4. QED
    BY <2>1, <2>2, <2>3
<1>5. grid' = Put(grid, c, n)
  BY DEF Place
<1> HIDE DEF i, n, c
<1>6. grid' \in Grid /\ NoConflict(grid')
  BY <1>2, <1>4, <1>5, PutType, NumberOfGrid, PutKeepsPeace DEF GridsOK
<1>7. trail' \in Seq(Call)
  <2> DEFINE rest == SubSeq(Inner.left, i + 1, Len(Inner.left))
  <2>1. rest \in Seq(Number)
    BY <1>2, <1>4
  <2>2. trail' = [trail EXCEPT ![Len(trail)] = [Inner EXCEPT !.left = rest]]
    BY DEF Place, Inner, i
  <2> HIDE DEF rest
  <2>3. [Inner EXCEPT !.left = rest] \in Call
    BY <1>1, <2>1 DEF Call
  <2>4. QED
    BY <1>1, <2>2, <2>3 DEF GridsOK
<1>8. QED
  BY <1>6, <1>7 DEF GridsOK, Place

LEMMA BacktrackGrids == ASSUME GridsOK, Backtrack PROVE GridsOK'
<1>1. grid' \in Grid /\ NoConflict(grid')
  BY PutType, ZeroIsNumber, HoleKeepsPeace DEF GridsOK, Backtrack
<1>2. trail' \in Seq(Call)
  BY DEF GridsOK, Backtrack
<1>3. QED
  BY <1>1, <1>2 DEF GridsOK, Backtrack

LEMMA FilledGrids == ASSUME GridsOK, NEW o \in Orders, Filled(o) PROVE GridsOK'
<1>1. Within(grid, grid)
  BY DEF Within
<1>2. QED
  BY <1>1 DEF GridsOK, Filled

LEMMA PassGrids == ASSUME GridsOK, Pass PROVE GridsOK'
<1>1. PICK c : grid' = grid \/ grid' = Put(grid, c, 0)
  BY DEF Pass
<1>2. /\ pc # "fill" /\ pc' = "loop" /\ solved' = solved /\ trail' = trail
  BY DEF Pass
<1>3. grid' \in Grid /\ NoConflict(grid') /\ Within(grid', solved)
  BY <1>1, <1>2, PutType, ZeroIsNumber, HoleKeepsPeace, HoleStaysWithin DEF GridsOK
<1>4. QED
  BY <1>2, <1>3 DEF GridsOK

LEMMA PlayGrids == ASSUME GridsOK, Play PROVE GridsOK'
<1>1. PICK c : grid[c] = 0 /\ grid' = Put(grid, c, solved[c]) /\ c \in OwnCells \union {hint[1] : hint \in Hint(grid)}
  BY DEF Play
<1>2. c \in Cell
  BY <1>1, GeneratorAssumption DEF Hint
<1>3. grid' \in Grid /\ Within(grid', solved)
  BY <1>1, <1>2, PutType, RightMoveStaysWithin DEF GridsOK, Grid, Play
<1>4. NoConflict(grid')
  BY <1>3, WithinKeepsPeace DEF GridsOK
<1>5. QED
  BY <1>3, <1>4 DEF GridsOK, Play

\* Whatever the shuffles, the holes dug and the moves: no grid has a conflict,
\* and the grid that is dug and played is within the one it was dug from.
LEMMA GridsAlwaysOK == Spec => []GridsOK
<1>1. GridsOK /\ [Next]_vars => GridsOK'
  <2> SUFFICES ASSUME GridsOK, [Next]_vars PROVE GridsOK'
    OBVIOUS
  <2>1. CASE \E r \in Requests : Generate(r)
    BY <2>1, GenerateGrids
  <2>2. CASE \E deal \in Deals : Deal(deal)
    BY <2>2, DealGrids
  <2>3. CASE \E nums \in Shuffles : Enter(nums)
    BY <2>3, EnterGrids
  <2>4. CASE \E o \in Orders : Filled(o)
    BY <2>4, FilledGrids
  <2>5. CASE Place
    BY <2>5, PlaceGrids
  <2>6. CASE Backtrack
    BY <2>6, BacktrackGrids
  <2>7. CASE Pass
    BY <2>7, PassGrids
  <2>8. CASE Deliver
    BY <2>8 DEF GridsOK, Deliver, Found
  <2>9. CASE Play
    BY <2>9, PlayGrids
  <2>10. CASE UNCHANGED vars
    BY <2>10 DEF GridsOK, vars
  <2>11. QED
    BY <2>1, <2>2, <2>3, <2>4, <2>5, <2>6, <2>7, <2>8, <2>9, <2>10 DEF Next
<1>2. QED
  BY <1>1, InitGrids, PTL DEF Spec

\* The grid that a request answers with as its solution has no conflict, and
\* every number of the board is the solution's: holes are dug into it and
\* filled with its own numbers, by game_generator and by the player.
THEOREM BoardIsWithinSolution == Spec => [](NoConflict(solved) /\ (pc = "ready" => Within(grid, solved)))
<1>1. GridsOK => NoConflict(solved) /\ (pc = "ready" => Within(grid, solved))
  BY DEF GridsOK
<1>2. QED
  BY <1>1, GridsAlwaysOK, PTL

\* A hint is right on every board that is within a complete grid without
\* conflict, however many solutions the board has.
LEMMA HintsOfGridAreRight ==
  ASSUME NEW g \in Grid, NEW s \in Grid, Complete(s), NoConflict(s), Within(g, s),
         NEW hint \in Hint(g)
  PROVE  s[hint[1]] = hint[2]
<1> DEFINE after == IF find_naked_single(g) # g THEN find_naked_single(g) ELSE find_hidden_single(g)
<1>1. PICK d \in Cell : after[d] # g[d] /\ hint = <<d, after[d]>>
  BY DEF Hint
<1>2. after = g \/ \E c \in Holes(g) : after = Put(g, c, s[c])
  BY NakedIsRight, HiddenIsRight
<1> HIDE DEF after
<1>3. PICK c \in Holes(g) : after = Put(g, c, s[c])
  BY <1>1, <1>2
<1>4. d = c /\ after[d] = s[c]
  BY <1>1, <1>3 DEF Put, Grid
<1>5. QED
  BY <1>1, <1>4

\* If the grid was filled, every hint that is given while it is played is a
\* number of its solution (HintIsRight, for every deal, order and bound).
THEOREM HintsAreRight == Spec => [](Complete(solved) => HintIsRight)
<1>1. GridsOK => (Complete(solved) => HintIsRight)
  <2> SUFFICES ASSUME GridsOK, Complete(solved), pc = "ready", NEW hint \in Hint(grid)
               PROVE solved[hint[1]] = hint[2]
    BY DEF HintIsRight
  <2>1. QED
    BY HintsOfGridAreRight DEF GridsOK
<1>2. QED
  BY <1>1, GridsAlwaysOK, PTL

-----------------------------------------------------------------------------
(***************************************************************************)
(* The solver.  solve_with_logic calls itself with a grid that has a hole  *)
(* less, so that there is such a function, and what it returns is proved   *)
(* by induction on the number of holes.                                    *)
(***************************************************************************)
LEMMA NatSetInduction ==
  ASSUME NEW S \in SUBSET Nat, 0 \in S, \A n \in S : n + 1 \in S PROVE S = Nat
<1> SUFFICES ASSUME Nat \ S # {} PROVE FALSE
  OBVIOUS
<1> DEFINE R == OpToRel(<, Nat)
<1>1. \A x, y \in Nat : <<x, y>> \in R <=> x < y
  BY DEF OpToRel
<1>2. IsWellFoundedOn(R, Nat)
  BY NatLessThanWellFounded
<1> HIDE DEF R
<1>3. PICK x \in Nat \ S : \A y \in Nat \ S : ~(<<y, x>> \in R)
  BY <1>2, WFMin
<1>4. x # 0 /\ x - 1 \in Nat /\ x - 1 < x
  BY <1>3
<1>5. x - 1 \in S
  BY <1>1, <1>3, <1>4
<1>6. (x - 1) + 1 \in S
  BY <1>5
<1>7. QED BY <1>3, <1>6

Size(g) == Cardinality(Holes(g))
Upto(n) == {g \in Grid : Size(g) < n}

LEMMA SizeType ==
  ASSUME NEW g \in Grid
  PROVE  Size(g) \in Nat /\ Size(g) <= N * N /\ IsFiniteSet(Holes(g)) /\ (Size(g) = 0 <=> Holes(g) = {})
<1>1. N * N \in Nat /\ N * N - 1 \in Int /\ Cell = 0 .. N * N - 1
  BY NType DEF Cell
<1>2. IsFiniteSet(Cell) /\ Cardinality(Cell) = N * N
  <2>1. \A m \in Nat : IsFiniteSet(0 .. m - 1) /\ Cardinality(0 .. m - 1) = m
    <3> TAKE m \in Nat
    <3>1. 0 \in Int /\ m - 1 \in Int
      OBVIOUS
    <3>2. IsFiniteSet(0 .. m - 1) /\ Cardinality(0 .. m - 1) = IF 0 > m - 1 THEN 0 ELSE (m - 1) - 0 + 1
      BY <3>1, FS_Interval
    <3>3. QED BY <3>2
  <2>2. QED BY <1>1, <2>1
<1>3. Holes(g) \subseteq Cell
  BY DEF Holes
<1>4. QED BY <1>2, <1>3, FS_Subset, FS_CardinalityType, FS_EmptySet DEF Size

\* A number put into a hole.
LEMMA PutShrinks ==
  ASSUME NEW g \in Grid, NEW c \in Holes(g), NEW n \in Number
  PROVE  /\ Put(g, c, n) \in Grid /\ Put(g, c, n) # g
         /\ Holes(Put(g, c, n)) = Holes(g) \ {c} /\ Size(Put(g, c, n)) = Size(g) - 1
<1>1. n \in 0 .. N /\ n # 0 /\ c \in Cell /\ g[c] = 0
  BY NType DEF Number, Holes
<1>2. Put(g, c, n)[c] = n /\ \A d \in Cell \ {c} : Put(g, c, n)[d] = g[d]
  BY <1>1 DEF Put, Grid
<1>3. Holes(Put(g, c, n)) = Holes(g) \ {c}
  BY <1>1, <1>2 DEF Holes
<1>4. Size(Put(g, c, n)) = Size(g) - 1
  BY <1>3, SizeType, FS_RemoveElement DEF Size
<1>5. QED BY <1>1, <1>2, <1>3, <1>4, PutType

LEMMA CandidatesFinite == ASSUME NEW g, NEW c PROVE IsFiniteSet(Candidates(g, c)) /\ Candidates(g, c) \subseteq Number
<1>1. IsFiniteSet(Number)
  BY NType, FS_Interval DEF Number
<1>2. QED BY <1>1, FS_Subset DEF Candidates

\* What a naked single puts down, if there is one.
LEMMA NakedMove ==
  ASSUME NEW g \in Grid
  PROVE  /\ Naked(g) = {} => find_naked_single(g) = g
         /\ Naked(g) # {} =>
              \E c \in Naked(g), n \in Number : Candidates(g, c) = {n} /\ find_naked_single(g) = Put(g, c, n)
<1>1. CASE Naked(g) = {}
  BY <1>1 DEF find_naked_single
<1>2. CASE Naked(g) # {}
  <2> DEFINE c == Least(Naked(g))
  <2>1. c \in Naked(g)
    BY <1>2, LeastIsIn, NType DEF Naked, Holes
  <2>2. Cardinality(Candidates(g, c)) = 1
    BY <2>1 DEF Naked
  <2>3. PICK n : Candidates(g, c) = {n}
    BY <2>2, CandidatesFinite, FS_Singleton
  <2>4. n \in Number
    BY <2>3, CandidatesFinite
  <2>5. (CHOOSE m \in Candidates(g, c) : TRUE) = n
    BY <2>3
  <2>6. find_naked_single(g) = Put(g, c, n)
    BY <1>2, <2>5 DEF find_naked_single
  <2>7. QED BY <1>2, <2>1, <2>3, <2>4, <2>6
<1>3. QED BY <1>1, <1>2

\* What hidden singles are, and what one puts down, if there is one.
LEMMA HiddenPlaces ==
  ASSUME NEW g
  PROVE  Hidden(g) = {k \in Houses \X Number : Cardinality(Places(g, k[1], k[2])) = 1}
<1> DEFINE open == [c \in Cell |-> IF g[c] = 0 THEN Candidates(g, c) ELSE {}]
<1>1. ASSUME NEW k \in Houses \X Number
      PROVE  {c \in House[k[1]] : k[2] \in open[c]} = Places(g, k[1], k[2])
  <2>1. House[k[1]] \subseteq Cell
    BY <1>1, SeenIsMutual
  <2>2. QED BY <2>1 DEF Places
<1>2. Hidden(g) = {k \in Houses \X Number : Cardinality({c \in House[k[1]] : k[2] \in open[c]}) = 1}
  BY DEF Hidden
<1> HIDE DEF open
<1>3. QED BY <1>1, <1>2

LEMMA PlacesFinite ==
  ASSUME NEW g, NEW h \in Houses, NEW n
  PROVE  IsFiniteSet(Places(g, h, n)) /\ Places(g, h, n) \subseteq Holes(g)
<1>1. IsFiniteSet(Cell)
  BY NType, FS_Interval DEF Cell
<1>2. Places(g, h, n) \subseteq Cell /\ Places(g, h, n) \subseteq Holes(g)
  BY SeenIsMutual DEF Places, Holes
<1>3. QED BY <1>1, <1>2, FS_Subset

LEMMA HiddenMove ==
  ASSUME NEW g \in Grid
  PROVE  /\ Hidden(g) = {} => find_hidden_single(g) = g
         /\ Hidden(g) # {} =>
              \E h \in Houses, n \in Number : \E c \in Holes(g) :
                Places(g, h, n) = {c} /\ find_hidden_single(g) = Put(g, c, n)
<1> DEFINE H == Hidden(g)
           h == Least({k[1] : k \in H})
           num == Least({k[2] : k \in {j \in H : j[1] = h}})
<1>1. \A k \in H : k \in Houses \X Number /\ Cardinality(Places(g, k[1], k[2])) = 1
  BY HiddenPlaces
<1>2. CASE H = {}
  BY <1>2 DEF find_hidden_single
<1>3. CASE H # {}
  <2>1. h \in {k[1] : k \in H}
    <3>1. {k[1] : k \in H} \in SUBSET Nat /\ {k[1] : k \in H} # {}
      BY <1>1, <1>3, NType
    <3>2. QED BY <3>1, LeastIsIn
  <2>2. num \in {k[2] : k \in {j \in H : j[1] = h}}
    <3> HIDE DEF h
    <3>1. {k[2] : k \in {j \in H : j[1] = h}} \in SUBSET Nat /\ {k[2] : k \in {j \in H : j[1] = h}} # {}
      BY <1>1, <2>1, NType
    <3>2. QED BY <3>1, LeastIsIn
  <2>3. find_hidden_single(g) = Put(g, CHOOSE c \in Places(g, h, num) : TRUE, num)
    BY <1>3 DEF find_hidden_single
  <2> HIDE DEF h, num
  <2>4. h \in Houses /\ num \in Number /\ Cardinality(Places(g, h, num)) = 1
    BY <1>1, <2>1, <2>2
  <2>5. PICK c : Places(g, h, num) = {c}
    BY <2>4, PlacesFinite, FS_Singleton
  <2>6. c \in Holes(g) /\ (CHOOSE d \in Places(g, h, num) : TRUE) = c
    BY <2>4, <2>5, PlacesFinite
  <2>7. QED BY <1>3, <2>3, <2>4, <2>5, <2>6
<1>4. QED BY <1>2, <1>3

\* A single fills a hole.
LEMMA SinglesShrink ==
  ASSUME NEW g \in Grid
  PROVE  /\ find_naked_single(g) # g => find_naked_single(g) \in Grid /\ Size(find_naked_single(g)) = Size(g) - 1
         /\ find_hidden_single(g) # g => find_hidden_single(g) \in Grid /\ Size(find_hidden_single(g)) = Size(g) - 1
<1>1. ASSUME find_naked_single(g) # g
      PROVE  \E c \in Holes(g), n \in Number : find_naked_single(g) = Put(g, c, n)
  BY <1>1, NakedMove DEF Naked
<1>2. ASSUME find_hidden_single(g) # g
      PROVE  \E c \in Holes(g), n \in Number : find_hidden_single(g) = Put(g, c, n)
  BY <1>2, HiddenMove
<1>3. QED BY <1>1, <1>2, PutShrinks

Solution == [grid : Grid, hidden_total : Nat]

\* The body of solve_with_logic, with the function it calls.
SolveFrom(f, g) ==
  LET naked  == find_naked_single(g)
      hidden == find_hidden_single(g)
      rest   == f[hidden]
  IN  IF naked # g THEN f[naked]
      ELSE IF hidden # g THEN [rest EXCEPT !.hidden_total = @ + 1]
      ELSE [grid |-> g, hidden_total |-> 0]

LEMMA SolverExists ==
  \E f \in [Grid -> Solution] : f = [g \in Grid |-> SolveFrom(f, g)]
<1> DEFINE Solves(f, n) == /\ f \in [Upto(n) -> Solution]
                           /\ \A g \in Upto(n) : f[g] = SolveFrom(f, g)
           S == {n \in Nat : \E f : Solves(f, n)}
<1>1. 0 \in S
  <2>1. Upto(0) = {}
    BY SizeType DEF Upto
  <2>2. Solves([g \in Upto(0) |-> 0], 0)
    BY <2>1
  <2>3. QED BY <2>2
<1>2. ASSUME NEW n \in S PROVE n + 1 \in S
  <2>1. PICK f : Solves(f, n)
    OBVIOUS
  <2> DEFINE e == [g \in Upto(n + 1) |-> SolveFrom(f, g)]
  <2>2. \A g \in Upto(n) : g \in Upto(n + 1) /\ e[g] = f[g]
    BY <2>1, SizeType DEF Upto
  <2>3. ASSUME NEW g \in Upto(n + 1)
        PROVE  SolveFrom(f, g) \in Solution /\ SolveFrom(e, g) = SolveFrom(f, g)
    <3> DEFINE naked == find_naked_single(g)
               hidden == find_hidden_single(g)
    <3>1. g \in Grid /\ Size(g) \in Nat /\ Size(g) < n + 1
      BY SizeType DEF Upto
    <3>2. (naked # g => naked \in Upto(n)) /\ (hidden # g => hidden \in Upto(n))
      BY <3>1, SinglesShrink DEF Upto
    <3> HIDE DEF naked, hidden, e
    <3>3. /\ naked # g => f[naked] \in Solution /\ e[naked] = f[naked]
          /\ hidden # g => f[hidden] \in Solution /\ e[hidden] = f[hidden]
      BY <2>1, <2>2, <3>2
    <3>4. ASSUME NEW r \in Solution PROVE [r EXCEPT !.hidden_total = @ + 1] \in Solution
      BY DEF Solution
    <3>5. [grid |-> g, hidden_total |-> 0] \in Solution
      BY <3>1 DEF Solution
    <3>6. QED BY <3>3, <3>4, <3>5 DEF SolveFrom, naked, hidden
  <2>4. Solves(e, n + 1)
    BY <2>3
  <2> HIDE DEF e, Solves
  <2>5. n + 1 \in Nat
    OBVIOUS
  <2>6. QED BY <2>4, <2>5
<1> HIDE DEF S
<1>3. S = Nat
  BY <1>1, <1>2, NatSetInduction DEF S
<1>4. Upto(N * N + 1) = Grid
  BY NType, SizeType DEF Upto
<1>5. PICK f : Solves(f, N * N + 1)
  <2>1. N * N + 1 \in S
    BY <1>3, NType
  <2>2. QED BY <2>1 DEF S
<1>6. f \in [Grid -> Solution] /\ f = [g \in Grid |-> SolveFrom(f, g)]
  BY <1>4, <1>5
<1>7. QED BY <1>6

\* solve_with_logic does what its definition says, and its results are well typed.
LEMMA SolverDef ==
  ASSUME NEW g \in Grid
  PROVE  solve_with_logic[g] = SolveFrom(solve_with_logic, g)
<1>1. solve_with_logic = CHOOSE f : f = [x \in Grid |-> SolveFrom(f, x)]
  BY DEF solve_with_logic, SolveFrom
<1>2. solve_with_logic = [x \in Grid |-> SolveFrom(solve_with_logic, x)]
  BY <1>1, SolverExists
<1>3. QED BY <1>2

LEMMA SolverType == ASSUME NEW g \in Grid PROVE solve_with_logic[g] \in Solution
<1> DEFINE S == {n \in Nat : \A x \in Upto(n) : solve_with_logic[x] \in Solution}
<1>1. 0 \in S
  BY SizeType DEF Upto
<1>2. ASSUME NEW n \in S PROVE n + 1 \in S
  <2> SUFFICES ASSUME NEW x \in Upto(n + 1) PROVE solve_with_logic[x] \in Solution
    OBVIOUS
  <2> DEFINE naked == find_naked_single(x)
             hidden == find_hidden_single(x)
  <2>1. x \in Grid /\ Size(x) \in Nat /\ Size(x) < n + 1
    BY SizeType DEF Upto
  <2>2. (naked # x => naked \in Upto(n)) /\ (hidden # x => hidden \in Upto(n))
    BY <2>1, SinglesShrink DEF Upto
  <2>3. /\ naked # x => solve_with_logic[naked] \in Solution
        /\ hidden # x => solve_with_logic[hidden] \in Solution
    BY <2>2
  <2>4. ASSUME NEW r \in Solution PROVE [r EXCEPT !.hidden_total = @ + 1] \in Solution
    BY DEF Solution
  <2>5. [grid |-> x, hidden_total |-> 0] \in Solution
    BY <2>1 DEF Solution
  <2>6. QED BY <2>1, <2>3, <2>4, <2>5, SolverDef DEF SolveFrom
<1> HIDE DEF S
<1>3. S = Nat
  BY <1>1, <1>2, NatSetInduction DEF S
<1>4. Size(g) + 1 \in S /\ g \in Upto(Size(g) + 1)
  BY <1>3, SizeType DEF Upto
<1>5. QED BY <1>4 DEF S

\* What is left of TypeOK when the grids and the calls are known to be well typed.
CountersOK ==
  /\ request \in Requests \union {0}
  /\ order = <<>> \/ order \in Orders
  /\ iterator \in 0 .. N * N /\ counter \in 0 .. MaxPasses
  /\ stats \in [hardness : {-1, 0, 1, 2, 3, 4, 5}, hidden_total : Nat]

LEMMA PassCounters ==
  ASSUME GridsOK, CountersOK, Pass PROVE CountersOK'
<1> DEFINE dug     == Put(grid, order[(iterator % (N * N)) + 1], 0)
           holes   == Cardinality(Holes(dug))
           tested  == holes < LogicBelow
           singles == solve_with_logic[dug]
           logic   == tested /\ Holes(singles.grid) = {}
           hidden  == IF tested THEN singles.hidden_total ELSE 0
           total   == IF tested THEN hidden ELSE stats.hidden_total
           hardness == IF Rejected(dug, tested, logic, total) THEN 0
                       ELSE determine_hardness(logic, holes, hidden)
<1>1. total \in Nat
  <2>1. dug \in Grid
    BY PutType, ZeroIsNumber DEF GridsOK
  <2>2. singles.hidden_total \in Nat
    BY <2>1, SolverType DEF Solution
  <2>3. stats.hidden_total \in Nat
    BY DEF CountersOK
  <2> HIDE DEF singles, tested
  <2>4. QED BY <2>2, <2>3
<1>2. hardness \in {-1, 0, 1, 2, 3, 4, 5}
  BY DEF determine_hardness
<1>3. stats' = [hardness |-> hardness, hidden_total |-> total]
  BY DEF Pass
<1> HIDE DEF hardness, total
<1>4. stats' \in [hardness : {-1, 0, 1, 2, 3, 4, 5}, hidden_total : Nat]
  BY <1>1, <1>2, <1>3
<1>5. iterator' \in 0 .. N * N
  <2> DEFINE m == N * N
  <2>1. m \in Nat \ {0}
    <3>1. N \in Nat \ {0}
      <4>1. \A b \in Nat \ {0} : b * b \in Nat \ {0}
        OBVIOUS
      <4>2. QED BY <4>1, BoxAssumption DEF N
    <3>2. \A b \in Nat \ {0} : b * b \in Nat \ {0}
      OBVIOUS
    <3>3. QED BY <3>1, <3>2
  <2>2. iterator \in Nat /\ iterator' = (iterator % m) + 1
    BY NType DEF CountersOK, Pass
  <2> HIDE DEF m
  <2>3. iterator % m \in 0 .. m - 1
    BY <2>1, <2>2
  <2>4. iterator' \in 0 .. m
    BY <2>1, <2>2, <2>3
  <2>5. QED BY <2>4 DEF m
<1>6. counter' \in 0 .. MaxPasses
  <2>1. MaxPasses \in Nat /\ counter \in 0 .. MaxPasses
    BY GeneratorAssumption DEF CountersOK
  <2>2. counter' = counter \/ (counter + 1 <= MaxPasses /\ counter' = counter + 1)
    BY DEF Pass
  <2>3. QED BY <2>1, <2>2
<1>7. QED BY <1>4, <1>5, <1>6 DEF CountersOK, Pass

\* Grids hold numbers, the solver counts its hidden singles, and iterator and
\* counter stay in their bounds, for boxes of any side and any shuffles.
THEOREM GeneratorTypes == Spec => []TypeOK
<1>1. GridsOK /\ CountersOK => TypeOK
  BY DEF GridsOK, CountersOK, TypeOK
<1>2. 0 \in 0 .. N * N /\ 0 \in 0 .. MaxPasses /\ MaxPasses \in 0 .. MaxPasses
  BY NType, GeneratorAssumption
<1>3. Init => CountersOK
  BY <1>2 DEF Init, CountersOK
<1>4. GridsOK /\ CountersOK /\ [Next]_vars => CountersOK'
  <2> SUFFICES ASSUME GridsOK, CountersOK, [Next]_vars PROVE CountersOK'
    OBVIOUS
  <2>1. CASE \E r \in Requests : Generate(r)
    BY <1>2, <2>1 DEF CountersOK, Generate
  <2>2. CASE \E deal \in Deals : Deal(deal)
    BY <1>2, <2>2 DEF CountersOK, Deal
  <2>3. CASE \E nums \in Shuffles : Enter(nums)
    BY <2>3 DEF CountersOK, Enter
  <2>4. CASE \E o \in Orders : Filled(o)
    BY <2>4 DEF CountersOK, Filled
  <2>5. CASE Place \/ Backtrack \/ Deliver \/ Play
    BY <2>5 DEF CountersOK, Place, Backtrack, Deliver, Play
  <2>6. CASE Pass
    BY <2>6, PassCounters
  <2>7. CASE UNCHANGED vars
    BY <2>7 DEF CountersOK, vars
  <2>8. QED BY <2>1, <2>2, <2>3, <2>4, <2>5, <2>6, <2>7 DEF Next
<1>5. QED
  BY <1>1, <1>3, <1>4, GridsAlwaysOK, PTL DEF Spec

-----------------------------------------------------------------------------
(***************************************************************************)
(* HintIsThere.  The delivered board need not stay solvable in the order   *)
(* in which the solver went through it: the player fills other cells, and  *)
(* find_naked_single finds other singles.  But the first move of the       *)
(* solver that the player has not made is a single of his board too.       *)
(***************************************************************************)
LEMMA SingleIsHint ==
  ASSUME NEW g \in Grid, Naked(g) # {} \/ Hidden(g) # {}
  PROVE  Hint(g) # {}
<1> DEFINE naked == find_naked_single(g)
           after == IF naked # g THEN naked ELSE find_hidden_single(g)
<1>1. Naked(g) # {} => naked \in Grid /\ naked # g
  BY NakedMove, PutShrinks DEF Naked
<1>2. Hidden(g) # {} => find_hidden_single(g) \in Grid /\ find_hidden_single(g) # g
  BY HiddenMove, PutShrinks
<1>3. naked \in Grid
  BY NakedMove, PutShrinks DEF Naked
<1>4. after \in Grid /\ after # g
  BY <1>1, <1>2, <1>3
<1>5. Hint(g) = {<<c, after[c]>> : c \in {d \in Cell : after[d] # g[d]}}
  BY DEF Hint
<1> HIDE DEF after
<1>6. \E d \in Cell : after[d] # g[d]
  BY <1>4 DEF Grid
<1>7. QED BY <1>5, <1>6

\* Filling in more leaves fewer candidates and places.
LEMMA WithinNarrows ==
  ASSUME NEW g \in Grid, NEW b \in Grid, Within(g, b)
  PROVE  /\ \A c \in Cell : Candidates(b, c) \subseteq Candidates(g, c)
         /\ \A h \in Houses, n \in Number : Places(b, h, n) \subseteq Places(g, h, n)
         /\ Holes(b) \subseteq Holes(g)
<1>1. ASSUME NEW c \in Cell, NEW n \in Candidates(b, c) PROVE n \in Candidates(g, c)
  <2>1. n \in Number /\ n # 0 /\ Seen[c] \subseteq Cell
    BY SeenIsMutual, NType DEF Candidates, Number
  <2>2. \A d \in Seen[c] : g[d] # n
    BY <2>1 DEF Candidates, Within
  <2>3. QED BY <2>1, <2>2 DEF Candidates
<1>2. Holes(b) \subseteq Holes(g)
  BY DEF Holes, Within
<1>3. ASSUME NEW h \in Houses, NEW n \in Number, NEW c \in Places(b, h, n)
      PROVE  c \in Places(g, h, n)
  <2>1. c \in Cell /\ c \in House[h] /\ b[c] = 0 /\ n \in Candidates(b, c)
    BY SeenIsMutual DEF Places
  <2>2. g[c] = 0
    BY <2>1 DEF Within
  <2>3. QED BY <1>1, <2>1, <2>2 DEF Places
<1>4. QED BY <1>1, <1>2, <1>3

\* A single of a board is one of the fuller board, if its cell is still a hole.
LEMMA SingleStays ==
  ASSUME NEW g \in Grid, NEW b \in Grid, NEW s \in Grid, Complete(s), NoConflict(s),
         Within(g, b), Within(b, s), NEW c \in Holes(b), NEW n \in Number
  PROVE  /\ Candidates(g, c) = {n} => Naked(b) # {}
         /\ \A h \in Houses : Places(g, h, n) = {c} => Hidden(b) # {}
<1>1. c \in Cell /\ b[c] = 0 /\ s[c] \in Candidates(b, c)
  BY SolutionIsCandidate DEF Holes
<1>2. ASSUME Candidates(g, c) = {n} PROVE Naked(b) # {}
  <2>1. Candidates(b, c) = {s[c]}
    BY <1>1, <1>2, WithinNarrows
  <2>2. Cardinality(Candidates(b, c)) = 1
    BY <2>1, FS_Singleton
  <2>3. QED BY <2>2 DEF Naked
<1>3. ASSUME NEW h \in Houses, Places(g, h, n) = {c} PROVE Hidden(b) # {}
  <2>1. Within(g, s)
    BY DEF Within
  <2>2. s[c] = n
    BY <1>3, <2>1, SolutionHasPlace
  <2>3. c \in Places(b, h, n)
    BY <1>1, <1>3, <2>2 DEF Places
  <2>4. Places(b, h, n) = {c}
    BY <1>3, <2>3, WithinNarrows
  <2>5. Cardinality(Places(b, h, n)) = 1
    BY <2>4, FS_Singleton
  <2>6. <<h, n>> \in Hidden(b)
    BY <2>5, HiddenPlaces
  <2>7. QED BY <2>6
<1>4. QED BY <1>2, <1>3

\* What singles put down is the solution's.
LEMMA SinglesAreRight ==
  ASSUME NEW g \in Grid, NEW s \in Grid, Complete(s), NoConflict(s), Within(g, s),
         NEW c \in Holes(g), NEW n \in Number,
         Candidates(g, c) = {n} \/ \E h \in Houses : Places(g, h, n) = {c}
  PROVE  s[c] = n
<1>1. CASE Candidates(g, c) = {n}
  BY <1>1, SolutionIsCandidate DEF Holes
<1>2. ASSUME NEW h \in Houses, Places(g, h, n) = {c} PROVE s[c] = n
  BY <1>2, SolutionHasPlace
<1>3. QED BY <1>1, <1>2

\* A board filled further than one that singles solve has a hint.
LEMMA SolvableHasHint ==
  ASSUME NEW s \in Grid, Complete(s), NoConflict(s),
         NEW b \in Grid, Within(b, s), Holes(b) # {},
         NEW g \in Grid, Within(g, b), Holes(solve_with_logic[g].grid) = {}
  PROVE  Hint(b) # {}
<1> DEFINE S == {n \in Nat : \A x \in Upto(n) :
                   Within(x, b) /\ Holes(solve_with_logic[x].grid) = {} => Hint(b) # {}}
<1>1. 0 \in S
  BY SizeType DEF Upto
<1>2. ASSUME NEW n \in S PROVE n + 1 \in S
  <2> SUFFICES ASSUME NEW x \in Upto(n + 1), Within(x, b), Holes(solve_with_logic[x].grid) = {}
               PROVE  Hint(b) # {}
    OBVIOUS
  <2> DEFINE naked == find_naked_single(x)
             hidden == find_hidden_single(x)
  <2>1. x \in Grid /\ Size(x) \in Nat /\ Size(x) < n + 1 /\ Within(x, s)
    BY SizeType DEF Upto, Within
  <2>2. ASSUME NEW c \in Holes(x), NEW m \in Number, NEW h \in Houses,
               Candidates(x, c) = {m} \/ Places(x, h, m) = {c},
               Holes(solve_with_logic[Put(x, c, m)].grid) = {}
        PROVE  Hint(b) # {}
    <3>1. CASE c \in Holes(b)
      BY <2>1, <2>2, <3>1, SingleStays, SingleIsHint
    <3>2. CASE c \notin Holes(b)
      <4>1. c \in Cell /\ b[c] = s[c] /\ s[c] = m
        BY <2>1, <2>2, <3>2, SinglesAreRight DEF Holes, Within
      <4>2. Within(Put(x, c, m), b)
        BY <2>1, <4>1 DEF Within, Put, Grid
      <4>3. Put(x, c, m) \in Upto(n)
        BY <2>1, PutShrinks DEF Upto
      <4>4. QED BY <2>2, <4>2, <4>3
    <3>3. QED BY <3>1, <3>2
  <2>3. solve_with_logic[x] = SolveFrom(solve_with_logic, x)
    BY <2>1, SolverDef
  <2>4. 1 \in Houses
    <3>1. N \in Nat /\ N # 0
      <4>1. \A k \in Nat \ {0} : k * k # 0
        OBVIOUS
      <4>2. QED BY <4>1, NType, BoxAssumption DEF N
    <3>2. QED BY <3>1 DEF Houses
  <2>5. CASE naked # x
    <3>1. solve_with_logic[x] = solve_with_logic[naked]
      BY <2>3, <2>5 DEF SolveFrom
    <3>2. PICK c \in Naked(x), m \in Number : Candidates(x, c) = {m} /\ naked = Put(x, c, m)
      BY <2>1, <2>5, NakedMove
    <3>3. QED BY <2>2, <2>4, <3>1, <3>2 DEF Naked
  <2>6. CASE naked = x /\ hidden # x
    <3>1. solve_with_logic[x] = [solve_with_logic[hidden] EXCEPT !.hidden_total = @ + 1]
      BY <2>3, <2>6 DEF SolveFrom
    <3>2. PICK h \in Houses, m \in Number : \E c \in Holes(x) :
            Places(x, h, m) = {c} /\ hidden = Put(x, c, m)
      BY <2>1, <2>6, HiddenMove
    <3>3. PICK c \in Holes(x) : Places(x, h, m) = {c} /\ hidden = Put(x, c, m)
      BY <3>2
    <3>4. solve_with_logic[hidden] \in Solution
      BY <2>1, <2>6, SinglesShrink, SolverType
    <3>5. solve_with_logic[x].grid = solve_with_logic[hidden].grid
      BY <3>1, <3>4 DEF Solution
    <3>6. QED BY <2>2, <3>3, <3>5
  <2>7. CASE naked = x /\ hidden = x
    <3>1. solve_with_logic[x].grid = x
      BY <2>3, <2>7 DEF SolveFrom
    <3>2. QED BY <2>1, <3>1, WithinNarrows
  <2>8. QED BY <2>5, <2>6, <2>7
<1> HIDE DEF S
<1>3. S = Nat
  BY <1>1, <1>2, NatSetInduction DEF S
<1>4. Size(g) + 1 \in S /\ g \in Upto(Size(g) + 1)
  BY <1>3, SizeType DEF Upto
<1>5. QED BY <1>4 DEF S

\* A grid that was found for a request other than extreme can be solved by
\* singles, and the board that is played is filled further than such a grid.
LogicOK ==
  /\ pc # "idle" => request \in Requests
  /\ pc = "loop" /\ stats.hardness \in 1 .. 4 => Holes(solve_with_logic[grid].grid) = {}
  /\ pc = "ready" /\ request # 5 =>
       \E g \in Grid : Within(g, grid) /\ Holes(solve_with_logic[g].grid) = {}

LEMMA LogicStep == GridsOK /\ LogicOK /\ [Next]_vars => LogicOK'
<1> SUFFICES ASSUME GridsOK, LogicOK, [Next]_vars PROVE LogicOK'
  OBVIOUS
<1>1. CASE \E r \in Requests : Generate(r)
  BY <1>1 DEF LogicOK, Generate
<1>2. CASE \E deal \in Deals : Deal(deal)
  BY <1>2 DEF LogicOK, Deal
<1>3. CASE (\E nums \in Shuffles : Enter(nums)) \/ (\E o \in Orders : Filled(o)) \/ Place \/ Backtrack
  BY <1>3 DEF LogicOK, Enter, Filled, Place, Backtrack
<1>4. CASE Pass
  <2> DEFINE dug     == Put(grid, order[(iterator % (N * N)) + 1], 0)
             holes   == Cardinality(Holes(dug))
             tested  == holes < LogicBelow
             singles == solve_with_logic[dug]
             logic   == tested /\ Holes(singles.grid) = {}
             hidden  == IF tested THEN singles.hidden_total ELSE 0
             total   == IF tested THEN hidden ELSE stats.hidden_total
             rejected == Rejected(dug, tested, logic, total)
             hardness == IF rejected THEN 0 ELSE determine_hardness(logic, holes, hidden)
  <2>1. hardness \in 1 .. 4 => ~rejected /\ logic
    BY DEF determine_hardness
  <2>2. /\ stats' = [hardness |-> hardness, hidden_total |-> total]
        /\ grid' = IF rejected THEN grid ELSE dug
        /\ pc # "idle" /\ pc' = "loop" /\ request' = request
    BY <1>4 DEF Pass
  <2>3. logic => Holes(solve_with_logic[dug].grid) = {}
    OBVIOUS
  <2> HIDE DEF hardness, total, rejected, dug, logic
  <2>4. QED BY <2>1, <2>2, <2>3 DEF LogicOK
<1>5. CASE Deliver
  <2>1. Within(grid, grid) /\ grid \in Grid
    BY DEF Within, GridsOK
  <2>2. request \in 1 .. 5 /\ stats.hardness = request /\ pc = "loop"
    BY <1>5, GeneratorAssumption DEF Deliver, Found, LogicOK
  <2>3. request # 5 => Holes(solve_with_logic[grid].grid) = {}
    BY <2>2 DEF LogicOK
  <2>4. QED BY <1>5, <2>1, <2>2, <2>3 DEF LogicOK, Deliver
<1>6. CASE Play
  <2>1. PICK c : grid[c] = 0 /\ grid' = Put(grid, c, solved[c])
    BY <1>6 DEF Play
  <2>2. UNCHANGED <<pc, request, stats>> /\ pc = "ready"
    BY <1>6 DEF Play
  <2>3. ASSUME NEW g \in Grid, Within(g, grid) PROVE Within(g, grid')
    BY <2>1, <2>3 DEF Within, Put, Grid, GridsOK
  <2>4. QED BY <2>2, <2>3 DEF LogicOK
<1>7. CASE UNCHANGED vars
  BY <1>7 DEF LogicOK, vars
<1>8. QED BY <1>1, <1>2, <1>3, <1>4, <1>5, <1>6, <1>7 DEF Next

(***************************************************************************)
(* If the grid was filled, a board that was asked to be solvable by        *)
(* singles has a hint for as long as it has a hole, in whatever order the  *)
(* player and the hints fill it.                                           *)
(***************************************************************************)
THEOREM HintsAreThere == Spec => [](Complete(solved) => HintIsThere)
<1>1. GridsOK /\ LogicOK => (Complete(solved) => HintIsThere)
  <2> SUFFICES ASSUME GridsOK, LogicOK, Complete(solved), pc = "ready", request # 5, Holes(grid) # {}
               PROVE  Hint(grid) # {}
    BY DEF HintIsThere
  <2>1. PICK g \in Grid : Within(g, grid) /\ Holes(solve_with_logic[g].grid) = {}
    BY DEF LogicOK
  <2>2. QED BY <2>1, SolvableHasHint DEF GridsOK
<1>2. Init => LogicOK
  BY DEF Init, LogicOK
<1>3. QED
  BY <1>1, <1>2, LogicStep, GridsAlwaysOK, PTL DEF Spec

-----------------------------------------------------------------------------
(***************************************************************************)
(* FullGridIsFull.  game_generator does not ask whether the search came to *)
(* an end with a full grid; it does because the search leaves nothing out. *)
(* For every call on the trail, a number that it has tried and taken back  *)
(* is the number of its cell in no solution of what is filled in outside   *)
(* the cells of this and of the inner calls.                               *)
(***************************************************************************)
IsSolution(s) == s \in Grid /\ Complete(s) /\ NoConflict(s)

\* What g has outside the cells of the calls from the i-th on.
Kept(g, calls, i) ==
  {c \in Cell : g[c] # 0 /\ \A j \in i .. Len(calls) : c # calls[j].cell}

Extends(g, calls, i, s) == IsSolution(s) /\ \A c \in Kept(g, calls, i) : s[c] = g[c]

InVain(g, calls, i) ==
  \A n \in Number, s \in Grid :
    Extends(g, calls, i, s) /\ s[calls[i].cell] = n /\ n # g[calls[i].cell]
      => \E k \in DOMAIN calls[i].left : calls[i].left[k] = n

Searching(g, calls) ==
  /\ \E s \in Grid : Extends(g, calls, 1, s)
  /\ \A i \in 1 .. Len(calls) : InVain(g, calls, i)
  /\ \A i \in 1 .. Len(calls) - 1 : g[calls[i].cell] # 0
  /\ \A i, j \in 1 .. Len(calls) : i < j => calls[i].cell < calls[j].cell
  /\ calls # <<>> => \A c \in Cell : c < calls[Len(calls)].cell => g[c] # 0

\* No element of the set is less than Least.
LEMMA LeastIsLeast == ASSUME NEW S \in SUBSET Nat, S # {} PROVE \A x \in S : Least(S) <= x
<1> DEFINE R == OpToRel(<, Nat)
<1>1. \A x, y \in Nat : <<x, y>> \in R <=> x < y
  BY DEF OpToRel
<1>2. IsWellFoundedOn(R, Nat)
  BY NatLessThanWellFounded
<1> HIDE DEF R
<1>3. PICK x \in S : \A y \in S : ~(<<y, x>> \in R)
  BY <1>2, WFMin
<1>4. \A y \in S : x <= y
  <2> SUFFICES ASSUME NEW y \in S PROVE x <= y
    OBVIOUS
  <2>1. x \in Nat /\ y \in Nat /\ ~(y < x)
    BY <1>1, <1>3
  <2>2. QED BY <2>1
<1>5. QED BY <1>4 DEF Least

\* A grid without hole and conflict is complete, if there is a complete one: a
\* house has as many cells as there are numbers then.
LEMMA FullIsComplete ==
  ASSUME NEW g \in Grid, NoConflict(g), Holes(g) = {}, NEW s, IsSolution(s)
  PROVE  Complete(g)
<1> SUFFICES ASSUME NEW h \in Houses, NEW n \in Number PROVE \E c \in House[h] : g[c] = n
  BY DEF Complete
<1>1. ASSUME NEW x \in Grid, NoConflict(x), Holes(x) = {}
      PROVE  [c \in House[h] |-> x[c]] \in Injection(House[h], Number)
  <2> DEFINE f == [c \in House[h] |-> x[c]]
  <2>1. \A c \in House[h] : c \in Cell /\ x[c] \in 0 .. N /\ x[c] # 0 /\ f[c] = x[c]
    BY <1>1, SeenIsMutual DEF Grid, Holes
  <2>2. f \in [House[h] -> Number]
    <3> SUFFICES ASSUME NEW c \in House[h] PROVE x[c] \in Number
      OBVIOUS
    <3>1. x[c] \in 0 .. N /\ x[c] # 0
      BY <2>1
    <3>2. QED BY <3>1, NType DEF Number
  <2>3. \A c, d \in House[h] : f[c] = f[d] => c = d
    BY <1>1, <2>1, SeenIsMutual DEF NoConflict
  <2> HIDE DEF f
  <2>4. QED BY <2>2, <2>3 DEF Injection, IsInjective, f
<1>2. IsFiniteSet(Number)
  BY NType, FS_Interval DEF Number
<1> DEFINE full == [c \in House[h] |-> s[c]]
           mine == [c \in House[h] |-> g[c]]
<1>3. full \in Injection(House[h], Number) /\ mine \in Injection(House[h], Number)
  BY <1>1 DEF IsSolution, Complete
<1>4. full \in Surjection(House[h], Number)
  <2>1. \A m \in Number : \E c \in House[h] : full[c] = m
    BY DEF IsSolution, Complete
  <2>2. full \in [House[h] -> Number]
    BY <1>3 DEF Injection
  <2> HIDE DEF full
  <2>3. QED BY <2>1, <2>2 DEF Surjection
<1> HIDE DEF full
<1>5. Cardinality(House[h]) = Cardinality(Number)
  BY <1>2, <1>3, <1>4, FS_Injection
<1>6. mine \in Surjection(House[h], Number)
  <2> HIDE DEF mine
  <2>1. QED BY <1>2, <1>3, <1>5, FS_Injection
<1>7. PICK c \in House[h] : mine[c] = n
  <2> HIDE DEF mine
  <2>1. QED BY <1>6 DEF Surjection
<1>8. QED BY <1>7

\* The innermost call has an empty cell: it fits the number of every solution.
LEMMA SolutionFits ==
  ASSUME NEW g \in Grid, NEW calls \in Seq(Call), calls # <<>>, g[calls[Len(calls)].cell] = 0,
         NEW s, Extends(g, calls, Len(calls), s)
  PROVE  LET c == calls[Len(calls)].cell IN s[c] \in Number /\ basic_check(g, c, s[c])
<1> DEFINE c == calls[Len(calls)].cell
<1>1. Len(calls) \in Nat \ {0} /\ calls[Len(calls)] \in Call
  OBVIOUS
<1>2. c \in Cell
  BY <1>1 DEF Call
<1>3. s \in Grid /\ Complete(s) /\ NoConflict(s)
  BY DEF Extends, IsSolution
<1>4. s[c] \in 0 .. N /\ s[c] # 0
  BY <1>2, <1>3 DEF Complete, Holes, Grid
<1>5. s[c] \in Number
  BY <1>4, NType DEF Number
<1>6. ASSUME NEW d \in Seen[c], g[d] = s[c] PROVE FALSE
  <2>1. d \in Cell /\ d # c /\ g[d] # 0
    BY <1>2, <1>4, <1>6, SeenIsMutual
  <2>2. \A j \in Len(calls) .. Len(calls) : d # calls[j].cell
    BY <1>1, <2>1
  <2>3. s[d] = g[d]
    BY <2>1, <2>2 DEF Extends, Kept
  <2>4. QED BY <1>2, <1>3, <1>4, <1>6, <2>1, <2>3 DEF NoConflict
<1>7. QED BY <1>5, <1>6 DEF basic_check

LEMMA CellsInOrder ==
  /\ \A c, d \in Cell : c < d => c # d
  /\ \A c, d, e \in Cell : c < d /\ d < e => c < e
BY NType

\* A call enters the next hole.
LEMMA SearchEnters ==
  ASSUME NEW g \in Grid, NEW calls \in Seq(Call), Searching(g, calls),
         calls # <<>> => g[calls[Len(calls)].cell] # 0,
         NEW nums \in Seq(Number), \A n \in Number : \E k \in DOMAIN nums : nums[k] = n,
         NEW cell \in Holes(g),
         \A c \in Holes(g) : (calls # <<>> /\ c <= calls[Len(calls)].cell) \/ cell <= c,
         calls # <<>> => calls[Len(calls)].cell < cell
  PROVE  Searching(g, Append(calls, [cell |-> cell, left |-> nums]))
<1> DEFINE L == Len(calls)
           call == [cell |-> cell, left |-> nums]
           more == Append(calls, call)
<1>1. /\ L \in Nat /\ Len(more) = L + 1 /\ more[L + 1] = call /\ call.cell = cell /\ call.left = nums
      /\ \A i \in 1 .. L : more[i] = calls[i]
      /\ cell \in Cell /\ g[cell] = 0 /\ more # <<>>
  <2>1. cell \in Cell /\ g[cell] = 0
    BY DEF Holes
  <2>2. call \in Call /\ call.cell = cell /\ call.left = nums
    BY <2>1 DEF Call
  <2> HIDE DEF call
  <2>3. L \in Nat /\ Len(more) = L + 1 /\ more[L + 1] = call /\ more # <<>> /\ \A i \in 1 .. L : more[i] = calls[i]
    BY <2>2
  <2>4. QED BY <2>1, <2>2, <2>3
<1>2. \A i \in 1 .. L : calls[i] \in Call /\ calls[i].cell \in Cell /\ g[calls[i].cell] # 0
  <2>1. ASSUME NEW i \in 1 .. L PROVE calls[i] \in Call
    OBVIOUS
  <2>2. ASSUME NEW i \in 1 .. L PROVE g[calls[i].cell] # 0
    <3>1. i = L \/ i \in 1 .. L - 1
      BY <1>1
    <3>2. calls # <<>>
      BY <1>1, <2>2
    <3>3. QED BY <3>1, <3>2 DEF Searching
  <2>3. QED BY <2>1, <2>2 DEF Call
<1> HIDE DEF call, more
<1>3. ASSUME NEW i \in 1 .. L + 1, i <= L \/ L = 0
      PROVE  Kept(g, more, i) = Kept(g, calls, i)
  <2>1. i .. L + 1 = (i .. L) \union {L + 1} /\ \A j \in i .. L : j \in 1 .. L
    BY <1>1, <1>3
  <2>2. \A c \in Cell : g[c] # 0 => c # more[L + 1].cell
    BY <1>1
  <2>3. \A j \in i .. L : more[j].cell = calls[j].cell
    BY <1>1, <2>1
  <2>4. Len(more) = L + 1
    BY <1>1
  <2> HIDE DEF L
  <2>5. ASSUME NEW c \in Cell, g[c] # 0
        PROVE  (\A j \in i .. L + 1 : c # more[j].cell) <=> (\A j \in i .. L : c # calls[j].cell)
    BY <2>1, <2>2, <2>3, <2>5
  <2>6. Kept(g, more, i) = {c \in Cell : g[c] # 0 /\ \A j \in i .. L + 1 : c # more[j].cell}
    BY <2>4 DEF Kept
  <2>7. Kept(g, calls, i) = {c \in Cell : g[c] # 0 /\ \A j \in i .. L : c # calls[j].cell}
    BY DEF Kept, L
  <2>8. QED BY ONLY <2>5, <2>6, <2>7
<1>4. \E s \in Grid : Extends(g, more, 1, s)
  <2>1. Kept(g, more, 1) = Kept(g, calls, 1)
    BY <1>1, <1>3
  <2>2. QED BY <2>1 DEF Searching, Extends
<1>5. ASSUME NEW i \in 1 .. L + 1 PROVE InVain(g, more, i)
  <2>1. CASE i \in 1 .. L
    <3>1. Kept(g, more, i) = Kept(g, calls, i) /\ more[i] = calls[i]
      BY <1>1, <1>3, <2>1
    <3>2. InVain(g, calls, i)
      BY <2>1 DEF Searching
    <3>3. QED BY <3>1, <3>2 DEF InVain, Extends
  <2>2. CASE i = L + 1
    BY <1>1, <2>2 DEF InVain
  <2>3. QED BY <1>1, <2>1, <2>2
<1>6. \A i \in 1 .. (L + 1) - 1 : g[more[i].cell] # 0
  BY <1>1, <1>2
<1>7. ASSUME NEW i \in 1 .. L + 1, NEW j \in 1 .. L + 1, i < j PROVE more[i].cell < more[j].cell
  <2>1. CASE j \in 1 .. L
    <3>1. i \in 1 .. L
      BY <1>1, <1>7, <2>1
    <3>2. QED BY <1>1, <1>7, <2>1, <3>1 DEF Searching
  <2>2. CASE j = L + 1
    <3>1. i \in 1 .. L /\ L \in 1 .. L /\ calls # <<>>
      BY <1>1, <1>7, <2>2
    <3>2. calls[i].cell \in Nat /\ calls[L].cell \in Nat /\ cell \in Nat
      BY <1>1, <1>2, <3>1, NType
    <3>3. i = L \/ calls[i].cell < calls[L].cell
      BY <3>1 DEF Searching
    <3>4. calls[L].cell < cell
      BY <3>1
    <3>5. calls[i].cell < cell
      BY <3>2, <3>3, <3>4
    <3>6. QED BY <1>1, <2>2, <3>1, <3>5
  <2>3. QED BY <1>1, <2>1, <2>2
<1>8. ASSUME NEW c \in Cell, c < cell PROVE g[c] # 0
  <2> SUFFICES ASSUME g[c] = 0 PROVE FALSE
    OBVIOUS
  <2>1. c \in Nat /\ cell \in Nat /\ c \in Holes(g)
    BY <1>1, NType DEF Holes
  <2>2. calls # <<>> /\ c <= calls[L].cell
    BY <1>8, <2>1
  <2>3. calls[L].cell \in Nat /\ c # calls[L].cell
    <3>1. L \in 1 .. L
      BY <1>1, <2>2
    <3>2. calls[L].cell \in Cell /\ g[calls[L].cell] # 0
      BY <1>2, <3>1
    <3>3. QED BY <3>2, NType
  <2>4. c < calls[L].cell
    BY <2>1, <2>2, <2>3
  <2>5. QED BY <2>2, <2>4 DEF Searching
<1>9. QED BY <1>1, <1>4, <1>5, <1>6, <1>7, <1>8 DEF Searching, more, call

\* The inner call puts down the first of its numbers that fits.
LEMMA SearchPlaces ==
  ASSUME NEW g \in Grid, NEW calls \in Seq(Call), Searching(g, calls),
         calls # <<>>, g[calls[Len(calls)].cell] = 0,
         NEW k \in DOMAIN calls[Len(calls)].left,
         \A j \in 1 .. k - 1 : ~basic_check(g, calls[Len(calls)].cell, calls[Len(calls)].left[j]),
         NEW rest \in Seq(Number), rest = SubSeq(calls[Len(calls)].left, k + 1, Len(calls[Len(calls)].left))
  PROVE  Searching(Put(g, calls[Len(calls)].cell, calls[Len(calls)].left[k]),
                   [calls EXCEPT ![Len(calls)].left = rest])
<1> DEFINE L == Len(calls)
           cell == calls[L].cell
           left == calls[L].left
           g2 == Put(g, cell, left[k])
           calls2 == [calls EXCEPT ![L].left = rest]
<1>1. L \in Nat \ {0} /\ calls[L] \in Call
  OBVIOUS
<1>2. cell \in Cell /\ left \in Seq(Number) /\ k \in 1 .. Len(left) /\ left[k] \in Number
  BY <1>1 DEF Call
<1>3. left[k] # 0 /\ g2[cell] = left[k] /\ \A c \in Cell : c # cell => g2[c] = g[c]
  BY <1>2, NType DEF Put, Grid, Number
<1>4. /\ Len(calls2) = L /\ calls2 # <<>> /\ calls2[L].left = rest /\ calls2[L].cell = cell
      /\ \A i \in 1 .. L : calls2[i].cell = calls[i].cell /\ (i # L => calls2[i] = calls[i])
  <2> DEFINE call == [calls[L] EXCEPT !.left = rest]
  <2>1. call \in Call /\ call.left = rest /\ call.cell = cell
    BY <1>1 DEF Call
  <2>2. calls2 = [calls EXCEPT ![L] = call]
    OBVIOUS
  <2> HIDE DEF call, calls2
  <2>3. Len(calls2) = L /\ calls2[L] = call /\ \A i \in 1 .. L : i # L => calls2[i] = calls[i]
    BY <1>1, <2>1, <2>2
  <2>4. QED BY <1>1, <2>1, <2>3
<1>5. \A j \in 1 .. Len(left) : j > k => \E i \in DOMAIN rest : rest[i] = left[j]
  <2> SUFFICES ASSUME NEW j \in 1 .. Len(left), j > k PROVE \E i \in DOMAIN rest : rest[i] = left[j]
    OBVIOUS
  <2>1. rest = SubSeq(left, k + 1, Len(left))
    OBVIOUS
  <2> HIDE DEF left
  <2>2. left \in Seq(Number) /\ k \in 1 .. Len(left) /\ j \in 1 .. Len(left) /\ j > k
    BY <1>2
  <2>3. /\ Len(rest) = Len(left) - k /\ DOMAIN rest = 1 .. Len(left) - k
        /\ \A i \in 1 .. Len(left) - k : rest[i] = left[k + i]
    BY ONLY <2>1, <2>2
  <2>4. j - k \in 1 .. Len(left) - k /\ k + (j - k) = j
    BY ONLY <2>2
  <2>5. QED BY ONLY <2>3, <2>4
<1> HIDE DEF g2, calls2
<1>6. ASSUME NEW i \in 1 .. L PROVE Kept(g2, calls2, i) = Kept(g, calls, i)
  <2>1. \A j \in i .. L : j \in 1 .. L /\ calls2[j].cell = calls[j].cell
    BY <1>4
  <2>2. L \in i .. L /\ Len(calls2) = L
    BY <1>1, <1>4
  <2> HIDE DEF L
  <2>3. ASSUME NEW c \in Cell
        PROVE  (g2[c] # 0 /\ \A j \in i .. L : c # calls2[j].cell) <=> (g[c] # 0 /\ \A j \in i .. L : c # calls[j].cell)
    <3>1. CASE c = cell
      <4>1. calls[L].cell = c /\ calls2[L].cell = c
        BY <2>1, <2>2, <3>1
      <4>2. QED BY <2>2, <4>1
    <3>2. CASE c # cell
      BY <1>3, <2>1, <3>2
    <3>3. QED BY <3>1, <3>2
  <2>4. Kept(g2, calls2, i) = {c \in Cell : g2[c] # 0 /\ \A j \in i .. L : c # calls2[j].cell}
    BY <2>2 DEF Kept
  <2>5. Kept(g, calls, i) = {c \in Cell : g[c] # 0 /\ \A j \in i .. L : c # calls[j].cell}
    BY DEF Kept, L
  <2>6. QED BY ONLY <2>3, <2>4, <2>5
<1>7. ASSUME NEW i \in 1 .. L, NEW s PROVE Extends(g2, calls2, i, s) <=> Extends(g, calls, i, s)
  <2>1. L \in i .. L
    BY <1>1
  <2>2. \A c \in Kept(g, calls, i) : c \in Cell /\ c # cell
    BY <2>1 DEF Kept
  <2>3. QED BY <1>3, <1>6, <2>2 DEF Extends
<1>8. \E s \in Grid : Extends(g2, calls2, 1, s)
  <2>1. 1 \in 1 .. L
    BY <1>1
  <2>2. PICK s \in Grid : Extends(g, calls, 1, s)
    BY DEF Searching
  <2>3. QED BY <1>7, <2>1, <2>2
<1>9. ASSUME NEW i \in 1 .. L PROVE InVain(g2, calls2, i)
  <2>1. CASE i # L
    <3>1. i \in 1 .. L - 1 /\ calls2[i] = calls[i]
      BY <1>1, <1>4, <2>1
    <3>2. calls[i].cell # cell /\ calls[i].cell \in Cell
      <4>1. calls[i] \in Call /\ L \in 1 .. L
        BY <1>1
      <4>2. calls[i].cell \in Cell /\ calls[i].cell < cell
        BY <1>1, <2>1, <4>1 DEF Searching, Call
      <4>3. QED BY <1>2, <4>2, CellsInOrder
    <3>3. g2[calls[i].cell] = g[calls[i].cell]
      BY <1>3, <3>2
    <3>4. InVain(g, calls, i)
      BY DEF Searching
    <3>5. QED BY <1>7, <3>1, <3>3, <3>4 DEF InVain
  <2>2. CASE i = L
    <3> SUFFICES ASSUME NEW n \in Number, NEW s \in Grid, Extends(g2, calls2, L, s), s[cell] = n, n # left[k]
                 PROVE  \E j \in DOMAIN rest : rest[j] = n
      <4>1. calls2[i].left = rest /\ calls2[i].cell = cell /\ g2[calls2[i].cell] = left[k]
        BY <1>3, <1>4, <2>2
      <4> HIDE DEF left, cell, L
      <4>2. QED BY <2>2, <4>1 DEF InVain
    <3>1. Extends(g, calls, L, s)
      BY <1>1, <1>7
    <3>2. n # 0
      BY NType DEF Number
    <3>3. InVain(g, calls, L)
      BY <1>1 DEF Searching
    <3>4. PICK j \in DOMAIN left : left[j] = n
      BY <3>1, <3>2, <3>3 DEF InVain
    <3>5. j \in 1 .. Len(left) /\ j # k
      BY <1>2, <3>4
    <3>6. basic_check(g, cell, left[j])
      BY <3>1, <3>4, SolutionFits
    <3>7. ~(j \in 1 .. k - 1)
      BY <3>6
    <3>8. j > k
      BY <1>2, <3>5, <3>7
    <3>9. QED BY <1>5, <3>4, <3>5, <3>8
  <2>3. QED BY <2>1, <2>2
<1>10. \A i \in 1 .. L - 1 : g2[calls2[i].cell] # 0
  <2> SUFFICES ASSUME NEW i \in 1 .. L - 1 PROVE g2[calls2[i].cell] # 0
    OBVIOUS
  <2>1. i \in 1 .. L /\ calls[i] \in Call /\ calls2[i].cell = calls[i].cell
    BY <1>4
  <2>2. calls[i].cell \in Cell /\ g[calls[i].cell] # 0
    BY <2>1 DEF Call, Searching
  <2>3. QED BY <1>3, <2>1, <2>2
<1>11. \A i, j \in 1 .. L : i < j => calls2[i].cell < calls2[j].cell
  BY <1>4 DEF Searching
<1>12. \A c \in Cell : c < cell => g2[c] # 0
  <2> SUFFICES ASSUME NEW c \in Cell, c < cell PROVE g2[c] # 0
    OBVIOUS
  <2>1. g[c] # 0 /\ c # cell
    BY <1>2, NType DEF Searching
  <2>2. QED BY <1>3, <2>1
<1>13. Searching(g2, calls2)
  <2>1. \A c \in Cell : c < calls2[L].cell => g2[c] # 0
    BY <1>4, <1>12
  <2> HIDE DEF L, cell
  <2>2. QED BY <1>4, <1>8, <1>9, <1>10, <1>11, <2>1 DEF Searching
<1>14. QED BY <1>13 DEF g2, calls2

\* None of the numbers left fits: the calls go on without the inner one, and
\* without the number of the call before it.
LEMMA NothingFits ==
  ASSUME NEW g \in Grid, NEW calls \in Seq(Call), Searching(g, calls),
         calls # <<>>, g[calls[Len(calls)].cell] = 0,
         \A k \in DOMAIN calls[Len(calls)].left :
           ~basic_check(g, calls[Len(calls)].cell, calls[Len(calls)].left[k]),
         NEW s \in Grid
  PROVE  ~Extends(g, calls, Len(calls), s)
<1> SUFFICES ASSUME Extends(g, calls, Len(calls), s) PROVE FALSE
  OBVIOUS
<1> DEFINE L == Len(calls)
           cell == calls[L].cell
<1>1. s[cell] \in Number /\ basic_check(g, cell, s[cell])
  BY SolutionFits
<1>2. s[cell] # g[cell]
  BY <1>1, NType DEF Number
<1>3. L \in 1 .. L
  OBVIOUS
<1>4. InVain(g, calls, L)
  BY <1>3 DEF Searching
<1>5. \E k \in DOMAIN calls[L].left : calls[L].left[k] = s[cell]
  BY <1>1, <1>2, <1>4 DEF InVain
<1>6. QED BY <1>1, <1>5

LEMMA SearchBacks ==
  ASSUME NEW g \in Grid, NEW calls \in Seq(Call), Searching(g, calls),
         Len(calls) > 1, g[calls[Len(calls)].cell] = 0,
         \A k \in DOMAIN calls[Len(calls)].left :
           ~basic_check(g, calls[Len(calls)].cell, calls[Len(calls)].left[k]),
         NEW calls2 \in Seq(Call), Len(calls2) = Len(calls) - 1,
         \A i \in 1 .. Len(calls) - 1 : calls2[i] = calls[i]
  PROVE  Searching(Put(g, calls[Len(calls) - 1].cell, 0), calls2)
<1> DEFINE L == Len(calls)
           M == L - 1
           cell == calls[L].cell
           outer == calls[M].cell
           g2 == Put(g, outer, 0)
<1>1. /\ L \in Nat /\ M \in Nat /\ M >= 1 /\ L = M + 1 /\ Len(calls2) = M /\ calls # <<>> /\ calls2 # <<>>
      /\ calls[L] \in Call /\ calls[M] \in Call /\ \A i \in 1 .. M : calls2[i] = calls[i] /\ calls[i] \in Call
  OBVIOUS
<1>2. cell \in Cell /\ outer \in Cell /\ outer < cell /\ g[outer] # 0 /\ g[cell] = 0
  BY <1>1 DEF Searching, Call
<1>3. g2[outer] = 0 /\ \A c \in Cell : c # outer => g2[c] = g[c]
  BY <1>2 DEF Put, Grid
<1>4. \A i \in 1 .. M : i < M => /\ calls[i].cell \in Cell /\ calls[i].cell # outer
                                /\ g[calls[i].cell] # 0 /\ g2[calls[i].cell] = g[calls[i].cell]
  <2> SUFFICES ASSUME NEW i \in 1 .. M, i < M
               PROVE  /\ calls[i].cell \in Cell /\ calls[i].cell # outer
                      /\ g[calls[i].cell] # 0 /\ g2[calls[i].cell] = g[calls[i].cell]
    OBVIOUS
  <2>1. i \in 1 .. L /\ M \in 1 .. L /\ i \in 1 .. L - 1 /\ calls[i] \in Call
    BY <1>1
  <2>2. calls[i].cell \in Cell /\ calls[i].cell < outer /\ g[calls[i].cell] # 0
    BY <2>1 DEF Searching, Call
  <2>3. calls[i].cell # outer
    BY <1>2, <2>2, CellsInOrder
  <2>4. QED BY <1>3, <2>2, <2>3
<1> HIDE DEF g2
<1>5. ASSUME NEW i \in 1 .. M PROVE Kept(g2, calls2, i) = Kept(g, calls, i)
  <2>1. M \in i .. M /\ M \in i .. L /\ L \in i .. L /\ i .. L = (i .. M) \union {L} /\ Len(calls2) = M
    BY <1>1
  <2>2. \A j \in i .. M : calls2[j].cell = calls[j].cell
    BY <1>1
  <2> HIDE DEF L, M
  <2>3. ASSUME NEW c \in Cell
        PROVE  (g2[c] # 0 /\ \A j \in i .. M : c # calls2[j].cell) <=> (g[c] # 0 /\ \A j \in i .. L : c # calls[j].cell)
    <3>1. CASE c = outer
      BY <1>3, <2>1, <3>1
    <3>2. CASE c = cell
      BY <1>2, <1>3, <3>1, <3>2
    <3>3. CASE c # outer /\ c # cell
      BY <1>3, <2>1, <2>2, <3>3
    <3>4. QED BY <3>1, <3>2, <3>3
  <2>4. QED BY <2>1, <2>3 DEF Kept, L
<1>6. ASSUME NEW i \in 1 .. M, NEW s PROVE Extends(g2, calls2, i, s) <=> Extends(g, calls, i, s)
  <2>1. M \in i .. L
    BY <1>1
  <2>2. \A c \in Kept(g, calls, i) : c \in Cell /\ c # outer
    BY <2>1 DEF Kept
  <2>3. QED BY <1>3, <1>5, <2>2 DEF Extends
<1>7. \E s \in Grid : Extends(g2, calls2, 1, s)
  <2>1. 1 \in 1 .. M
    BY <1>1
  <2>2. PICK s \in Grid : Extends(g, calls, 1, s)
    BY DEF Searching
  <2>3. QED BY <1>6, <2>1, <2>2
<1>8. ASSUME NEW i \in 1 .. M PROVE InVain(g2, calls2, i)
  <2> SUFFICES ASSUME NEW n \in Number, NEW s \in Grid, Extends(g2, calls2, i, s),
                      s[calls2[i].cell] = n, n # g2[calls2[i].cell]
               PROVE  \E k \in DOMAIN calls2[i].left : calls2[i].left[k] = n
    BY DEF InVain
  <2>1. calls2[i] = calls[i] /\ i \in 1 .. L
    BY <1>1
  <2>2. Extends(g, calls, i, s) /\ InVain(g, calls, i)
    BY <1>6, <2>1 DEF Searching
  <2>3. CASE i < M
    <3>1. n # g[calls[i].cell]
      BY <1>4, <2>1, <2>3
    <3>2. QED BY <2>1, <2>2, <3>1 DEF InVain
  <2>4. CASE i = M /\ n # g[outer]
    BY <2>1, <2>2, <2>4 DEF InVain
  <2>5. CASE i = M /\ n = g[outer]
    <3>1. s[outer] = g[outer]
      BY <2>1, <2>5
    <3>2. \A c \in Kept(g, calls, L) : s[c] = g[c]
      <4> SUFFICES ASSUME NEW c \in Kept(g, calls, L), c # outer PROVE s[c] = g[c]
        BY <3>1
      <4>1. L \in L .. L /\ M .. L = {M, L}
        BY <1>1
      <4>2. c \in Cell /\ g[c] # 0 /\ c # cell
        BY <4>1 DEF Kept
      <4>3. \A j \in M .. L : c # calls[j].cell
        BY <4>1, <4>2
      <4>4. c \in Kept(g, calls, M)
        BY <4>2, <4>3 DEF Kept
      <4>5. QED BY <2>2, <2>5, <4>4 DEF Extends
    <3>3. Extends(g, calls, L, s)
      BY <2>2, <3>2 DEF Extends
    <3>4. QED BY <1>1, <3>3, NothingFits
  <2>6. QED BY <1>1, <2>3, <2>4, <2>5
<1>9. \A i \in 1 .. M - 1 : g2[calls2[i].cell] # 0
  BY <1>1, <1>4
<1>10. \A i, j \in 1 .. M : i < j => calls2[i].cell < calls2[j].cell
  <2>1. \A i \in 1 .. M : i \in 1 .. L /\ calls2[i] = calls[i]
    BY <1>1
  <2>2. QED BY <2>1 DEF Searching
<1>11. \A c \in Cell : c < calls2[M].cell => g2[c] # 0
  <2> SUFFICES ASSUME NEW c \in Cell, c < calls2[M].cell PROVE g2[c] # 0
    OBVIOUS
  <2>1. c < outer
    BY <1>1
  <2>2. c # outer /\ c < cell
    BY <1>2, <2>1, CellsInOrder
  <2>3. g[c] # 0
    BY <1>1, <2>2 DEF Searching
  <2>4. QED BY <1>3, <2>2, <2>3
<1>12. Searching(g2, calls2)
  <2>1. Len(calls2) = M /\ calls2 # <<>>
    BY <1>1
  <2> HIDE DEF L, M, outer, cell
  <2>2. QED BY <2>1, <1>7, <1>8, <1>9, <1>10, <1>11 DEF Searching
<1>13. QED BY <1>12 DEF g2

\* The outer call does not come to an end without a full grid.
LEMMA OuterFits ==
  ASSUME NEW g \in Grid, NEW calls \in Seq(Call), Searching(g, calls), Len(calls) = 1,
         g[calls[Len(calls)].cell] = 0
  PROVE  \E k \in DOMAIN calls[Len(calls)].left :
           basic_check(g, calls[Len(calls)].cell, calls[Len(calls)].left[k])
<1>1. PICK s \in Grid : Extends(g, calls, Len(calls), s)
  BY DEF Searching
<1>2. calls # <<>>
  OBVIOUS
<1>3. QED BY <1>1, <1>2, NothingFits

\* The diagonals that are dealt can be filled, and a shuffle keeps every number.
DealsFill == \A deal \in Deals : \E s \in Grid : IsSolution(s) /\ Within(Diagonal(deal), s)
ShufflesAreFull == \A nums \in Shuffles, n \in Number : \E k \in DOMAIN nums : nums[k] = n

\* While the grid is filled nothing has been left out; afterwards it is full,
\* except between a request and the first grid dealt for it.
SearchInv ==
  /\ pc = "fill" => Searching(grid, trail)
  /\ pc # "fill" => trail = <<>>
  /\ pc # "idle" => request # 0
  /\ order # <<>> \/ pc \in {"dig", "ready"} => Complete(solved)
  /\ pc = "loop" /\ (counter < MaxPasses \/ stats.hardness # 0) => Complete(solved)

LEMMA DealSearch ==
  ASSUME DealsFill, GridsOK, SearchInv, NEW deal \in Deals, Deal(deal)
  PROVE  Searching(grid, trail)'
<1>1. grid' = Diagonal(deal) /\ trail' = <<>>
  BY DEF Deal, SearchInv
<1>2. PICK s \in Grid : IsSolution(s) /\ Within(Diagonal(deal), s)
  BY DEF DealsFill
<1>3. Extends(grid', trail', 1, s)
  BY <1>1, <1>2 DEF Extends, Kept, Within
<1>4. Len(trail') = 0
  BY <1>1
<1>5. QED BY <1>1, <1>2, <1>3, <1>4 DEF Searching

LEMMA EnterSearch ==
  ASSUME ShufflesAreFull, GridsOK, SearchInv, NEW nums \in Shuffles, Enter(nums)
  PROVE  Searching(grid, trail)'
<1> DEFINE cell == Least(Ahead)
<1>1. Ahead \in SUBSET Nat /\ Ahead # {}
  BY NType DEF Enter, Ahead, Holes
<1>2. cell \in Ahead /\ \A c \in Ahead : cell <= c
  BY <1>1, LeastIsIn, LeastIsLeast
<1> HIDE DEF cell
<1>3. cell \in Holes(grid) /\ (trail # <<>> => Inner.cell < cell)
  <2>1. cell \in Holes(grid) /\ (trail # <<>> => cell > Inner.cell)
    BY <1>2 DEF Ahead
  <2>2. QED BY <2>1
<1>4. trail # <<>> => Inner.cell \in Nat
  <2>1. trail # <<>> => Inner \in Call
    BY DEF Inner, GridsOK
  <2>2. QED BY <2>1, NType DEF Call
<1>5. \A c \in Holes(grid) : (trail # <<>> /\ c <= Inner.cell) \/ cell <= c
  <2> SUFFICES ASSUME NEW c \in Holes(grid), ~(c \in Ahead) PROVE trail # <<>> /\ c <= Inner.cell
    BY <1>2
  <2>1. trail # <<>> /\ ~(c > Inner.cell)
    BY DEF Ahead
  <2>2. c \in Nat
    BY NType DEF Holes
  <2>3. QED BY <1>4, <2>1, <2>2
<1>6. nums \in Seq(Number) /\ \A n \in Number : \E k \in DOMAIN nums : nums[k] = n
  BY GeneratorAssumption DEF ShufflesAreFull
<1>7. grid \in Grid /\ trail \in Seq(Call) /\ Searching(grid, trail)
  BY DEF GridsOK, SearchInv, Enter
<1>8. trail # <<>> => grid[Inner.cell] # 0
  BY DEF Enter, Advance
<1>9. Searching(grid, Append(trail, [cell |-> cell, left |-> nums]))
  BY <1>3, <1>5, <1>6, <1>7, <1>8, SearchEnters DEF Inner
<1>10. grid' = grid /\ trail' = Append(trail, [cell |-> cell, left |-> nums])
  BY DEF Enter, cell
<1>11. QED BY <1>9, <1>10

LEMMA PlaceSearch ==
  ASSUME GridsOK, SearchInv, Place
  PROVE  Searching(grid, trail)'
<1> DEFINE k == Least(Fits)
           rest == SubSeq(Inner.left, k + 1, Len(Inner.left))
<1>1. Len(trail) \in Nat \ {0} /\ Inner \in Call
  BY InnerType DEF Place
<1>2. Inner.cell \in Cell /\ Inner.left \in Seq(Number) /\ DOMAIN Inner.left = 1 .. Len(Inner.left)
  BY <1>1 DEF Call
<1>3. Fits \in SUBSET Nat /\ Fits # {}
  BY <1>2 DEF Place, Fits
<1>4. k \in Fits /\ \A j \in Fits : k <= j
  BY <1>3, LeastIsIn, LeastIsLeast
<1>5. grid' = Put(grid, Inner.cell, Inner.left[k]) /\ trail' = [trail EXCEPT ![Len(trail)].left = rest]
  BY DEF Place, Inner
<1> HIDE DEF k
<1>6. k \in DOMAIN Inner.left /\ k \in 1 .. Len(Inner.left)
  BY <1>2, <1>4 DEF Fits
<1>7. \A j \in 1 .. k - 1 : ~basic_check(grid, Inner.cell, Inner.left[j])
  <2> SUFFICES ASSUME NEW j \in 1 .. k - 1, basic_check(grid, Inner.cell, Inner.left[j]) PROVE FALSE
    OBVIOUS
  <2>1. j \in DOMAIN Inner.left /\ ~(k <= j)
    BY <1>2, <1>6
  <2>2. j \in Fits
    BY <2>1 DEF Fits
  <2>3. QED BY <1>4, <2>1, <2>2
<1>8. rest \in Seq(Number)
  BY <1>2, <1>6
<1>9. grid \in Grid /\ trail \in Seq(Call) /\ Searching(grid, trail)
  BY DEF GridsOK, SearchInv, Place
<1>10. trail # <<>> /\ grid[Inner.cell] = 0
  BY DEF Place, Advance
<1>11. rest = SubSeq(Inner.left, k + 1, Len(Inner.left))
  OBVIOUS
<1> HIDE DEF rest
<1>12. Searching(Put(grid, Inner.cell, Inner.left[k]), [trail EXCEPT ![Len(trail)].left = rest])
  BY <1>6, <1>7, <1>8, <1>9, <1>10, <1>11, SearchPlaces DEF Inner
<1>13. QED BY <1>5, <1>12

LEMMA BacktrackSearch ==
  ASSUME GridsOK, SearchInv, Backtrack
  PROVE  Searching(grid, trail)'
<1>1. grid \in Grid /\ trail \in Seq(Call) /\ Searching(grid, trail) /\ Len(trail) > 1
  BY DEF GridsOK, SearchInv, Backtrack
<1>2. grid[Inner.cell] = 0
  BY DEF Backtrack, Advance
<1>3. \A k \in DOMAIN Inner.left : ~basic_check(grid, Inner.cell, Inner.left[k])
  BY DEF Backtrack, Fits
<1>4. grid' = Put(grid, trail[Len(trail) - 1].cell, 0) /\ trail' = SubSeq(trail, 1, Len(trail) - 1)
  BY DEF Backtrack
<1>5. trail' \in Seq(Call) /\ Len(trail') = Len(trail) - 1 /\ \A i \in 1 .. Len(trail) - 1 : trail'[i] = trail[i]
  BY <1>1, <1>4
<1>6. Searching(Put(grid, trail[Len(trail) - 1].cell, 0), trail')
  BY <1>1, <1>2, <1>3, <1>5, SearchBacks DEF Inner
<1>7. QED BY <1>4, <1>6

\* The search ends with a full grid.
LEMMA FilledIsFull ==
  ASSUME GridsOK, SearchInv, NEW o \in Orders, Filled(o)
  PROVE  Complete(grid)
<1>1. grid \in Grid /\ trail \in Seq(Call) /\ Searching(grid, trail) /\ NoConflict(grid) /\ Returned
  BY DEF GridsOK, SearchInv, Filled
<1>2. Advance
  <2> SUFFICES ASSUME ~Advance PROVE FALSE
    OBVIOUS
  <2>1. Fits = {} /\ Len(trail) = 1 /\ grid[Inner.cell] = 0
    BY <1>1 DEF Returned, Advance
  <2>2. PICK k \in DOMAIN Inner.left : basic_check(grid, Inner.cell, Inner.left[k])
    BY <1>1, <2>1, OuterFits DEF Inner
  <2>3. k \in Fits
    BY <2>2 DEF Fits
  <2>4. QED BY <2>1, <2>3
<1>3. Ahead = {}
  BY <1>1, <1>2 DEF Returned
<1>4. Holes(grid) = {}
  <2> SUFFICES ASSUME NEW c \in Holes(grid) PROVE FALSE
    OBVIOUS
  <2>1. c \in Cell /\ grid[c] = 0 /\ ~(c \in Ahead)
    BY <1>3 DEF Holes
  <2>2. trail # <<>> /\ ~(c > Inner.cell)
    BY <2>1 DEF Ahead
  <2>3. Inner \in Call
    BY <1>1, <2>2 DEF Inner
  <2>4. Inner.cell \in Nat /\ c \in Nat /\ grid[Inner.cell] # 0
    BY <1>2, <2>1, <2>2, <2>3, NType DEF Call, Advance
  <2>5. c < Inner.cell
    BY <2>1, <2>2, <2>4
  <2>6. QED BY <1>1, <2>1, <2>2, <2>5 DEF Searching, Inner
<1>5. PICK s \in Grid : IsSolution(s)
  BY <1>1 DEF Searching, Extends
<1>6. QED BY <1>1, <1>4, <1>5, FullIsComplete

LEMMA SearchStep ==
  ASSUME DealsFill, ShufflesAreFull
  PROVE  GridsOK /\ TypeOK /\ SearchInv /\ [Next]_vars => SearchInv'
<1> SUFFICES ASSUME GridsOK, TypeOK, SearchInv, [Next]_vars PROVE SearchInv'
  OBVIOUS
<1>1. ASSUME NEW r \in Requests, Generate(r) PROVE SearchInv'
  <2>1. r # 0 /\ MaxPasses \in Nat /\ trail = <<>>
    BY <1>1, GeneratorAssumption DEF SearchInv, Generate
  <2>2. /\ pc' = "loop" /\ order' = <<>> /\ counter' = MaxPasses /\ stats'.hardness = 0
        /\ request' = r /\ trail' = trail
    BY <1>1 DEF Generate
  <2>3. QED BY <2>1, <2>2 DEF SearchInv
<1>2. ASSUME NEW deal \in Deals, Deal(deal) PROVE SearchInv'
  <2>1. Searching(grid, trail)'
    BY <1>2, DealSearch
  <2>2. QED BY <1>2, <2>1 DEF SearchInv, Deal
<1>3. ASSUME NEW nums \in Shuffles, Enter(nums) PROVE SearchInv'
  <2>1. Searching(grid, trail)'
    BY <1>3, EnterSearch
  <2>2. QED BY <1>3, <2>1 DEF SearchInv, Enter
<1>4. ASSUME NEW o \in Orders, Filled(o) PROVE SearchInv'
  <2>1. Complete(grid)
    BY <1>4, FilledIsFull
  <2>2. pc = "fill" /\ pc' = "dig" /\ solved' = grid /\ trail' = <<>> /\ request' = request
    BY <1>4 DEF Filled
  <2>3. QED BY <2>1, <2>2 DEF SearchInv
<1>5. CASE Place
  <2>1. Searching(grid, trail)'
    BY <1>5, PlaceSearch
  <2>2. QED BY <1>5, <2>1 DEF SearchInv, Place
<1>6. CASE Backtrack
  <2>1. Searching(grid, trail)'
    BY <1>6, BacktrackSearch
  <2>2. QED BY <1>6, <2>1 DEF SearchInv, Backtrack
<1>7. CASE Pass
  <2>1. pc = "dig" \/ (pc = "loop" /\ counter < MaxPasses)
    <3>1. counter \in Nat /\ MaxPasses \in Nat
      BY GeneratorAssumption DEF TypeOK
    <3>2. pc = "dig" \/ (pc = "loop" /\ counter + 1 <= MaxPasses)
      BY <1>7 DEF Pass
    <3>3. QED BY <3>1, <3>2
  <2>2. pc' = "loop" /\ solved' = solved /\ trail' = trail /\ request' = request
    BY <1>7 DEF Pass
  <2>3. QED BY <2>1, <2>2 DEF SearchInv
<1>8. CASE Deliver
  <2>1. pc = "loop" /\ stats.hardness # 0
    BY <1>8 DEF Deliver, Found, SearchInv
  <2>2. pc' = "ready" /\ UNCHANGED <<solved, trail, request>>
    BY <1>8 DEF Deliver
  <2>3. QED BY <2>1, <2>2 DEF SearchInv
<1>9. CASE Play
  BY <1>9 DEF SearchInv, Play
<1>10. CASE UNCHANGED vars
  BY <1>10 DEF SearchInv, vars
<1>11. QED BY <1>1, <1>2, <1>3, <1>4, <1>5, <1>6, <1>7, <1>8, <1>9, <1>10 DEF Next

LEMMA SearchAlwaysOK ==
  ASSUME DealsFill, ShufflesAreFull
  PROVE  Spec => []SearchInv
<1>1. Init => SearchInv
  BY DEF Init, SearchInv
<1>2. QED
  BY <1>1, SearchStep, GridsAlwaysOK, GeneratorTypes, PTL DEF Spec

\* If the diagonals that are dealt can be filled at all, fill_other_boxes fills
\* them: the grid that is dug is full, in whatever order the numbers are tried.
THEOREM GridIsFilled ==
  ASSUME DealsFill, ShufflesAreFull
  PROVE  Spec => []FullGridIsFull
<1>1. GridsOK /\ SearchInv => FullGridIsFull
  BY DEF GridsOK, SearchInv, FullGridIsFull
<1>2. QED
  BY <1>1, SearchAlwaysOK, GridsAlwaysOK, PTL

\* Then every hint is right, and there is one for as long as there is a hole.
THEOREM HintsHold ==
  ASSUME DealsFill, ShufflesAreFull
  PROVE  Spec => [](HintIsRight /\ HintIsThere)
<1>1. SearchInv => (pc = "ready" => Complete(solved))
  BY DEF SearchInv
<1>2. (Complete(solved) => HintIsRight) /\ (Complete(solved) => HintIsThere)
      /\ (pc = "ready" => Complete(solved)) => HintIsRight /\ HintIsThere
  BY DEF HintIsRight, HintIsThere
<1>3. QED
  BY <1>1, <1>2, SearchAlwaysOK, HintsAreRight, HintsAreThere, PTL

-----------------------------------------------------------------------------
(***************************************************************************)
(* OneSolution.  check_uniqueness goes through the holes in an order of    *)
(* its own and stops at two; what it counts is the number of ways to fill  *)
(* the holes without conflict, whatever the order.                         *)
(***************************************************************************)
Fillings(g) ==
  {s \in Grid : /\ Holes(s) = {} /\ Within(g, s)
                /\ \A c \in Holes(g) : \A d \in Seen[c] : d # c => s[d] # s[c]}

\* A count that stops at two.
Count(T) == IF T = {} THEN 0 ELSE IF \E x : T = {x} THEN 1 ELSE 2
Plus(k, m) == IF k + m > 2 THEN 2 ELSE k + m

LEMMA CountUnion ==
  ASSUME NEW S, NEW T, S \cap T = {}
  PROVE  Count(S) \in 0 .. 2 /\ Count(T) \in 0 .. 2 /\ Count(S \union T) = Plus(Count(S), Count(T))
<1>1. Count(S) \in 0 .. 2 /\ Count(T) \in 0 .. 2
  BY DEF Count
<1>2. CASE S = {}
  <2>1. S \union T = T /\ Count(S) = 0
    BY <1>2 DEF Count
  <2>2. QED BY <1>1, <2>1 DEF Plus
<1>3. CASE T = {}
  <2>1. S \union T = S /\ Count(T) = 0
    BY <1>3 DEF Count
  <2>2. QED BY <1>1, <2>1 DEF Plus
<1>4. CASE S # {} /\ T # {}
  <2>1. PICK x \in S : TRUE
    BY <1>4
  <2>2. PICK y \in T : TRUE
    BY <1>4
  <2>3. S \union T # {} /\ ~(\E z : S \union T = {z})
    BY <2>1, <2>2
  <2>4. Count(S \union T) = 2
    BY <2>3 DEF Count
  <2>5. Count(S) \in {1, 2} /\ Count(T) \in {1, 2}
    BY <1>4 DEF Count
  <2>6. QED BY <2>4, <2>5 DEF Plus
<1>5. QED BY <1>1, <1>2, <1>3, <1>4

LEMMA PlusFacts ==
  \A i, j, k \in 0 .. 2 :
    Plus(i, j) \in 0 .. 2 /\ Plus(i, 0) = i /\ Plus(Plus(i, j), k) = Plus(i, Plus(j, k))
BY DEF Plus

\* Induction over the subsets of a finite set.
LEMMA SubsetInduction ==
  ASSUME NEW S, IsFiniteSet(S), NEW P \in SUBSET SUBSET S, {} \in P,
         \A s \in SUBSET S : s # {} /\ (\A x \in s : s \ {x} \in P) => s \in P
  PROVE  S \in P
<1> DEFINE small(n) == {s \in SUBSET S : Cardinality(s) <= n}
           K == {n \in Nat : small(n) \subseteq P}
<1>1. ASSUME NEW s \in SUBSET S
      PROVE  IsFiniteSet(s) /\ Cardinality(s) \in Nat /\ (Cardinality(s) = 0 => s = {})
  BY FS_Subset, FS_CardinalityType, FS_EmptySet
<1>2. 0 \in K
  <2>1. ASSUME NEW s \in small(0) PROVE s \in P
    <3>1. s \in SUBSET S /\ Cardinality(s) <= 0
      OBVIOUS
    <3>2. Cardinality(s) = 0
      BY <1>1, <3>1
    <3>3. QED BY <1>1, <3>1, <3>2
  <2> HIDE DEF small
  <2>2. QED BY <2>1
<1>3. ASSUME NEW n \in K PROVE n + 1 \in K
  <2>1. n \in Nat /\ small(n) \subseteq P
    OBVIOUS
  <2>2. ASSUME NEW s \in small(n + 1) PROVE s \in P
    <3>1. s \in SUBSET S /\ Cardinality(s) <= n + 1 /\ IsFiniteSet(s) /\ Cardinality(s) \in Nat
      BY <1>1
    <3>2. ASSUME NEW x \in s PROVE s \ {x} \in P
      <4>1. Cardinality(s \ {x}) = Cardinality(s) - 1
        BY <3>1, FS_RemoveElement
      <4>2. Cardinality(s \ {x}) <= n
        BY <2>1, <3>1, <4>1
      <4>3. QED BY <2>1, <3>1, <4>2
    <3>3. QED BY <3>1, <3>2
  <2> HIDE DEF small
  <2>3. small(n + 1) \subseteq P
    BY <2>2
  <2>4. QED BY <2>1, <2>3
<1> HIDE DEF K
<1>4. K = Nat
  <2>1. K \in SUBSET Nat
    BY DEF K
  <2>2. QED BY <1>2, <1>3, <2>1, NatSetInduction
<1>5. Cardinality(S) \in K
  BY <1>4, FS_CardinalityType
<1>6. S \in small(Cardinality(S))
  BY <1>1
<1> HIDE DEF small
<1>7. QED BY <1>5, <1>6 DEF K

All(A, s) == UNION {A[n] : n \in s}

\* The loop of check_uniqueness over the candidates S of a cell, which adds up
\* what the calls find.
FoldOf(f, g, c, found, S) == FoldSet(LAMBDA num, count : f[Put(g, c, num)][count], found, S)

LEMMA FoldAddsUp ==
  ASSUME NEW f, NEW g, NEW c, NEW S, IsFiniteSet(S), NEW found \in 0 .. 2, NEW A,
         \A n, m \in S : n # m => A[n] \cap A[m] = {},
         \A n \in S : \A k \in 0 .. 2 : f[Put(g, c, n)][k] = Plus(k, Count(A[n]))
  PROVE  FoldOf(f, g, c, found, S) = Plus(found, Count(All(A, S)))
<1> DEFINE body(it, s) == IF s = {} THEN found
                          ELSE f[Put(g, c, CHOOSE x \in s : TRUE)][it[s \ {CHOOSE x \in s : TRUE}]]
           iter == CHOOSE it : it = [s \in SUBSET S |-> body(it, s)]
           sum == [s \in SUBSET S |-> Plus(found, Count(All(A, s)))]
<1>1. FoldOf(f, g, c, found, S) = iter[S]
  BY DEF FoldOf, FoldSet, MapThenFoldSet
<1>0. \A s \in SUBSET S : sum[s] = Plus(found, Count(All(A, s)))
  OBVIOUS
<1> HIDE DEF sum
<1>2. ASSUME NEW s \in SUBSET S PROVE sum[s] = body(sum, s)
  <2>1. CASE s = {}
    <3>1. All(A, s) = {}
      BY <2>1 DEF All
    <3>2. Count(All(A, s)) = 0
      BY <3>1 DEF Count
    <3>3. sum[s] = found
      <4>1. sum[s] = Plus(found, 0)
        BY <1>0, <3>2
      <4>2. found \in 0 .. 2
        OBVIOUS
      <4>3. Plus(found, 0) = found
        BY ONLY <4>2 DEF Plus
      <4>4. QED BY <4>1, <4>3
    <3>4. QED BY <2>1, <3>3
  <2>2. CASE s # {}
    <3> DEFINE x == CHOOSE y \in s : TRUE
               r == s \ {x}
    <3>1. x \in s /\ x \in S /\ r \in SUBSET S
      BY <2>2
    <3> HIDE DEF x
    <3>2. All(A, s) = All(A, r) \union A[x] /\ All(A, r) \cap A[x] = {}
      <4>1. s = r \union {x} /\ \A n \in r : n \in S /\ n # x
        BY <3>1
      <4>2. \A n \in r : A[n] \cap A[x] = {}
        BY <3>1, <4>1
      <4> HIDE DEF r, x
      <4>3. All(A, s) = All(A, r) \union A[x]
        BY <4>1 DEF All
      <4>4. All(A, r) \cap A[x] = {}
        BY <4>2 DEF All
      <4>5. QED BY <4>3, <4>4
    <3> HIDE DEF r
    <3>3. /\ Count(All(A, r)) \in 0 .. 2 /\ Count(A[x]) \in 0 .. 2
          /\ Count(All(A, s)) = Plus(Count(All(A, r)), Count(A[x]))
      BY <3>2, CountUnion
    <3>4. sum[r] = Plus(found, Count(All(A, r))) /\ sum[r] \in 0 .. 2
      BY <1>0, <3>1, <3>3, PlusFacts
    <3>5. f[Put(g, c, x)][sum[r]] = Plus(sum[r], Count(A[x]))
      BY <3>1, <3>4
    <3>6. f[Put(g, c, x)][sum[r]] = sum[s]
      <4>1. f[Put(g, c, x)][sum[r]] = Plus(Plus(found, Count(All(A, r))), Count(A[x]))
        BY <3>4, <3>5
      <4>2. Plus(Plus(found, Count(All(A, r))), Count(A[x])) = Plus(found, Plus(Count(All(A, r)), Count(A[x])))
        <5>1. found \in 0 .. 2
          OBVIOUS
        <5>2. QED BY ONLY <3>3, <5>1, PlusFacts
      <4>3. sum[s] = Plus(found, Count(All(A, s)))
        BY <1>0
      <4>4. QED BY <3>3, <4>1, <4>2, <4>3
    <3>7. QED BY <2>2, <3>6 DEF x, r
  <2>3. QED BY <2>1, <2>2
<1>3. iter = [s \in SUBSET S |-> body(iter, s)]
  <2> HIDE DEF body
  <2>1. sum = [s \in SUBSET S |-> body(sum, s)]
    BY <1>2 DEF sum
  <2>2. QED BY <2>1
<1> HIDE DEF iter
<1> DEFINE P == {s \in SUBSET S : iter[s] = sum[s]}
<1>4. {} \in P
  BY <1>2, <1>3
<1>5. ASSUME NEW s \in SUBSET S, s # {}, \A x \in s : s \ {x} \in P PROVE s \in P
  <2> DEFINE x == CHOOSE y \in s : TRUE
             r == s \ {x}
  <2>1. x \in s
    BY <1>5
  <2> HIDE DEF x
  <2>2. iter[r] = sum[r]
    BY <1>5, <2>1
  <2> HIDE DEF r, P
  <2>3. iter[s] = f[Put(g, c, x)][iter[r]]
    BY <1>3, <1>5 DEF x, r
  <2>4. sum[s] = f[Put(g, c, x)][sum[r]]
    BY <1>2, <1>5 DEF x, r
  <2>5. QED BY <2>2, <2>3, <2>4 DEF P
<1> HIDE DEF P
<1>6. S \in P
  <2>1. P \in SUBSET SUBSET S
    BY DEF P
  <2>2. QED BY <1>4, <1>5, <2>1, SubsetInduction
<1>11. iter[S] = sum[S]
  BY <1>6 DEF P
<1>12. sum[S] = Plus(found, Count(All(A, S)))
  BY DEF sum
<1>13. QED BY <1>1, <1>11, <1>12

\* find_best_empty_location finds a hole.
LEMMA BestIsHole ==
  ASSUME NEW g \in Grid, Holes(g) # {}
  PROVE  find_best_empty_location(g) \in Holes(g)
<1> DEFINE size == [c \in Holes(g) |->
                      IF Candidates(g, c) = {} THEN 1 ELSE Cardinality(Candidates(g, c))]
           sizes == {size[c] : c \in Holes(g)}
           m == Least(sizes)
           best == {c \in Holes(g) : size[c] = m}
           b == Least(best)
<1>1. \A c \in Holes(g) : size[c] \in Nat /\ c \in Nat
  <2> SUFFICES ASSUME NEW c \in Holes(g) PROVE Cardinality(Candidates(g, c)) \in Nat /\ c \in Nat
    OBVIOUS
  <2>1. QED BY CandidatesFinite, FS_CardinalityType, NType DEF Holes
<1> HIDE DEF size
<1>2. sizes \in SUBSET Nat /\ sizes # {}
  BY <1>1
<1>3. m \in sizes /\ \A x \in sizes : m <= x
  BY <1>2, LeastIsIn, LeastIsLeast
<1> HIDE DEF m
<1>4. best \in SUBSET Nat /\ best # {}
  BY <1>1, <1>3
<1>5. b \in best /\ \A x \in best : b <= x
  BY <1>4, LeastIsIn, LeastIsLeast
<1> HIDE DEF b
<1>6. b \in Holes(g) /\ size[b] = m
  BY <1>5
<1>7. ASSUME NEW d \in Holes(g) PROVE size[b] < size[d] \/ (size[b] = size[d] /\ b <= d)
  <2>1. size[d] \in Nat /\ m \in Nat /\ m <= size[d]
    BY <1>1, <1>2, <1>3
  <2>2. CASE size[d] = m
    BY <1>5, <1>6, <2>2
  <2>3. CASE size[d] # m
    BY <1>6, <2>1, <2>3
  <2>4. QED BY <2>2, <2>3
<1>8. \E c \in Holes(g) : \A d \in Holes(g) : size[c] < size[d] \/ (size[c] = size[d] /\ c <= d)
  BY <1>6, <1>7
<1>9. find_best_empty_location(g)
        = CHOOSE c \in Holes(g) : \A d \in Holes(g) : size[c] < size[d] \/ (size[c] = size[d] /\ c <= d)
  BY DEF find_best_empty_location, size
<1>10. QED BY <1>8, <1>9

\* A cell is seen by the cells that it sees.
LEMMA SeenBoth == \A c \in Cell : \A d \in Seen[c] : d \in Cell /\ c \in Seen[d]
BY SeenIsMutual

\* The fillings of a grid are those with one of the candidates in any hole.
LEMMA FillingsBranch ==
  ASSUME NEW g \in Grid, NEW c \in Holes(g)
  PROVE  /\ Fillings(g) = UNION {Fillings(Put(g, c, n)) : n \in Candidates(g, c)}
         /\ \A n \in Number : \A s \in Fillings(Put(g, c, n)) : s[c] = n
<1>1. c \in Cell /\ g[c] = 0
  BY DEF Holes
<1>2. ASSUME NEW n \in Number
      PROVE  /\ Put(g, c, n) \in Grid /\ Holes(Put(g, c, n)) = Holes(g) \ {c}
             /\ Put(g, c, n)[c] = n /\ n # 0 /\ \A d \in Cell \ {c} : Put(g, c, n)[d] = g[d]
  <2>1. Put(g, c, n) \in Grid /\ Holes(Put(g, c, n)) = Holes(g) \ {c}
    BY PutShrinks
  <2>2. n # 0
    BY NType DEF Number
  <2>3. Put(g, c, n)[c] = n /\ \A d \in Cell \ {c} : Put(g, c, n)[d] = g[d]
    BY <1>1 DEF Put, Grid
  <2>4. QED BY <2>1, <2>2, <2>3
<1>3. ASSUME NEW n \in Number, NEW s \in Fillings(Put(g, c, n)) PROVE s[c] = n
  BY <1>1, <1>2, <1>3 DEF Fillings, Within
<1>4. ASSUME NEW s \in Fillings(g) PROVE s[c] \in Candidates(g, c) /\ s \in Fillings(Put(g, c, s[c]))
  <2>1. s \in Grid /\ Holes(s) = {} /\ Within(g, s) /\ \A e \in Holes(g) : \A d \in Seen[e] : d # e => s[d] # s[e]
    BY DEF Fillings
  <2>2. s[c] \in Number
    <3>1. s[c] \in 0 .. N /\ s[c] # 0
      BY <1>1, <2>1 DEF Grid, Holes
    <3>2. QED BY <3>1, NType DEF Number
  <2>3. ASSUME NEW d \in Seen[c], g[d] = s[c] PROVE FALSE
    <3>1. d \in Cell /\ g[d] # 0 /\ d # c
      BY <1>1, <1>2, <2>2, <2>3, SeenBoth
    <3>2. s[d] = g[d]
      BY <2>1, <3>1 DEF Within
    <3>3. QED BY <2>1, <2>3, <3>1, <3>2
  <2>4. s[c] \in Candidates(g, c)
    BY <2>2, <2>3 DEF Candidates
  <2>5. Within(Put(g, c, s[c]), s)
    BY <1>2, <2>1, <2>2 DEF Within
  <2>6. s \in Fillings(Put(g, c, s[c]))
    BY <1>2, <2>1, <2>2, <2>5 DEF Fillings
  <2>7. QED BY <2>4, <2>6
<1>5. ASSUME NEW n \in Candidates(g, c), NEW s \in Fillings(Put(g, c, n)) PROVE s \in Fillings(g)
  <2>1. n \in Number /\ \A d \in Seen[c] : g[d] # n
    BY DEF Candidates
  <2>2. s \in Grid /\ Holes(s) = {} /\ Within(Put(g, c, n), s) /\ s[c] = n
    BY <1>3, <2>1 DEF Fillings
  <2>3. Within(g, s)
    BY <1>1, <1>2, <2>1, <2>2 DEF Within
  <2>4. ASSUME NEW e \in Holes(g), NEW d \in Seen[e], d # e PROVE s[d] # s[e]
    <3>1. e \in Cell /\ d \in Cell /\ e \in Seen[d]
      BY SeenBoth DEF Holes
    <3>2. CASE e # c
      BY <1>2, <2>1, <2>4, <3>2 DEF Fillings
    <3>3. CASE e = c /\ g[d] = 0
      <4>1. d \in Holes(Put(g, c, n))
        BY <1>2, <2>1, <2>4, <3>1, <3>3 DEF Holes
      <4>2. QED BY <2>4, <3>1, <4>1 DEF Fillings
    <3>4. CASE e = c /\ g[d] # 0
      <4>1. s[d] = g[d]
        BY <2>3, <3>1, <3>4 DEF Within
      <4>2. QED BY <2>1, <2>2, <3>4, <4>1
    <3>5. QED BY <3>2, <3>3, <3>4
  <2>5. QED BY <2>2, <2>3, <2>4 DEF Fillings
<1>6. QED BY <1>3, <1>4, <1>5

LEMMA FillingsOfFull == ASSUME NEW g \in Grid, Holes(g) = {} PROVE Fillings(g) = {g}
<1>1. ASSUME NEW s \in Fillings(g) PROVE s = g
  <2>1. s \in Grid /\ \A c \in Cell : g[c] # 0 /\ s[c] = g[c]
    BY DEF Fillings, Within, Holes
  <2>2. QED BY <2>1 DEF Grid
<1>2. g \in Fillings(g)
  BY DEF Fillings, Within
<1>3. QED BY <1>1, <1>2

\* Solutions goes through them in the order of find_best_empty_location.
SolutionsFrom(f, g) ==
  IF Holes(g) = {} THEN {g}
  ELSE LET c == find_best_empty_location(g)
       IN  UNION {f[Put(g, c, num)] : num \in Candidates(g, c)}

LEMMA SolutionsDef ==
  ASSUME NEW g \in Grid
  PROVE  Solutions[g] = SolutionsFrom(Solutions, g)
<1> DEFINE w == [x \in Grid |-> Fillings(x)]
<1>1. ASSUME NEW x \in Grid PROVE SolutionsFrom(w, x) = Fillings(x)
  <2>1. CASE Holes(x) = {}
    BY <2>1, FillingsOfFull DEF SolutionsFrom
  <2>2. CASE Holes(x) # {}
    <3> DEFINE c == find_best_empty_location(x)
    <3>1. c \in Holes(x)
      BY <2>2, BestIsHole
    <3>2. SolutionsFrom(w, x) = UNION {w[Put(x, c, num)] : num \in Candidates(x, c)}
      BY <2>2 DEF SolutionsFrom
    <3> HIDE DEF c
    <3>3. \A num \in Candidates(x, c) : w[Put(x, c, num)] = Fillings(Put(x, c, num))
      BY <3>1, CandidatesFinite, PutShrinks
    <3> HIDE DEF w
    <3>4. SolutionsFrom(w, x) = UNION {Fillings(Put(x, c, num)) : num \in Candidates(x, c)}
      BY <3>2, <3>3
    <3>5. QED BY <3>1, <3>4, FillingsBranch
  <2>3. QED BY <2>1, <2>2
<1>2. w = [x \in Grid |-> SolutionsFrom(w, x)]
  BY <1>1
<1>3. Solutions = CHOOSE f : f = [x \in Grid |-> SolutionsFrom(f, x)]
  BY DEF Solutions, SolutionsFrom
<1> HIDE DEF w
<1>4. Solutions = [x \in Grid |-> SolutionsFrom(Solutions, x)]
  BY <1>2, <1>3
<1>5. QED BY <1>4

\* What is shown of full grids, and of a grid from those with a hole less, holds.
LEMMA GridInduction ==
  ASSUME NEW P \in SUBSET Grid, \A g \in Grid : Holes(g) = {} => g \in P,
         \A g \in Grid : Holes(g) # {} /\ (\A c \in Holes(g), n \in Number : Put(g, c, n) \in P) => g \in P
  PROVE  P = Grid
<1> DEFINE K == {n \in Nat : Upto(n) \subseteq P}
<1>1. 0 \in K
  BY SizeType DEF Upto
<1>2. ASSUME NEW n \in K PROVE n + 1 \in K
  <2>1. n \in Nat /\ Upto(n) \subseteq P
    OBVIOUS
  <2>2. ASSUME NEW g \in Upto(n + 1) PROVE g \in P
    <3>1. g \in Grid /\ Size(g) \in Nat /\ Size(g) < n + 1
      BY SizeType DEF Upto
    <3>2. ASSUME NEW c \in Holes(g), NEW m \in Number PROVE Put(g, c, m) \in P
      <4>1. Put(g, c, m) \in Grid /\ Size(Put(g, c, m)) < n
        BY <2>1, <3>1, PutShrinks
      <4>2. QED BY <2>1, <4>1 DEF Upto
    <3>3. QED BY <3>1, <3>2
  <2>3. QED BY <2>1, <2>2
<1> HIDE DEF K
<1>3. K = Nat
  <2>1. K \in SUBSET Nat
    BY DEF K
  <2>2. QED BY <1>1, <1>2, <2>1, NatSetInduction
<1>4. Upto(N * N + 1) = Grid
  BY NType, SizeType DEF Upto
<1>5. N * N + 1 \in K
  BY <1>3, NType
<1>6. QED BY <1>4, <1>5 DEF K

LEMMA SolutionsAreFillings == ASSUME NEW g \in Grid PROVE Solutions[g] = Fillings(g)
<1> DEFINE P == {x \in Grid : Solutions[x] = Fillings(x)}
<1>1. ASSUME NEW x \in Grid, Holes(x) = {} PROVE x \in P
  BY <1>1, SolutionsDef, FillingsOfFull DEF SolutionsFrom
<1>2. ASSUME NEW x \in Grid, Holes(x) # {}, \A c \in Holes(x), n \in Number : Put(x, c, n) \in P
      PROVE  x \in P
  <2> DEFINE c == find_best_empty_location(x)
  <2>1. c \in Holes(x)
    BY <1>2, BestIsHole
  <2>2. Solutions[x] = UNION {Solutions[Put(x, c, num)] : num \in Candidates(x, c)}
    BY <1>2, SolutionsDef DEF SolutionsFrom
  <2> HIDE DEF c
  <2>3. \A num \in Candidates(x, c) : Solutions[Put(x, c, num)] = Fillings(Put(x, c, num))
    BY <1>2, <2>1, CandidatesFinite
  <2>4. Solutions[x] = UNION {Fillings(Put(x, c, num)) : num \in Candidates(x, c)}
    BY <2>2, <2>3
  <2>5. QED BY <2>1, <2>4, FillingsBranch
<1>3. P \in SUBSET Grid
  OBVIOUS
<1> HIDE DEF P
<1>4. P = Grid
  BY <1>1, <1>2, <1>3, GridInduction
<1>5. QED BY <1>4 DEF P

\* check_uniqueness counts them.
CheckFrom(f, g) == [found \in 0 .. 2 |->
  IF found > 1 THEN found
  ELSE IF Holes(g) = {} THEN found + 1
  ELSE LET c == find_best_empty_location(g)
       IN  FoldOf(f, g, c, found, Candidates(g, c))]

Counted(g) == [found \in 0 .. 2 |-> Plus(found, Count(Fillings(g)))]

LEMMA CheckOfFull == ASSUME NEW f, NEW g \in Grid, Holes(g) = {} PROVE CheckFrom(f, g) = Counted(g)
<1>1. Fillings(g) = {g}
  BY FillingsOfFull
<1>2. Count({g}) = 1
  BY DEF Count
<1>3. \A found \in 0 .. 2 : Plus(found, 1) = IF found > 1 THEN found ELSE found + 1
  BY DEF Plus
<1>4. QED BY <1>1, <1>2, <1>3 DEF CheckFrom, Counted

LEMMA CheckBranch ==
  ASSUME NEW f, NEW g \in Grid, Holes(g) # {},
         \A c \in Holes(g), n \in Number : f[Put(g, c, n)] = Counted(Put(g, c, n))
  PROVE  CheckFrom(f, g) = Counted(g)
<1> DEFINE c == find_best_empty_location(g)
           S == Candidates(g, c)
           A == [n \in S |-> Fillings(Put(g, c, n))]
<1>1. c \in Holes(g)
  BY BestIsHole
<1>2. IsFiniteSet(S) /\ S \subseteq Number
  BY CandidatesFinite
<1> SUFFICES ASSUME NEW found \in 0 .. 2 PROVE CheckFrom(f, g)[found] = Counted(g)[found]
  BY DEF CheckFrom, Counted
<1>3. CASE found > 1
  <2>1. found = 2 /\ Count(Fillings(g)) \in 0 .. 2
    BY <1>3 DEF Count
  <2>2. Plus(found, Count(Fillings(g))) = 2
    BY <2>1 DEF Plus
  <2>3. QED BY <1>3, <2>1, <2>2 DEF CheckFrom, Counted
<1>4. CASE ~(found > 1)
  <2>1. CheckFrom(f, g)[found] = FoldOf(f, g, c, found, S)
    BY <1>4 DEF CheckFrom
  <2> HIDE DEF c, S
  <2>2. \A n, m \in S : n # m => A[n] \cap A[m] = {}
    BY <1>1, <1>2, FillingsBranch
  <2>3. \A n \in S : \A k \in 0 .. 2 : f[Put(g, c, n)][k] = Plus(k, Count(A[n]))
    <3> SUFFICES ASSUME NEW n \in S, NEW k \in 0 .. 2 PROVE f[Put(g, c, n)][k] = Plus(k, Count(A[n]))
      OBVIOUS
    <3>1. f[Put(g, c, n)] = Counted(Put(g, c, n)) /\ A[n] = Fillings(Put(g, c, n))
      BY <1>1, <1>2
    <3> HIDE DEF A
    <3>2. QED BY <3>1 DEF Counted
  <2>4. All(A, S) = Fillings(g)
    BY <1>1, FillingsBranch DEF All, S
  <2> HIDE DEF A
  <2>5. FoldOf(f, g, c, found, S) = Plus(found, Count(All(A, S)))
    BY <1>2, <2>2, <2>3, FoldAddsUp
  <2>6. QED BY <2>1, <2>4, <2>5 DEF Counted
<1>5. QED BY <1>3, <1>4

LEMMA CheckCounts == ASSUME NEW g \in Grid PROVE check_uniqueness[g] = Counted(g)
<1> DEFINE w == [x \in Grid |-> Counted(x)]
<1>1. ASSUME NEW x \in Grid PROVE CheckFrom(w, x) = Counted(x)
  <2>1. \A c \in Holes(x), n \in Number : Holes(x) # {} => w[Put(x, c, n)] = Counted(Put(x, c, n))
    BY PutShrinks
  <2> HIDE DEF w
  <2>2. QED BY <2>1, CheckOfFull, CheckBranch
<1>2. w = [x \in Grid |-> CheckFrom(w, x)]
  BY <1>1
<1>3. check_uniqueness = CHOOSE f : f = [x \in Grid |-> CheckFrom(f, x)]
  BY DEF check_uniqueness, CheckFrom, FoldOf
<1> HIDE DEF w
<1>4. check_uniqueness = [x \in Grid |-> CheckFrom(check_uniqueness, x)]
  BY <1>2, <1>3
<1> DEFINE P == {x \in Grid : check_uniqueness[x] = Counted(x)}
<1>5. ASSUME NEW x \in Grid, Holes(x) = {} PROVE x \in P
  BY <1>4, <1>5, CheckOfFull
<1>6. ASSUME NEW x \in Grid, Holes(x) # {}, \A c \in Holes(x), n \in Number : Put(x, c, n) \in P
      PROVE  x \in P
  <2>1. \A c \in Holes(x), n \in Number : check_uniqueness[Put(x, c, n)] = Counted(Put(x, c, n))
    BY <1>6
  <2>2. CheckFrom(check_uniqueness, x) = Counted(x)
    BY <1>6, <2>1, CheckBranch
  <2>3. QED BY <1>4, <2>2
<1>7. P \in SUBSET Grid
  OBVIOUS
<1> HIDE DEF P
<1>8. P = Grid
  BY <1>5, <1>6, <1>7, GridInduction
<1>9. QED BY <1>8 DEF P

\* The test of game_generator: check_uniqueness, which goes through the cells
\* with the fewest candidates first and gives up at two, counts one solution
\* exactly if there is one.
THEOREM UniquenessIsExact ==
  \A g \in Grid : check_uniqueness[g][0] = 1 <=> \E s \in Grid : Solutions[g] = {s}
<1> SUFFICES ASSUME NEW g \in Grid
             PROVE  check_uniqueness[g][0] = 1 <=> \E s \in Grid : Solutions[g] = {s}
  OBVIOUS
<1>1. check_uniqueness[g][0] = Plus(0, Count(Fillings(g)))
  <2>1. check_uniqueness[g] = Counted(g) /\ 0 \in 0 .. 2
    BY CheckCounts
  <2>2. QED BY <2>1 DEF Counted
<1>2. Plus(0, Count(Fillings(g))) = 1 <=> \E s : Fillings(g) = {s}
  <2>1. Count(Fillings(g)) \in 0 .. 2
    BY CountUnion, Fillings(g) \cap {} = {}
  <2>2. Plus(0, Count(Fillings(g))) = Count(Fillings(g))
    BY <2>1 DEF Plus
  <2>3. Count(Fillings(g)) = 1 <=> \E s : Fillings(g) = {s}
    BY DEF Count
  <2>4. QED BY <2>2, <2>3
<1>3. \A s : Fillings(g) = {s} => s \in Grid
  BY DEF Fillings
<1>4. (\E s : Fillings(g) = {s}) <=> \E s \in Grid : Fillings(g) = {s}
  BY <1>3
<1>5. QED BY <1>1, <1>2, <1>4, SolutionsAreFillings

LEMMA SolutionIsFilling ==
  ASSUME NEW g \in Grid, NEW s \in Grid, Complete(s), NoConflict(s), Within(g, s)
  PROVE  s \in Fillings(g)
<1>1. ASSUME NEW c \in Holes(g), NEW d \in Seen[c], d # c PROVE s[d] # s[c]
  <2>1. c \in Cell /\ d \in Cell /\ s[c] # 0
    BY SeenBoth DEF Holes, Complete
  <2>2. QED BY <1>1, <2>1 DEF NoConflict
<1>2. QED BY <1>1 DEF Fillings, Complete

\* A grid that is not put back has the solution it was dug from and no other.
LEMMA CountedOnce ==
  ASSUME NEW g \in Grid, NEW s \in Fillings(g), check_uniqueness[g][0] = 1
  PROVE  Fillings(g) = {s}
<1>1. Plus(0, Count(Fillings(g))) = 1
  <2>1. check_uniqueness[g] = Counted(g) /\ 0 \in 0 .. 2
    BY CheckCounts
  <2>2. Counted(g)[0] = Plus(0, Count(Fillings(g)))
    BY <2>1 DEF Counted
  <2>3. QED BY <2>1, <2>2
<1>2. Count(Fillings(g)) \in 0 .. 2
  BY DEF Count
<1>3. Count(Fillings(g)) = 1
  BY <1>1, <1>2 DEF Plus
<1>4. PICK x : Fillings(g) = {x}
  BY <1>3 DEF Count
<1>5. QED BY <1>4

OneInv ==
  /\ pc = "dig" => grid = solved
  /\ pc \in {"loop", "ready"} /\ order # <<>> => Fillings(grid) = {solved}

LEMMA PassOne ==
  ASSUME GridsOK, GridsOK', TypeOK, SearchInv, OneInv, Pass
  PROVE  OneInv'
<1> DEFINE dug == Put(grid, order[(iterator % (N * N)) + 1], 0)
<1>1. /\ pc \in {"dig", "loop"} /\ pc' = "loop" /\ order' = order /\ solved' = solved
      /\ (grid' = grid \/ (grid' = dug /\ check_uniqueness[dug][0] = 1))
  BY DEF Pass, Rejected
<1>2. Complete(solved)
  <2>1. counter \in Nat /\ MaxPasses \in Nat
    BY GeneratorAssumption DEF TypeOK
  <2>2. pc = "dig" \/ (pc = "loop" /\ counter + 1 <= MaxPasses)
    BY DEF Pass
  <2>3. QED BY <2>1, <2>2 DEF SearchInv
<1>3. solved \in Grid /\ NoConflict(solved) /\ grid' \in Grid /\ Within(grid', solved)
  BY <1>1 DEF GridsOK
<1>4. solved \in Fillings(grid')
  BY <1>2, <1>3, SolutionIsFilling
<1> HIDE DEF dug
<1>5. CASE grid' = dug /\ check_uniqueness[dug][0] = 1
  <2>1. Fillings(grid') = {solved}
    BY <1>3, <1>4, <1>5, CountedOnce
  <2>2. QED BY <1>1, <2>1 DEF OneInv
<1>6. CASE grid' = grid /\ pc = "dig"
  <2>1. grid' = solved /\ Holes(solved) = {}
    BY <1>2, <1>6 DEF OneInv, Complete
  <2>2. Fillings(grid') = {solved}
    BY <1>3, <2>1, FillingsOfFull
  <2>3. QED BY <1>1, <2>2 DEF OneInv
<1>7. CASE grid' = grid /\ pc = "loop"
  BY <1>1, <1>7 DEF OneInv
<1>8. QED BY <1>1, <1>5, <1>6, <1>7

LEMMA PlayOne ==
  ASSUME GridsOK, GridsOK', SearchInv, OneInv, Play
  PROVE  OneInv'
<1>1. PICK c : grid[c] = 0 /\ grid' = Put(grid, c, solved[c]) /\ c \in OwnCells \union {hint[1] : hint \in Hint(grid)}
  BY DEF Play
<1>2. pc = "ready" /\ pc' = "ready" /\ order' = order /\ solved' = solved
  BY DEF Play
<1>3. c \in Cell /\ c \in Holes(grid)
  BY <1>1, GeneratorAssumption DEF Hint, Holes
<1>4. Complete(solved) /\ solved \in Grid /\ NoConflict(solved) /\ grid \in Grid /\ Within(grid, solved)
  BY <1>2 DEF SearchInv, GridsOK
<1>5. solved \in Fillings(grid')
  BY <1>2, <1>4, SolutionIsFilling DEF GridsOK
<1>6. solved[c] \in Candidates(grid, c)
  BY <1>1, <1>3, <1>4, SolutionIsCandidate
<1>7. Fillings(grid') \subseteq Fillings(grid)
  BY <1>1, <1>3, <1>4, <1>6, FillingsBranch
<1>8. QED BY <1>2, <1>5, <1>7 DEF OneInv

LEMMA OneStep ==
  ASSUME GridsOK, GridsOK', TypeOK, SearchInv, OneInv, [Next]_vars
  PROVE  OneInv'
<1>1. CASE \E r \in Requests : Generate(r)
  BY <1>1 DEF OneInv, Generate
<1>2. CASE \E deal \in Deals : Deal(deal)
  BY <1>2 DEF OneInv, Deal
<1>3. CASE (\E nums \in Shuffles : Enter(nums)) \/ Place \/ Backtrack
  BY <1>3 DEF OneInv, Enter, Place, Backtrack
<1>4. CASE \E o \in Orders : Filled(o)
  BY <1>4 DEF OneInv, Filled
<1>5. CASE Pass
  BY <1>5, PassOne
<1>6. CASE Deliver
  BY <1>6 DEF OneInv, Deliver, Found
<1>7. CASE Play
  BY <1>7, PlayOne
<1>8. CASE UNCHANGED vars
  BY <1>8 DEF OneInv, vars
<1>9. QED BY <1>1, <1>2, <1>3, <1>4, <1>5, <1>6, <1>7, <1>8 DEF Next

\* A grid that is dug, delivered and played has the solution that goes with it
\* and no other, in whatever order its cells are dug and the player fills them.
THEOREM NoOtherSolution ==
  ASSUME DealsFill, ShufflesAreFull
  PROVE  Spec => []OneSolution
<1>1. Init => OneInv
  BY DEF Init, OneInv
<1>2. GridsOK /\ OneInv => OneSolution
  BY SolutionsAreFillings DEF GridsOK, OneInv, OneSolution
<1>3. QED
  BY <1>1, <1>2, OneStep, SearchAlwaysOK, GridsAlwaysOK, GeneratorTypes, PTL DEF Spec

-----------------------------------------------------------------------------
(***************************************************************************)
(* AsHardAsAsked.  solve_with_logic fills in one single after another, the *)
(* closures all of them at once.  Both end at the same board: the least    *)
(* one above the grid that has no single left.                             *)
(***************************************************************************)
NakedStep(g) == [c \in Cell |-> IF c \in Naked(g) THEN CHOOSE n \in Candidates(g, c) : TRUE ELSE g[c]]

Forced(g, c) == {n \in Candidates(g, c) : \/ Candidates(g, c) = {n}
                                          \/ \E h \in Houses : Places(g, h, n) = {c}}
SingleStep(g) == [c \in Cell |-> IF g[c] = 0 /\ Forced(g, c) # {} THEN CHOOSE n \in Forced(g, c) : TRUE
                                 ELSE g[c]]

\* Filling in more leaves fewer holes.
LEMMA FillingShrinks ==
  ASSUME NEW x \in Grid, NEW y \in Grid, Within(x, y), y # x
  PROVE  Size(y) < Size(x)
<1>1. PICK c \in Cell : x[c] # y[c]
  BY DEF Grid
<1>2. c \in Holes(x) /\ ~(c \in Holes(y)) /\ Holes(y) \subseteq Holes(x)
  BY <1>1 DEF Within, Holes
<1>3. Holes(y) \subseteq Holes(x) \ {c}
  BY <1>2
<1>4. IsFiniteSet(Holes(x)) /\ Cardinality(Holes(x) \ {c}) = Cardinality(Holes(x)) - 1 /\ IsFiniteSet(Holes(x) \ {c})
  BY <1>2, SizeType, FS_RemoveElement
<1>5. Cardinality(Holes(y)) <= Cardinality(Holes(x) \ {c})
  BY <1>3, <1>4, FS_Subset
<1>6. QED BY <1>4, <1>5, SizeType DEF Size

LEMMA NakedStepFacts ==
  ASSUME NEW g \in Grid
  PROVE  /\ NakedStep(g) \in Grid /\ Within(g, NakedStep(g))
         /\ Naked(g) = {} <=> NakedStep(g) = g
<1>1. ASSUME NEW c \in Naked(g)
      PROVE  c \in Cell /\ g[c] = 0 /\ (CHOOSE n \in Candidates(g, c) : TRUE) \in Number
  <2>1. c \in Cell /\ g[c] = 0 /\ Cardinality(Candidates(g, c)) = 1
    BY DEF Naked, Holes
  <2>2. Candidates(g, c) # {}
    BY <2>1, FS_EmptySet
  <2>3. (CHOOSE n \in Candidates(g, c) : TRUE) \in Candidates(g, c)
    BY <2>2
  <2>4. QED BY <2>1, <2>3, CandidatesFinite
<1>2. NakedStep(g) \in Grid
  <2> SUFFICES ASSUME NEW c \in Cell PROVE NakedStep(g)[c] \in 0 .. N
    BY DEF NakedStep, Grid
  <2>1. QED BY <1>1, NumberOfGrid DEF NakedStep, Grid
<1>3. Within(g, NakedStep(g))
  BY <1>1 DEF Within, NakedStep
<1>4. ASSUME NEW c \in Naked(g) PROVE NakedStep(g) # g
  <2>1. NakedStep(g)[c] \in Number /\ g[c] = 0
    BY <1>1 DEF NakedStep
  <2>2. QED BY <2>1, NType DEF Number
<1>5. ASSUME Naked(g) = {} PROVE NakedStep(g) = g
  BY <1>5 DEF NakedStep, Grid
<1>6. QED BY <1>2, <1>3, <1>4, <1>5

LEMMA SingleStepFacts ==
  ASSUME NEW g \in Grid
  PROVE  /\ SingleStep(g) \in Grid /\ Within(g, SingleStep(g))
         /\ (\A c \in Holes(g) : Forced(g, c) = {}) <=> SingleStep(g) = g
<1>1. ASSUME NEW c \in Cell, g[c] = 0, Forced(g, c) # {}
      PROVE  (CHOOSE n \in Forced(g, c) : TRUE) \in Number
  <2>1. (CHOOSE n \in Forced(g, c) : TRUE) \in Forced(g, c)
    BY <1>1
  <2>2. QED BY <2>1, CandidatesFinite DEF Forced
<1>2. SingleStep(g) \in Grid
  <2> SUFFICES ASSUME NEW c \in Cell PROVE SingleStep(g)[c] \in 0 .. N
    BY DEF SingleStep, Grid
  <2>1. QED BY <1>1, NumberOfGrid DEF SingleStep, Grid
<1>3. Within(g, SingleStep(g))
  BY DEF Within, SingleStep
<1>4. ASSUME NEW c \in Holes(g), Forced(g, c) # {} PROVE SingleStep(g) # g
  <2>1. c \in Cell /\ SingleStep(g)[c] \in Number /\ g[c] = 0
    BY <1>1, <1>4 DEF SingleStep, Holes
  <2>2. QED BY <2>1, NType DEF Number
<1>5. ASSUME \A c \in Holes(g) : Forced(g, c) = {} PROVE SingleStep(g) = g
  BY <1>5 DEF SingleStep, Grid, Holes
<1>6. QED BY <1>2, <1>3, <1>4, <1>5

\* Strong induction over the number of holes.
LEMMA SizeInduction ==
  ASSUME NEW P \in SUBSET Grid,
         \A g \in Grid : (\A x \in Grid : Size(x) < Size(g) => x \in P) => g \in P
  PROVE  P = Grid
<1> DEFINE K == {n \in Nat : Upto(n) \subseteq P}
<1>1. 0 \in K
  BY SizeType DEF Upto
<1>2. ASSUME NEW n \in K PROVE n + 1 \in K
  <2>1. n \in Nat /\ Upto(n) \subseteq P
    OBVIOUS
  <2>2. ASSUME NEW g \in Upto(n + 1) PROVE g \in P
    <3>1. g \in Grid /\ Size(g) \in Nat /\ Size(g) < n + 1
      BY SizeType DEF Upto
    <3>2. ASSUME NEW x \in Grid, Size(x) < Size(g) PROVE x \in P
      <4>1. Size(x) < n
        BY <2>1, <3>1, <3>2, SizeType
      <4>2. QED BY <2>1, <4>1 DEF Upto
    <3>3. QED BY <3>1, <3>2
  <2>3. QED BY <2>1, <2>2
<1> HIDE DEF K
<1>3. K = Nat
  <2>1. K \in SUBSET Nat
    BY DEF K
  <2>2. QED BY <1>1, <1>2, <2>1, NatSetInduction
<1>4. Upto(N * N + 1) = Grid
  BY NType, SizeType DEF Upto
<1>5. N * N + 1 \in K
  BY <1>3, NType
<1>6. QED BY <1>4, <1>5 DEF K

\* A step that fills holes is taken until it fills none.
LEMMA ClosureExists ==
  ASSUME NEW step \in [Grid -> Grid], \A g \in Grid : Within(g, step[g])
  PROVE  \E f \in [Grid -> Grid] : f = [g \in Grid |-> IF step[g] = g THEN g ELSE f[step[g]]]
<1> DEFINE K == {n \in Nat : \E f \in [Grid -> Grid] : \A g \in Upto(n) :
                   f[g] = IF step[g] = g THEN g ELSE f[step[g]]}
<1>1. 0 \in K
  <2>1. Upto(0) = {} /\ step \in [Grid -> Grid]
    BY SizeType DEF Upto
  <2>2. QED BY <2>1
<1>2. ASSUME NEW n \in K PROVE n + 1 \in K
  <2>1. n \in Nat /\ n + 1 \in Nat
    OBVIOUS
  <2>2. PICK f \in [Grid -> Grid] : \A g \in Upto(n) : f[g] = IF step[g] = g THEN g ELSE f[step[g]]
    OBVIOUS
  <2> DEFINE e == [g \in Grid |-> IF step[g] = g THEN g ELSE f[step[g]]]
  <2>3. e \in [Grid -> Grid]
    OBVIOUS
  <2>4. ASSUME NEW g \in Upto(n + 1) PROVE e[g] = IF step[g] = g THEN g ELSE e[step[g]]
    <3>1. g \in Grid /\ Size(g) \in Nat /\ Size(g) < n + 1 /\ step[g] \in Grid
      BY SizeType DEF Upto
    <3>2. CASE step[g] = g
      BY <3>1, <3>2
    <3>3. CASE step[g] # g
      <4>1. Size(step[g]) < Size(g)
        BY <3>1, <3>3, FillingShrinks
      <4>2. Size(step[g]) \in Nat
        BY <3>1, SizeType
      <4>3. step[g] \in Upto(n)
        BY <2>1, <3>1, <4>1, <4>2 DEF Upto
      <4>4. e[g] = f[step[g]] /\ e[step[g]] = f[step[g]]
        BY <2>2, <3>1, <3>3, <4>3
      <4> HIDE DEF e
      <4>5. QED BY <3>3, <4>4
    <3>4. QED BY <3>2, <3>3
  <2> HIDE DEF e
  <2>5. QED BY <2>1, <2>3, <2>4
<1> HIDE DEF K
<1>3. K = Nat
  <2>1. K \in SUBSET Nat
    BY DEF K
  <2>2. QED BY <1>1, <1>2, <2>1, NatSetInduction
<1>4. Upto(N * N + 1) = Grid
  BY NType, SizeType DEF Upto
<1>5. N * N + 1 \in K
  BY <1>3, NType
<1>6. PICK f \in [Grid -> Grid] : \A g \in Grid : f[g] = IF step[g] = g THEN g ELSE f[step[g]]
  BY <1>4, <1>5 DEF K
<1>7. QED BY <1>6

LEMMA NakedClosureDef ==
  ASSUME NEW g \in Grid
  PROVE  NakedClosure[g] = IF Naked(g) = {} THEN g ELSE NakedClosure[NakedStep(g)]
<1> DEFINE step == [x \in Grid |-> NakedStep(x)]
           body(f, x) == IF Naked(x) = {} THEN x ELSE f[NakedStep(x)]
<1>1. step \in [Grid -> Grid] /\ \A x \in Grid : Within(x, step[x]) /\ (step[x] = x <=> Naked(x) = {})
  BY NakedStepFacts
<1>2. PICK f \in [Grid -> Grid] : f = [x \in Grid |-> IF step[x] = x THEN x ELSE f[step[x]]]
  <2> HIDE DEF step
  <2>1. QED BY <1>1, ClosureExists
<1>3. f = [x \in Grid |-> body(f, x)]
  BY <1>1, <1>2
<1>4. NakedClosure = CHOOSE e : e = [x \in Grid |-> body(e, x)]
  BY DEF NakedClosure, NakedStep
<1> HIDE DEF body
<1>5. NakedClosure = [x \in Grid |-> body(NakedClosure, x)]
  BY <1>3, <1>4
<1>6. QED BY <1>5 DEF body

LEMMA ClosureDef ==
  ASSUME NEW g \in Grid
  PROVE  Closure[g] = IF SingleStep(g) = g THEN g ELSE Closure[SingleStep(g)]
<1> DEFINE step == [x \in Grid |-> SingleStep(x)]
           body(f, x) == IF \A c \in Holes(x) : Forced(x, c) = {} THEN x ELSE f[SingleStep(x)]
<1>1. step \in [Grid -> Grid] /\ \A x \in Grid : Within(x, step[x]) /\ (step[x] = x <=> \A c \in Holes(x) : Forced(x, c) = {})
  BY SingleStepFacts
<1>2. PICK f \in [Grid -> Grid] : f = [x \in Grid |-> IF step[x] = x THEN x ELSE f[step[x]]]
  <2> HIDE DEF step
  <2>1. QED BY <1>1, ClosureExists
<1>3. f = [x \in Grid |-> body(f, x)]
  BY <1>1, <1>2
<1> DEFINE given(e, x) ==
             LET forced == [c \in Holes(x) |->
                   {n \in Candidates(x, c) : \/ Candidates(x, c) = {n}
                                             \/ \E h \in Houses : Places(x, h, n) = {c}}]
             IN  IF \A c \in Holes(x) : forced[c] = {} THEN x
                 ELSE e[[c \in Cell |-> IF x[c] = 0 /\ forced[c] # {} THEN CHOOSE n \in forced[c] : TRUE
                                        ELSE x[c]]]
<1>4. Closure = CHOOSE e : e = [x \in Grid |-> given(e, x)]
  BY DEF Closure
<1>5. ASSUME NEW e, NEW x \in Grid PROVE given(e, x) = body(e, x)
  <2> DEFINE forced == [c \in Holes(x) |->
                   {n \in Candidates(x, c) : \/ Candidates(x, c) = {n}
                                             \/ \E h \in Houses : Places(x, h, n) = {c}}]
             other == [c \in Cell |-> IF x[c] = 0 /\ forced[c] # {} THEN CHOOSE n \in forced[c] : TRUE
                                        ELSE x[c]]
  <2>1. \A c \in Holes(x) : forced[c] = Forced(x, c)
    BY DEF Forced
  <2> HIDE DEF forced
  <2>2. other = SingleStep(x)
    <3>1. ASSUME NEW c \in Cell
          PROVE  (IF x[c] = 0 /\ forced[c] # {} THEN CHOOSE n \in forced[c] : TRUE ELSE x[c])
                   = (IF x[c] = 0 /\ Forced(x, c) # {} THEN CHOOSE n \in Forced(x, c) : TRUE ELSE x[c])
      <4>1. CASE x[c] = 0
        <5>1. forced[c] = Forced(x, c)
          BY <2>1, <4>1 DEF Holes
        <5>2. QED BY <5>1
      <4>2. CASE x[c] # 0
        BY <4>2
      <4>3. QED BY <4>1, <4>2
    <3>2. QED BY <3>1 DEF SingleStep
  <2>3. given(e, x) = IF \A c \in Holes(x) : forced[c] = {} THEN x ELSE e[other]
    BY DEF forced
  <2> HIDE DEF given, other
  <2>4. QED BY <2>1, <2>2, <2>3
<1> HIDE DEF given, body
<1>6. \A e : [x \in Grid |-> given(e, x)] = [x \in Grid |-> body(e, x)]
  BY <1>5
<1>7. Closure = CHOOSE e : e = [x \in Grid |-> body(e, x)]
  BY <1>4, <1>6
<1>8. Closure = [x \in Grid |-> body(Closure, x)]
  BY <1>3, <1>7
<1>9. Closure[g] = body(Closure, g)
  BY <1>8
<1>10. QED BY <1>9, SingleStepFacts DEF body

\* The boards without a single, and the least of them above a grid g and within
\* its solution s.
NoNaked == {b \in Grid : Naked(b) = {}}
NoSingle == {b \in Grid : Naked(b) = {} /\ Hidden(b) = {}}

IsLeast(K, g, s, r) ==
  /\ r \in K /\ Within(g, r) /\ Within(r, s)
  /\ \A b \in K : Within(g, b) /\ Within(b, s) => Within(r, b)

LEMMA LeastIsUnique ==
  ASSUME NEW K \in SUBSET Grid, NEW g, NEW s, NEW q, NEW r, IsLeast(K, g, s, q), IsLeast(K, g, s, r)
  PROVE  q = r
<1>1. q \in Grid /\ r \in Grid /\ Within(q, r) /\ Within(r, q)
  BY DEF IsLeast
<1>2. \A c \in Cell : q[c] = r[c]
  BY <1>1 DEF Within
<1>3. QED BY <1>1, <1>2 DEF Grid

LEMMA LeastGoesBack ==
  ASSUME NEW K, NEW g, NEW y, NEW s, NEW r, IsLeast(K, y, s, r), Within(g, y),
         \A b \in K : Within(g, b) /\ Within(b, s) => Within(y, b)
  PROVE  IsLeast(K, g, s, r)
<1>1. Within(g, r)
  BY DEF IsLeast, Within
<1>2. QED BY <1>1 DEF IsLeast

LEMMA StuckIsLeast ==
  ASSUME NEW K, NEW g \in K, NEW s, Within(g, s)
  PROVE  IsLeast(K, g, s, g)
BY DEF IsLeast, Within

\* A board without naked single has filled in those of a board below it.
LEMMA NakedFills ==
  ASSUME NEW g \in Grid, NEW s \in Grid, Complete(s), NoConflict(s), Within(g, s), NEW c \in Naked(g)
  PROVE  /\ c \in Holes(g) /\ c \in Cell /\ g[c] = 0 /\ Candidates(g, c) = {s[c]} /\ s[c] \in Number
         /\ \A b \in NoNaked : Within(g, b) /\ Within(b, s) => b[c] = s[c]
<1>1. c \in Cell /\ c \in Holes(g) /\ g[c] = 0 /\ Cardinality(Candidates(g, c)) = 1
  BY DEF Naked, Holes
<1>2. s[c] \in Candidates(g, c)
  BY <1>1, SolutionIsCandidate
<1>3. Candidates(g, c) = {s[c]} /\ s[c] \in Number
  BY <1>1, <1>2, CandidatesFinite, OneElement
<1>4. ASSUME NEW b \in NoNaked, Within(g, b), Within(b, s) PROVE b[c] = s[c]
  <2>1. b \in Grid /\ Naked(b) = {}
    BY DEF NoNaked
  <2>2. ~(c \in Holes(b))
    BY <1>3, <1>4, <2>1, SingleStays
  <2>3. QED BY <1>1, <1>4, <2>2 DEF Holes, Within
<1>5. QED BY <1>1, <1>3, <1>4

LEMMA ForcedFills ==
  ASSUME NEW g \in Grid, NEW s \in Grid, Complete(s), NoConflict(s), Within(g, s),
         NEW c \in Holes(g), NEW n \in Forced(g, c)
  PROVE  /\ n = s[c] /\ n \in Number /\ c \in Cell /\ g[c] = 0
         /\ \A b \in NoSingle : Within(g, b) /\ Within(b, s) => b[c] = s[c]
<1>1. c \in Cell /\ g[c] = 0
  BY DEF Holes
<1>2. n \in Number /\ (Candidates(g, c) = {n} \/ \E h \in Houses : Places(g, h, n) = {c})
  BY CandidatesFinite DEF Forced
<1>3. n = s[c]
  BY <1>2, SinglesAreRight
<1>4. ASSUME NEW b \in NoSingle, Within(g, b), Within(b, s) PROVE b[c] = s[c]
  <2>1. b \in Grid /\ Naked(b) = {} /\ Hidden(b) = {}
    BY DEF NoSingle
  <2>2. ~(c \in Holes(b))
    BY <1>2, <1>4, <2>1, SingleStays
  <2>3. QED BY <1>1, <1>4, <2>2 DEF Holes, Within
<1>5. QED BY <1>1, <1>2, <1>3, <1>4

\* A right number is put down.
LEMMA PutWithin ==
  ASSUME NEW g \in Grid, NEW s \in Grid, NEW c \in Holes(g), NEW b, Within(g, b), b[c] = s[c]
  PROVE  Within(g, Put(g, c, s[c])) /\ Within(Put(g, c, s[c]), b)
<1>1. c \in Cell /\ g[c] = 0
  BY DEF Holes
<1>2. Put(g, c, s[c])[c] = s[c] /\ \A d \in Cell : d # c => Put(g, c, s[c])[d] = g[d]
  BY <1>1 DEF Put, Grid
<1>3. QED BY <1>1, <1>2 DEF Within

LEMMA NakedClosureIsLeast ==
  ASSUME NEW s \in Grid, Complete(s), NoConflict(s), NEW g \in Grid, Within(g, s)
  PROVE  IsLeast(NoNaked, g, s, NakedClosure[g])
<1> DEFINE P == {x \in Grid : Within(x, s) => IsLeast(NoNaked, x, s, NakedClosure[x])}
<1>1. ASSUME NEW x \in Grid, \A y \in Grid : Size(y) < Size(x) => y \in P PROVE x \in P
  <2> SUFFICES ASSUME Within(x, s) PROVE IsLeast(NoNaked, x, s, NakedClosure[x])
    OBVIOUS
  <2>1. CASE Naked(x) = {}
    <3>1. NakedClosure[x] = x /\ x \in NoNaked
      BY <2>1, NakedClosureDef DEF NoNaked
    <3>2. QED BY <3>1, StuckIsLeast
  <2>2. CASE Naked(x) # {}
    <3> DEFINE y == NakedStep(x)
    <3>1. y \in Grid /\ Within(x, y) /\ y # x /\ NakedClosure[x] = NakedClosure[y]
      BY <2>2, NakedStepFacts, NakedClosureDef
    <3>2. \A c \in Cell : y[c] = IF c \in Naked(x) THEN s[c] ELSE x[c]
      <4>1. \A c \in Naked(x) : (CHOOSE n \in Candidates(x, c) : TRUE) = s[c]
        BY NakedFills
      <4>2. QED BY <4>1 DEF NakedStep
    <3> HIDE DEF y
    <3>3. Within(y, s)
      BY <3>2 DEF Within
    <3>4. ASSUME NEW b \in NoNaked, Within(x, b), Within(b, s) PROVE Within(y, b)
      <4>1. \A c \in Naked(x) : b[c] = s[c]
        BY <3>4, NakedFills
      <4>2. QED BY <3>2, <3>4, <4>1 DEF Within
    <3>5. y \in P
      BY <1>1, <3>1, FillingShrinks
    <3>6. IsLeast(NoNaked, y, s, NakedClosure[y])
      BY <3>3, <3>5
    <3>7. QED BY <3>1, <3>4, <3>6, LeastGoesBack
  <2>3. QED BY <2>1, <2>2
<1>2. P \in SUBSET Grid
  OBVIOUS
<1> HIDE DEF P
<1>3. P = Grid
  BY <1>1, <1>2, SizeInduction
<1>4. QED BY <1>3 DEF P

LEMMA ClosureIsLeast ==
  ASSUME NEW s \in Grid, Complete(s), NoConflict(s), NEW g \in Grid, Within(g, s)
  PROVE  IsLeast(NoSingle, g, s, Closure[g])
<1> DEFINE P == {x \in Grid : Within(x, s) => IsLeast(NoSingle, x, s, Closure[x])}
<1>1. ASSUME NEW x \in Grid, \A y \in Grid : Size(y) < Size(x) => y \in P PROVE x \in P
  <2> SUFFICES ASSUME Within(x, s) PROVE IsLeast(NoSingle, x, s, Closure[x])
    OBVIOUS
  <2>1. CASE SingleStep(x) = x
    <3>1. \A c \in Holes(x) : Forced(x, c) = {}
      BY <2>1, SingleStepFacts
    <3>2. ASSUME NEW c \in Naked(x) PROVE FALSE
      <4>1. c \in Holes(x) /\ Cardinality(Candidates(x, c)) = 1
        BY DEF Naked
      <4>2. PICK n : Candidates(x, c) = {n}
        BY <4>1, CandidatesFinite, FS_Singleton
      <4>3. n \in Forced(x, c)
        BY <4>2 DEF Forced
      <4>4. QED BY <3>1, <4>1, <4>3
    <3>3. ASSUME NEW k \in Hidden(x) PROVE FALSE
      <4>1. k[1] \in Houses /\ Cardinality(Places(x, k[1], k[2])) = 1
        BY HiddenPlaces
      <4>2. PICK c : Places(x, k[1], k[2]) = {c}
        BY <4>1, PlacesFinite, FS_Singleton
      <4>3. c \in Holes(x) /\ k[2] \in Candidates(x, c)
        BY <4>1, <4>2, PlacesFinite DEF Places
      <4>4. k[2] \in Forced(x, c)
        BY <4>1, <4>2, <4>3 DEF Forced
      <4>5. QED BY <3>1, <4>3, <4>4
    <3>4. Closure[x] = x /\ x \in NoSingle
      BY <2>1, <3>2, <3>3, ClosureDef DEF NoSingle
    <3>5. QED BY <3>4, StuckIsLeast
  <2>2. CASE SingleStep(x) # x
    <3> DEFINE y == SingleStep(x)
    <3>1. y \in Grid /\ Within(x, y) /\ y # x /\ Closure[x] = Closure[y]
      BY <2>2, SingleStepFacts, ClosureDef
    <3>2. \A c \in Cell : y[c] = IF x[c] = 0 /\ Forced(x, c) # {} THEN s[c] ELSE x[c]
      <4>1. ASSUME NEW c \in Cell, x[c] = 0, Forced(x, c) # {} PROVE (CHOOSE n \in Forced(x, c) : TRUE) = s[c]
        <5>1. (CHOOSE n \in Forced(x, c) : TRUE) \in Forced(x, c) /\ c \in Holes(x)
          BY <4>1 DEF Holes
        <5>2. QED BY <5>1, ForcedFills
      <4>2. QED BY <4>1 DEF SingleStep
    <3> HIDE DEF y
    <3>3. Within(y, s)
      BY <3>2 DEF Within
    <3>4. ASSUME NEW b \in NoSingle, Within(x, b), Within(b, s) PROVE Within(y, b)
      <4>1. \A c \in Cell : x[c] = 0 /\ Forced(x, c) # {} => b[c] = s[c]
        <5> SUFFICES ASSUME NEW c \in Holes(x), NEW n \in Forced(x, c) PROVE b[c] = s[c]
          BY DEF Holes
        <5>1. QED BY <3>4, ForcedFills
      <4>2. QED BY <3>2, <3>4, <4>1 DEF Within
    <3>5. y \in P
      BY <1>1, <3>1, FillingShrinks
    <3>6. IsLeast(NoSingle, y, s, Closure[y])
      BY <3>3, <3>5
    <3>7. QED BY <3>1, <3>4, <3>6, LeastGoesBack
  <2>3. QED BY <2>1, <2>2
<1>2. P \in SUBSET Grid
  OBVIOUS
<1> HIDE DEF P
<1>3. P = Grid
  BY <1>1, <1>2, SizeInduction
<1>4. QED BY <1>3 DEF P

\* A call of solve_with_logic, and the board after its move.
LEMMA SolverMoves ==
  ASSUME NEW s \in Grid, Complete(s), NoConflict(s), NEW g \in Grid, Within(g, s)
  PROVE  \/ /\ Naked(g) # {}
            /\ \E c \in Naked(g) : solve_with_logic[g] = solve_with_logic[Put(g, c, s[c])]
         \/ /\ Naked(g) = {}
            /\ \E c \in Holes(g) : /\ s[c] \in Forced(g, c)
                                   /\ solve_with_logic[g].grid = solve_with_logic[Put(g, c, s[c])].grid
                                   /\ solve_with_logic[g].hidden_total # 0
         \/ g \in NoSingle /\ solve_with_logic[g] = [grid |-> g, hidden_total |-> 0]
<1> DEFINE naked  == find_naked_single(g)
           hidden == find_hidden_single(g)
<1>1. CASE Naked(g) # {}
  <2>1. PICK c \in Naked(g), n \in Number : Candidates(g, c) = {n} /\ naked = Put(g, c, n)
    BY <1>1, NakedMove
  <2>2. n = s[c] /\ c \in Holes(g)
    BY <2>1, NakedFills
  <2>3. naked # g
    BY <2>1, <2>2, PutShrinks
  <2> HIDE DEF naked
  <2>4. solve_with_logic[g] = solve_with_logic[naked]
    BY <2>3, SolverDef DEF SolveFrom, naked
  <2>5. QED BY <1>1, <2>1, <2>2, <2>4
<1>2. CASE Naked(g) = {} /\ Hidden(g) # {}
  <2>1. PICK h \in Houses, n \in Number : \E c \in Holes(g) : Places(g, h, n) = {c} /\ hidden = Put(g, c, n)
    BY <1>2, HiddenMove
  <2>2. PICK c \in Holes(g) : Places(g, h, n) = {c} /\ hidden = Put(g, c, n)
    BY <2>1
  <2>3. n \in Candidates(g, c)
    BY <2>2 DEF Places
  <2>4. n \in Forced(g, c)
    BY <2>2, <2>3 DEF Forced
  <2>5. n = s[c] /\ hidden # g /\ hidden \in Grid
    BY <2>2, <2>4, ForcedFills, PutShrinks
  <2>6. naked = g
    BY <1>2, NakedMove
  <2>7. solve_with_logic[hidden] \in Solution
    BY <2>5, SolverType
  <2> HIDE DEF naked, hidden
  <2>8. solve_with_logic[g] = [solve_with_logic[hidden] EXCEPT !.hidden_total = @ + 1]
    BY <2>5, <2>6, SolverDef DEF SolveFrom, naked, hidden
  <2>9. solve_with_logic[g].grid = solve_with_logic[hidden].grid /\ solve_with_logic[g].hidden_total # 0
    BY <2>7, <2>8 DEF Solution
  <2>10. QED BY <1>2, <2>2, <2>4, <2>5, <2>9
<1>3. CASE Naked(g) = {} /\ Hidden(g) = {}
  <2>1. naked = g /\ hidden = g
    BY <1>3, NakedMove, HiddenMove
  <2> HIDE DEF naked, hidden
  <2>2. solve_with_logic[g] = [grid |-> g, hidden_total |-> 0]
    BY <2>1, SolverDef DEF SolveFrom, naked, hidden
  <2>3. QED BY <1>3, <2>2 DEF NoSingle
<1>4. QED BY <1>1, <1>2, <1>3

LEMMA SolverIsLeast ==
  ASSUME NEW s \in Grid, Complete(s), NoConflict(s), NEW g \in Grid, Within(g, s)
  PROVE  IsLeast(NoSingle, g, s, solve_with_logic[g].grid)
<1> DEFINE P == {x \in Grid : Within(x, s) => IsLeast(NoSingle, x, s, solve_with_logic[x].grid)}
<1>1. ASSUME NEW x \in Grid, \A y \in Grid : Size(y) < Size(x) => y \in P PROVE x \in P
  <2> SUFFICES ASSUME Within(x, s) PROVE IsLeast(NoSingle, x, s, solve_with_logic[x].grid)
    OBVIOUS
  <2>1. ASSUME NEW c \in Holes(x), s[c] \in Number, solve_with_logic[x].grid = solve_with_logic[Put(x, c, s[c])].grid,
               \A b \in NoSingle : Within(x, b) /\ Within(b, s) => b[c] = s[c]
        PROVE  IsLeast(NoSingle, x, s, solve_with_logic[x].grid)
    <3> DEFINE y == Put(x, c, s[c])
    <3>1. y \in Grid /\ Size(y) < Size(x)
      BY <2>1, PutShrinks, SizeType
    <3>2. Within(x, y) /\ Within(y, s)
      BY PutWithin
    <3>3. \A b \in NoSingle : Within(x, b) /\ Within(b, s) => Within(y, b)
      BY <2>1, PutWithin
    <3> HIDE DEF y
    <3>4. IsLeast(NoSingle, y, s, solve_with_logic[y].grid)
      BY <1>1, <3>1, <3>2
    <3> HIDE DEF P
    <3>5. IsLeast(NoSingle, x, s, solve_with_logic[y].grid)
      BY <3>2, <3>3, <3>4, LeastGoesBack
    <3>6. QED BY <2>1, <3>5 DEF y
  <2>2. ASSUME NEW c \in Naked(x), solve_with_logic[x] = solve_with_logic[Put(x, c, s[c])]
        PROVE  IsLeast(NoSingle, x, s, solve_with_logic[x].grid)
    <3>1. NoSingle \subseteq NoNaked
      BY DEF NoSingle, NoNaked
    <3>2. c \in Holes(x) /\ s[c] \in Number /\ \A b \in NoSingle : Within(x, b) /\ Within(b, s) => b[c] = s[c]
      BY <3>1, NakedFills
    <3>3. QED BY <2>1, <2>2, <3>2
  <2>3. ASSUME NEW c \in Holes(x), s[c] \in Forced(x, c), solve_with_logic[x].grid = solve_with_logic[Put(x, c, s[c])].grid
        PROVE  IsLeast(NoSingle, x, s, solve_with_logic[x].grid)
    <3>1. s[c] \in Number /\ \A b \in NoSingle : Within(x, b) /\ Within(b, s) => b[c] = s[c]
      BY <2>3, ForcedFills
    <3>2. QED BY <2>1, <2>3, <3>1
  <2>4. ASSUME x \in NoSingle, solve_with_logic[x] = [grid |-> x, hidden_total |-> 0]
        PROVE  IsLeast(NoSingle, x, s, solve_with_logic[x].grid)
    BY <2>4, StuckIsLeast
  <2> HIDE DEF P
  <2>5. QED BY <2>2, <2>3, <2>4, SolverMoves
<1>2. P \in SUBSET Grid
  OBVIOUS
<1> HIDE DEF P
<1>3. P = Grid
  BY <1>1, <1>2, SizeInduction
<1>4. QED BY <1>3 DEF P

\* solve_with_logic, which fills in one single after another, ends where Closure
\* does, which fills in all of them at once, and finds the solution with it.
THEOREM SolverIsClosure ==
  ASSUME NEW s \in Grid, Complete(s), NoConflict(s), NEW g \in Grid, Within(g, s)
  PROVE  solve_with_logic[g].grid = Closure[g] /\ (Holes(solve_with_logic[g].grid) = {} <=> Closure[g] = s)
<1>1. NoSingle \in SUBSET Grid
  BY DEF NoSingle
<1>2. solve_with_logic[g].grid = Closure[g]
  BY <1>1, SolverIsLeast, ClosureIsLeast, LeastIsUnique
<1>3. Closure[g] \in Grid /\ Within(Closure[g], s)
  BY <1>1, ClosureIsLeast DEF IsLeast
<1>4. ASSUME Holes(Closure[g]) = {} PROVE Closure[g] = s
  BY <1>3, <1>4 DEF Holes, Within, Grid
<1>5. Holes(s) = {}
  BY DEF Complete
<1>6. QED BY <1>2, <1>4, <1>5

\* Of a grid that it solves it counts no hidden single if and only if naked ones
\* would do (the easy games of determine_hardness).
THEOREM NoneHidden ==
  ASSUME NEW s \in Grid, Complete(s), NoConflict(s), NEW g \in Grid, Within(g, s),
         Holes(solve_with_logic[g].grid) = {}
  PROVE  solve_with_logic[g].hidden_total = 0 <=> NakedClosure[g] = s
<1> DEFINE P == {x \in Grid : Within(x, s) /\ Holes(solve_with_logic[x].grid) = {}
                               => (solve_with_logic[x].hidden_total = 0 <=> NakedClosure[x] = s)}
<1>1. ASSUME NEW x \in Grid, \A y \in Grid : Size(y) < Size(x) => y \in P PROVE x \in P
  <2> SUFFICES ASSUME Within(x, s), Holes(solve_with_logic[x].grid) = {}
               PROVE  solve_with_logic[x].hidden_total = 0 <=> NakedClosure[x] = s
    OBVIOUS
  <2>1. ASSUME NEW c \in Naked(x), solve_with_logic[x] = solve_with_logic[Put(x, c, s[c])]
        PROVE  solve_with_logic[x].hidden_total = 0 <=> NakedClosure[x] = s
    <3> DEFINE y == Put(x, c, s[c])
    <3>1. c \in Holes(x) /\ s[c] \in Number /\ \A b \in NoNaked : Within(x, b) /\ Within(b, s) => b[c] = s[c]
      BY NakedFills
    <3>2. y \in Grid /\ Size(y) < Size(x)
      BY <3>1, PutShrinks, SizeType
    <3>3. Within(x, y) /\ Within(y, s) /\ \A b \in NoNaked : Within(x, b) /\ Within(b, s) => Within(y, b)
      BY <3>1, PutWithin
    <3> HIDE DEF y
    <3>4. solve_with_logic[y].hidden_total = 0 <=> NakedClosure[y] = s
      <4>1. y \in P /\ solve_with_logic[y] = solve_with_logic[x]
        BY <1>1, <2>1, <3>2 DEF y
      <4>2. QED BY <3>3, <4>1
    <3> HIDE DEF P
    <3>5. IsLeast(NoNaked, y, s, NakedClosure[y]) /\ IsLeast(NoNaked, x, s, NakedClosure[x])
      BY <3>2, <3>3, NakedClosureIsLeast
    <3>6. IsLeast(NoNaked, x, s, NakedClosure[y])
      BY <3>3, <3>5, LeastGoesBack
    <3>7. NoNaked \in SUBSET Grid
      BY DEF NoNaked
    <3>8. NakedClosure[x] = NakedClosure[y]
      BY <3>5, <3>6, <3>7, LeastIsUnique
    <3>9. QED BY <2>1, <3>4, <3>8 DEF y
  <2>2. ASSUME NEW c \in Holes(x), Naked(x) = {}, solve_with_logic[x].hidden_total # 0
        PROVE  solve_with_logic[x].hidden_total = 0 <=> NakedClosure[x] = s
    <3>1. NakedClosure[x] = x
      BY <2>2, NakedClosureDef
    <3>2. x # s
      BY DEF Complete
    <3>3. QED BY <2>2, <3>1, <3>2
  <2>3. ASSUME x \in NoSingle, solve_with_logic[x] = [grid |-> x, hidden_total |-> 0]
        PROVE  solve_with_logic[x].hidden_total = 0 <=> NakedClosure[x] = s
    <3>1. Naked(x) = {} /\ Holes(x) = {}
      BY <2>3 DEF NoSingle
    <3>2. x = s
      BY <3>1 DEF Holes, Within, Grid
    <3>3. NakedClosure[x] = x
      BY <3>1, NakedClosureDef
    <3>4. QED BY <2>3, <3>2, <3>3
  <2> HIDE DEF P
  <2>4. QED BY <2>1, <2>2, <2>3, SolverMoves
<1>2. P \in SUBSET Grid
  OBVIOUS
<1> HIDE DEF P
<1>3. P = Grid
  BY <1>1, <1>2, SizeInduction
<1>4. QED BY <1>3 DEF P

\* The hardness of a grid, as the pass that dug it has determined it.
HardnessOf(g) ==
  LET holes   == Cardinality(Holes(g))
      tested  == holes < LogicBelow
      singles == solve_with_logic[g]
  IN  determine_hardness(tested /\ Holes(singles.grid) = {}, holes, IF tested THEN singles.hidden_total ELSE 0)

HardInv == pc = "loop" /\ stats.hardness \in 1 .. 5 => stats.hardness = HardnessOf(grid)

LEMMA HardStep ==
  ASSUME HardInv, [Next]_vars
  PROVE  HardInv'
<1>1. CASE \E r \in Requests : Generate(r)
  BY <1>1 DEF HardInv, Generate
<1>2. CASE \E deal \in Deals : Deal(deal)
  BY <1>2 DEF HardInv, Deal
<1>3. CASE (\E nums \in Shuffles : Enter(nums)) \/ (\E o \in Orders : Filled(o)) \/ Place \/ Backtrack
  BY <1>3 DEF HardInv, Enter, Filled, Place, Backtrack
<1>4. CASE Pass
  <2> DEFINE dug     == Put(grid, order[(iterator % (N * N)) + 1], 0)
             holes   == Cardinality(Holes(dug))
             tested  == holes < LogicBelow
             singles == solve_with_logic[dug]
             logic   == tested /\ Holes(singles.grid) = {}
             hidden  == IF tested THEN singles.hidden_total ELSE 0
             total   == IF tested THEN hidden ELSE stats.hidden_total
             rejected == Rejected(dug, tested, logic, total)
  <2>1. HardnessOf(dug) = determine_hardness(logic, holes, hidden)
    BY DEF HardnessOf
  <2>2. /\ stats' = [hardness |-> IF rejected THEN 0 ELSE determine_hardness(logic, holes, hidden),
                     hidden_total |-> total]
        /\ grid' = IF rejected THEN grid ELSE dug
    BY <1>4 DEF Pass
  <2> HIDE DEF total, rejected, dug, logic, holes, hidden
  <2>3. QED BY <2>1, <2>2 DEF HardInv
<1>5. CASE Deliver \/ Play
  BY <1>5 DEF HardInv, Deliver, Play
<1>6. CASE UNCHANGED vars
  BY <1>6 DEF HardInv, vars
<1>7. QED BY <1>1, <1>2, <1>3, <1>4, <1>5, <1>6 DEF Next

\* What is delivered is as hard as was asked: with the holes of its band, and
\* solvable by naked singles, by singles, or not by them, as the reference
\* definitions have it, which fill in all singles at once.
THEOREM HardnessHolds ==
  ASSUME DealsFill, ShufflesAreFull
  PROVE  Spec => []AsHardAsAsked
<1>1. Init => HardInv
  BY DEF Init, HardInv
<1>2. GridsOK /\ TypeOK /\ SearchInv /\ HardInv => AsHardAsAsked
  <2> SUFFICES ASSUME GridsOK, TypeOK, SearchInv, HardInv, Found PROVE AsHardAsAsked
    BY DEF AsHardAsAsked
  <2> DEFINE holes   == Cardinality(Holes(grid))
             singles == solve_with_logic[grid]
             logic   == holes < LogicBelow /\ Holes(singles.grid) = {}
             hidden  == IF holes < LogicBelow THEN singles.hidden_total ELSE 0
  <2>1. pc = "loop" /\ stats.hardness = request /\ request \in 1 .. 5
    BY GeneratorAssumption DEF Found, TypeOK, SearchInv
  <2>2. Complete(solved) /\ NoConflict(solved) /\ solved \in Grid /\ grid \in Grid /\ Within(grid, solved)
    BY <2>1 DEF SearchInv, GridsOK
  <2>3. request = determine_hardness(logic, holes, hidden)
    BY <2>1 DEF HardInv, HardnessOf
  <2>4. Holes(singles.grid) = {} <=> Closure[grid] = solved
    BY <2>2, SolverIsClosure
  <2>5. logic => (hidden = 0 <=> NakedClosure[grid] = solved)
    BY <2>2, NoneHidden
  <2>6. holes \in Nat /\ {EasyHoles, MediumHoles, HardHoles, ExpertHoles, LogicBelow} \subseteq Nat
    BY <2>2, SizeType, GeneratorAssumption DEF Size
  <2> HIDE DEF holes, singles, hidden
  <2>7. CASE request = 1
    <3>1. logic /\ holes = EasyHoles /\ hidden = 0
      BY <2>3, <2>7 DEF determine_hardness
    <3>2. QED BY <2>5, <2>7, <3>1 DEF AsHardAsAsked, holes
  <2>8. CASE request = 2
    <3>1. logic /\ EasyHoles < holes /\ holes <= MediumHoles
      BY <2>3, <2>8 DEF determine_hardness
    <3>2. holes \in EasyHoles + 1 .. MediumHoles
      BY <2>6, <3>1
    <3>3. QED BY <2>4, <2>8, <3>1, <3>2 DEF AsHardAsAsked, holes
  <2>9. CASE request = 3
    <3>1. logic /\ MediumHoles < holes /\ holes <= HardHoles
      BY <2>3, <2>9 DEF determine_hardness
    <3>2. holes \in MediumHoles + 1 .. HardHoles
      BY <2>6, <3>1
    <3>3. QED BY <2>4, <2>9, <3>1, <3>2 DEF AsHardAsAsked, holes
  <2>10. CASE request = 4
    <3>1. logic /\ HardHoles < holes /\ hidden # 0
      BY <2>3, <2>10 DEF determine_hardness
    <3>2. holes \in HardHoles + 1 .. LogicBelow - 1
      BY <2>6, <3>1
    <3>3. QED BY <2>4, <2>5, <2>10, <3>1, <3>2 DEF AsHardAsAsked, holes
  <2>11. CASE request = 5
    <3>1. ~logic
      BY <2>3, <2>11 DEF determine_hardness
    <3>2. holes >= LogicBelow \/ Closure[grid] # solved
      BY <2>4, <2>6, <3>1
    <3>3. QED BY <2>11, <3>2 DEF AsHardAsAsked, holes
  <2>12. QED BY <2>1, <2>7, <2>8, <2>9, <2>10, <2>11
<1>3. QED
  BY <1>1, <1>2, HardStep, SearchAlwaysOK, GridsAlwaysOK, GeneratorTypes, PTL DEF Spec
==============================================================================
