--------------------------- MODULE SudokuGenerator ---------------------------
(***************************************************************************)
(* GET /generate of game_service: game_generator fills a grid, digs holes  *)
(* into it until it has the hardness that was asked for, and starts again  *)
(* with another grid when that takes too long.  The player then fills the  *)
(* holes, and POST /hint is asked for a move.                              *)
(*                                                                         *)
(* Every request has its grids on its own stack: there is one thread here. *)
(* A call of fill_other_boxes, a number it puts down and a number it takes *)
(* back are a step each, and so is a pass of the loop of game_generator.   *)
(***************************************************************************)
EXTENDS SudokuGrid, Sequences

CONSTANTS
  Requests,     \* the hardness asked for: 1 .. 5
  Deals,        \* what random_shuffle makes of the boxes on the diagonal
  Shuffles,     \* what it makes of nums in fill_other_boxes
  Orders,       \* what it makes of mixed_sequence
  EasyHoles,    \* 43
  MediumHoles,  \* 50
  HardHoles,    \* 55
  ExpertHoles,  \* 58
  LogicBelow,   \* 58: a grid with fewer holes has to be solvable by singles
  MaxPasses,    \* 100: the last pass over a full grid, counted from 0
  OwnCells      \* the cells that the player fills without asking for a hint

\* fill_diagonal_boxes: the boxes on the diagonal, each filled row by row.
Diagonal(deal) ==
  [c \in Cell |-> IF RowOf(c) \div B = ColOf(c) \div B
                  THEN deal[RowOf(c) \div B + 1][(RowOf(c) % B) * B + (ColOf(c) % B) + 1]
                  ELSE 0]

ASSUME GeneratorAssumption ==
  /\ Requests \subseteq 1 .. 5
  /\ \A deal \in Deals : Diagonal(deal) \in Grid /\ NoConflict(Diagonal(deal))
  /\ Shuffles \subseteq Seq(Number)
  /\ \A order \in Orders : order \in Seq(Cell) /\ Len(order) = N * N
  /\ OwnCells \subseteq Cell
  /\ {EasyHoles, MediumHoles, HardHoles, ExpertHoles, LogicBelow, MaxPasses} \subseteq Nat

VARIABLES
  pc,        \* where game_generator is; "ready": its answer is being played
  request,   \* hardness_requested
  grid,      \* grid, and then the board of the player
  solved,    \* grid_solved
  trail,     \* the calls of fill_other_boxes: the cell and the nums not yet tried
  order,     \* mixed_sequence
  iterator,  \* iterator
  counter,   \* counter
  stats      \* stats.hardness and stats.hidden_total

vars == <<pc, request, grid, solved, trail, order, iterator, counter, stats>>

Call == [cell : Cell, left : Seq(Number)]

Init ==
  /\ pc = "idle" /\ request = 0 /\ grid = BlankGrid /\ solved = BlankGrid
  /\ trail = <<>> /\ order = <<>> /\ iterator = 0 /\ counter = 0
  /\ stats = [hardness |-> 0, hidden_total |-> 0]

\* A request.  Nothing is read of the new grids before they are filled.
Generate(r) ==
  /\ pc \in {"idle", "ready"}
  /\ pc' = "loop" /\ request' = r
  /\ grid' = BlankGrid /\ solved' = BlankGrid /\ order' = <<>>
  /\ iterator' = 0 /\ counter' = MaxPasses
  /\ stats' = [hardness |-> 0, hidden_total |-> 0]
  /\ UNCHANGED trail

(***************************************************************************)
(* fullgrid_generator                                                      *)
(***************************************************************************)

\* The loop goes on; the passes over this grid are used up.
\* Mutant: the passes are not counted from 0 again.
MutDeal(deal) ==
  /\ pc = "loop" /\ stats.hardness # request /\ counter + 1 > MaxPasses
  /\ grid' = Diagonal(deal) /\ counter' = counter + 1 /\ pc' = "fill"
  /\ UNCHANGED <<request, solved, trail, order, iterator, stats>>
Deal(deal) ==
  /\ pc = "loop" /\ stats.hardness # request /\ counter + 1 > MaxPasses
  /\ grid' = Diagonal(deal) /\ counter' = 0 /\ pc' = "fill"
  /\ UNCHANGED <<request, solved, trail, order, iterator, stats>>

Inner == trail[Len(trail)]

\* The next cell has to be filled: the grid was dealt, or a number was put down.
Advance == trail # <<>> => grid[Inner.cell] # 0
Ahead == {c \in Holes(grid) : trail # <<>> => c > Inner.cell}

\* The nums not yet tried that the cell of the inner call can take.
Fits == {i \in DOMAIN Inner.left : basic_check(grid, Inner.cell, Inner.left[i])}

Enter(nums) ==
  /\ pc = "fill" /\ Advance /\ Ahead # {}
  /\ trail' = Append(trail, [cell |-> Least(Ahead), left |-> nums])
  /\ UNCHANGED <<pc, request, grid, solved, order, iterator, counter, stats>>

Place ==
  /\ pc = "fill" /\ ~Advance /\ Fits # {}
  /\ grid' = Put(grid, Inner.cell, Inner.left[Least(Fits)])
  /\ trail' = [trail EXCEPT ![Len(trail)].left = SubSeq(@, Least(Fits) + 1, Len(@))]
  /\ UNCHANGED <<pc, request, solved, order, iterator, counter, stats>>

\* The inner call returns false, and its caller takes its number back.
\* Mutant: the caller shuffles its nums again.
MutBacktrack ==
  /\ pc = "fill" /\ ~Advance /\ Fits = {} /\ Len(trail) > 1
  /\ grid' = Put(grid, trail[Len(trail) - 1].cell, 0)
  /\ \E nums \in Shuffles :
       trail' = Append(SubSeq(trail, 1, Len(trail) - 2), [cell |-> trail[Len(trail) - 1].cell, left |-> nums])
  /\ UNCHANGED <<pc, request, solved, order, iterator, counter, stats>>
Backtrack ==
  /\ pc = "fill" /\ ~Advance /\ Fits = {} /\ Len(trail) > 1
  /\ grid' = Put(grid, trail[Len(trail) - 1].cell, 0)
  /\ trail' = SubSeq(trail, 1, Len(trail) - 1)
  /\ UNCHANGED <<pc, request, solved, order, iterator, counter, stats>>

\* The outer call returns, true or false; game_generator does not look.
Returned == IF Advance THEN Ahead = {} ELSE Fits = {} /\ Len(trail) = 1

Filled(mixed_sequence) ==
  /\ pc = "fill" /\ Returned
  /\ pc' = "dig" /\ solved' = grid /\ order' = mixed_sequence /\ trail' = <<>>
  /\ UNCHANGED <<request, grid, iterator, counter, stats>>

(***************************************************************************)
(* game_generator                                                          *)
(***************************************************************************)

\* Mutant: a grid with the last number of holes of a band is put into the next one.
Mutdetermine_hardness(logic, holes, hidden) ==
  IF ~logic THEN 5
  ELSE IF holes = EasyHoles /\ hidden = 0 THEN 1
  ELSE IF EasyHoles < holes /\ holes < MediumHoles THEN 2
  ELSE IF MediumHoles <= holes /\ holes < HardHoles THEN 3
  ELSE IF HardHoles <= holes /\ holes <= ExpertHoles /\ hidden # 0 THEN 4
  ELSE -1
determine_hardness(logic, holes, hidden) ==
  IF ~logic THEN 5
  ELSE IF holes = EasyHoles /\ hidden = 0 THEN 1
  ELSE IF EasyHoles < holes /\ holes <= MediumHoles THEN 2
  ELSE IF MediumHoles < holes /\ holes <= HardHoles THEN 3
  ELSE IF HardHoles < holes /\ holes <= ExpertHoles /\ hidden # 0 THEN 4
  ELSE -1

\* The hole is filled again: the grid asks for more than singles, an easy
\* grid for hidden ones, or it has another solution.
\* Mutant: nobody looks for another solution.
MutRejected(dug, tested, logic, hidden_total) ==
  \/ tested /\ ~logic /\ request # 5
  \/ request = 1 /\ hidden_total # 0
Rejected(dug, tested, logic, hidden_total) ==
  \/ tested /\ ~logic /\ request # 5
  \/ request = 1 /\ hidden_total # 0
  \/ check_uniqueness[dug][0] # 1

\* A pass digs the next cell of the sequence, which may be a hole already.
\* hidden_total is not set anew for a grid that is not tested.
Pass ==
  LET dug      == Put(grid, order[(iterator % (N * N)) + 1], 0)
      holes    == Cardinality(Holes(dug))
      tested   == holes < LogicBelow
      singles  == solve_with_logic[dug]
      logic    == tested /\ Holes(singles.grid) = {}
      hidden   == IF tested THEN singles.hidden_total ELSE 0
      total    == IF tested THEN hidden ELSE stats.hidden_total
      rejected == Rejected(dug, tested, logic, total)
  IN  /\ \/ pc = "dig" /\ UNCHANGED counter
         \/ pc = "loop" /\ stats.hardness # request /\ counter + 1 <= MaxPasses /\ counter' = counter + 1
      /\ pc' = "loop"
      /\ grid' = IF rejected THEN grid ELSE dug
      /\ iterator' = (iterator % (N * N)) + 1
      /\ stats' = [hardness     |-> IF rejected THEN 0 ELSE determine_hardness(logic, holes, hidden),
                   hidden_total |-> total]
      /\ UNCHANGED <<request, solved, trail, order>>

Found == pc = "loop" /\ stats.hardness = request

Deliver ==
  /\ Found /\ pc' = "ready"
  /\ UNCHANGED <<request, grid, solved, trail, order, iterator, counter, stats>>

\* A right move of the player: one of his own, or the one of the hint.
Play ==
  /\ pc = "ready"
  /\ \E c \in OwnCells \union {hint[1] : hint \in Hint(grid)} :
       grid[c] = 0 /\ grid' = Put(grid, c, solved[c])
  /\ UNCHANGED <<pc, request, solved, trail, order, iterator, counter, stats>>

Next ==
  \/ \E r \in Requests : Generate(r)
  \/ \E deal \in Deals : Deal(deal)
  \/ \E nums \in Shuffles : Enter(nums)
  \/ \E mixed_sequence \in Orders : Filled(mixed_sequence)
  \/ Place \/ Backtrack \/ Pass \/ Deliver \/ Play

Spec == Init /\ [][Next]_vars

(***************************************************************************)
(* A request that runs does not stand still, and every outcome of the      *)
(* shuffles comes again and again.                                         *)
(***************************************************************************)
Runs == pc \notin {"idle", "ready"}

Fairness ==
  /\ <>[]Runs => []<><<TRUE>>_vars
  /\ \A deal \in Deals : SF_vars(Deal(deal))
  /\ \A mixed_sequence \in Orders : SF_vars(Filled(mixed_sequence))

FairSpec == Spec /\ Fairness

(***************************************************************************)
(* Reference definitions                                                   *)
(***************************************************************************)

\* All solutions of a grid.
Solutions[g \in Grid] ==
  IF Holes(g) = {} THEN {g}
  ELSE LET c == find_best_empty_location(g)
       IN  UNION {Solutions[Put(g, c, num)] : num \in Candidates(g, c)}

\* The grid that is left when all naked singles, or all singles, are filled
\* in at once as long as there are any.
NakedClosure[g \in Grid] ==
  IF Naked(g) = {} THEN g
  ELSE NakedClosure[[c \in Cell |-> IF c \in Naked(g) THEN CHOOSE n \in Candidates(g, c) : TRUE ELSE g[c]]]

Closure[g \in Grid] ==
  LET forced == [c \in Holes(g) |->
        {n \in Candidates(g, c) : \/ Candidates(g, c) = {n}
                                  \/ \E h \in Houses : Places(g, h, n) = {c}}]
  IN  IF \A c \in Holes(g) : forced[c] = {} THEN g
      ELSE Closure[[c \in Cell |-> IF g[c] = 0 /\ forced[c] # {} THEN CHOOSE n \in forced[c] : TRUE
                                   ELSE g[c]]]

(***************************************************************************)
(* Properties                                                              *)
(***************************************************************************)

\* Grids hold numbers, calls their cells, and the counters stay in bounds.
TypeOK ==
  /\ pc \in {"idle", "loop", "fill", "dig", "ready"} /\ request \in Requests \union {0}
  /\ grid \in Grid /\ solved \in Grid
  /\ trail \in Seq(Call)
  /\ order = <<>> \/ order \in Orders
  /\ iterator \in 0 .. N * N /\ counter \in 0 .. MaxPasses
  /\ stats \in [hardness : {-1, 0, 1, 2, 3, 4, 5}, hidden_total : Nat]

\* The full grid is one although nobody asks fill_other_boxes whether it
\* succeeded: every house has every number.
FullGridIsFull == order # <<>> => Complete(solved) /\ NoConflict(solved)

\* After any holes dug and filled again, the grid has the solution that is
\* sent with it and no other.
OneSolution == pc \in {"loop", "ready"} /\ order # <<>> => Solutions[grid] = {solved}

\* What is delivered is as hard as was asked: easy without hidden singles,
\* medium to expert by singles with the holes of its band, and extreme not by
\* singles, unless it has too many holes for anybody to have tried.
AsHardAsAsked ==
  LET holes == Cardinality(Holes(grid))
  IN  Found => CASE request = 1 -> holes = EasyHoles /\ NakedClosure[grid] = solved
                 [] request = 2 -> holes \in EasyHoles + 1 .. MediumHoles /\ Closure[grid] = solved
                 [] request = 3 -> holes \in MediumHoles + 1 .. HardHoles /\ Closure[grid] = solved
                 [] request = 4 -> /\ holes \in HardHoles + 1 .. LogicBelow - 1 /\ Closure[grid] = solved
                                   /\ NakedClosure[grid] # solved
                 [] request = 5 -> holes >= LogicBelow \/ Closure[grid] # solved

\* A hint is a number of the solution, whatever the player has filled in.
HintIsRight == pc = "ready" => \A hint \in Hint(grid) : solved[hint[1]] = hint[2]

\* A grid that was solvable by singles stays so: there is a hint for as long
\* as there is a hole.
HintIsThere == pc = "ready" /\ request # 5 /\ Holes(grid) # {} => Hint(grid) # {}

\* A request is answered, if the shuffles give every outcome again and again.
IsAnswered == pc = "loop" ~> pc = "ready"
==============================================================================
