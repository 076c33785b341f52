\* Two requests in flight at once: one of each player, or two of one player.
CONSTANTS
  c1 = c1
  c2 = c2
  r1 = r1
  r2 = r2
  Cell = {c1, c2}
  Request = {r1, r2}
  Lives = 2
  MaxMoves = 2
  NoWinner = NoWinner
SPECIFICATION Spec
SYMMETRY Symmetry
INVARIANTS TypeOK NothingInvented JustWinner StatusAgrees CleanRecord
PROPERTY CleanStepsAreAtomic
\* A finished match receives no more moves.
CHECK_DEADLOCK FALSE
