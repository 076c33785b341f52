\* The last hole is filled by a hint.
CONSTANTS
  c1 = c1
  c2 = c2
  r1 = r1
  r2 = r2
  Cell = {c1, c2}
  Request = {r1, r2}
  Lives = 1
  MaxHints = 1
  NoRow = NoRow
  MaxSent = 4
  MaxLoads = 1
SPECIFICATION Spec
SYMMETRY Symmetry
INVARIANT FullBoardWins
\* A page that was left and is not loaded again.
CHECK_DEADLOCK FALSE
