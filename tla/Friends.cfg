\* Two users, three requests in flight at once, and three ids.
CONSTANTS
  u1 = u1
  u2 = u2
  r1 = r1
  r2 = r2
  r3 = r3
  User = {u1, u2}
  Request = {r1, r2, r3}
  MaxRows = 3
SPECIFICATION Spec
SYMMETRY Symmetry
INVARIANTS TypeOK ConsentGiven
PROPERTY CleanStepsArePromised
\* All ids are used up.
CHECK_DEADLOCK FALSE
