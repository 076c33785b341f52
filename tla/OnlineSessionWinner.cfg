\* A winner that reconnects is shown a defeat.
CONSTANTS
  Owner = Owner
  Guest = Guest
  o = o
  g = g
  g2 = g2
  Tab = {o, g}
  Player <- OneTabEach
  MaxConnects <- OwnerTwice
  Roaming = {o, g}
  NoWinner = NoWinner
SPECIFICATION Spec
INVARIANT WinnerIsTold
\* The match is over and its pages are closed or connected: nothing is left to do.
CHECK_DEADLOCK FALSE
