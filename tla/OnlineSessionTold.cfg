\* The owner alone, connecting three times.
CONSTANTS
  Owner = Owner
  Guest = Guest
  o = o
  g = g
  g2 = g2
  Tab = {o}
  Player <- OnlyOwner
  MaxConnects <- OnlyThrice
  Roaming = {o}
  NoWinner = NoWinner
SPECIFICATION Spec
PROPERTY EndIsTold
\* The match is over and its pages are closed or connected: nothing is left to do.
CHECK_DEADLOCK FALSE
