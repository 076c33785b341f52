\* One tab of the owner, which connects twice, and two tabs of the guest, which connect once.
CONSTANTS
  Owner = Owner
  Guest = Guest
  o = o
  g = g
  g2 = g2
  Tab = {o, g, g2}
  Player <- TwoTabs
  MaxConnects <- OwnerTwiceTabsOnce
  Roaming = {}
  NoWinner = NoWinner
SPECIFICATION Spec
SYMMETRY Tabs
INVARIANTS TypeOK OneSession VictoryIsTrue NoFalseAlarm NoneLeftOut
\* The match is over and its pages are closed or connected: nothing is left to do.
CHECK_DEADLOCK FALSE
