\* The periods of the code, in half seconds; two guests compete for the room.
CONSTANTS
  g1 = g1
  g2 = g2
  Guest = {g1, g2}
  NoGuest = NoGuest
  NoRoom = NoRoom
  HeartbeatPeriod = 4
  SweepPeriod = 4
  GhostAge = 6
  MaxDelay = 1
SPECIFICATION Spec
INVARIANTS TypeOK JoinHonoured
PROPERTIES SparesTheMatch SparesTheWaiting AbandonedRoomGoes MatchStarts
