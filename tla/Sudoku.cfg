SPECIFICATION FairSpec
CONSTANTS
  B = 3
  Requests = {1, 2, 3, 4, 5}
  Deals <- OneDeal
  Shuffles <- OneShuffle
  Orders <- Walks
  EasyHoles = 43
  MediumHoles = 50
  HardHoles = 55
  ExpertHoles = 58
  LogicBelow = 58
  MaxPasses = 100
  OwnCells = {40}
INVARIANTS TypeOK FullGridIsFull OneSolution AsHardAsAsked HintIsRight HintIsThere
PROPERTY IsAnswered
