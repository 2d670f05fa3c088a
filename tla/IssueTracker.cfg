\* Three runs, in turn or overlapping, over one part or two; one thing going wrong.
CONSTANTS
  api = api  web = web  upgrade = upgrade  pin = pin  sca = sca  Parent = parent
  FixOrder <- MCFixOrder
  ControlOf <- MCControlOf
  MaxChildren = 1
  Attempts = 2
  Worlds <- MCWorlds
  NumRuns = 3
  MaxTrouble = 1
SPECIFICATION Spec
INVARIANTS TypeOK NothingPilesUp Mirrors DuplicatesKeepTheOldest
PROPERTIES ChildrenCloseFirst
CHECK_DEADLOCK FALSE
