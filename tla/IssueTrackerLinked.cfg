\* One part over two runs that come one at a time, one request of which may fail.
CONSTANTS
  api = api  web = web  upgrade = upgrade  pin = pin  sca = sca  Parent = parent
  FixOrder <- MCFixOrder
  ControlOf <- MCControlOf
  MaxChildren = 1
  Attempts = 2
  Worlds <- OneWorld
  NumRuns = 2
  MaxTrouble = 1
SPECIFICATION Spec
INVARIANTS ChildrenAreLinked
CHECK_DEADLOCK FALSE
