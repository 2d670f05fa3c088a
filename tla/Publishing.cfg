\* Two servers, every fault of the network, time short and long.
SPECIFICATION Spec
CONSTANTS
  s1 = s1
  s2 = s2
  Order <- MCOrder
  Invocations <- MCInvocations
  Settings <- MCSettings
  Attempts = 2
  PollInterval = 1
  MaxBackoff = 2
  MaxRetryAfter = 0
  RunOutcomes = {0, 1}
INVARIANTS
  TypeOK
  CleanExitIsDecided
  FailureStands
  RecordedOnce
  OneLimit
PROPERTY
  AwaitEnds
