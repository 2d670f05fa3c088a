\* What two scanners of one branch read when their checkouts cannot be shared.
CONSTANTS
  sca = sca  sast = sast  web = web  first = first  second = second  third = third
  paths = paths  before = before  after = after
  Jobs = {sca, sast}
  Commits = {first, second}
  Pin <- MCPin
  Branch = Branch
  Scope <- MCScope
  Whole = Whole
  Subtree <- MCSubtree
  HistoryJobs = {sca}
  Local = TRUE
  MaxRuns = 1
  Unasked = Unasked  Unknown = Unknown  NoEntry = NoEntry  Torn = Torn
  NoReport = NoReport  Failed = Failed
SPECIFICATION Spec
INVARIANTS
  OneCommitPerRun
