\* Three jobs in two runs, the branch moving between two commits.
CONSTANTS
  sca = sca  sast = sast  web = web  first = first  second = second  third = third
  paths = paths  before = before  after = after
  Jobs = {sca, sast, web}
  Commits = {first, second}
  Pin <- MCPin
  Branch = Branch
  Scope <- MCScope
  Whole = Whole
  Subtree <- MCSubtree
  HistoryJobs = {}
  Local = TRUE
  MaxRuns = 2
  Unasked = Unasked  Unknown = Unknown  NoEntry = NoEntry  Torn = Torn
  NoReport = NoReport  Failed = Failed
SPECIFICATION Spec
INVARIANTS
  TypeOK SharersAgree PinnedIsPinned RemoteAskedOnce
PROPERTIES
  UnresolvedIsUncached JobsEnd
