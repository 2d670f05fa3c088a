\* What an entry says of the branch when it moves between the question and the clone.
CONSTANTS
  sca = sca  sast = sast  web = web  first = first  second = second  third = third
  paths = paths  before = before  after = after
  Jobs = {sca, web}
  Commits = {first, second, third}
  Pin <- BranchPin
  Branch = Branch
  Scope <- BranchScope
  Whole = Whole
  Subtree <- BranchSubtree
  HistoryJobs = {}
  Local = TRUE
  MaxRuns = 1
  Unasked = Unasked  Unknown = Unknown  NoEntry = NoEntry  Torn = Torn
  NoReport = NoReport  Failed = Failed
SPECIFICATION Spec
INVARIANTS
  KeyedOnWhatWasScanned
