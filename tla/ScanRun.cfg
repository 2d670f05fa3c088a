\* Every interleaving of the four jobs, with two slots.
CONSTANTS
  trivy = trivy  probe = probe  absent = absent  image = image  host = host  one = one  two = two
  images = images  base = base  dast = dast  cluster = cluster  none = none  planning = planning
  sarif = sarif  file = file  sast = sast  sca = sca
  NumJobs <- MCNumJobs
  Scanner <- MCScanner
  Target <- MCTarget
  Source <- MCSource
  Ident <- MCIdent
  Component <- MCComponent
  Control <- MCControl
  Registered = {trivy, probe}
  Declarations <- MCDeclarations
  ReadsAfterRun = {}
  Exclusive <- MCExclusive
  NoResource = none
  RateLimited = {trivy}
  Cacheable = {image}
  Planning = planning
  Concurrency = 2
SPECIFICATION Spec
INVARIANTS
  TypeOK SlotsBounded ExclusiveUse ReadersFollow OneScanPerIdentity SharedAnswer
  FailureReachesControl CoverageIsTold TotalsAddUp
