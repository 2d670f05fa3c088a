\* What a canceled run tells the command that called it.
CONSTANTS
  trivy = trivy  probe = probe  absent = absent  image = image  host = host  one = one  two = two
  images = images  base = base  dast = dast  cluster = cluster  none = none  planning = planning
  sarif = sarif  file = file  sast = sast  sca = sca
  NumJobs <- LiveNumJobs
  Scanner <- LiveScanner
  Target <- LiveTarget
  Source <- MCSource
  Ident <- LiveIdent
  Component <- LiveComponent
  Control <- LiveControl
  Registered = {trivy, probe}
  Declarations <- LiveDeclarations
  ReadsAfterRun = {}
  Exclusive <- LiveExclusive
  NoResource = none
  RateLimited = {probe}
  Cacheable = {image}
  Planning = planning
  Concurrency = 1
SPECIFICATION Spec
INVARIANTS
  EveryErrorHasAControl
