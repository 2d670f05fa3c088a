\* One file imported into two controls, and what each says when it cannot be read.
CONSTANTS
  trivy = trivy  probe = probe  absent = absent  image = image  host = host  one = one  two = two
  images = images  base = base  dast = dast  cluster = cluster  none = none  planning = planning
  sarif = sarif  file = file  sast = sast  sca = sca
  NumJobs <- ImportNumJobs
  Scanner <- ImportScanner
  Target <- ImportTarget
  Source <- ImportSource
  Ident <- ImportIdent
  Component <- ImportComponent
  Control <- ImportControl
  Registered = {sarif}
  Declarations <- ImportDeclarations
  ReadsAfterRun = {}
  Exclusive <- ImportExclusive
  NoResource = none
  RateLimited = {}
  Cacheable = {file}
  Planning = planning
  Concurrency = 2
SPECIFICATION Spec
INVARIANTS
  EveryFailedControlSaysSo
