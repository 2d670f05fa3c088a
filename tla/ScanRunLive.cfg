\* One slot, a reader planned before what it reads, an unregistered scanner, and a cyclic order or none.
CONSTANTS
  trivy = trivy  probe = probe  absent = absent  image = image  host = host  one = one  two = two
  images = images  base = base  dast = dast  cluster = cluster  none = none  planning = planning
  sarif = sarif  file = file  sast = sast  sca = sca
  NumJobs <- LiveNumJobs
  Scanner <- LiveScanner
  Target <- LiveTarget
  Source <- MCSource
  Ident <- LiveIdent
  Component <- LiveComponent
  Control <- LiveControl
  Registered = {trivy, probe}
  Declarations <- LiveDeclarations
  ReadsAfterRun = {}
  Exclusive <- LiveExclusive
  NoResource = none
  RateLimited = {probe}
  Cacheable = {}
  Planning = planning
  Concurrency = 1
SPECIFICATION Spec
PROPERTIES
  Termination KeepsPromise
