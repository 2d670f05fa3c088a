\* Seven findings, three of them optional, through every step and both kinds of gate.
CONSTANTS
  sca = sca  secrets = secrets  trivy = trivy  grype = grype  govulncheck = govulncheck
  gitleaks = gitleaks  web = web  api = api  repo = repo  mod = mod  testMod = testMod
  source = source  jwt = jwt  cve = cve  ghsa = ghsa  goid = goid  toolsMod = toolsMod  key = key
  NoPkg = noPkg  Project = project
  Report <- MCReport
  Floor <- MCFloor
  Tier <- MCTier
  Exploit <- MCExploit
  HealthAnswers <- MCHealth
  Rules <- MCRules
  ClaimPool <- MCClaims
  MaxClaims = 2
  Honours <- MCHonours
  AsideAnswers <- MCAnswers
  Gates <- MCGates
  Optional = {2, 3, 5}
  Silenceable = {5}
  MarksGiven <- MCMarks
SPECIFICATION Spec
INVARIANTS TypeOK RanksAreCurrent FoldedOnce DecidedOnce FlawsCountedOnce NoUrgentFlawHidden ReachableIsTold GateMatchesFindings
CHECK_DEADLOCK FALSE
