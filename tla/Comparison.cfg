\* Two scans of up to four of seven findings, compared in nine ways.
CONSTANTS
  web = web  api = api  flaw = flaw  image = image  words = words  commit = commit
  x = x  y = y  repo = repo  NoHash = noHash  NoRepo = noRepo
  MaxLen = 4
  Scans <- MCScans
  Asks <- MCAsks
SPECIFICATION Spec
INVARIANTS StablePairs ExtraInstanceTrips SameScanIsQuiet
CHECK_DEADLOCK FALSE
