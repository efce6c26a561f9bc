SPECIFICATION MCSpec
CONSTANTS
  s0 = s0
  s1 = s1
  s2 = s2
  p1 = p1
  p2 = p2
  Ids = {s0, s1, s2}
  Prompts = {p1, p2}
  LegacyId = s0
  LegacyTurns <- MCLegacyTurns
  MaxHistory = 3
  Keep = 1
  AutoCompact = TRUE
  MaxFaults = 1
  MaxCommands = 2
  Requests = {"play", "ask"}
  Commands <- MCCommands
  MaxPlan = 2
  CacheMax = 1
  MaxTurns = 3
  TaskIds = {"t1", "t2"}
  SoonWithin = 1
  StalledFor = 1
  MaxTime = 2
  MaxRounds = 1
  Lines = {"a", "b", "c"}
  Length <- MCLength
  Alike <- MCAlike
  MaxLines = 3
  Urls = {"u1"}
  MaxWatches = 1
  MaxChecks = 1
  Links <- MCLinks
  Blank <- MCBlank
  MaxPolls = 1
  MaxOps = 2
  MaxLate = 1
  MaxTabs = 2
SYMMETRY Swaps
INVARIANTS
  LiveIsLogged
  StopEndsPlan
  DiffIsExact
  EachStepOnTheLast
CHECK_DEADLOCK FALSE
