SPECIFICATION MCSpec
CONSTANTS
  MaxCalls = 2
  Bodies <- MCBodies
  Prose <- MCProse
  c1 = c1
  c2 = c2
  Callers = {c1, c2}
  MaxIds = 4
  MaxTalk = 1
  MaxAborts = 1
  t1 = t1
  t2 = t2
  u1 = u1
  u2 = u2
  m1 = m1
  m2 = m2
  Turns = {t1, t2}
  MaxCards = 2
  MaxSpoken = 1
  Urls = {u1, u2}
  Endpoint = u2
  Models = {m1, m2}
  Serves <- MCServes
  Deepest = 2
  MaxTries = 2
  MaxWrites = 2
  SubmitWords = {"go"}
  Limit = 2
  Tries = 2
  Plans <- MCPlans
  Pages <- MCPages
  Leads <- MCLeads
  MaxSteps = 3
  Start <- Blank
  Windows = {"w1"}
  Controls = {"field", "box"}
  FieldsOf = {"field", "box"}
  Subtasks = 1
  StepLimit = 3
  BatchSize = 1
  MaxAstray = 1
  Starters = {"terminal", "gateway"}
  Disabled = {}
  Releases = {"hints", "plans"}
  Extras = {"plain", "none"}
  ToolsOn <- MCToolsOn
  Ttl = 1
  MaxHours = 3
  MaxStarts = 3
  MaxBroken = 1
CHECK_DEADLOCK FALSE
INVARIANTS
  CutKeepsShape
  CallsAddUp
  ReplyIsOwn
  TypedTurnsAlone
  ModelsOfTheirEndpoint
  DoneIsVerified
  NoAnswerOwed
  FreshIsRecent
  OfferServes
