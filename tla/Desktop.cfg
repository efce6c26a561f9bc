SPECIFICATION MCSpec
CONSTANTS
  MaxLlmCallsSingleTask = 3
  ToolsPerDecision = 1
  MaxCalls = 2
  Plans <- MCPlans
  Revisions <- MCRevisions
  Fallback <- MCFallback
  MaxObjectives = 3
  MaxLlm = 3
  MaxRecoveries = 1
  MaxActs = 3
  Attempts = 2
  MaxRepeats = 1
  ReplanOnFailure = TRUE
  MaxRuns = 2
  Catalog = {"hint_act", "browser_press_key", "verify", "wait_until", "browser_evaluate", "find", "hint_resolve", "browser_open", "hint_snapshot", "browser_navigate"}
  Gated = {"browser_press_key", "browser_open"}
  Replies <- MCReplies
  Polls = 2
  MaxRequests = 3
CHECK_DEADLOCK FALSE
INVARIANTS
  FewAfterStop
  HollowNeverComplete
  OneLaunch
PROPERTIES
  RunsEnd
