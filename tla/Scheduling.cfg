SPECIFICATION MCSpec
CONSTANTS
  j1 = j1
  j2 = j2
  j3 = j3
  Jobs = {j1, j2, j3}
  MaxConcurrent = 2
  Panicking = {j3}
  daily = daily
  often = often
  p1 = p1
  Tasks = {daily, often}
  Pollers = {p1}
  Fires <- MCFires
  MaxClock = 4
  Size <- MCSize
  Texts <- MCTexts
  SearchStarts = {0, 21, 46}
  Limit = 60
CHECK_DEADLOCK FALSE
INVARIANTS
  PermitsBalance
  WithdrawalHolds
  FirstMatch
PROPERTIES
  JobBoardSpec
  DueTaskRuns
