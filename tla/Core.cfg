SPECIFICATION MCSpec
CONSTANTS
  t1 = t1
  t2 = t2
  t3 = t3
  Threads = {t1, t2, t3}
  MaxEpoch = 2
  read = read
  write = write
  i1 = i1
  i2 = i2
  Tools = {read, write}
  Requires = {write}
  Ids = {i1, i2}
  Modes = {"never", "typo"}
  AskIds = {i2}
  MaxPrompts = 2
  MaxOpen = 2
CHECK_DEADLOCK FALSE
INVARIANTS
  NoLostWakeup
  NoLostFire
  OneAnswerOneCall
PROPERTY
  StopEndsPrompts
