SPECIFICATION MCSpec
CONSTANTS
  a = a
  b = b
  s1 = s1
  s2 = s2
  Callers = {a, b}
  Sockets = {s1, s2}
  Timeout = 1
  MaxBuilds = 2
  ph1 = ph1
  ph2 = ph2
  Phones = {ph1, ph2}
  MaxMints = 2
  PairBeside = TRUE
  TornWrites = TRUE
CHECK_DEADLOCK FALSE
INVARIANTS
  OnePhonePerCode
  LossHasACause
PROPERTIES
  EnsureReturns
  IdleIsUnloaded
