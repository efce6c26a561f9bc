SPECIFICATION MCSpec
CONSTANTS
  c1 = c1
  c2 = c2
  r1 = r1
  r2 = r2
  q1 = q1
  Clients = {c1, c2}
  Runs = {r1, q1}
  Rest = {q1}
  Panicking = {r1, q1}
  Editors = {"e1", "e2"}
  PageIds = {"p1", "p2"}
  SpaceNames = {"home"}
  Titles = {"day"}
  Texts = {"fine", "grey"}
  Tags = {"walk"}
  Words = {"day", "fine"}
  Holds <- MCHolds
  MaxAsks = 4
  MaxBroken = 1
  Typed = {"x", "/"}
  Headings <- MCHeadings
  MaxUndo = 2
  MaxKeys = 3
  MaxChars = 5
  Skilled = {"w1", "w2"}
  Kinds = {"mail", "letter", "tea"}
  Resembles <- MCResembles
  StepsOf <- MCStepsOf
  Histories <- MCHistories
  MinOccurrences = 2
  MinUses = 1
  MinStable = 2
  OneDigit = 2
  MaxUses = 2
  MaxSteps = 4
  MaxRemarks = 1
  MaxCrashes = 1
  MaxTries = 3
  Askers = {"a1", "a2"}
  Paths = 3
  Builds <- MCBuilds
  Intents = {"act"}
  Levels = {"3"}
  Picks = {"none", "tea"}
  SlugFor <- MCSlugFor
  MaxQueries = 2
  MaxBuilds = 2
CHECK_DEADLOCK FALSE
INVARIANTS
  BooksBalance
  RunsKeptApart
  SheetFollowsRow
  RecordedIsCounted
PROPERTIES
  SlotIsFreed
  KeepsHistory
  PathIsFound
