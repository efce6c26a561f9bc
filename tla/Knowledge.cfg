SPECIFICATION Spec
CONSTANTS
  c1 = c1
  c2 = c2
  t = t
  k1 = k1
  k2 = k2
  Claims = {c1, c2}
  Slugs = {t}
  Captures = {k1, k2}
  SlugOf <- MCSlugOf
  OriginOf <- MCOriginOf
  MinRecalls = 2
  MaxMerged = 2
  MaxLines = 3
  MaxRows = 2
  MaxFaults = 1
SYMMETRY Symmetry
INVARIANTS
  QuarantineHolds
  IndexCoversFiles
PROPERTY
  PromotionIsEarned
