SPECIFICATION CustodySpec
CONSTANTS
  Keys = {k1, k2, k3}
  EnvKeys = {k3}
  NoKey = NoKey
  Corrupt = Corrupt
  Resolvers = {p1, p2}
  AllowFile = TRUE
  MaxRetired = 1
  MaxRuns = 2
SYMMETRY Symmetry
INVARIANT NothingOrphaned
CHECK_DEADLOCK FALSE
