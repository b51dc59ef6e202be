SPECIFICATION Spec
CONSTANTS
  NumItems = 2
  KeysOf <- TwoColumns
  BatchSize = 1
  NumRoots = 2
  Absent = Absent
  Plain = Plain
  Foreign = Foreign
  Resets = TRUE
  MaxStarts = 2
  MaxWrites = 1
  MaxFaults = 1
  Stores = {s1, s2}
  Maintainers = {t1}
  Worker = w
  NoStore = NoStore
  MaxDefers = 3
  MaxSpawnFaults = 1
  Keys = {k1, k2}
  EnvKeys = {k2}
  NoKey = NoKey
  Corrupt = Corrupt
  Resolvers = {p1, p2}
  AllowFile = TRUE
  MaxRetired = 1
  MaxRuns = 2
  MaxRecords = 4
  MaxFaulty = 2
  ChunkSize = 2
  TagLen = 2
  MaxPlain = 5
  NoChunk = NoChunk
  Indexes = {i1, i2}
  Partitions = {q1}
  Vectors = {v1, v2}
  v1 = v1
  v2 = v2
  SizesOf <- TwoSizes
  Limit = 3
  Loaders = {l1}
  MaxUses = 3
  NoSize = NoSize
  NoPartition = NoPartition
  NoSealKey = NoSealKey
  NoPlace = NoPlace
  NoText = NoText
  Masters = {m1, m2}
  OwnRoot = OwnRoot
  SecretSlots = {g1, g2}
  SecretTexts = {t1, t2}
  Stub = Stub
  NoFile = NoFile
  MaxStartups = 3
  MaxSecretWrites = 1
  app = app
  ide = ide
  other = other
  Openers = {app, ide, other}
  KeyHeldBy <- ThreeOpeners
  NumRows = 2
  RowTexts = {t1, look}
  Lookalike = look
  MaxOpens = 4
  MaxRowWrites = 2
  ConfigFields = {f1, f2}
  SecretFiles = {g1}
  ConfigTexts = {t1, t2}
  Mask = Mask
  ConfigRoots = {1, 2}
  MaxConfigSteps = 3
INVARIANTS
  TypesOK
  MigrationLeavesNoPlain
  CacheFits
  CommittedLogOpens
  ReadsAreExact
  SecretsOpen
  SealedStaysOpenable
  SharedStoreIsSound
  SecretsSurvive
PROPERTIES
  MigrationFinishes
  DeferredIsTaken
  ImplementsSyncedLog
CHECK_DEADLOCK FALSE
