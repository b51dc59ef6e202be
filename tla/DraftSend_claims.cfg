SPECIFICATION Spec
CONSTANTS
  Drafts = {d1}
  Unreadable = {}
  Handlers = {h1, h2}
  Keys = {k1}
  LegacyKeys = {}
  Bodies = {b1, b2}
  Scheduler = scheduler
  NoDraft = NoDraft
  NoKey = NoKey
  NoBody = NoBody
  NoTime = NoTime
  BadTime = BadTime
  MaxTime = 1
  PollLimit = 2
  MaxRequests = 4
  MaxFaults = 1
SYMMETRY Symmetry
CHECK_DEADLOCK FALSE
INVARIANTS
  TypeOK
  ClaimIsExclusive
  SendsTheClaimedRow
  StatusAgreesWithRelay
  SchedulerNeverRepeats
PROPERTIES
  NeverResent
  ImplementsSendKey
