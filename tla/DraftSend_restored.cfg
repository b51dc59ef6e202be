SPECIFICATION Spec
CONSTANTS
  Drafts = {d1}
  Unreadable = {}
  Handlers = {h1}
  Keys = {k1}
  LegacyKeys = {}
  Bodies = {b1}
  Scheduler = scheduler
  NoDraft = NoDraft
  NoKey = NoKey
  NoBody = NoBody
  NoTime = NoTime
  BadTime = BadTime
  MaxTime = 0
  PollLimit = 1
  MaxRequests = 3
  MaxFaults = 0
CHECK_DEADLOCK FALSE
INVARIANTS
  RestoredOnlyIfRefused
