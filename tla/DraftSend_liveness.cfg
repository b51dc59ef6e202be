SPECIFICATION FairSpec
CONSTANTS
  Drafts = {d1, d2, u1}
  Unreadable = {u1}
  Handlers = {h1}
  Keys = {k1}
  LegacyKeys = {k1}
  Bodies = {b1}
  Scheduler = scheduler
  NoDraft = NoDraft
  NoKey = NoKey
  NoBody = NoBody
  NoTime = NoTime
  BadTime = BadTime
  MaxTime = 1
  PollLimit = 2
  MaxRequests = 2
  MaxFaults = 1
CHECK_DEADLOCK FALSE
PROPERTIES
  DueDraftIsHandled
