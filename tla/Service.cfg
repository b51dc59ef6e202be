SPECIFICATION Spec
CONSTANTS
  Hooks = {h1}
  e1 = e1
  e2 = e2
  e3 = e3
  Events = {e1, e2}
  Axes <- TwoAxes
  Values = {"i1", "i2"}
  FactOf <- Facts
  Inbox = "inbox"
  Patches <- TwoPatches
  Requests = {r1}
  MaxAttempts = 2
  MaxSecrets = 2
  MaxFaults = 1
  MaxCrashes = 1
  MaxRequests = 2
  NoValue = NoValue
  NoHook = NoHook
  NoRow = NoRow
  NoTask = NoTask
  NoPatch = NoPatch
  Keep = Keep
  Emitted = {e1, e2, e3}
  EventFilters <- TwoFilters
  Clients = {c1}
  Capacity = 2
  MaxFaultyStores = 1
  MaxRequestsSent = 2
  NoFilter = NoFilter
  Messages = {m1, m2}
  Tracked = {m1}
  Labels = {"l1"}
  Opened = "opened"
  ThreadLimit = 1
  Workers = {w1, w2}
  MaxMarks = 2
  MaxStoreFaults = 1
  Gone = Gone
  Never = Never
  Coming = Coming
  m1 = m1
  m2 = m2
  m3 = m3
  m4 = m4
  Mails = {m1, m2, m3, m4}
  ScanColumns <- TwoScanned
  HitIn <- MailHits
  ShutIn <- MailShut
  Batch = 2
  ScanLimit = 3
  Limit = 2
  MaxChanges = 2
  InboxIds = {"l1", "l2", "i1"}
  PodIds = {"p1", "p2"}
  Addresses = {a1, a2}
  ClientIds = {x1}
  LegacyInboxes = {"l1", "l2"}
  Callers = {c1, c2}
  MaxRegistrySteps = 3
  NoRecord = NoRecord
  NoClient = NoClient
  NoPod = NoPod
  HostCallers = {c1}
  None_hc = None_hc
  WireLines = {"delta", "[DONE]", "garbage", "comment"}
  MaxWire = 6
  MaxHostCalls = 1
  Runs = {w1, w2}
  RunPorts = {p1, p2}
  Nobody = Nobody
  Stranger = Stranger
  CoreToken = CoreToken
  HandoffRoutes <- ItemsRoutes
  AskedPaths <- TwoPaths
  MaxCalls = 2
  ProofPorts = {p1, p2}
  Bearers = {b1, b2}
  ProofClients = {c1, c2}
  NoListener = NoListener
  Impostor = Impostor
  Ttl = 1
  ProbeTime = 1
  MaxClock = 2
  MaxAsks = 2
  MailAddresses = {"bot", "BOT", "amy", "ben"}
  LowerOf <- TwoCases
  OwnAddress = "bot"
  Arrivals <- OneArrival
  Asked <- NoneOrBen
  Blockable = {"ben"}
  MaxMails = 3
  MaxRecipients = 3
  SummaryMails = 1
  MaxEdits = 1
CONSTRAINT Explored
INVARIANTS
  TypesOK
  InboxHookKeepsItsInbox
  DeliversItsSubscription
  MarksHold
  SearchIsRight
  RegistryIsUnambiguous
  HostIsReported
  HandoffOpensItsRun
  BearerIsProved
  ConversationsHold
PROPERTIES
  DeliveriesSettle
  ImplementsEventDelivery
CHECK_DEADLOCK FALSE
