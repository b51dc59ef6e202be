SPECIFICATION Spec
CONSTANTS
  m1 = m1
  m2 = m2
  id1 = id1
  Mails = {m1, m2}
  MessageId <- SharedId
  NoId = NoId
  Stamps = {1, 6}
  NoStamp = NoStamp
  NoTomb = NoTomb
  NoPost = NoPost
  Handlers = {h1, h2}
  Tolerance = 1
  Retention = 5
  MaxSkew = 1
  MaxHold = 1
  MaxTime = 6
  MaxFaults = 1
SYMMETRY Symmetry
CHECK_DEADLOCK FALSE
INVARIANTS
  TypeOK
  ReplayStoresNothing
  OneLiveCopy
  AnsweredWasStored
CONSTRAINT Focus
