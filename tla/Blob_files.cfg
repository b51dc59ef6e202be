SPECIFICATION Spec
CONSTANTS
  m1 = m1
  m2 = m2
  m3 = m3
  b1 = b1
  b2 = b2
  i1 = i1
  i2 = i2
  Messages = {m1, m2, m3}
  InboxOf <- TwoInboxes
  Inboxes = {i1, i2}
  Blobs = {b1, b2}
  BlobsOf <- SharedBlobs
  Readers = {r1}
  NoBlob = NoBlob
  NoMessage = NoMessage
  MaxStarts = 3
  MaxFaults = 1
  MaxShort = 1
CHECK_DEADLOCK FALSE
INVARIANTS
  TypeOK
  CommittedIsWhole
  OrphanIsExpected
  ReadFailsOnlyIfDeleted
