SPECIFICATION FairSpec
CONSTANTS
  m1 = m1
  q0 = q0
  rec = rec
  rel = rel
  ping = ping
  UserPackets = {m1}
  Qos0 = {q0}
  Acks = {}
  Recs = {rec}
  Rels = {rel}
  PingReq = ping
  Size = 4
  Length <- MCLength
INVARIANT StreamWhole
INVARIANT SavedIsOwn
INVARIANT AcceptedIsWhole
PROPERTY LockReturns
CHECK_DEADLOCK FALSE
