SPECIFICATION Spec
CONSTANTS
  o1 = o1
  o2 = o2
  i1 = i1
  i2 = i2
  NoMsg = NoMsg
  OutQ1 = {o1}
  OutQ2 = {}
  InQ1 = {}
  InQ2 = {i1, i2}
  MaxPacketId = 2
  AckMax = 4
  BrokerIds = {1}
  CleanSession = TRUE
  ChanBound = 2
  MaxDrops = 1
INVARIANT FirstReceiptProcessed
CHECK_DEADLOCK FALSE
