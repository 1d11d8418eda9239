SPECIFICATION FairSpec
CONSTANTS
  o1 = o1
  o2 = o2
  i1 = i1
  i2 = i2
  NoMsg = NoMsg
  OutQ1 = {o1}
  OutQ2 = {o2}
  InQ1 = {i1}
  InQ2 = {i2}
  MaxPacketId = 2
  AckMax = 3
  BrokerIds = {1}
  CleanSession = FALSE
  ChanBound = 2
  MaxDrops = 1
INVARIANT NodesIdentified
INVARIANT AcceptedIsKept
INVARIANT NoPublishAfterPubrel
PROPERTY DeliverySpec
CHECK_DEADLOCK FALSE
PROPERTY AcceptedIsForwarded
PROPERTY AcksDrain
