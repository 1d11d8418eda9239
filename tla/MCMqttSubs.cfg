SPECIFICATION Spec
CONSTANTS
  a = a
  b = b
  bad = bad
  Topic = {a, b, bad}
  Refused = {bad}
  Handler = {1, 2, 3, 4}
  NoTopic = NoTopic
  MaxPacketId = 5
  CleanSession = TRUE
  MaxCalls = 3
  MaxDrops = 2
INVARIANT OneOwner
INVARIANT NoOtherLeak
INVARIANT OneHandlerPerTopic
INVARIANT SubscribeIsSafe
INVARIANT HandlersSubscribed
CHECK_DEADLOCK FALSE
