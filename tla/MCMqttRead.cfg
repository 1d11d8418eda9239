SPECIFICATION ReadFairSpec
CONSTANTS
  pub = pub
  ack = ack
  over = over
  long = long
  Publishes = {pub}
  Others = {ack, over, long}
  Remaining <- MCRemaining
  Base = 2
  ReadBufSize = 6
  Topic <- MCTopic
  Filters <- MCHandlers
  Topics <- MCTopics
  HandlerLists <- MCHandlerLists
  MaxSent = 2
  MaxTimeouts = 1
INVARIANT InStep
INVARIANT BrokenIsLast
INVARIANT CallsSubscribed
PROPERTY AllRead
CHECK_DEADLOCK FALSE
