SPECIFICATION FairSpec
CONSTANTS
  w1 = w1
  w2 = w2
  c1 = c1
  c2 = c2
  t1 = t1
  t2 = t2
  t3 = t3
  NoTask = NoTask
  Worker = {w1, w2}
  Client = {c1}
  Task = {t1}
  Main = c1
PROPERTY ShutdownReturns
CHECK_DEADLOCK FALSE
