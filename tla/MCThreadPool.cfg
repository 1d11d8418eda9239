SPECIFICATION FairSpec
CONSTANTS
  w1 = w1
  w2 = w2
  c1 = c1
  c2 = c2
  t1 = t1
  t2 = t2
  t3 = t3
  NoTask = NoTask
  Worker = {w1, w2}
  Client = {c1, c2}
  Task = {t1, t2, t3}
  Main = c1
INVARIANT JoinedIsFinished
PROPERTY QueueSpec
PROPERTY SubmittedRuns
CHECK_DEADLOCK FALSE
