SPECIFICATION FairPipelineSpec
CONSTANTS
  Frames = 5
  Torn = Torn
  Period = 2
  PlaneFails = TRUE
INVARIANT TearFree
INVARIANT UnmappedAfterShow
PROPERTY LatestSpec
PROPERTY LastShown
PROPERTY DestructorReturns
PROPERTY MetadataSeen
CHECK_DEADLOCK FALSE
