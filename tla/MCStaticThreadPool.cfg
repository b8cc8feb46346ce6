CONSTANTS
  Workers = {w1, w2}
  Submitters = {s1}
  Destroyer = d
  Tasks = {t1, t2}
  LocalCap = 1
SPECIFICATION FairSpec
INVARIANTS
  NoLostWakeup
  LeavesNothingTaken
PROPERTIES
  EveryTaskRuns
  DestructorReturns
CHECK_DEADLOCK FALSE
