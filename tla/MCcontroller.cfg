CONSTANTS
  Keys = {k1}
  NoKey = NoKey
  Workers = {w1, w2}
  MaxUid = 2
  MaxFailures = 1
  MaxStops = 1
  MaxRelists = 2
SPECIFICATION FairSpec
INVARIANTS TypeOK QueueOK NoChangeUnseen
PROPERTIES IncarnationsAdvance FollowsKeyedWork EveryJobIsTakenUp
CHECK_DEADLOCK FALSE
