CONSTANTS
  Keys = {k1}
  NoKey = NoKey
  Workers = {w1}
  MaxUid = 1
  MaxFailures = 1
  MaxStops = 0
  MaxRelists = 1
SPECIFICATION FairSpec
PROPERTY DeletedJobIsForgotten
CHECK_DEADLOCK FALSE
