CONSTANTS
  Operators = {o1}
  UserSpecs <- TwoTasks
  RuntimeIds = {r1}
  NoId = NoId
  PodSuffixes = {1, 2, 3}
  Origins = {"submitted"}
  Faults = {"update", "lostUpdate", "list", "get", "create", "lostCreate", "crash", "podFail", "podRemove", "edit", "jobDelete", "stale"}
  MaxFaults = 1
SPECIFICATION FairSpec
INVARIANTS PodsBounded
PROPERTIES Converges DeletedJobIsCollected
CHECK_DEADLOCK FALSE
