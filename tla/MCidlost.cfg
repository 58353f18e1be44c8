CONSTANTS
  Operators = {o1}
  UserSpecs <- TwoTasks
  RuntimeIds = {r1, r2}
  NoId = NoId
  PodSuffixes = {1, 2}
  Origins = {"submitted"}
  Faults = {"update", "crash"}
  MaxFaults = 2
SPECIFICATION Spec
INVARIANTS AtMostOneScheduler
