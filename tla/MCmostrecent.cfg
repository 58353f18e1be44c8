CONSTANTS
  Operators = {o1}
  UserSpecs <- SchedulerOnly
  RuntimeIds = {r1}
  NoId = NoId
  PodSuffixes = {1, 2}
  Origins = {"upgraded"}
  Faults = {"podFail"}
  MaxFaults = 2
SPECIFICATION Spec
INVARIANTS MostRecentPodIsRead
