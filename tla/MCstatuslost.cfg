CONSTANTS
  Operators = {o1}
  UserSpecs <- SchedulerOnly
  RuntimeIds = {r1}
  NoId = NoId
  PodSuffixes = {1, 2}
  Origins = {"submitted"}
  Faults = {"update"}
  MaxFaults = 2
SPECIFICATION FairSpec
PROPERTIES StatusIsStored
