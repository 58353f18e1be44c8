CONSTANTS
  Operators = {o1}
  UserSpecs <- SchedulerOnly
  RuntimeIds = {r1}
  NoId = NoId
  PodSuffixes = {1, 2}
  Origins = {"submitted"}
  Faults = {}
  MaxFaults = 0
SPECIFICATION FairSpec
PROPERTIES SucceededChiefIsReported
