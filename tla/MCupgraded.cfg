CONSTANTS
  Operators = {o1}
  UserSpecs <- UpgradedJobs
  RuntimeIds = {r1}
  NoId = NoId
  PodSuffixes = {1, 2}
  Origins = {"upgraded"}
  Faults = {"crash", "get", "podFail", "restart", "cleanUp", "delete"}
  MaxFaults = 1
SPECIFICATION KubeletFairSpec
INVARIANTS DoneMeansTerminated DoneHasChief CleanUpDeletesAll
PROPERTIES SucceededChiefIsReported
