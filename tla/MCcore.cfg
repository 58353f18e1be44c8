CONSTANTS
  Operators = {o1}
  UserSpecs <- OddSpecsAndTwoTasks
  RuntimeIds = {r1, r2}
  NoId = NoId
  PodSuffixes = {1, 2, 3}
  Origins = {"submitted"}
  Faults = {"lostUpdate", "crash", "create", "lostCreate", "get", "podFail", "podRemove"}
  MaxFaults = 2
SPECIFICATION Spec
INVARIANTS TypeOK AcceptedNeverPanics PodsCarryStoredId OnePodPerTask
SYMMETRY Symmetry
