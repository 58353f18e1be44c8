CONSTANTS
  Operators = {o1, o2}
  UserSpecs <- RejectedAndAccepted
  RuntimeIds = {r1, r2}
  NoId = NoId
  PodSuffixes = {1}
  Origins = {"submitted", "upgraded"}
  Faults = {"update", "lostUpdate", "list", "listReplica", "crash", "edit", "cleanUp", "earlyCleanUp"}
  MaxFaults = 1
SPECIFICATION Spec
INVARIANTS IInv NeverAdmitRejected LateUpdatesAreNoOps
PROPERTIES RuntimeIdWriteOnce FollowsLifecycle
SYMMETRY Symmetry
