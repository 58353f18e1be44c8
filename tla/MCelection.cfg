CONSTANTS
  Operators = {o1, o2}
  NoOne = NoOne
  LeaseDuration = 9
  RenewDeadline = 2
  RetryPeriod = 1
  MaxDelay = 1
  MaxFaults = 2
SPECIFICATION FairSpec
INVARIANTS TypeOK AtMostOneLeader LeaderHolds
PROPERTIES FollowsLease SomeoneLeads
