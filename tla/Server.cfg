SPECIFICATION FairSpec
CONSTANTS
  c1 = c1
  c2 = c2
  Clients = {c1, c2}
  Scripts <- AllScripts
  MaxFd = 5
  MaxFaults = 2
  Stop = Stop
  NoClient = NoClient
INVARIANTS
  FdOwnership QueueMatchesJobs LeakOnlyOnRejection
PROPERTIES
  ImplementsStatusSession EveryClientLeaves
CHECK_DEADLOCK FALSE
