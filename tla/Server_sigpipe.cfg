SPECIFICATION Spec
CONSTANTS
  c1 = c1
  Clients = {c1}
  Scripts <- SomeScripts
  MaxFd = 4
  MaxFaults = 0
  Stop = Stop
  NoClient = NoClient
PROPERTIES
  FailedSendReturns
CHECK_DEADLOCK FALSE
