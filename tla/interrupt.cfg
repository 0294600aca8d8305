SPECIFICATION Spec
CONSTANTS
  Requests = {r1}
  MaxStarts = 1
  SignalRoom = 2
  SSHBuild = FALSE
  DevMode = FALSE
  Outside = {"INT"}
  Sessions = {}
  Commands = {}
  Available = {}
INVARIANT
  InterruptLetsRequestsFinish
CHECK_DEADLOCK FALSE
