SPECIFICATION Spec
CONSTANTS
  Requests = {}
  MaxStarts = 1
  SignalRoom = 1
  SSHBuild = TRUE
  DevMode = FALSE
  Outside = {}
  Sessions = {s1, s2}
  Commands = {}
  Available = {}
PROPERTY
  IsServer
CHECK_DEADLOCK FALSE
