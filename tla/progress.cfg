SPECIFICATION FairSpec
CONSTANTS
  Requests = {r1}
  MaxStarts = 1
  SignalRoom = 2
  SSHBuild = FALSE
  DevMode = FALSE
  Outside = {"TERM"}
  Sessions = {}
  Commands = {c1}
  Available = {"storage", "bootstrap"}
PROPERTIES
  StopHonoured
  MaintenanceEnds
  RequestsEnd
  ImplementsAvailability
CHECK_DEADLOCK FALSE
