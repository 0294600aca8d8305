SPECIFICATION ServerSpec
CONSTANTS
  Requests = {r1}
  MaxStarts = 1
  SignalRoom = 1
  SSHBuild = TRUE
  DevMode = FALSE
  Outside = {"USR1", "USR2", "HUP", "TERM", "QUIT"}
INVARIANTS
  ServerTypeOK
  LateRequestsRefused
  ServerInv
PROPERTY
  ImplementsAvailability
CHECK_DEADLOCK FALSE
