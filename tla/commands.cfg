SPECIFICATION Spec
CONSTANTS
  Requests = {}
  MaxStarts = 2
  SignalRoom = 2
  SSHBuild = FALSE
  DevMode = FALSE
  Outside = {"QUIT"}
  Sessions = {}
  Commands = {c1, c2}
  Available = {"storage", "bootstrap", "debug", "maintenance", "reload", "stop"}
SYMMETRY Interchangeable
INVARIANTS
  TypeOK
  FlagCountsDebtors
  NoLeftoverMaintenance
  SharedStorageHasCause
  OfflineMeansClosed
  FedBOXInv
CHECK_DEADLOCK FALSE
