SPECIFICATION Spec
CONSTANTS
  Hosts = {"a.b", "b.a", "a.b.c"}
  Pieces <- HostPieces
  Fedbox = 0
  Ports = {"1024", "1025"}
  TypeOrder <- TwoTypes
  Settings <- OperatorSettings
  Launches <- Environments
  Command <- CommandLines
  MaxEdits = 2
  Layouts <- FileLayouts
INVARIANTS
  TypeOK
  CommandsFindServer
  ReloadIsRestart
  InstancesApart
  ConfigInv
CHECK_DEADLOCK FALSE
