SPECIFICATION Spec
CONSTANTS
  Actors = {s, a}
  Service = s
  Notes = {n}
  Collections = {c1, c2}
  Streams = {c1}
  Tasks = {t1, t2}
  InUse = {"bootstrap", "serve", "reset", "addactor", "addclient", "genkeys", "passwd",
           "restore", "delclient", "token", "addobject", "delete", "move", "copy",
           "import", "repair"}
  Scopes = {{s, a}, {n, c1}}
  Files = {{s}, {a}, {n}}
  MaxSecrets = 4
SYMMETRY Interchangeable
INVARIANTS
  TypeOK
  KeysAgree
  SignaturesVerify
  PasswordKept
  KeysInv
  ProgressInv
PROPERTIES
  RemovedOnlyAfterListed
  DeletedStaysDeleted
  SavesKeepWhatExists
  BootstrapComplete
  SuccessMeansDone
CHECK_DEADLOCK FALSE
