SPECIFICATION Spec
CONSTANTS
  Actors = {s}
  Service = s
  Notes = {}
  Collections = {c1}
  Streams = {c1}
  Tasks = {t1}
  InUse = {"bootstrap"}
  Scopes = {}
  Files = {}
  MaxSecrets = 3
INVARIANT
  FilesOutliveFailure
CHECK_DEADLOCK FALSE
