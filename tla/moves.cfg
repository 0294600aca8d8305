SPECIFICATION Spec
CONSTANTS
  Actors = {s}
  Service = s
  Notes = {n}
  Collections = {c1}
  Streams = {c1}
  Tasks = {t1}
  InUse = {"move"}
  Scopes = {{n}}
  Files = {}
  MaxSecrets = 1
PROPERTY
  MovesKeepObjects
CHECK_DEADLOCK FALSE
