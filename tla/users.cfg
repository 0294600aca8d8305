SPECIFICATION Spec
CONSTANTS
  note = note
  outbox = outbox
  alice = alice
  bob = bob
  anonymous = anonymous
  r1 = r1
  r2 = r2
  r3 = r3
  r4 = r4
  w1 = w1
  w2 = w2
  Actors = {alice, bob}
  IRIs = {note}
  Collections = {}
  Allowed <- NoteForBoth
  Own <- NoOutboxes
  Readers = {r1, r2}
  Wants <- WantNote
  User <- UserMap
  Writers = {w1, w2}
  Changes <- ChangeNote
  MaxOutside = 0
  CacheEnabled = TRUE
  PurgeMayFail = FALSE
INVARIANT
  CachedForOwnUser
CHECK_DEADLOCK FALSE
