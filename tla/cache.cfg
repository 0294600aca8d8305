SPECIFICATION Spec
CONSTANTS
  note = note
  outbox = outbox
  alice = alice
  bob = bob
  anonymous = anonymous
  r1 = r1
  r2 = r2
  r3 = r3
  r4 = r4
  w1 = w1
  w2 = w2
  Actors = {alice, bob, anonymous}
  IRIs = {note, outbox}
  Collections = {outbox}
  Allowed <- NotePrivate
  Own <- Outboxes
  Readers = {r1, r2, r3, r4}
  Wants <- Asked
  User <- Asking
  Writers = {w1, w2}
  Changes <- Changed
  MaxOutside = 1
  CacheEnabled = TRUE
  PurgeMayFail = TRUE
INVARIANTS
  TypeOK
  StaleHasCause
  
CHECK_DEADLOCK FALSE
