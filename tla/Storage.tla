--------------------------------- MODULE Storage ---------------------------------
(***************************************************************************)
(* An installation's storage under all the commands, and what is left of   *)
(* it when they overlap, fail or are killed.                               *)
(***************************************************************************)
EXTENDS Accounts

vars == <<stored, metaVars, colVars, oauthVars, fresh, task, disturbed, keyVars, fileVars>>

TypeOK == StoreTypeOK /\ KeysTypeOK /\ AccountsTypeOK

-----------------------------------------------------------------------------

\* Nothing but the files of the operator
NewInstallation ==
  /\ stored = [i \in Items |-> Absent]
  /\ private = [a \in Actors |-> NoSecret]
  /\ made = {}
  /\ listed = [c \in Collections |-> {}]
  /\ clients = {}
  /\ memory = NoSecret
  /\ keyFile \in {"none", "valid", "garbage"}
  /\ pwFile \in {"none", "valid"}

\* An instance in use: a service with its key, other items or what is left of
\* them, and the collections in its streams, with the items that live
OldInstallation ==
  /\ stored \in [Items -> {Absent, Tombstone, Live(NoSecret), Live(OperatorSecret)}]
  /\ stored[Service] = Live(OperatorSecret)
  /\ \A a \in Actors : stored[a] # Live(NoSecret)
  /\ \A n \in Notes : stored[n] \in {Absent, Live(NoSecret)}
  /\ private = [a \in Actors |-> stored[a].key]
  /\ made = Streams
  /\ listed = [c \in Collections |-> IF c \in made THEN {i \in Items : Lives(i)} \ {Service} ELSE {}]
  /\ clients = {Service}
  /\ memory = OperatorSecret
  /\ keyFile = "none" /\ pwFile = "none"

Init ==
  /\ StoreInit
  /\ NewInstallation \/ OldInstallation
  /\ password = private /\ given = private
  /\ fresh = OperatorSecret
  /\ torn = {}
  /\ rekeyed = FALSE

Next ==
  \/ \E t \in Tasks : (KeySteps(t) \/ ObjectSteps(t)) /\ UNCHANGED fileVars
  \/ \E t \in Tasks : AccountSteps(t)
  \/ NoServer /\ LoadServiceActor /\ UNCHANGED fileVars

Spec == Init /\ [][Next]_vars

-----------------------------------------------------------------------------
(* Keys and passwords *)

\* Is a task between the two saves of a's new key?
HalfSaved(a) == \E t \in Tasks : At(t, "actor") /\ task[t].item = a

\* The public key in an actor belongs to the private key in its metadata,
\* except when AddKeyToPerson was stopped between its saves, an import put
\* other keys there, or two commands have worked on the actor at once.
KeysAgree ==
  \A a \in Actors \ (torn \cup disturbed) :
    Lives(a) /\ ~HalfSaved(a) => private[a] = stored[a].key

\* What the server signs as an actor can be verified with the public key that it
\* serves; the key in memory is no more than out of date, and only after the
\* service has got another one since the server loaded its own.
SignaturesVerify ==
  \A a \in Actors \ (torn \cup disturbed) :
    Lives(a) /\ ~HalfSaved(a) =>
      \A k \in SigningKeys(a) : k = stored[a].key \/ (a = Service /\ rekeyed /\ k = memory)

\* A new key keeps the password that is in the same metadata, and whatever
\* fails an actor has the last password that was set for it.
PasswordKept == \A a \in Actors \ disturbed : password[a] = given[a]

-----------------------------------------------------------------------------
(* Why a password is kept: the inductive invariant *)

ActorSteps == {"load", "meta", "actor", "update", "password", "client", "streams", "open"}

\* What the step of a task says of what it works on
Shape(r) ==
  /\ r.at \in ActorSteps => r.item \in Actors \cap r.scope
  /\ r.at = "create" => r.item \in r.scope /\ (r.job # "addobject" => r.item \in Actors)
  /\ r.job \in {"genkeys", "restore"} => r.queue \subseteq Actors \cap r.scope
  /\ r.at = "restore" => r.job = "restore"
  /\ r.at = "make" => r.item \in Collections
  /\ r.at = "delete" => r.job \in {"delete", "delclient"}
  /\ r.at = "clean" => r.item = Service /\ r.scope = Things

Shapes == \A t \in Tasks : Shape(task[t])

\* What two tasks work on at once is known to be disturbed.
NoSilentOverlap ==
  \A t, u \in Tasks :
    t # u /\ Working(t) /\ Working(u) => task[t].scope \cap task[u].scope \subseteq disturbed

\* The password that a task is about to write back is still the actor's.
ReadIsCurrent ==
  \A t \in Tasks :
    At(t, "meta") /\ task[t].item \notin disturbed => task[t].read = password[task[t].item]

StorageInv == TypeOK /\ Shapes /\ NoSilentOverlap /\ ReadIsCurrent /\ PasswordKept

-----------------------------------------------------------------------------
(* Why keys agree: a second inductive invariant, on top of the first *)

\* A task has left to work on what it works on; accounts gen-keys is done with
\* an actor's key before it takes the next actor.
KeyShape(r) ==
  /\ r.queue \subseteq r.scope
  /\ r.at \in {"save", "unlink"} => r.item \in r.scope
  /\ r.job = "genkeys" =>
       /\ r.at \in {"each", "load", "meta", "actor", "update"}
       /\ r.at # "each" => r.item \notin r.queue
  /\ r.job = "repair" => r.at \in {"each", "make"}

\* What a task has in memory of the actor it gives a key to, and of what it
\* will save again, is what the storage has, but for the new key.
MemoryIsCurrent(r) ==
  LET i == r.item IN
  /\ r.at = "actor" /\ i \notin disturbed =>
       r.seen[i] = Live(r.key) /\ private[i] = r.key
  /\ r.at = "update" /\ i \notin disturbed =>
       IF r.seen[i].key = r.key THEN private[i] = r.key ELSE r.seen[i] = stored[i]
  /\ r.job = "genkeys" /\ r.at \in {"load", "meta"} /\ i \notin disturbed =>
       r.seen[i] = stored[i] /\ r.seen[i].key # r.key
  /\ r.job \in {"genkeys", "repair"} =>
       \A j \in (r.queue \cap Items) \ disturbed : r.seen[j] = stored[j]

\* A key that is made is not one that is in use.
KeysAreFresh ==
  /\ OperatorSecret <= fresh
  /\ \A i \in Items : stored[i].key <= fresh
  /\ \A t \in Tasks : task[t].key <= fresh /\ \A i \in Items : task[t].seen[i].key <= fresh

\* The server signs with the key of the service that it has loaded.
ServerHasKey == ~rekeyed /\ memory # NoSecret => memory = private[Service]

\* What makes keys agree, however commands interleave, fail or are killed:
\* what is in memory is current wherever nobody else has worked.
KeysInv ==
  /\ \A t \in Tasks : KeyShape(task[t]) /\ MemoryIsCurrent(task[t])
  /\ KeysAreFresh
  /\ ServerHasKey
  /\ KeysAgree

-----------------------------------------------------------------------------
(* Items *)

Cleaned == \E t \in Tasks : At(t, "clean") /\ task'[t].at = "create"

\* An item leaves the storage only by a reset, or by a move that has listed it
\* in the other collection before, wherever a move stops: there is never
\* neither the item nor an entry for it.  After a move there is only the entry.
RemovedWhenListed ==
  \A i \in Items \ disturbed :
    Exists(i) /\ ~Exists(i)' =>
      Cleaned \/ \E t \in Tasks : At(t, "unlink") /\ i \in listed[task[t].to]

RemovedOnlyAfterListed == [][RemovedWhenListed]_vars

\* No step of a command brings back what was deleted, only a new bootstrap, the
\* service.  Several commands may: a tombstone can be reset and imported again.
NoneRevives ==
  \A i \in Items \ disturbed' :
    stored[i] = Tombstone /\ Lives(i)' =>
      i = Service /\ \E t \in Tasks : At(t, "actor") /\ task[t].job \in Bootstraps

DeletedStaysDeleted == [][NoneRevives]_vars

\* What an import saves of the objects of its file, once the activities of the
\* file are processed, and what a repair saves again replaces nothing that
\* exists, or by the same.
SavesReplaceNothing ==
  \A t \in Tasks :
    Working(t) /\ task[t].job \in {"import", "repair"} /\ task'[t] # task[t] =>
      \A i \in Items \ disturbed' : Exists(i) => stored'[i] = stored[i]

SavesKeepWhatExists == [][SavesReplaceNothing]_vars

-----------------------------------------------------------------------------
(* Commands *)

Succeeds(t) == Working(t) /\ task'[t].at = "ok"

\* A bootstrap or reset that returns no error has left a service with the key
\* and the password that were meant for it, and its collections, whatever an
\* earlier attempt has left behind.
Bootstrapped ==
  \A t \in Tasks :
    Succeeds(t) /\ task[t].job \in Bootstraps /\ Service \notin disturbed =>
      /\ stored'[Service] = Live(task[t].key)
      /\ private'[Service] = task[t].key
      /\ password'[Service] = task[t].word
      /\ Streams \subseteq made'

BootstrapComplete == [][Bootstrapped]_vars

\* A command that succeeds has done what it was to do with everything that it
\* has not passed over: moved items are in the collection, and nowhere else in
\* the storage, deleted ones are not live, a deleted client is no client, an
\* access token has the authorization it came from.  What a move passes over is
\* behind a collection among its arguments, what a deletion passes over could
\* not be loaded.
DoneAsSaid ==
  \A t \in Tasks : Succeeds(t) =>
    LET its == task[t].scope \ (task[t].left \cup disturbed') IN
    CASE task[t].job = "move"      -> \A i \in its \cap Items : i \in listed'[task[t].to] /\ ~Exists(i)'
      [] task[t].job = "delete"    -> \A i \in its : ~Lives(i)'
      [] task[t].job = "delclient" -> \A c \in task[t].scope \ disturbed' : ~Lives(c)' /\ c \notin clients'
      [] task[t].job = "token"     -> its = task[t].scope => t \in codes' \cap tokens'
      [] OTHER -> TRUE

SuccessMeansDone == [][DoneAsSaid]_vars

-----------------------------------------------------------------------------
(* Why the steps are right: a third invariant, of what commands have done *)

\* The steps that a job goes through
Itinerary(job) ==
  CASE job \in {"bootstrap", "serve"} ->
         {"create", "client", "password", "load", "meta", "actor", "streams", "open"}
    [] job = "reset"     -> {"clean", "create", "client", "load", "meta", "actor", "streams"}
    [] job = "addactor"  -> {"create", "load", "meta", "actor", "password"}
    [] job = "addclient" -> {"create", "load", "meta", "actor", "password", "client"}
    [] job = "genkeys"   -> {"each", "load", "meta", "actor", "update"}
    [] job = "passwd"    -> {"password"}
    [] job = "restore"   -> {"restore"}
    [] job = "delclient" -> {"delete", "bury", "remove"}
    [] job = "token"     -> {"authorize", "access"}
    [] job = "addobject" -> {"create"}
    [] job = "delete"    -> {"delete", "bury"}
    [] job = "move"      -> {"each", "unlink"}
    [] job = "copy"      -> {"each"}
    [] job = "import"    -> {"process", "each", "save"}
    [] job = "repair"    -> {"each", "make"}

\* A task is at a step of its job, and works on what it was given.
OnItsWay(r) ==
  IF r.at \in Ended \cup {"idle"} THEN r = Resting(r.at) ELSE
  /\ r.at \in Itinerary(r.job)
  /\ r.job \in Bootstraps => r.item = Service /\ Service \in r.scope
  /\ r.job = "reset" => r.word = NoSecret
  /\ r.job = "genkeys" => r.scope \subseteq Actors /\ \A a \in r.scope : r.seen[a].life = "live"
  /\ r.job \in {"move", "copy"} => r.to \in Collections
  /\ r.job = "addobject" => r.item \in Notes
  /\ r.job \in {"delete", "import"} => r.scope \subseteq Items
  /\ r.job = "delclient" => r.item \in Items /\ r.scope = {r.item} /\ r.left = {}
  /\ r.job = "token" => r.scope # {} /\ r.left = {}

\* What a command has found out about an item still holds.
FindingsHold(r) ==
  LET i == r.item IN
  /\ r.at = "create" /\ r.job \notin Bootstraps /\ i \notin disturbed => ~Exists(i)
  /\ r.at \in {"load", "meta", "actor", "update"} /\ r.job \notin Bootstraps /\ i \notin disturbed =>
       Lives(i)
  /\ r.at = "save" /\ i \notin disturbed => ~Exists(i)
  /\ r.at = "bury" => \A x \in r.scope \ (r.queue \cup r.left \cup disturbed) : ~Lives(x)
  /\ r.at = "remove" /\ i \notin disturbed => ~Lives(i)

\* What a bootstrap has done for the service
BootstrapHolds(r) ==
  r.job \in Bootstraps /\ Service \notin disturbed =>
    /\ r.at \in {"load", "meta", "actor", "streams", "open"}
         \cup (IF r.job = "reset" THEN {"create", "client"} ELSE {}) =>
         password[Service] = r.word
    /\ r.at \in {"streams", "open"} =>
         stored[Service] = Live(r.key) /\ private[Service] = r.key
    /\ r.at = "open" => Streams \subseteq made

\* What a move has dealt with is in the other collection, and has left the
\* storage before the next item is dealt with.
MoveHolds(r) ==
  /\ r.at = "unlink" /\ r.item \notin disturbed => r.item \in listed[r.to]
  /\ r.job = "move" =>
       \A x \in (r.scope \cap Items) \ (r.queue \cup r.left \cup disturbed) :
         x \in listed[r.to] /\ (Exists(x) => r.at = "unlink" /\ x = r.item)

TokenHolds(t) ==
  At(t, "access") /\ task[t].scope \cap disturbed = {} => t \in codes

\* What a command has done is not undone behind its back where it works alone.
ProgressInv ==
  \A t \in Tasks :
    /\ OnItsWay(task[t]) /\ FindingsHold(task[t])
    /\ BootstrapHolds(task[t]) /\ MoveHolds(task[t]) /\ TokenHolds(t)

-----------------------------------------------------------------------------
(* What the documentation says, and the code does not do *)

\* The operator's key is in its file until a bootstrap was successful ("These
\* files get removed after a fist successful start", doc/INSTALL.md).
FilesOutliveFailure ==
  keyFile = "removed" => Exists(Service) \/ Busy(Service)

\* cmd-activitypub.go: "Move ActivityPub objects to a new collection."  When a
\* move succeeds, what it was given is in the collection, as an object that can
\* be loaded.
MovedToCollection ==
  \A t \in Tasks : Succeeds(t) /\ task[t].job = "move" =>
    \A i \in (task[t].scope \cap Items) \ disturbed' :
      i \in listed'[task[t].to] /\ Exists(i)'

MovesKeepObjects == [][MovedToCollection]_vars

=============================================================================
