--------------------------------- MODULE Store ---------------------------------
(***************************************************************************)
(* The storage that the fedbox commands change, and the commands as tasks  *)
(* that change it call by call.  A call may fail and a process may be      *)
(* killed between any two calls: no command uses a transaction.            *)
(*                                                                         *)
(* The storage holds items (actors, other objects) and collections, and    *)
(* for each actor metadata with a private key and a password.  Of an item  *)
(* the model keeps its life and, of an actor, the public key in it.  Keys  *)
(* and passwords are numbers, NoSecret for none.                           *)
(***************************************************************************)
EXTENDS Naturals

CONSTANTS
  Actors,        \* identifiers of actors
  Service,       \* the actor of the instance
  Notes,         \* identifiers of the other objects
  Collections,   \* identifiers of collections
  Streams,       \* those that CreateService saves
  Tasks,         \* commands, and a server that bootstraps at its start
  InUse,         \* the jobs that tasks do
  Scopes,        \* bound: the sets of things that a command is given
  Files,         \* bound: the sets of items that a file to import holds
  MaxSecrets     \* bound: keys and passwords made in one behaviour

Jobs == {"bootstrap", "serve", "reset", "addactor", "addclient", "genkeys", "passwd",
         "restore", "delclient", "token", "addobject", "delete", "move", "copy",
         "import", "repair"}

ASSUME ServiceAssumption == Service \in Actors
ASSUME KindsAssumption   == (Actors \cup Notes) \cap Collections = {}
ASSUME StreamsAssumption == Streams \subseteq Collections
ASSUME ScopesAssumption  == Scopes \subseteq SUBSET (Actors \cup Notes \cup Collections)
ASSUME FilesAssumption   == Files \subseteq SUBSET (Actors \cup Notes)
ASSUME InUseAssumption   == InUse \subseteq Jobs
ASSUME SecretsAssumption == MaxSecrets \in Nat \ {0}

VARIABLES
  stored,      \* of each item, what is stored under its identifier
  private,     \* of each actor, the private key in its metadata
  password,    \* of each actor, the password in its metadata
  made,        \* the collections that exist
  listed,      \* of each collection, the items added to it
  clients,     \* the OAuth clients, by the identifier of their actor
  codes,       \* the tasks that have saved an authorization
  tokens,      \* the tasks that have saved an access token
  fresh,       \* the last key or password made
  task,        \* of each task, where it is and what it has in memory
  disturbed    \* history: what tasks have overlapped on, or misread

metaVars  == <<private, password>>
colVars   == <<made, listed>>
oauthVars == <<clients, codes, tokens>>

-----------------------------------------------------------------------------

Items  == Actors \cup Notes
Things == Items \cup Collections

NoSecret == 0
Secrets  == 0 .. MaxSecrets

\* The operator's key and password, kept in files until a bootstrap.
OperatorSecret == 1

Record    == [life : {"absent", "live", "tombstone"}, key : Secrets]
Absent    == [life |-> "absent", key |-> NoSecret]
Tombstone == [life |-> "tombstone", key |-> NoSecret]
Live(k)   == [life |-> "live", key |-> k]

Exists(i) == stored[i].life # "absent"
Lives(i)  == stored[i].life = "live"

Ended == {"ok", "failed"}
Steps == Ended \cup
  {"idle", "each", "create", "load", "meta", "actor", "update", "password", "restore",
   "delete", "bury", "unlink", "process", "save", "make",
   "clean", "client", "streams", "open", "remove", "authorize", "access"}

TaskRecord ==
  [job   : Jobs,
   at    : Steps,
   scope : SUBSET Things,       \* what it works on
   queue : SUBSET Things,       \* what it has still to work on
   left  : SUBSET Things,       \* history: what it passes over and goes on
   item  : Things,              \* what it is working on
   to    : Things,              \* where it moves or copies items to
   seen  : [Items -> Record],   \* the items as it has them in memory
   key   : Secrets,             \* the key pair it has made or read
   word  : Secrets,             \* the password it was given
   read  : Secrets]             \* the password in the metadata it has loaded

StoreTypeOK ==
  /\ stored \in [Items -> Record]
  /\ private \in [Actors -> Secrets]
  /\ password \in [Actors -> Secrets]
  /\ made \subseteq Collections
  /\ listed \in [Collections -> SUBSET Items]
  /\ clients \subseteq Actors
  /\ codes \subseteq Tasks
  /\ tokens \subseteq Tasks
  /\ fresh \in Secrets
  /\ task \in [Tasks -> TaskRecord]
  /\ disturbed \subseteq Things

-----------------------------------------------------------------------------

Working(t)  == task[t].at \notin Ended \cup {"idle"}
At(t, step) == task[t].at = step
Busy(x)     == \E t \in Tasks : Working(t) /\ x \in task[t].scope

\* Nothing in memory yet
Blank(job, step, scope) ==
  [job |-> job, at |-> step, scope |-> scope, queue |-> {}, left |-> {}, item |-> Service, to |-> Service,
   seen |-> [i \in Items |-> Absent], key |-> NoSecret, word |-> NoSecret, read |-> NoSecret]

\* A task that does nothing, and one that has ended: only how is remembered.
Resting(step) == Blank("token", step, {})

Moved(r, step) == IF step \in Ended THEN Resting(step) ELSE [r EXCEPT !.at = step]

Go(t, step) == task' = [task EXCEPT ![t] = Moved(@, step)]

\* A task widens what it works on; where another task works, both may be
\* disturbed.
Overlap(t, scope) ==
  disturbed' = disturbed \cup
    {x \in scope : \E u \in Tasks \ {t} : Working(u) /\ x \in task[u].scope}

\* What a command can do once the storage is open and LoadServiceActor has
\* found the service and its key (run.go).
ServiceLoadable == Lives(Service) /\ private[Service] # NoSecret

\* A command begins with what it has read from the storage in memory.
Begin(t, job, step, item, scope, key, word) ==
  /\ At(t, "idle")
  /\ job \in InUse
  /\ task' = [task EXCEPT ![t] = [Blank(job, step, scope) EXCEPT
       !.queue = scope, !.item = item, !.to = item, !.key = key, !.word = word,
       !.seen = [i \in Items |-> IF i \in scope THEN stored[i] ELSE Absent]]]
  /\ Overlap(t, scope)

\* The next element that a loop over what is left turns to.
Take(t, x, step) ==
  /\ x \in task[t].queue
  /\ task' = [task EXCEPT ![t] = [task[t] EXCEPT !.item = x, !.queue = @ \ {x}, !.at = step]]

\* A new key pair or password.
Make == fresh < MaxSecrets /\ fresh' = fresh + 1

StoreInit ==
  /\ codes = {}
  /\ tokens = {}
  /\ task = [t \in Tasks |-> Resting("idle")]
  /\ disturbed = {}

=============================================================================
