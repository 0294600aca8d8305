# FedBOX: a verification development

FedBOX is an ActivityPub server: one process that serves HTTP (and, when built
with the `ssh` tag, SSH) from one storage, and a set of commands, the same
binary run by operators, that work on the same storage from processes of their
own. This directory models how these parts share the storage, checks the models
with TLC and proves the core of them with TLAPS.

## The system

| Part | State | Operations | Talks to | Hard because | Correct when |
|---|---|---|---|---|---|
| Server lifecycle (`app.go`, `cmd-serve.go`, `middleware.go`) | `maintenanceMode`, `shuttingDown`, `debugMode` (atomics), the storage handle, listeners | start, SIGHUP, SIGUSR1, SIGUSR2, SIGINT, SIGTERM, SIGQUIT, each request's `OutOfOrderMw` | commands by signals, requests by the flags, the storage | requests run concurrently with the signal handler; flags and storage change in separate steps; a stop may come at any moment | each answer has a reason; the storage is closed while the server is offline; a stop ends |
| Commands (`run.go`, `cmd-*.go`, `base.go`) | the pid read, the storage handle, the deferred calls | pause the server, open, work, close, resume; maintenance, reload, stop, debug | the server by pid file and kill(2) | the toggle is asynchronous, may be lost, may reach another server; commands are killed | toggles come in pairs; a server that was paused once has its storage closed |
| SSH sessions (`ssh.go`) | the server's own storage handle | any command, inside the server | the storage, the server by signals to itself | storage commands open and close it under the server | the server stays a server for its clients |
| Request handling and cache (`handlers.go`) | `f.caches`, the storage | GET of items and collections, POST of activities | processing, storage, cache libraries | load and store, save and purge are not atomic; a collection is filtered for some users and not for others | what is cached was let through by the filters for someone, and goes when it is changed |
| Bootstrap and reset (`cmd-bootstrap.go`, `cmd-serve.go`, `base.go`) | the service actor, its client and collections, the operator's key and password files | bootstrap, bootstrap by a server at its start, reset | storage | several saves, of which one may fail; what a first attempt leaves | success means a complete service; the operator's files last until then |
| Keys and passwords (`activitypub/keys.go`, `cmd-accounts.go`) | the public key in an actor, private key and password in its metadata, `ServicePrivateKey` in memory | generate, add, load, change the password, export, import | storage, the server that signs | read, modify, write of a record shared by keys and passwords, in two places | the public key matches the private one; a password stays until it is changed |
| Actors, objects, collections (`base.go`, `cmd-activitypub.go`, `cmd-fix-storage-collections.go`) | items, collections and their members | add, delete, move, copy, import, fix collections | storage, processing | loops that stop in the middle; collections among the objects | no item leaves the storage before it is listed elsewhere; a repair replaces nothing; what is deleted stays so |
| OAuth (`base.go`, `cmd-oauth.go`) | clients, authorizations, accesses | add and delete clients, generate tokens | storage | pairs of saves | a reported success is complete |
| Configuration (`internal/config`, `control.go`) | `Conf`, the environment of the process, `.env` files | load at the start, reload, names of pid file and socket | commands that look for the server | loaded again into a struct in use, from another directory, into an environment that only grows | commands find the server; a reload does what a restart does |
| Routing, identifiers, HTTP signatures, output, favicon, assets | none | pure functions, libraries | | | |

`PROJECT.json` lists each part under `components` with its status, and what can
go wrong, line by line, under `hazards`.

## The modules

```
        Availability                      what clients are promised
             ^ implemented by
  Process <- Server <- SSH \
        ^                   FedBOX  <- MCFedBOX
        +--- Control ------/
             Server <- MCServer
       RequestCache <- MCRequestCache
  Store <- Keys <- Objects <- Accounts <- Storage <- MCStorage
       Config <- MCConfig

  proofs:
       Server  <- ServerProofs  <- FedBOXProofs (with FedBOX)
       RequestCache <- RequestCacheProofs
       Storage <- StorageProofs <- KeysProofs <- ProgressProofs
       Config  <- ConfigProofs
```

**Process** is the operating system's side: the stage of the server process
(`server`), the ordinal of the latest one as its pid (`started`), the pid file,
and the signals that wait for the handler (`pending`). `ReadPid` and the pid
file come from `internal/config/config.go`; `Kill`, `Queued`, `Lost` and
`Swallowed` are external and follow POSIX and Go's `os/signal`: a signal may be
lost when another one is still waiting, and before the handlers are registered
SIGUSR1 and SIGUSR2 vanish while the others kill. `lostTo` is a history variable.

**Server** is `FedBOX` in `app.go` with `OutOfOrderMw`. The variables have the names of
the fields. `handler` is the program counter of the one goroutine in which
`RegisterSignalHandlers(...).Exec` runs the handlers, one after the other:
`ToggleMaintenance` is the load and store of the flag, `Pause` the call after it;
`BeginStop`, `MarkShuttingDown`, `CloseListeners`, `Drained` or `DrainTimeout`,
`RemovePid` and `Exit` are `Stop` step by step, in the order of the code (the
storage first, the deferred removals last). A request takes up to four steps:
`Arrive`, the two atomic loads of the middleware (`CheckShuttingDown`,
`CheckMaintenance`) and `Serve`. `seen`, a history variable, collects the modes of the
server during a request.

**Availability** is what clients are promised: modes and how they may change, and
`Justified`, the answers that the modes of a request's time explain. The mode
"degraded" (requests are let through and the storage is closed) is part of the
promise because it is part of the code: the flag is changed before the storage
when maintenance ends, and the storage is closed before the flag when a stop begins.

**SSH** adds sessions: a login needs the open storage (`pwCheck`,
`publicKeyCheck`); reset and bootstrap open and close the storage of the running
server in the order of `cmd-bootstrap.go` and `Base.Bootstrap`.

**Control** is `fedbox.Run` for each kind of command with its deferred calls as
steps: `CmdBegin` reads the pid, `CmdPause` and `CmdUnpause` are the two calls of
`pauseFn`, `Return` is any return after the first. "storage" stands for every
command that runs between `Storage.Open` and `Storage.Close`. `CmdKilled` ends a
command without its deferred calls. `orphaned` and `operated` are history
variables: servers paused by a command that was killed, and servers toggled by
a maintenance command.

**FedBOX** composes them and states what holds between them. The parity of
toggles is the subject: `FlagCountsDebtors` says that the flag and the toggles
waiting add up to the number of commands that have still to toggle back.

**RequestCache** is `HandleItem`, `HandleCollection` and `HandleActivity` around
`fb.caches`: lookup, load and store are separate steps, as are saving an activity
and purging. An item is the number of its changes; an entry remembers for whom it
was loaded and whether with filters. `LoadItem` always asks the filters; `LoadCollection` asks them (`Filtered`) for users
who have no collection of that name and for the one whose collection it is, and not for those
who have another (`Own` says which user has what). `CacheKey` is translated with `reqURL`, which drops the user, so it
is a function of the item only. `bypassed`, `acked` and `floor` are history variables.

**Store** is the storage as the commands see it, and the commands as tasks. A task does one job,
call by call: `at` is its next call to the storage, `queue` what its loop has still to do, `seen`,
`key`, `word` and `read` are what it has in memory. Every save may fail, and every load whose failure the code does
not answer by ending the command before it has changed anything, with the outcome the code gives that error: dropped,
collected, passed over, or the end of the command. A task may be killed before any
call. Nothing serialises tasks: the commands are processes of their own and
the code uses no transaction. `disturbed` is a history variable: the things that two tasks worked on
at once, and those of which a failed load told a task that they were empty; `left` is another, the things that a task passed
over and went on. An ended task keeps nothing but its outcome.

**Keys** is `AddKeyToPerson` (`LoadMetadata`, `SaveMetadata`, `SaveActor`) for every command
that adds a key, `accounts gen-keys`, `passwd`, and metadata that is imported. Private key and password are one record
in the storage: who writes one writes both. `memory` is
`Base.ServicePrivateKey`, which `LoadServiceActor` fills when a server starts; `SigningKeys` are the keys that the server signs with as an actor: for the
service the one in memory or the one in the storage, as `ActorClient` is given an identifier or the actor.
`torn` (one half of a key pair was saved and the other was not), `given` (the last password that was set) and
`rekeyed` (the service has got or lost a key since the server loaded its own) are history variables.

**Objects** is add, delete, move, copy, import and the repair of collections. An item is its life
(absent, live, tombstone) and, for an actor, its public key. `operateOnObjects` is `Place`,
`Unlink`, `LoopFails` and `Expand`, the last for a collection among the objects: the code returns with what it
does for the members, so the objects behind it in the list are never reached (they go to `left`). `LoadObjects` and
`DeleteObjects` are the two halves of `Base.DeleteObjects`: objects whose load fails are passed over too. The activities of an
imported file (`ProcessActivities`) may each create, update or delete what they name, or put it in a collection or take it out.

**Accounts** is what makes actors with all that belongs to them: `CreateService` for bootstrap, the start of a server and reset,
`AddActorCmd`, `AddClient`, `DeleteClient`, `GenAuthToken`, and the two files `getPwAndKey` removes.

**Storage** puts them together, with a new installation and one in use as initial states, and states what holds.

**Config** is `config.Load` with `findConfigs`, `LoadFromEnv` and `validateOptions`, over `.env` files
that an operator edits and breaks, the environment of the operator and that of the server process: `godotenv.Overload` writes into
the latter, so a reload starts from what earlier loads have left. `NewProcess` is what `InitControl` and the setup
give any process of the operator, `NewServer` adds what `initHttpServer` changes, `Reload` is `FedBOX.reload`.
`ReverseDNSName` is the insertion sort of `sort.Slice` with the comparison in the code. `begun`,
`edited`, `pending` and `used` are history variables.

Definitions whose comment begins with "Slip:" are altered forms of the definition
below them, used to see that a property notices the mistake; no specification
uses them.

## The runs

All runs say `CHECK_DEADLOCK FALSE`, because an installation may come to rest:
no server can be started beyond `MaxStarts` and every command has ended.

| Run | Instance | Shows |
|---|---|---|
| `server` | 1 request, 1 server with SSH, toggles, reloads, stops | types, `LateRequestsRefused`, the inductive invariant `ServerInv`, refinement of `Availability` |
| `commands` | 2 commands of any kinds that may be killed, 2 servers in succession, SIGQUIT | `FlagCountsDebtors`, `NoLeftoverMaintenance`, `SharedStorageHasCause`, `OfflineMeansClosed`, the inductive invariant `FedBOXInv` |
| `sessions` | 2 sessions that bootstrap, reset and send signals | `IsServer`: the server in the composition is that of `Server.tla` |
| `progress` | 1 request, 1 storage or bootstrap command that may be killed, SIGTERM, fair | `StopHonoured`, `MaintenanceEnds`, `RequestsEnd`, refinement of `Availability` without SSH |
| `storage` | 2 commands of any of 16 kinds on a service, an actor, an object and 2 collections; saves and loads may fail, commands may be killed | types, `KeysAgree`, `SignaturesVerify`, `PasswordKept`, `RemovedOnlyAfterListed`, `DeletedStaysDeleted`, `SavesKeepWhatExists`, `BootstrapComplete`, `SuccessMeansDone`, the inductive invariants `KeysInv` and `ProgressInv` |
| `config` | 3 host names, 2 environment types, 3 layouts of files, 2 edits, starts, reloads and stops in any order | types, `CommandsFindServer`, `ReloadIsRestart`, `InstancesApart`, the inductive invariant `ConfigInv` |
| `cache` | 1 item and 1 collection, 2 readers of each (one may not see the item; of the collection one is anonymous, the other has a collection of that name), an update of each, 1 outside change, a failing purge | types, `StaleHasCause`, `CachedWasChecked` |

Five runs show disagreements of the code with what its documentation, comments or
tests say (`findings` in `PROJECT.json`):

- `interrupt`: `Stop` closes the storage first, so requests in progress fail
  instead of finishing during the wait.
- `updates`: a read that overlaps an update puts the old object back into the
  cache after the purge.
- `users`: one user is answered with what was loaded for another.
- `files`: the operator's key and password files are removed before the bootstrap that needs them has
  succeeded, so that one that fails cannot be repeated with them.
- `moves`: a move that succeeds adds the object to the new collection and removes the object itself, so that the
  collection has an entry which nothing can load.

Two more things a reader of the code will notice have no run, since no sentence of the repository states a
property that they break: the comment at `handlers.go:138-141` speaks of removing the authorization check for the *owner* of a collection,
while the condition at 143 removes it for users who own another one (`Filtered` is the condition); and a
bootstrap command begins when `kill` has returned, when the server it has paused may still have the storage open, which is one of
the causes in `SharedStorageHasCause`.

### What the properties except

Several properties say that a bad state has one of a few causes, and name them by a history variable. Such a
property does not show that the outcome never occurs; it shows that nothing else leads to it. What is
excepted in this way:

| Variable | Set by | Excepted in |
|---|---|---|
| `lostTo`, `operated`, `orphaned` | a toggle that is lost, a maintenance command, a command killed while it owes a toggle | `FlagCountsDebtors`, `NoLeftoverMaintenance`, `SharedStorageHasCause`, `MaintenanceEnds` |
| `bypassed` | a store after the last purge, a failing purge, a change by a command | `StaleHasCause` |
| `torn` | one half of a key pair saved, or imported, without the other | `KeysAgree`, `SignaturesVerify` |
| `rekeyed` | a new key of the service under the running server | `SignaturesVerify` |
| `disturbed` | two commands at work on one thing, a load whose failure is taken for "nothing there" | every property of `storage` about items and keys |
| `left` | objects behind a collection among the arguments, objects a deletion could not load | `SuccessMeansDone` |

Commands (and sessions) differ in nothing but their names: `commands` uses
that symmetry, which is sound because it checks invariants only. `storage` uses it
for its tasks: its action properties relate a state to the next one and speak of all tasks alike.

### Bounds

`MaxStarts` bounds the servers started in a behaviour: 2 is the first number at which
a command can outlive the server it paused. `SignalRoom` bounds the signals of one kind
that wait: 1 lets every signal be pending, merged and lost; 2, where toggles are counted,
lets two be pending together, which two commands can reach. `Available` are the kinds of command
in use, and each command is of any of them. One request suffices for the
server, since requests share nothing but the cache and the proofs hold for any number;
the cache has a module of its own with two readers and a writer for the item and for the collection, so that a change can
overtake a read, another one follow, and all three answers to "whose collection is it" occur. `MaxOutside` bounds the changes made by commands.

In `storage`, `Scopes` are the sets of things a command is given: both actors, or an object with a collection in the list, which
is what `Expand` needs. With bootstrap, add and passwd on one actor they
give tasks that overlap and tasks that do not. Two tasks are two commands at once, or one that fails and its repetition. `MaxSecrets` lets
each task make its keys and passwords and leaves out only the fourth of two gen-keys of two actors each. `Files` are the sets of items that a file to import holds, here one item each; larger files occur only in the proofs, which hold for any. `Streams` are fewer than
`Collections`, so that a repair finds one and makes one.

In `config`, `Layouts` are no files, an installation that the server starts in, and the same beside a
storage with files of its own; `Launches` an empty environment and one with a path and a type; `Command` a command line
without options and one with all of them. `Settings` has every variable that is modelled, one of
them with its prefix. `MaxEdits` is 2: one change that a reload picks up and another that it does not, or a setting that comes and goes.
Two `Ports` show a random port that changes.

### Fairness

Goroutines and processes that can run do run: weak fairness for the handler's
own steps, for requests and commands in progress. `os/signal` hands signals over in the order of
their arrival, so a waiting signal is taken in the end although the handler takes
others in between: strong fairness for taking a toggle and for taking a stop. Nothing obliges a client
to send a request, an operator to start a command, or a process to crash.

## The proofs

`ServerProofs` proves, for every set of requests, bound and set of signals, with and
without SSH sessions:

- `ServerTypeCorrect`: `ServerSpec => []ServerTypeOK`.
- `ServerInvariant`: `ServerSpec => []ServerInv`. `ServerInv` adds to the types that a server which
  is not up serves nobody (`QuietUnlessRunning`), that `shuttingDown` is raised exactly from
  `MarkShuttingDown` on (`FlagFollowsStop`), that the storage is closed while the
  server is offline, and `DecisionSeen`: a request that has passed the load of
  `shuttingDown` has seen a mode that explains either value of `maintenanceMode`.
  That conjunct is why the invariant is needed: it is preserved only because handlers
  run one after the other, so no toggle follows `MarkShuttingDown`.
- `OfflineStorageClosed`, `LateRequestsAreRefused`: consequences.
- `ServerImplementsAvailability`: `ServerSpec => Gate!Spec`, each action
  mapped to a change of mode, an end, an arrival, an answer or a stutter.

`FedBOXProofs` proves, for any finite set of commands, any sessions and requests, any number of servers in
succession and any signals from outside that are not toggles:

- `InstallationInvariant`: `Spec => []FedBOXInv`, and its consequences `InstallationTypeCorrect`, `FlagCounts`,
  `NoMaintenanceLeftOver`, `SharingHasCause` and `ServerPromisesKept` (`OfflineMeansClosed` and `LateRequestsRefused`,
  in the composition).
- `CompositionIsServer`: `Spec => IsServer`. What commands and sessions do to a server is a step of `Server.tla`
  for a server that may get any signal, so the theorems about the server hold in the composition.
- `InstallationImplementsAvailability`: therefore the whole installation keeps what `Availability` promises.

`FlagCountsDebtors` counts: of an undisturbed server, the flag and the toggles that wait add up to the
number of commands that have still to toggle back. Every step changes one side and the other by as much, or
disturbs the server; the lemmas on `Debtors` say by how much a step of a command changes their number. It is not inductive by itself:
a toggle that waits must have somebody to handle it (`TogglesNeedHandlers`), a new server must owe to
nobody (`PidsAreOfThePast`: no command knows a pid that is still to come), a command must be a debtor between
its two toggles and not else (`ShapeOfCommand`), and a session's toggles must be those of a server
that runs (`SessionsLiveInServer`). From it follows `NoLeftoverMaintenance`, since no debtor and nothing waiting
leave zero for the flag; `SharedStorageHasCause` follows with the server's own invariant, by which
the flag means that the storage is closed: a single debtor and nothing waiting leave one for the flag. It is about builds without SSH, whose sessions open the storage by themselves. `OutsideTogglesAssumption` is there because an operator who toggles by hand is a
command of kind "maintenance"; `CommandsAssumption` (commands are finitely many) because they are counted.

`RequestCacheProofs` proves the type invariant, `StaleHasCause` and
`CachedWasChecked`, for any items, collections, users and requests, also with the cache disabled.

`StorageProofs`, `KeysProofs` and `ProgressProofs` prove, for any actors, objects, collections, tasks, kinds of command
in use, scopes and number of secrets, every invariant and action property of the run `storage`. They build on each other:

- `StorageInvariant`: `Spec => []StorageInv`, and `TypeCorrect` and `PasswordsAreKept`.
  That an actor has the last password that was set for it is not inductive: `SaveMetadata` writes back a
  password it has read some steps before. `StorageInv` adds to the types and `PasswordKept` that such a password is still the
  actor's unless the actor is disturbed (`ReadIsCurrent`), that two tasks at work on the same thing have it in
  `disturbed` (`NoSilentOverlap`), so that no other task can have changed
  it in between, and that a task about to save an actor has that actor in its scope (`Shapes`). A reset works on everything.
- `KeysInvariant`: `Spec => []KeysInv`, and `ActorsAndKeysAgree` and `SignaturesAreGood`. A task saves whole actors that it
  has loaded long before and whose key it replaces, so `KeysInv` says of all a task has in memory and will write that the
  storage has the same (`MemoryIsCurrent`), that it has left to work on what is in its scope (`KeyShape`), that a key that is made
  is unlike those in use (`KeysAreFresh`), and that the server signs with the key it has loaded (`ServerHasKey`).
  For the tasks that do not move, one frame lemma does it: a step changes nothing outside the scope of
  its task, and what is in two scopes is disturbed.
- `ProgressInvariant`: `Spec => []ProgressInv`, and five action properties: `RemovalsAreListed`, `TombstonesStay`,
  `SavesKeepItems`, `BootstrapsAreComplete`, `SuccessIsDone`. `ProgressInv` says that a task is at a step of its job
  and works on what it was given (`OnItsWay`), that what it has found out about an item still holds (`FindingsHold`: what it
  is about to create is not there, and what it neither buries nor passes over is not live), and what has been done by a bootstrap
  (`BootstrapHolds`), a move (`MoveHolds`) and a token (`TokenHolds`) before their last step. Each property is about the
  last step of a task and follows from the part for its job. `SuccessIsDone` speaks of what a task has not passed
  over (`left`), and `SavesKeepItems` of the saves of an import, not of its activities. `KindsAssumption` says that no identifier is that of an item
  and of a collection, as their IRIs differ in the code.

`ConfigProofs` proves, for any host names, environment types, ports, files, settings and command lines:

- `ConfigTypes` and `ConfigInvariant`: `Spec => []TypeOK` and `Spec => []ConfigInv`.
- `ServerIsFound` (`CommandsFindServer`), `ReloadsAreRestarts` (`ReloadIsRestart`), `InstancesStayApart` (`InstancesApart`).

`ConfigInv` says that what is loaded is proper (`SettingsProper`), that a reload always knows its type (`TypeStays`, without
which a broken file could leave a server without one), that the host name is the one of the start, and that of the files until somebody
changes it there (`NameStays`), and that the options are those in the environment, where loading the same files
again changes nothing (`LoadIsCurrent`). The lemmas they rest on are about the operators: `Overload` of a list of files is
idempotent, never unsets a variable and takes each value from one of them; what `Load` leaves, failing or not
(`LoadOutcome`); and `ReverseDNSName`, the insertion sort with a comparison of places, returns the reverse of what
it is given (`ReverseDNSNameReverses`, by a least counterexample, as induction is out of reach), hence is injective. The assumptions say
that operators write what the model tells apart: host names of `Hosts`, paths of `Dirs`, a type on the command line that
is one of the enumeration in `control.go`; and that host names are not empty, differ in their labels, have
at most twelve, and are not "fedbox", under which the files of an instance without a host name go.

All theorems assume what the modules' named `ASSUME`s say of the constants and nothing else.

Only model-checked: all liveness (`StopHonoured`, `MaintenanceEnds`, `RequestsEnd`, and the fairness in the
refinement that `progress` checks), since fairness and `ENABLED` are beyond the prover; and the five disagreements, which are
counterexamples. Every other property of the runs is stated by a theorem.

## What is assumed of the environment

The signal wrapper runs handlers one at a time; an operation on a closed storage fails; opening an
open storage leaves it open; the cache's purge removes every entry of the item it is asked to purge
(which keys it visits is the library's); process ids are not reused; at most one server runs at a time.
Of the storage library: `storage.Clean` removes everything or nothing; saving a collection that exists keeps its
members; `Storage.Delete` removes the item from the storage and leaves it in the collections; a
client activity that creates what exists is a conflict, one that updates a tombstone does not succeed. godotenv sets variables in the order of the files.

## Not modelled

- Side effects that `processing.Async` leaves running after the answer, the text of queries in
  cache keys, and recipients that `CleanRecipients` removes.
- What the filters leave of the contents of a collection.
- What `ProcessClientActivity` saves besides the object: activities in outboxes belong to the processing library.
- The number of items in a collection, listing, info and exports, which change no state that is modelled.
- The hidden option `--password` of bootstrap and a bootstrap without a base URL.
- Options that are taken over like those in `Config` (log, cache, certificate key, time out), host names of more than twelve labels,
  for which `sort.Slice` is another algorithm, and a storage directory that cannot be read.
- Identifiers are distinct model values. Those of integration builds come from a counter that two requests may
  read with the same value (`generator-stable-ids.go`, `GenerateID`: it is incremented and then loaded again).
- Routing and collection names: functions of the request without state, whose hard part is in the text
  of URLs; output, assets, favicon: formatting and embedded files.
- HTTP signatures and the client: cryptography and remote requests of libraries.
- The terminal interface, which is another module; the integration harness, which is no part of the program.

## Plan

The core (`Process`, `Server`, `SSH`, `Control`, `FedBOX`, `RequestCache`) came first because every other
operation runs inside it; then the storage under the commands, and the configuration; then the proofs. Next:

1. Of the cache, that `HandleItem` with `caches` implements `HandleItem` without, up to the staleness that `StaleHasCause`
   explains, as a refinement.
2. Of `Storage`, that a command that works alone implements one atomic step for each of its jobs, which would replace
   `SuccessMeansDone` by a refinement.
3. Stable identifiers and collection names as operators checked against their definitions over small inputs.
