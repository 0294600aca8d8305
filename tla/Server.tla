-------------------------------- MODULE Server --------------------------------
(***************************************************************************)
(* A FedBOX server process (app.go, middleware.go): its start, the signal  *)
(* handlers that toggle maintenance and debug mode, reload and stop it,    *)
(* and the requests that pass the OutOfOrderMw middleware meanwhile.       *)
(*                                                                         *)
(* Request goroutines run concurrently with the one goroutine that runs    *)
(* the signal handlers one after the other.  A handler's stores to the     *)
(* atomic flags and its calls to the storage are separate steps, and so    *)
(* are the two atomic loads of the middleware.                             *)
(*                                                                         *)
(* at, answer and seen describe the requests: where each one is, what it   *)
(* was answered, and (a history variable, which the code does not have)    *)
(* the modes the server went through while it was in progress.             *)
(***************************************************************************)
EXTENDS Process

CONSTANTS
  Requests,     \* the HTTP requests that can be in progress at one time
  SSHBuild,     \* built with the ssh tag: sessions share f.Storage
  DevMode,      \* Conf.Env.IsDev()
  Outside       \* the signals that anybody may send to the server

ASSUME SSHBuildAssumption == SSHBuild \in BOOLEAN
ASSUME DevModeAssumption  == DevMode \in BOOLEAN
ASSUME OutsideAssumption  == Outside \subseteq Signals

VARIABLES
  storage,          \* f.Storage: "open" or "closed"
  maintenanceMode,  \* f.maintenanceMode
  shuttingDown,     \* f.shuttingDown
  debugMode,        \* f.debugMode
  caches,           \* f.caches holds the item the requests ask for
  handler,          \* where the signal handling goroutine is
  cancelled,        \* the context of Run is cancelled
  at, answer, seen

appVars     == <<storage, maintenanceMode, shuttingDown, debugMode, caches, cancelled>>
requestVars == <<at, answer, seen>>
serverVars  == <<processVars, appVars, handler, requestVars>>

-----------------------------------------------------------------------------

HandlerSteps == {"idle", "pausing", "closing", "stopping", "draining", "cleaning", "exiting"}
Places       == {"idle", "arrived", "passed", "admitted", "answered", "dropped"}
Active       == {"arrived", "passed", "admitted"}
Answers      == {"none", "served", "failed", "outOfOrder", "shuttingDown"}
Modes        == {"down", "up", "degraded", "maintenance", "stopping"}

\* What the process is for its clients.  "degraded": it lets requests through
\* while its storage is closed.
Mode ==
  IF ~Running THEN "down"
  ELSE IF shuttingDown THEN "stopping"
  ELSE IF maintenanceMode THEN "maintenance"
  ELSE IF storage = "open" THEN "up"
  ELSE "degraded"

\* Every change of mode is witnessed by the requests in progress.
Witness ==
  seen' = [r \in Requests |-> IF at[r] \in Active THEN seen[r] \cup {Mode'} ELSE seen[r]]

ServerTypeOK ==
  /\ ProcessTypeOK
  /\ storage \in {"open", "closed"}
  /\ maintenanceMode \in BOOLEAN
  /\ shuttingDown \in BOOLEAN
  /\ debugMode \in BOOLEAN
  /\ caches \in {"empty", "filled"}
  /\ handler \in HandlerSteps
  /\ cancelled \in BOOLEAN
  /\ at \in [Requests -> Places]
  /\ answer \in [Requests -> Answers]
  /\ seen \in [Requests -> SUBSET Modes]

ServerInit ==
  /\ ProcessInit
  /\ storage = "closed"
  /\ maintenanceMode = FALSE
  /\ shuttingDown = FALSE
  /\ debugMode = FALSE
  /\ caches = "empty"
  /\ handler = "idle"
  /\ cancelled = FALSE
  /\ at = [r \in Requests |-> "idle"]
  /\ answer = [r \in Requests |-> "none"]
  /\ seen = [r \in Requests |-> {}]

-----------------------------------------------------------------------------
(* Start: New, Serve.Run and the beginning of FedBOX.Run *)

\* New opens the storage.  With the bootstrap option Serve.Run then closes it,
\* bootstraps and opens it again, and only logs a failure, after which the
\* server starts with its storage closed.
Boot ==
  /\ ~Alive
  /\ started < MaxStarts
  /\ server' = "booting"
  /\ started' = started + 1
  /\ storage' \in {"open", "closed"}
  /\ debugMode' = DevMode
  /\ UNCHANGED <<pidFile, pending, lostTo, maintenanceMode, shuttingDown, caches,
                 cancelled, handler, requestVars>>

\* Conf.WritePid.  Run only warns when it fails.
WritePid ==
  /\ server = "booting"
  /\ server' = "announced"
  /\ pidFile' \in {started, pidFile}
  /\ UNCHANGED <<started, pending, lostTo, appVars, handler, requestVars>>

\* RegisterSignalHandlers and Exec(ctx, f.server.Start).
Register ==
  /\ server = "announced"
  /\ pending = NoSignals
  /\ server' = "running"
  /\ UNCHANGED <<started, pidFile, pending, lostTo, appVars, handler, requestVars>>

\* What is left of a process that is gone.
Die ==
  /\ server' = "down"
  /\ pending' = NoSignals
  /\ storage' = "closed"
  /\ maintenanceMode' = FALSE
  /\ shuttingDown' = FALSE
  /\ debugMode' = FALSE
  /\ caches' = "empty"
  /\ cancelled' = FALSE
  /\ handler' = "idle"
  /\ at' = [r \in Requests |-> IF at[r] \in Active THEN "dropped" ELSE at[r]]
  /\ UNCHANGED <<started, pidFile, lostTo, answer, seen>>

\* A panic, a SIGKILL, or f.server.Start returning an error: Run returns
\* without going through Stop.
Crash == Alive /\ Die

\* A signal that arrives before the handlers are registered ends the process.
KilledUnregistered ==
  /\ Alive /\ ~Running
  /\ pending # NoSignals
  /\ Die

-----------------------------------------------------------------------------
(* The signal handlers of Run *)

\* Slip: a handler that runs although its signal is not there.
TakeUnasked(sig) ==
  /\ Running
  /\ handler = "idle"
  /\ pending' = [pending EXCEPT ![sig] = @ - 1]

\* Slip: a goroutine for each signal, so that handlers overlap.
TakeConcurrently(sig) ==
  /\ Running
  /\ Waiting(sig)
  /\ pending' = [pending EXCEPT ![sig] = @ - 1]

Take(sig) ==
  /\ Running
  /\ handler = "idle"
  /\ Waiting(sig)
  /\ pending' = [pending EXCEPT ![sig] = @ - 1]

\* SIGHUP: f.reload loads the configuration, whose failure is only logged, and
\* empties the cache either way.
Reload ==
  /\ Take("HUP")
  /\ caches' = "empty"
  /\ UNCHANGED <<server, started, pidFile, lostTo, storage, maintenanceMode, shuttingDown,
                 debugMode, cancelled, handler, requestVars>>

\* SIGUSR2
ToggleDebug ==
  /\ Take("USR2")
  /\ debugMode' = ~debugMode
  /\ UNCHANGED <<server, started, pidFile, lostTo, storage, maintenanceMode, shuttingDown,
                 caches, cancelled, handler, requestVars>>

\* Slip: SIGUSR1 is taken for a request to enter maintenance.
EnterMaintenance ==
  /\ Take("USR1")
  /\ maintenanceMode' = TRUE
  /\ handler' = "pausing"
  /\ UNCHANGED <<server, started, pidFile, lostTo, storage, shuttingDown, debugMode,
                 caches, cancelled, at, answer>>
  /\ Witness

\* SIGUSR1: the flag is stored before Pause is called.
ToggleMaintenance ==
  /\ Take("USR1")
  /\ maintenanceMode' = ~maintenanceMode
  /\ handler' = "pausing"
  /\ UNCHANGED <<server, started, pidFile, lostTo, storage, shuttingDown, debugMode,
                 caches, cancelled, at, answer>>
  /\ Witness

\* Slip: Pause takes the flag for the mode to leave.
PauseInverted ==
  /\ handler = "pausing"
  /\ \/ ~maintenanceMode /\ storage' = "closed"
     \/ maintenanceMode /\ storage' \in {"open", storage}
  /\ handler' = "idle"
  /\ UNCHANGED <<processVars, maintenanceMode, shuttingDown, debugMode, caches, cancelled,
                 at, answer>>
  /\ Witness

\* Pause: Storage.Close, or Storage.Open, whose failure is only logged.
Pause ==
  /\ handler = "pausing"
  /\ \/ maintenanceMode /\ storage' = "closed"
     \/ ~maintenanceMode /\ storage' \in {"open", storage}
  /\ handler' = "idle"
  /\ UNCHANGED <<processVars, maintenanceMode, shuttingDown, debugMode, caches, cancelled,
                 at, answer>>
  /\ Witness

\* Slip: the storage is left to the end of the process.
BeginStopOpen(sig) ==
  /\ sig \in StopSignals
  /\ Take(sig)
  /\ cancelled' = (sig = "QUIT")
  /\ handler' = "closing"
  /\ UNCHANGED <<server, started, pidFile, lostTo, storage, maintenanceMode, shuttingDown,
                 debugMode, caches, at, answer>>
  /\ Witness

\* SIGINT, SIGTERM and SIGQUIT call Stop, SIGQUIT after it cancels the context.
\* Stop first closes the storage ...
BeginStop(sig) ==
  /\ sig \in StopSignals
  /\ Take(sig)
  /\ cancelled' = (sig = "QUIT")
  /\ storage' = "closed"
  /\ handler' = "closing"
  /\ UNCHANGED <<server, started, pidFile, lostTo, maintenanceMode, shuttingDown, debugMode,
                 caches, at, answer>>
  /\ Witness

\* ... then raises the flag ...
MarkShuttingDown ==
  /\ handler = "closing"
  /\ shuttingDown' = TRUE
  /\ handler' = "stopping"
  /\ UNCHANGED <<processVars, storage, maintenanceMode, debugMode, caches, cancelled,
                 at, answer>>
  /\ Witness

\* ... then calls f.server.Stop, which closes the listeners ...
CloseListeners ==
  /\ handler = "stopping"
  /\ handler' = "draining"
  /\ UNCHANGED <<processVars, appVars, requestVars>>

InProgress == {r \in Requests : at[r] \in Active}

\* ... and waits for the requests in progress, unless the context is cancelled,
Drained ==
  /\ handler = "draining"
  /\ cancelled \/ InProgress = {}
  /\ handler' = "cleaning"
  /\ UNCHANGED <<processVars, appVars, requestVars>>

\* or until the graceful wait of Conf.TimeOut is over,
DrainTimeout ==
  /\ handler = "draining"
  /\ ~cancelled /\ InProgress # {}
  /\ handler' = "cleaning"
  /\ UNCHANGED <<processVars, appVars, requestVars>>

\* Slip: only a pid file that holds the own pid is removed, and waited for.
RemoveOwnPid ==
  /\ handler = "cleaning"
  /\ pidFile = started
  /\ handler' = "exiting"
  /\ pidFile' = NoPid
  /\ UNCHANGED <<server, started, pending, lostTo, appVars, requestVars>>

\* ... and at last the deferred function removes the pid file and the sockets,
RemovePid ==
  /\ handler = "cleaning"
  /\ handler' = "exiting"
  /\ pidFile' = NoPid
  /\ UNCHANGED <<server, started, pending, lostTo, appVars, requestVars>>

\* and what Stop returned goes to the exit channel, which ends Exec and Run.
Exit == handler = "exiting" /\ Die

Stop ==
  \/ \E sig \in Signals : BeginStop(sig)
  \/ MarkShuttingDown
  \/ CloseListeners
  \/ Drained
  \/ DrainTimeout
  \/ RemovePid
  \/ Exit

-----------------------------------------------------------------------------
(* Requests *)

Listening == Running /\ handler \notin {"draining", "cleaning", "exiting"}

\* A slot of Requests is used again once its request is over.
Arrive(r) ==
  /\ Listening
  /\ at[r] \notin Active
  /\ at' = [at EXCEPT ![r] = "arrived"]
  /\ answer' = [answer EXCEPT ![r] = "none"]
  /\ seen' = [seen EXCEPT ![r] = {Mode}]
  /\ UNCHANGED <<processVars, appVars, handler>>

Reply(r, a) ==
  /\ at' = [at EXCEPT ![r] = "answered"]
  /\ answer' = [answer EXCEPT ![r] = a]
  /\ UNCHANGED <<processVars, handler, seen>>

\* Slip: the middleware loads maintenanceMode first.
CheckMaintenanceFirst(r) ==
  /\ at[r] = "arrived"
  /\ \/ /\ maintenanceMode
        /\ Reply(r, "outOfOrder")
        /\ UNCHANGED appVars
     \/ /\ ~maintenanceMode /\ shuttingDown
        /\ Reply(r, "shuttingDown")
        /\ UNCHANGED appVars
     \/ /\ ~maintenanceMode /\ ~shuttingDown
        /\ at' = [at EXCEPT ![r] = "passed"]
        /\ UNCHANGED <<processVars, appVars, handler, answer, seen>>

\* OutOfOrderMw: the load of shuttingDown, with errShuttingDown when it is set,
CheckShuttingDown(r) ==
  /\ at[r] = "arrived"
  /\ \/ /\ shuttingDown
        /\ Reply(r, "shuttingDown")
        /\ UNCHANGED appVars
     \/ /\ ~shuttingDown
        /\ at' = [at EXCEPT ![r] = "passed"]
        /\ UNCHANGED <<processVars, appVars, handler, answer, seen>>

\* Slip: the middleware asks the storage instead of the flag.
CheckStorage(r) ==
  /\ at[r] = "passed"
  /\ \/ /\ storage = "closed"
        /\ Reply(r, "outOfOrder")
        /\ UNCHANGED appVars
     \/ /\ storage = "open"
        /\ at' = [at EXCEPT ![r] = "admitted"]
        /\ UNCHANGED <<processVars, appVars, handler, answer, seen>>

\* and then the load of maintenanceMode, with errOutOfOrder when it is set.
CheckMaintenance(r) ==
  /\ at[r] = "passed"
  /\ \/ /\ maintenanceMode
        /\ Reply(r, "outOfOrder")
        /\ UNCHANGED appVars
     \/ /\ ~maintenanceMode
        /\ at' = [at EXCEPT ![r] = "admitted"]
        /\ UNCHANGED <<processVars, appVars, handler, answer, seen>>

\* Slip: a request waits until the storage is open again.
ServeWhenOpen(r) ==
  /\ at[r] = "admitted"
  /\ storage = "open"
  /\ Reply(r, "served")
  /\ caches' \in {caches, "filled"}
  /\ UNCHANGED <<storage, maintenanceMode, shuttingDown, debugMode, cancelled>>

\* The handler behind the middleware: it answers from the cache or from the
\* storage (handlers.go), and a closed storage makes it fail.
Serve(r) ==
  /\ at[r] = "admitted"
  /\ \/ /\ caches = "filled"
        /\ Reply(r, "served")
        /\ UNCHANGED appVars
     \/ /\ storage = "open"
        /\ Reply(r, "served")
        /\ caches' \in {caches, "filled"}
        /\ UNCHANGED <<storage, maintenanceMode, shuttingDown, debugMode, cancelled>>
     \/ /\ storage = "closed"
        /\ caches = "empty"
        /\ Reply(r, "failed")
        /\ UNCHANGED appVars

Request(r) == Arrive(r) \/ CheckShuttingDown(r) \/ CheckMaintenance(r) \/ Serve(r)

-----------------------------------------------------------------------------
(* The environment of a server *)

\* Commands, sessions, a service manager, a terminal.
Signalled == \E sig \in Outside : Kill(started, sig) /\ UNCHANGED <<appVars, handler, requestVars>>

\* The storage is opened or closed by a goroutine other than the handler's.
StorageBecomes(status) ==
  /\ SSHBuild
  /\ Running
  /\ storage' = status
  /\ UNCHANGED <<processVars, maintenanceMode, shuttingDown, debugMode, caches, cancelled,
                 handler, at, answer>>
  /\ Witness

StorageShared == \E status \in {"open", "closed"} : StorageBecomes(status)

HandleSignal == Reload \/ ToggleDebug \/ ToggleMaintenance \/ Pause \/ Stop

ServerStep ==
  \/ Boot \/ WritePid \/ Register \/ Crash \/ KilledUnregistered
  \/ HandleSignal
  \/ \E r \in Requests : Request(r)

ServerNext == ServerStep \/ Signalled \/ StorageShared

ServerSpec == ServerInit /\ [][ServerNext]_serverVars

-----------------------------------------------------------------------------
(* What the server promises *)

\* Once Stop has raised shuttingDown the decision is final for a request that
\* arrives later (OutOfOrderMw loads the flag first): none of them is let
\* through, none is told the server is only out of order, and none is answered
\* from the storage or the cache, whatever toggles are still pending.
LateRequestsRefused ==
  \A r \in Requests :
    seen[r] = {"stopping"} => /\ at[r] \notin {"passed", "admitted"}
                              /\ answer[r] \in {"none", "shuttingDown"}

Offline ==
  \/ handler = "idle" /\ maintenanceMode
  \/ handler \notin {"idle", "pausing"}

\* Without SSH sessions the storage is closed whenever the handler of SIGUSR1
\* has finished turning maintenance on, and from the first step of Stop until
\* the process is gone: what a command relies on that pauses the server.
OfflineMeansClosed == ~SSHBuild /\ Offline => storage = "closed"

Gate == INSTANCE Availability WITH
  SharedStorage <- SSHBuild,
  mode  <- Mode,
  state <- [r \in Requests |-> IF at[r] \in Active THEN "open" ELSE at[r]]

\* The server is an implementation of Availability: its modes change only as
\* that module allows, and every answer, which the code decides in up to three
\* unsynchronised steps, is one that a mode of the request's own time
\* justifies.
ImplementsAvailability == Gate!Spec

-----------------------------------------------------------------------------
(* The inductive invariant behind these promises *)

\* A server that is not up yet has handled nothing and serves nobody.
QuietUnlessRunning ==
  ~Running => /\ handler = "idle" /\ ~maintenanceMode /\ ~shuttingDown
              /\ \A r \in Requests : at[r] \notin Active

\* shuttingDown is raised in Stop only and stays up.
FlagFollowsStop ==
  shuttingDown <=> handler \in {"stopping", "draining", "cleaning", "exiting"}

\* What a request in progress has seen explains what was decided about it:
\* the present mode, a mode that lets requests through once it is admitted,
\* and, once it has passed the load of shuttingDown, a mode that explains both
\* values maintenanceMode can have at the second load.  The last is where
\* sequential signal handlers matter: after Stop has raised shuttingDown no
\* toggle can change maintenanceMode under such a request.
DecisionSeen(r) ==
  /\ at[r] \in Active => Mode \in seen[r]
  /\ at[r] = "passed" /\ maintenanceMode => "maintenance" \in seen[r]
  /\ at[r] = "passed" /\ ~maintenanceMode => seen[r] \cap {"up", "degraded"} # {}
  /\ at[r] = "admitted" => seen[r] \cap {"up", "degraded"} # {}
  /\ at[r] = "answered" => answer[r] \in Gate!Justified(seen[r])
  /\ at[r] # "answered" => answer[r] = "none"

\* The invariant that the proofs show to be inductive (ServerProofs.tla); it
\* is about the signal handler of app.go and the two loads of OutOfOrderMw.
ServerInv ==
  /\ ServerTypeOK
  /\ QuietUnlessRunning
  /\ FlagFollowsStop
  /\ OfflineMeansClosed
  /\ \A r \in Requests : DecisionSeen(r)

=============================================================================
