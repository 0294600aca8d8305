-------------------------------- MODULE FedBOX --------------------------------
(***************************************************************************)
(* A FedBOX installation: the server process, its SSH sessions and the     *)
(* fedbox commands that pause it through signals while they use the        *)
(* storage it serves from.                                                 *)
(*                                                                         *)
(* A toggle is all the server and a command have to agree on, so what the  *)
(* properties below are about is parity: whether every SIGUSR1 that turned *)
(* maintenance on is followed by the one that turns it off, for the same   *)
(* server, whatever else happens in between.                               *)
(***************************************************************************)
EXTENDS SSH, Control, FiniteSets

\* Toggles are sent by commands and sessions only, so that they are counted.
ASSUME OutsideTogglesAssumption == "USR1" \notin Outside

\* Debtors are counted.
ASSUME CommandsAssumption == IsFiniteSet(Commands)

vars == <<serverVars, session, controlVars>>

TypeOK == ServerTypeOK /\ SSHTypeOK /\ ControlTypeOK

Init == ServerInit /\ SSHInit /\ ControlInit

\* The sessions end with the process that runs them.
ServerMoves ==
  /\ ServerStep
  /\ session' = IF Alive' THEN session ELSE [s \in Sessions |-> "none"]
  /\ UNCHANGED controlVars

SessionMoves(s) ==
  /\ \/ SSHLogin(s) /\ UNCHANGED operated
     \/ StorageSession(s) /\ UNCHANGED operated
     \/ \E cmd \in DOMAIN SessionSignal :
          /\ SSHSignal(s, cmd)
          /\ operated' = IF cmd = "maintenance" THEN operated \cup {started} ELSE operated
  /\ UNCHANGED <<commandVars, orphaned>>

CommandMoves(c) ==
  /\ Command(c)
  /\ UNCHANGED <<appVars, handler, requestVars, session>>

\* A service manager, a terminal or the system sends a signal.
SignalledFromOutside ==
  /\ Signalled
  /\ UNCHANGED <<session, controlVars>>

Next ==
  \/ ServerMoves
  \/ SignalledFromOutside
  \/ \E s \in Sessions : SessionMoves(s)
  \/ \E c \in Commands : CommandMoves(c)

Spec == Init /\ [][Next]_vars

-----------------------------------------------------------------------------
(* Fairness: goroutines and processes that can run do run, and the channel  *)
(* of os/signal hands the signals over in order, so that each one is taken  *)
(* in the end however many others come.  Nothing makes a client send a      *)
(* request, an operator start a command or a process crash.                 *)

Fairness ==
  /\ WF_vars(ServerMoves /\ (WritePid \/ Register \/ KilledUnregistered))
  /\ WF_vars(ServerMoves /\ (Pause \/ MarkShuttingDown \/ CloseListeners \/ Drained
                             \/ DrainTimeout \/ RemovePid \/ Exit))
  /\ SF_vars(ServerMoves /\ ToggleMaintenance)
  /\ \A sig \in StopSignals : SF_vars(ServerMoves /\ BeginStop(sig))
  /\ \A r \in Requests :
       WF_vars(ServerMoves /\ (CheckShuttingDown(r) \/ CheckMaintenance(r) \/ Serve(r)))
  /\ \A c \in Commands : WF_vars(CommandMoves(c) /\ CommandStep(c))
  /\ \A s \in Sessions : WF_vars(SessionMoves(s) /\ SessionStep(s))

FairSpec == Spec /\ Fairness

-----------------------------------------------------------------------------
(* Maintenance mode and the commands *)

Debtors == {c \in Commands : Owes(c)}

\* The server has lost no toggle, and nobody toggled it but commands that
\* will toggle it back.
Undisturbed == started \notin lostTo \cup orphaned \cup operated

\* No toggle is on its way to the server and no signal handler is at work.
Settled == Running /\ ~Waiting("USR1") /\ handler = "idle"

Odd(n) == n % 2 = 1

\* The flag counts: in an undisturbed server the flag, and the toggles that have
\* not been handled, add up to the number of commands that still have to
\* toggle it back.
FlagCountsDebtors ==
  Undisturbed /\ Alive =>
    (maintenanceMode # Odd(pending["USR1"])) = Odd(Cardinality(Debtors))

\* Once every command that paused the server has returned, on whichever path
\* (run.go: the deferred pauseFn), and its toggle is handled, the server is out
\* of maintenance.  Commands that read the pid of an earlier server never
\* disturb the one that replaced it.
NoLeftoverMaintenance ==
  Undisturbed /\ Settled /\ Debtors = {} => ~maintenanceMode

\* A command has the storage open, and so has a server that nobody disturbed
\* and no session uses (run.go: pauseFn before Storage.Open), for three reasons and no other: the command never paused this server (none
\* ran when it began, or it read no pid); its toggle is not handled yet; or
\* another command has paused the server too, so that one toggle undid the
\* other.  Nothing keeps commands from sharing the storage with each other.
SharedStorageHasCause ==
  \A c \in Commands :
    ~SSHBuild /\ Undisturbed /\ Alive /\ storage = "open" /\ holds[c] =>
      \/ ~Owes(c)
      \/ ~Settled
      \/ \E d \in Commands \ {c} : Owes(d)

AnyServer == INSTANCE Server WITH Outside <- Signals

\* The server in this composition is the server of Server.tla among senders of
\* any signals: what that module shows of it holds here, whatever commands and
\* sessions send it and do to its storage.
IsServer == AnyServer!ServerSpec

-----------------------------------------------------------------------------
(* The inductive invariant behind these properties *)

\* A toggle sent to a server that has not registered its handlers is swallowed.
TogglesNeedHandlers == ~Running => pending["USR1"] = 0

\* Nobody knows the pid of a server to come, so a new server owes to nobody.
PidsAreOfThePast == pidFile <= started /\ \A c \in Commands : target[c] <= started

\* A command toggles once before it counts as a debtor, and once after.
ShapeOfCommand(c) ==
  /\ pc[c] \in {"idle", "signal", "pause"} => ~paused[c]
  /\ pc[c] = "signal" => kind[c] \in Signalling
  /\ pc[c] = "unpause" => paused[c]

SessionsLiveInServer == \A s \in Sessions : session[s] # "none" => Alive

\* The invariant that the proofs show to be inductive (FedBOXProofs.tla); it is
\* about the two pauseFn() of Run, the signal handlers of the server and
\* whatever may come between them.
FedBOXInv ==
  /\ TypeOK
  /\ ServerInv
  /\ TogglesNeedHandlers
  /\ PidsAreOfThePast
  /\ \A c \in Commands : ShapeOfCommand(c)
  /\ SessionsLiveInServer
  /\ FlagCountsDebtors

-----------------------------------------------------------------------------
(* Progress *)

\* A server asked to stop stops, whatever is toggled meanwhile: the wait for
\* requests is bounded and nothing else can hold its handler up.
StopHonoured ==
  Running /\ (\E sig \in StopSignals : Waiting(sig)) ~> ~Alive

\* Every request gets an answer or loses its server.
RequestsEnd == \A r \in Requests : at[r] \in Active ~> at[r] \notin Active

\* If a server stays and is not disturbed, the commands that pause it leave it
\* out of maintenance in the end.
MaintenanceEnds ==
  <>[](Running /\ Undisturbed) => <>[](~maintenanceMode)

-----------------------------------------------------------------------------
(* What the documentation says, and the code does not do *)

\* cmd-serve.go: "The duration for which the server waits for existing
\* connections to finish".  In an installation that only gets interrupted, a
\* request that found the server up is not made to fail by the interruption.
InterruptLetsRequestsFinish ==
  \A r \in Requests : "up" \in seen[r] => answer[r] # "failed"

=============================================================================
