----------------------------- MODULE FedBOXProofs -----------------------------
(***************************************************************************)
(* Proofs about FedBOX.tla, the composition of the server with its SSH     *)
(* sessions and the commands: for any finite set of commands, any sessions *)
(* and requests, any number of starts and any signals from outside that    *)
(* are not toggles.                                                        *)
(***************************************************************************)
EXTENDS FedBOX, ServerProofs, FiniteSetTheorems

-----------------------------------------------------------------------------
(* What the server sees of the others *)

\* A signal arrives, from a command, a session or from outside.
SignalArrives ==
  \E sig \in Signals : Kill(started, sig) /\ UNCHANGED <<appVars, handler, requestVars>>

\* A signal that finds its process finds the server that lives.
LEMMA KillArrives ==
  ASSUME NEW pid, NEW sig \in Signals, Kill(pid, sig),
         UNCHANGED <<appVars, handler, requestVars>>
  PROVE  SignalArrives
<1>1. pid = started
  BY DEF Kill, Reaches
<1> QED
  BY <1>1 DEF SignalArrives

\* A signal that finds no process leaves the server as it is.
LEMMA KillFailsIsNothing ==
  ASSUME NEW pid, KillFails(pid), UNCHANGED <<appVars, handler, requestVars>>
  PROVE  UNCHANGED serverVars
BY DEF KillFails, serverVars

\* The signals of commands and sessions are signals.
LEMMA SignalsSent ==
  /\ \A cmd \in DOMAIN SessionSignal : SessionSignal[cmd] \in Signals
  /\ \A k \in Signalling \cup {"debug"} : SignalOf(k) \in Signals
  /\ "USR1" \in Signals
BY DEF SessionSignal, Signalling, SignalOf, Signals, Deadly

\* A session sends a signal, uses the storage or does nothing to the server.
LEMMA SessionAsSeen ==
  ASSUME NEW s \in Sessions, SessionMoves(s)
  PROVE  SignalArrives \/ StorageShared \/ UNCHANGED serverVars
<1>1. CASE SSHLogin(s)
  BY <1>1 DEF SSHLogin
<1>2. CASE StorageSession(s)
  BY <1>2 DEF StorageSession, SSHReset, SSHRemove, SSHRecreate, SSHBootstrap, SSHCreate, SSHCreated,
              SSHReopen, StorageShared
<1>3. ASSUME NEW cmd \in DOMAIN SessionSignal, SSHSignal(s, cmd)
      PROVE  SignalArrives \/ UNCHANGED serverVars
  BY <1>3, SignalsSent, KillArrives, KillFailsIsNothing DEF SSHSignal
<1> QED
  BY <1>1, <1>2, <1>3 DEF SessionMoves

\* A command sends a signal or does nothing to the server.
LEMMA CommandAsSeen ==
  ASSUME NEW c \in Commands, ShapeOfCommand(c), CommandMoves(c)
  PROVE  SignalArrives \/ UNCHANGED serverVars
<1>1. UNCHANGED <<appVars, handler, requestVars>>
  BY DEF CommandMoves
<1>2. CASE UNCHANGED processVars
  BY <1>1, <1>2 DEF serverVars
<1>3. CASE CmdSignal(c)
  <2>1. SignalOf(kind[c]) \in Signals
    BY <1>3, SignalsSent DEF CmdSignal, ShapeOfCommand
  <2> QED
    BY <1>1, <1>3, <2>1, KillArrives, KillFailsIsNothing DEF CmdSignal
<1>4. CASE CmdPause(c) \/ CmdUnpause(c)
  BY <1>1, <1>4, SignalsSent, KillArrives, KillFailsIsNothing DEF CmdPause, CmdUnpause
<1>5. CASE CmdDebug(c)
  BY <1>1, <1>5, SignalsSent, KillArrives, KillFailsIsNothing DEF CmdDebug
<1> QED
  BY <1>2, <1>3, <1>4, <1>5
     DEF CommandMoves, Command, CommandStep, CmdBegin, CmdOpen, CmdLoad, CmdWork, CmdBootstrap,
         CmdCreate, CmdClose, CmdKilled

\* Every step of the installation, as the server sees it.
LEMMA NextAsSeen ==
  ASSUME FedBOXInv, [Next]_vars
  PROVE  ServerStep \/ SignalArrives \/ StorageShared \/ UNCHANGED serverVars
<1>1. CASE ServerMoves
  BY <1>1 DEF ServerMoves
<1>2. CASE SignalledFromOutside
  BY <1>2, OutsideAssumption DEF SignalledFromOutside, Signalled, SignalArrives
<1>3. ASSUME NEW s \in Sessions, SessionMoves(s)
      PROVE  SignalArrives \/ StorageShared \/ UNCHANGED serverVars
  BY <1>3, SessionAsSeen
<1>4. ASSUME NEW c \in Commands, CommandMoves(c)
      PROVE  SignalArrives \/ UNCHANGED serverVars
  BY <1>4, CommandAsSeen DEF FedBOXInv
<1>5. CASE UNCHANGED vars
  BY <1>5 DEF vars
<1> QED
  BY <1>1, <1>2, <1>3, <1>4, <1>5 DEF Next

\* So every step keeps the invariant of the server.
LEMMA NextKeepsServerInv ==
  ASSUME FedBOXInv, [Next]_vars
  PROVE  ServerInv'
<1>1. ServerInv
  BY DEF FedBOXInv
<1>2. CASE SignalArrives
  BY <1>1, <1>2, KillKeepsInv DEF SignalArrives
<1>3. CASE ServerStep \/ StorageShared \/ UNCHANGED serverVars
  BY <1>1, <1>3, InvStep DEF ServerNext
<1> QED
  BY <1>2, <1>3, NextAsSeen

-----------------------------------------------------------------------------
(* The types *)

\* A step of a session keeps the types.
LEMMA SessionType ==
  ASSUME FedBOXInv, NEW s \in Sessions, SessionMoves(s)
  PROVE  SSHTypeOK' /\ ControlTypeOK'
<1>1. SSHTypeOK'
  BY DEF SessionMoves, SSHLogin, SSHSignal, StorageSession, SSHReset, SSHRemove, SSHRecreate,
         SSHBootstrap, SSHCreate, SSHCreated, SSHReopen, SessionGoto, SessionSteps, FedBOXInv,
         TypeOK, SSHTypeOK
<1>2. operated' \subseteq Pids
  <2>1. CASE UNCHANGED operated
    BY <2>1 DEF FedBOXInv, TypeOK, ControlTypeOK
  <2>2. ASSUME NEW cmd \in DOMAIN SessionSignal, SSHSignal(s, cmd) PROVE started \in Pids
    BY <2>2
       DEF SSHSignal, FedBOXInv, SessionsLiveInServer, ServerInv, ServerTypeOK, ProcessTypeOK
  <2> QED
    BY <2>1, <2>2 DEF SessionMoves, FedBOXInv, TypeOK, ControlTypeOK
<1> QED
  BY <1>1, <1>2 DEF SessionMoves, commandVars, FedBOXInv, TypeOK, ControlTypeOK

\* A step of a command keeps the types.
LEMMA CommandType ==
  ASSUME FedBOXInv, NEW c \in Commands, CommandMoves(c)
  PROVE  SSHTypeOK' /\ ControlTypeOK'
<1> SUFFICES ControlTypeOK'
  BY DEF CommandMoves, FedBOXInv, TypeOK, SSHTypeOK
<1>2. ControlTypeOK
  BY DEF FedBOXInv, TypeOK
<1>3. Alive => started \in Pids
  BY DEF FedBOXInv, ServerInv, ServerTypeOK, ProcessTypeOK
<1>4. pidFile \in 0 .. MaxStarts
  BY DEF FedBOXInv, ServerInv, ServerTypeOK, ProcessTypeOK
<1>5. CASE CmdBegin(c)
  BY <1>2, <1>4, <1>5, AvailableAssumption
     DEF CmdBegin, ReadPid, Goto, Steps, ControlTypeOK
<1>6. CASE CmdSignal(c)
  BY <1>2, <1>3, <1>6 DEF CmdSignal, Kill, Reaches, End, Goto, Steps, ControlTypeOK
<1>7. CASE CmdPause(c)
  BY <1>2, <1>7 DEF CmdPause, Goto, Steps, ControlTypeOK
<1>8. CASE CmdOpen(c) \/ CmdLoad(c)
  BY <1>2, <1>8 DEF CmdOpen, CmdLoad, Return, End, Goto, Steps, ControlTypeOK
<1>9. CASE CmdWork(c) \/ CmdDebug(c)
  BY <1>2, <1>9 DEF CmdWork, CmdDebug, Goto, Steps, ControlTypeOK
<1>10. CASE CmdBootstrap(c) \/ CmdCreate(c)
  BY <1>2, <1>10 DEF CmdBootstrap, CmdCreate, Return, End, Goto, Steps, ControlTypeOK
<1>11. CASE CmdClose(c) \/ CmdUnpause(c)
  BY <1>2, <1>11 DEF CmdClose, CmdUnpause, End, Goto, Steps, ControlTypeOK
<1>12. CASE CmdKilled(c)
  BY <1>2, <1>3, <1>12 DEF CmdKilled, Owes, Reaches, End, Goto, Steps, ControlTypeOK
<1> QED
  BY <1>5, <1>6, <1>7, <1>8, <1>9, <1>10, <1>11, <1>12 DEF CommandMoves, Command, CommandStep

\* Every step keeps the types.
LEMMA NextKeepsTypes ==
  ASSUME FedBOXInv, [Next]_vars
  PROVE  TypeOK'
<1>1. ServerTypeOK'
  BY NextKeepsServerInv DEF ServerInv
<1>2. CASE ServerMoves
  BY <1>1, <1>2
     DEF ServerMoves, controlVars, commandVars, SessionSteps, FedBOXInv, TypeOK, SSHTypeOK,
         ControlTypeOK
<1>3. CASE SignalledFromOutside \/ UNCHANGED vars
  BY <1>1, <1>3
     DEF SignalledFromOutside, vars, controlVars, commandVars, FedBOXInv, TypeOK, SSHTypeOK,
         ControlTypeOK
<1> QED
  BY <1>1, <1>2, <1>3, SessionType, CommandType DEF Next, TypeOK

-----------------------------------------------------------------------------
(* Pids, sessions and the shape of a command *)

\* A signal changes nothing of the process but its signals.
LEMMA KillKeepsProcess ==
  ASSUME NEW pid, NEW sig, Kill(pid, sig) \/ KillFails(pid)
  PROVE  UNCHANGED <<server, started, pidFile>>
BY DEF Kill, KillFails, processVars

\* A command neither starts nor ends a server, nor writes the pid file.
LEMMA CommandKeepsProcess ==
  ASSUME NEW c \in Commands, CommandMoves(c)
  PROVE  UNCHANGED <<server, started, pidFile>>
<1>1. CASE UNCHANGED processVars
  BY <1>1 DEF processVars
<1>2. CASE CmdSignal(c) \/ CmdPause(c) \/ CmdUnpause(c) \/ CmdDebug(c)
  BY <1>2, KillKeepsProcess DEF CmdSignal, CmdPause, CmdUnpause, CmdDebug
<1> QED
  BY <1>1, <1>2
     DEF CommandMoves, Command, CommandStep, CmdBegin, CmdOpen, CmdLoad, CmdWork, CmdBootstrap,
         CmdCreate, CmdClose, CmdKilled

\* Nor does a session.
LEMMA SessionKeepsProcess ==
  ASSUME NEW s \in Sessions, SessionMoves(s)
  PROVE  UNCHANGED <<server, started, pidFile>>
<1>1. CASE SSHLogin(s)
  BY <1>1 DEF SSHLogin, serverVars, processVars
<1>2. CASE StorageSession(s)
  BY <1>2 DEF StorageSession, SSHReset, SSHRemove, SSHRecreate, SSHBootstrap, SSHCreate, SSHCreated,
              SSHReopen, StorageBecomes, serverVars, processVars
<1>3. ASSUME NEW cmd \in DOMAIN SessionSignal, SSHSignal(s, cmd)
      PROVE  UNCHANGED <<server, started, pidFile>>
  BY <1>3, KillKeepsProcess DEF SSHSignal
<1> QED
  BY <1>1, <1>2, <1>3 DEF SessionMoves

\* The count of the servers started only grows, and only a living server writes
\* its own pid, which is the latest.
LEMMA ServerKeepsPids ==
  ASSUME ServerTypeOK, ServerStep, pidFile <= started
  PROVE  started <= started' /\ pidFile' <= started'
<1>1. started \in Nat /\ pidFile \in Nat
  BY MaxStartsAssumption DEF ServerTypeOK, ProcessTypeOK
<1>2. CASE Boot
  BY <1>1, <1>2 DEF Boot
<1>3. CASE WritePid
  BY <1>1, <1>3 DEF WritePid
<1>4. CASE RemovePid
  BY <1>1, <1>4 DEF RemovePid, NoPid
<1>5. CASE UNCHANGED <<started, pidFile>>
  BY <1>1, <1>5
<1> QED
  BY <1>2, <1>3, <1>4, <1>5
     DEF ServerStep, HandleSignal, Stop, Register, Crash, KilledUnregistered, Exit, Die, Reload,
         ToggleDebug, ToggleMaintenance, Pause, BeginStop, MarkShuttingDown, CloseListeners,
         Drained, DrainTimeout, Request, Arrive, CheckShuttingDown, CheckMaintenance, Serve, Reply,
         processVars

\* So a command never holds the pid of a server to come.
LEMMA NextKeepsPids ==
  ASSUME FedBOXInv, [Next]_vars
  PROVE  PidsAreOfThePast'
<1>1. /\ started \in Nat /\ pidFile \in Nat /\ started' \in Nat
      /\ \A c \in Commands : target[c] \in Nat
  BY MaxStartsAssumption, NextKeepsServerInv
     DEF FedBOXInv, ServerInv, ServerTypeOK, ProcessTypeOK, TypeOK, ControlTypeOK
<1>2. pidFile <= started /\ \A c \in Commands : target[c] <= started
  BY DEF FedBOXInv, PidsAreOfThePast
<1>3. CASE ServerMoves
  <2>1. started <= started' /\ pidFile' <= started' /\ target' = target
    BY <1>2, <1>3, ServerKeepsPids DEF ServerMoves, controlVars, commandVars, FedBOXInv, ServerInv
  <2> QED
    BY <1>1, <1>2, <2>1 DEF PidsAreOfThePast
<1>4. CASE SignalledFromOutside
  BY <1>2, <1>4, KillKeepsProcess
     DEF SignalledFromOutside, Signalled, controlVars, commandVars, PidsAreOfThePast
<1>5. ASSUME NEW s \in Sessions, SessionMoves(s) PROVE PidsAreOfThePast'
  BY <1>2, <1>5, SessionKeepsProcess DEF SessionMoves, commandVars, PidsAreOfThePast
<1>6. ASSUME NEW c \in Commands, CommandMoves(c) PROVE PidsAreOfThePast'
  <2>1. \A d \in Commands : target'[d] \in {target[d], pidFile}
    BY <1>6
       DEF CommandMoves, Command, CommandStep, CmdBegin, CmdSignal, CmdPause, CmdOpen, CmdLoad,
           CmdWork, CmdDebug, CmdBootstrap, CmdCreate, CmdClose, CmdUnpause, CmdKilled, ReadPid,
           FedBOXInv, TypeOK, ControlTypeOK
  <2> QED
    BY <1>2, <1>6, <2>1, CommandKeepsProcess DEF PidsAreOfThePast
<1>7. CASE UNCHANGED vars
  BY <1>2, <1>7 DEF vars, serverVars, processVars, controlVars, commandVars, PidsAreOfThePast
<1> QED
  BY <1>3, <1>4, <1>5, <1>6, <1>7 DEF Next

\* A command sends its first toggle before it counts as having paused, and the
\* second only if it has.
LEMMA CommandKeepsShape ==
  ASSUME FedBOXInv, NEW c \in Commands, CommandMoves(c)
  PROVE  \A d \in Commands : ShapeOfCommand(d)'
<1>1. /\ ControlTypeOK
      /\ \A d \in Commands : ShapeOfCommand(d)
  BY DEF FedBOXInv, TypeOK
<1>2. ASSUME NEW d \in Commands, d # c PROVE ShapeOfCommand(d)'
  <2>1. pc'[d] = pc[d] /\ kind'[d] = kind[d] /\ paused'[d] = paused[d]
    BY <1>1, <1>2
       DEF CommandMoves, Command, CommandStep, CmdBegin, CmdSignal, CmdPause, CmdOpen, CmdLoad,
           CmdWork, CmdDebug, CmdBootstrap, CmdCreate, CmdClose, CmdUnpause, CmdKilled, Return, End,
           Goto, ControlTypeOK
  <2> QED
    BY <1>1, <2>1 DEF ShapeOfCommand
<1>3. CASE CmdBegin(c)
  BY <1>1, <1>3 DEF CmdBegin, Goto, ControlTypeOK, ShapeOfCommand
<1>4. CASE CmdSignal(c) \/ CmdPause(c) \/ CmdUnpause(c) \/ CmdKilled(c)
  BY <1>1, <1>4 DEF CmdSignal, CmdPause, CmdUnpause, CmdKilled, End, Goto, ControlTypeOK, ShapeOfCommand
<1>5. CASE CmdOpen(c) \/ CmdLoad(c) \/ CmdBootstrap(c) \/ CmdCreate(c) \/ CmdClose(c)
  BY <1>1, <1>5
     DEF CmdOpen, CmdLoad, CmdBootstrap, CmdCreate, CmdClose, Return, End, Goto, ControlTypeOK,
         ShapeOfCommand
<1>6. CASE CmdWork(c) \/ CmdDebug(c)
  BY <1>1, <1>6 DEF CmdWork, CmdDebug, Goto, ControlTypeOK, ShapeOfCommand
<1> QED
  BY <1>2, <1>3, <1>4, <1>5, <1>6 DEF CommandMoves, Command, CommandStep

\* So does every other step.
LEMMA NextKeepsShape ==
  ASSUME FedBOXInv, [Next]_vars
  PROVE  \A c \in Commands : ShapeOfCommand(c)'
<1>1. CASE UNCHANGED commandVars
  BY <1>1 DEF commandVars, FedBOXInv, ShapeOfCommand
<1>2. ASSUME NEW c \in Commands, CommandMoves(c) PROVE \A d \in Commands : ShapeOfCommand(d)'
  BY <1>2, CommandKeepsShape
<1> QED
  BY <1>1, <1>2 DEF Next, ServerMoves, SignalledFromOutside, SessionMoves, vars, controlVars

\* A session needs the server it was let in by.
LEMMA NextKeepsSessions ==
  ASSUME FedBOXInv, [Next]_vars
  PROVE  SessionsLiveInServer'
<1>1. SessionsLiveInServer /\ session \in [Sessions -> SessionSteps]
  BY DEF FedBOXInv, TypeOK, SSHTypeOK
<1>2. CASE ServerMoves
  BY <1>1, <1>2 DEF ServerMoves, SessionsLiveInServer
<1>3. CASE SignalledFromOutside
  BY <1>1, <1>3, KillKeepsProcess DEF SignalledFromOutside, Signalled, SessionsLiveInServer, Alive
<1>4. ASSUME NEW s \in Sessions, SessionMoves(s) PROVE SessionsLiveInServer'
  <2>1. server' = server
    BY <1>4, SessionKeepsProcess
  <2>2. \A t \in Sessions : t # s => session'[t] = session[t]
    BY <1>1, <1>4
       DEF SessionMoves, SSHLogin, SSHSignal, StorageSession, SSHReset, SSHRemove, SSHRecreate,
           SSHBootstrap, SSHCreate, SSHCreated, SSHReopen, SessionGoto
  <2>3. Alive
    BY <1>1, <1>4
       DEF SessionMoves, SSHLogin, SSHSignal, StorageSession, SSHReset, SSHRemove, SSHRecreate,
           SSHBootstrap, SSHCreate, SSHCreated, SSHReopen, SessionsLiveInServer, Listening, Running,
           Alive
  <2> QED
    BY <2>1, <2>3 DEF SessionsLiveInServer, Alive
<1>5. ASSUME NEW c \in Commands, CommandMoves(c) PROVE SessionsLiveInServer'
  BY <1>1, <1>5, CommandKeepsProcess DEF CommandMoves, SessionsLiveInServer, Alive
<1>6. CASE UNCHANGED vars
  BY <1>1, <1>6 DEF vars, serverVars, processVars, SessionsLiveInServer, Alive
<1> QED
  BY <1>2, <1>3, <1>4, <1>5, <1>6 DEF Next

-----------------------------------------------------------------------------
(* Toggles *)

\* A number and the next one are not both odd.
LEMMA OddNext ==
  ASSUME NEW n \in Nat
  PROVE  /\ Odd(n) \in BOOLEAN
         /\ Odd(n + 1) = ~Odd(n)
         /\ n > 0 => Odd(n - 1) = ~Odd(n)
BY DEF Odd

\* A SIGUSR1 is queued, or lost, which is remembered; another signal is neither.
LEMMA ToggleSent ==
  ASSUME ProcessTypeOK, NEW pid, NEW sig \in Signals, Kill(pid, sig)
  PROVE  \/ /\ sig = "USR1" /\ Running
            /\ pending'["USR1"] = pending["USR1"] + 1
            /\ lostTo' = lostTo
         \/ /\ sig = "USR1"
            /\ pending'["USR1"] = pending["USR1"]
            /\ lostTo' = lostTo \cup {started}
         \/ /\ sig # "USR1"
            /\ pending'["USR1"] = pending["USR1"]
            /\ lostTo' = lostTo
<1>1. CASE Queued(sig)
  BY <1>1 DEF Queued, Swallowed, Deadly, ProcessTypeOK
<1>2. CASE Lost(sig)
  BY <1>2 DEF Lost
<1> QED
  BY <1>1, <1>2 DEF Kill

\* The server handles a toggle by flipping the flag.  It starts with neither a
\* flag nor a toggle, and ends with neither.
LEMMA ToggleHandled ==
  ASSUME ServerInv, TogglesNeedHandlers, ServerStep
  PROVE  /\ lostTo' = lostTo
         /\ \/ ~Alive' /\ pending'["USR1"] = 0
            \/ /\ ~Alive /\ started' = started + 1
               /\ ~maintenanceMode' /\ pending'["USR1"] = 0
            \/ /\ Alive /\ started' = started /\ (Running => Running')
               /\ maintenanceMode' = maintenanceMode /\ pending'["USR1"] = pending["USR1"]
            \/ /\ Running /\ Running' /\ started' = started
               /\ maintenanceMode' = ~maintenanceMode
               /\ pending["USR1"] > 0 /\ pending'["USR1"] = pending["USR1"] - 1
<1>1. /\ pending \in [Signals -> 0 .. SignalRoom]
      /\ "USR1" \in Signals
  BY DEF ServerInv, ServerTypeOK, ProcessTypeOK, Signals
<1>2. CASE Boot
  BY <1>2 DEF Boot, ServerInv, QuietUnlessRunning, TogglesNeedHandlers, Alive, Running
<1>3. CASE WritePid \/ Register
  BY <1>3 DEF WritePid, Register, appVars, Alive, Running
<1>4. CASE Crash \/ KilledUnregistered \/ Exit
  BY <1>1, <1>4 DEF Crash, KilledUnregistered, Exit, Die, NoSignals, Alive
<1>5. CASE Reload \/ ToggleDebug
  BY <1>1, <1>5 DEF Reload, ToggleDebug, Take, Alive, Running
<1>6. CASE ToggleMaintenance
  BY <1>1, <1>6, SignalRoomAssumption DEF ToggleMaintenance, Take, Waiting, Running
<1>7. ASSUME NEW sig \in Signals, BeginStop(sig)
      PROVE  /\ lostTo' = lostTo
             /\ Alive /\ started' = started /\ (Running => Running')
             /\ maintenanceMode' = maintenanceMode /\ pending'["USR1"] = pending["USR1"]
  BY <1>1, <1>7 DEF BeginStop, StopSignals, Take, Alive, Running
<1>8. CASE Pause \/ MarkShuttingDown \/ CloseListeners \/ Drained \/ DrainTimeout \/ RemovePid
  BY <1>8
     DEF Pause, MarkShuttingDown, CloseListeners, Drained, DrainTimeout, RemovePid, processVars,
         appVars, ServerInv, QuietUnlessRunning, Alive, Running
<1>9. ASSUME NEW r \in Requests, Request(r)
      PROVE  /\ lostTo' = lostTo
             /\ Alive /\ started' = started /\ (Running => Running')
             /\ maintenanceMode' = maintenanceMode /\ pending'["USR1"] = pending["USR1"]
  BY <1>9
     DEF Request, Arrive, CheckShuttingDown, CheckMaintenance, Serve, Reply, Listening, processVars,
         appVars, ServerInv, QuietUnlessRunning, Active, Alive, Running
<1> QED
  BY <1>2, <1>3, <1>4, <1>5, <1>6, <1>7, <1>8, <1>9 DEF ServerStep, HandleSignal, Stop

\* No toggle waits for a server without handlers.
LEMMA NextKeepsToggles ==
  ASSUME FedBOXInv, [Next]_vars
  PROVE  TogglesNeedHandlers'
<1>1. ServerInv /\ TogglesNeedHandlers /\ ProcessTypeOK
  BY DEF FedBOXInv, ServerInv, ServerTypeOK
<1>2. CASE ServerStep
  <2>1. Running => Alive
    BY DEF Running, Alive
  <2> QED
    BY <1>1, <1>2, <2>1, ToggleHandled DEF TogglesNeedHandlers, Running, Alive
<1>3. CASE SignalArrives
  BY <1>1, <1>3, ToggleSent, KillKeepsProcess DEF SignalArrives, TogglesNeedHandlers, Running
<1>4. CASE StorageShared \/ UNCHANGED serverVars
  BY <1>1, <1>4
     DEF StorageShared, StorageBecomes, serverVars, processVars, TogglesNeedHandlers, Running
<1> QED
  BY <1>2, <1>3, <1>4, NextAsSeen

-----------------------------------------------------------------------------
(* Debtors *)

\* What FlagCountsDebtors says of an undisturbed server.
Balance == (maintenanceMode # Odd(pending["USR1"])) = Odd(Cardinality(Debtors))

\* The debtors can be counted.
LEMMA DebtorsFinite == IsFiniteSet(Debtors) /\ Cardinality(Debtors) \in Nat
<1>1. IsFiniteSet(Debtors)
  BY CommandsAssumption, FS_Subset DEF Debtors
<1> QED
  BY <1>1, FS_CardinalityType

\* A step that changes neither flag, toggles nor debtors keeps the balance.
LEMMA SameBalance ==
  ASSUME Balance, maintenanceMode' = maintenanceMode,
         pending'["USR1"] = pending["USR1"], Debtors' = Debtors
  PROVE  Balance'
BY DEF Balance

\* One toggle more, and one debtor more or less, keep it as well.
LEMMA ToggleKeepsBalance ==
  ASSUME FedBOXInv, Balance, maintenanceMode' = maintenanceMode,
         pending'["USR1"] = pending["USR1"] + 1, NEW c,
         \/ c \notin Debtors /\ Debtors' = Debtors \cup {c}
         \/ c \in Debtors /\ Debtors' = Debtors \ {c}
  PROVE  Balance'
<1> DEFINE n == Cardinality(Debtors)
<1>1. pending["USR1"] \in Nat /\ maintenanceMode \in BOOLEAN
  BY SignalRoomAssumption DEF FedBOXInv, ServerInv, ServerTypeOK, ProcessTypeOK, Signals
<1>2. Odd(pending["USR1"] + 1) = ~Odd(pending["USR1"]) /\ Odd(pending["USR1"]) \in BOOLEAN
  BY <1>1, OddNext
<1>3. n \in Nat /\ IsFiniteSet(Debtors)
  BY DebtorsFinite
<1>4. Odd(Cardinality(Debtors')) = ~Odd(n) /\ Odd(n) \in BOOLEAN
  <2>1. CASE c \notin Debtors /\ Debtors' = Debtors \cup {c}
    <3>1. Cardinality(Debtors') = n + 1
      BY <1>3, <2>1, FS_AddElement
    <3> QED
      BY <1>3, <3>1, OddNext
  <2>2. CASE c \in Debtors /\ Debtors' = Debtors \ {c}
    <3>1. Cardinality(Debtors') = n - 1
      BY <1>3, <2>2, FS_RemoveElement
    <3>2. n > 0
      BY <1>3, <2>2, FS_EmptySet
    <3> QED
      BY <1>3, <3>1, <3>2, OddNext
  <2> QED
    BY <2>1, <2>2
<1>5. (maintenanceMode # Odd(pending["USR1"])) = Odd(n)
  BY DEF Balance
<1>6. (maintenanceMode # ~Odd(pending["USR1"])) = ~Odd(n)
  BY <1>1, <1>2, <1>4, <1>5
<1>7. (maintenanceMode' # Odd(pending'["USR1"])) = Odd(Cardinality(Debtors'))
  BY <1>2, <1>4, <1>6
<1> QED
  BY <1>7 DEF Balance

\* A command changes the debt of no command but itself.
LEMMA DebtsOfOthers ==
  ASSUME FedBOXInv, NEW c \in Commands, CommandMoves(c), NEW d \in Commands, d # c
  PROVE  Owes(d)' <=> Owes(d)
<1>1. UNCHANGED <<server, started>>
  BY CommandKeepsProcess
<1>2. pc'[d] = pc[d] /\ paused'[d] = paused[d] /\ target'[d] = target[d]
  BY DEF CommandMoves, Command, CommandStep, CmdBegin, CmdSignal, CmdPause, CmdOpen, CmdLoad,
         CmdWork, CmdDebug, CmdBootstrap, CmdCreate, CmdClose, CmdUnpause, CmdKilled, Return, End,
         Goto, FedBOXInv, TypeOK, ControlTypeOK
<1> QED
  BY <1>1, <1>2 DEF Owes, Reaches, Alive

\* Its own debt changes with the toggles it sends: the first one makes it a
\* debtor, the second one, or its death, ends that.
LEMMA DebtOfCommand ==
  ASSUME FedBOXInv, NEW c \in Commands, CommandMoves(c)
  PROVE  \/ UNCHANGED <<pending, lostTo>> /\ (Owes(c)' <=> Owes(c))
         \/ /\ kind[c] = "maintenance" /\ operated' = operated \cup {started}
         \/ /\ \E sig \in Signals \ {"USR1"} : Kill(started, sig)
            /\ (Owes(c)' <=> Owes(c))
         \/ Kill(started, "USR1") /\ (Owes(c)' <=> ~Owes(c))
         \/ orphaned' = orphaned \cup {started}
<1>1. /\ UNCHANGED <<server, started>>
      /\ ControlTypeOK /\ ShapeOfCommand(c)
  BY CommandKeepsProcess DEF FedBOXInv, TypeOK
<1>2. /\ "USR2" \in Signals \ {"USR1"} /\ "HUP" \in Signals \ {"USR1"}
      /\ "TERM" \in Signals \ {"USR1"}
  BY DEF Signals, Deadly
<1>3. CASE CmdBegin(c)
  BY <1>1, <1>3 DEF CmdBegin, ShapeOfCommand, Owes, processVars
<1>4. CASE CmdSignal(c)
  <2>1. ~Owes(c) /\ ~Owes(c)' /\ kind[c] \in Signalling
    BY <1>1, <1>4 DEF CmdSignal, ShapeOfCommand, Owes
  <2>2. CASE Kill(target[c], SignalOf(kind[c])) /\ kind[c] = "maintenance"
    BY <1>4, <2>2 DEF CmdSignal, KillFails, Kill
  <2>3. CASE Kill(target[c], SignalOf(kind[c])) /\ kind[c] # "maintenance"
    <3>1. SignalOf(kind[c]) \in Signals \ {"USR1"}
      BY <1>2, <2>1, <2>3 DEF Signalling, SignalOf
    <3>2. Kill(started, SignalOf(kind[c]))
      BY <2>3 DEF Kill, Reaches
    <3> QED
      BY <2>1, <3>1, <3>2
  <2>4. CASE KillFails(target[c])
    BY <2>1, <2>4 DEF KillFails, processVars
  <2> QED
    BY <1>4, <2>2, <2>3, <2>4 DEF CmdSignal
<1>5. CASE CmdPause(c)
  <2>1. ~Owes(c)
    BY <1>1, <1>5 DEF CmdPause, ShapeOfCommand, Owes
  <2>2. CASE Kill(target[c], "USR1") /\ paused' = [paused EXCEPT ![c] = TRUE]
    <3>1. paused'[c] /\ pc'[c] # "done" /\ target'[c] = target[c]
      BY <1>1, <1>5, <2>2 DEF CmdPause, Goto, ControlTypeOK
    <3> QED
      BY <1>1, <2>1, <2>2, <3>1 DEF Kill, Reaches, Alive, Owes
  <2>3. CASE KillFails(target[c]) /\ UNCHANGED paused
    BY <1>1, <1>5, <2>1, <2>3 DEF CmdPause, KillFails, processVars, ShapeOfCommand, Owes
  <2> QED
    BY <1>5, <2>2, <2>3 DEF CmdPause
<1>6. CASE CmdUnpause(c)
  <2>1. ~Owes(c)' /\ paused[c] /\ pc[c] # "done"
    BY <1>1, <1>6 DEF CmdUnpause, End, Goto, ControlTypeOK, ShapeOfCommand, Owes
  <2>2. CASE Kill(target[c], "USR1")
    BY <2>1, <2>2 DEF Kill, Reaches, Owes
  <2>3. CASE KillFails(target[c])
    BY <2>1, <2>3 DEF KillFails, processVars, Owes
  <2> QED
    BY <1>6, <2>2, <2>3 DEF CmdUnpause
<1>7. CASE CmdDebug(c)
  <2>1. (Owes(c)' <=> Owes(c))
    BY <1>1, <1>7 DEF CmdDebug, Goto, ControlTypeOK, Owes, Reaches, Alive
  <2> QED
    BY <1>2, <1>7, <2>1 DEF CmdDebug, SignalOf, Kill, KillFails, Reaches, processVars
<1>8. CASE CmdOpen(c) \/ CmdLoad(c) \/ CmdWork(c) \/ CmdBootstrap(c) \/ CmdCreate(c) \/ CmdClose(c)
  <2>1. /\ UNCHANGED <<pending, lostTo>> /\ target'[c] = target[c] /\ paused'[c] = paused[c]
        /\ pc[c] # "done" /\ (paused[c] => pc'[c] # "done")
    BY <1>1, <1>8
       DEF CmdOpen, CmdLoad, CmdWork, CmdBootstrap, CmdCreate, CmdClose, Return, End, Goto,
           ControlTypeOK, processVars
  <2> QED
    BY <1>1, <2>1 DEF Owes, Reaches, Alive
<1>9. CASE CmdKilled(c)
  BY <1>1, <1>9 DEF CmdKilled, End, Goto, ControlTypeOK, Owes, processVars
<1> QED
  BY <1>3, <1>4, <1>5, <1>6, <1>7, <1>8, <1>9 DEF CommandMoves, Command, CommandStep

\* What becomes of the debtors when one command's debt stays or changes.
LEMMA DebtorsAfter ==
  ASSUME FedBOXInv, NEW c \in Commands, CommandMoves(c)
  PROVE  /\ (Owes(c)' <=> Owes(c)) => Debtors' = Debtors
         /\ (Owes(c)' <=> ~Owes(c)) =>
              \/ c \notin Debtors /\ Debtors' = Debtors \cup {c}
              \/ c \in Debtors /\ Debtors' = Debtors \ {c}
<1>1. \A d \in Commands : d # c => (d \in Debtors' <=> d \in Debtors)
  BY DebtsOfOthers DEF Debtors
<1>2. (c \in Debtors <=> Owes(c)) /\ (c \in Debtors' <=> Owes(c)')
  BY DEF Debtors
<1>3. Debtors \subseteq Commands /\ Debtors' \subseteq Commands
  BY DEF Debtors
<1> QED
  BY <1>1, <1>2, <1>3

\* A command keeps the balance, or what disturbs the server is remembered.
LEMMA CommandKeepsBalance ==
  ASSUME FedBOXInv, NEW c \in Commands, CommandMoves(c), Undisturbed => Balance, Undisturbed'
  PROVE  Balance'
<1>1. /\ UNCHANGED <<server, started, maintenanceMode>>
      /\ ProcessTypeOK
  BY CommandKeepsProcess DEF CommandMoves, appVars, FedBOXInv, ServerInv, ServerTypeOK
<1>2. lostTo \subseteq lostTo' /\ orphaned \subseteq orphaned' /\ operated \subseteq operated'
  <2>1. CASE UNCHANGED lostTo
    BY <2>1
       DEF CommandMoves, Command, CommandStep, CmdBegin, CmdSignal, CmdPause, CmdOpen, CmdLoad,
           CmdWork, CmdDebug, CmdBootstrap, CmdCreate, CmdClose, CmdUnpause, CmdKilled
  <2>2. ASSUME NEW pid, NEW sig, Kill(pid, sig) PROVE lostTo \subseteq lostTo'
    BY <2>2 DEF Kill, Queued, Lost
  <2> QED
    BY <2>1, <2>2
       DEF CommandMoves, Command, CommandStep, CmdBegin, CmdSignal, CmdPause, CmdOpen, CmdLoad,
           CmdWork, CmdDebug, CmdBootstrap, CmdCreate, CmdClose, CmdUnpause, CmdKilled, KillFails,
           processVars
<1>3. Balance
  BY <1>1, <1>2 DEF Undisturbed
<1>4. started \notin lostTo' \cup orphaned' \cup operated'
  BY <1>1 DEF Undisturbed
<1>5. CASE UNCHANGED <<pending, lostTo>> /\ (Owes(c)' <=> Owes(c))
  BY <1>1, <1>3, <1>5, DebtorsAfter, SameBalance
<1>6. ASSUME NEW sig \in Signals \ {"USR1"}, Kill(started, sig), Owes(c)' <=> Owes(c)
      PROVE  Balance'
  <2>1. pending'["USR1"] = pending["USR1"]
    BY <1>1, <1>6, ToggleSent
  <2> QED
    BY <1>1, <1>3, <1>6, <2>1, DebtorsAfter, SameBalance
<1>7. CASE Kill(started, "USR1") /\ (Owes(c)' <=> ~Owes(c))
  <2>1. pending'["USR1"] = pending["USR1"] + 1
    BY <1>1, <1>4, <1>7, ToggleSent DEF Signals
  <2> QED
    BY <1>1, <1>3, <1>7, <2>1, DebtorsAfter, ToggleKeepsBalance
<1> QED
  BY <1>4, <1>5, <1>6, <1>7, DebtOfCommand

\* Nor do sessions and signals from outside toggle the server unnoticed.
LEMMA OthersKeepBalance ==
  ASSUME FedBOXInv, NEW pid, NEW sig \in Signals, Kill(pid, sig),
         sig = "USR1" => started \in operated',
         UNCHANGED <<maintenanceMode, commandVars, orphaned>>, operated \subseteq operated',
         Undisturbed => Balance, Undisturbed'
  PROVE  Balance'
<1>1. Kill(pid, sig) /\ (sig = "USR1" => started \in operated')
  OBVIOUS
<1>2. UNCHANGED <<server, started>>
  BY <1>1 DEF Kill
<1>3. sig # "USR1"
  BY <1>1, <1>2 DEF Undisturbed
<1>4. pending'["USR1"] = pending["USR1"] /\ lostTo' = lostTo
  BY <1>1, <1>3, ToggleSent DEF FedBOXInv, ServerInv, ServerTypeOK
<1>5. Debtors' = Debtors
  BY <1>2 DEF Debtors, Owes, Reaches, Alive, commandVars
<1>6. Undisturbed
  BY <1>2, <1>4 DEF Undisturbed
<1> QED
  BY <1>4, <1>5, <1>6, SameBalance

\* The server keeps the balance while it lives, and a new one starts balanced.
LEMMA ServerKeepsBalance ==
  ASSUME FedBOXInv, ServerMoves, Alive', Undisturbed'
  PROVE  Balance'
<1>1. /\ ServerInv /\ TogglesNeedHandlers /\ FlagCountsDebtors
      /\ UNCHANGED controlVars
  BY DEF ServerMoves, FedBOXInv
<1>2. CASE ~Alive /\ started' = started + 1 /\ ~maintenanceMode' /\ pending'["USR1"] = 0
  <2>1. \A c \in Commands : target[c] \in Nat /\ target[c] <= started
    BY MaxStartsAssumption DEF FedBOXInv, PidsAreOfThePast, TypeOK, ControlTypeOK
  <2>2. started \in Nat
    BY <1>1, MaxStartsAssumption DEF ServerInv, ServerTypeOK, ProcessTypeOK
  <2>3. Debtors' = {}
    BY <1>1, <1>2, <2>1, <2>2 DEF Debtors, Owes, Reaches, controlVars, commandVars
  <2>4. Cardinality(Debtors') = 0
    BY <2>3, FS_EmptySet
  <2>5. maintenanceMode' = FALSE
    BY <1>2, NextKeepsServerInv DEF ServerInv, ServerTypeOK, Next
  <2> QED
    BY <1>2, <2>4, <2>5 DEF Balance, Odd
<1>3. ASSUME Alive, started' = started, lostTo' = lostTo PROVE Balance /\ Debtors' = Debtors
  <2>1. Debtors' = Debtors
    BY <1>1, <1>3 DEF Debtors, Owes, Reaches, controlVars, commandVars
  <2>2. Undisturbed
    BY <1>1, <1>3 DEF Undisturbed, controlVars
  <2> QED
    BY <1>1, <1>3, <2>1, <2>2 DEF FlagCountsDebtors, Balance
<1>4. lostTo' = lostTo
  BY <1>1, ToggleHandled DEF ServerMoves
<1>5. CASE /\ Alive /\ started' = started
           /\ maintenanceMode' = maintenanceMode /\ pending'["USR1"] = pending["USR1"]
  BY <1>3, <1>4, <1>5, SameBalance
<1>6. CASE /\ Running /\ started' = started
           /\ maintenanceMode' = ~maintenanceMode
           /\ pending["USR1"] > 0 /\ pending'["USR1"] = pending["USR1"] - 1
  <2>1. Balance /\ Debtors' = Debtors
    BY <1>3, <1>4, <1>6 DEF Alive, Running
  <2>2. pending["USR1"] \in Nat /\ maintenanceMode \in BOOLEAN
    BY <1>1, SignalRoomAssumption DEF ServerInv, ServerTypeOK, ProcessTypeOK, Signals
  <2>3. Odd(pending'["USR1"]) = ~Odd(pending["USR1"]) /\ Odd(pending["USR1"]) \in BOOLEAN
    BY <1>6, <2>2, OddNext
  <2>4. (maintenanceMode' # Odd(pending'["USR1"])) = (maintenanceMode # Odd(pending["USR1"]))
    BY <1>6, <2>2, <2>3
  <2> QED
    BY <2>1, <2>4 DEF Balance
<1> QED
  BY <1>1, <1>2, <1>5, <1>6, ToggleHandled DEF ServerMoves

\* A session keeps the balance, or its toggle is remembered.
LEMMA SessionKeepsBalance ==
  ASSUME FedBOXInv, NEW s \in Sessions, SessionMoves(s), Undisturbed => Balance, Undisturbed'
  PROVE  Balance'
<1>1. /\ UNCHANGED <<server, started, commandVars, orphaned>>
      /\ operated \subseteq operated'
  BY SessionKeepsProcess DEF SessionMoves
<1>2. CASE UNCHANGED <<maintenanceMode, pending, lostTo>>
  <2>1. Undisturbed
    BY <1>1, <1>2 DEF Undisturbed
  <2>2. Debtors' = Debtors
    BY <1>1 DEF Debtors, Owes, Reaches, Alive, commandVars
  <2> QED
    BY <1>2, <2>1, <2>2, SameBalance
<1>3. CASE SSHLogin(s) \/ StorageSession(s)
  <2>1. UNCHANGED <<maintenanceMode, pending, lostTo>>
    BY <1>3
       DEF SSHLogin, StorageSession, SSHReset, SSHRemove, SSHRecreate, SSHBootstrap, SSHCreate,
           SSHCreated, SSHReopen, StorageBecomes, serverVars, processVars, appVars
  <2> QED
    BY <1>2, <2>1
<1>4. ASSUME NEW cmd \in DOMAIN SessionSignal, SSHSignal(s, cmd),
             operated' = IF cmd = "maintenance" THEN operated \cup {started} ELSE operated
      PROVE  Balance'
  <2>1. UNCHANGED maintenanceMode
    BY <1>4 DEF SSHSignal, appVars
  <2>2. CASE Kill(ReadPid, SessionSignal[cmd])
    <3>1. SessionSignal[cmd] = "USR1" => started \in operated'
      BY <1>4 DEF SessionSignal
    <3>2. SessionSignal[cmd] \in Signals
      BY <1>4, SignalsSent
    <3> QED
      BY <1>1, <2>1, <2>2, <3>1, <3>2, OthersKeepBalance
  <2>3. CASE KillFails(ReadPid)
    BY <1>2, <2>1, <2>3 DEF KillFails, processVars
  <2> QED
    BY <1>4, <2>2, <2>3 DEF SSHSignal
<1> QED
  BY <1>3, <1>4 DEF SessionMoves

\* Every step keeps the count of the debtors.
LEMMA NextKeepsCount ==
  ASSUME FedBOXInv, [Next]_vars
  PROVE  FlagCountsDebtors'
<1> SUFFICES ASSUME Undisturbed', Alive' PROVE Balance'
  BY DEF FlagCountsDebtors, Balance
<1>1. ASSUME Alive PROVE Undisturbed => Balance
  BY <1>1 DEF FedBOXInv, FlagCountsDebtors, Balance
<1>2. CASE ServerMoves
  BY <1>2, ServerKeepsBalance
<1>3. CASE SignalledFromOutside
  <2>1. PICK sig \in Outside : Kill(started, sig)
    BY <1>3 DEF SignalledFromOutside, Signalled
  <2>2. sig \in Signals /\ sig # "USR1"
    BY OutsideAssumption, OutsideTogglesAssumption
  <2>3. Alive
    BY <2>1 DEF Kill, Reaches
  <2>4. UNCHANGED <<maintenanceMode, commandVars, orphaned, operated>>
    BY <1>3 DEF SignalledFromOutside, Signalled, appVars, controlVars
  <2> QED
    BY <1>1, <2>1, <2>2, <2>3, <2>4, OthersKeepBalance
<1>4. ASSUME NEW s \in Sessions, SessionMoves(s) PROVE Balance'
  <2>1. Alive
    BY <1>4, SessionKeepsProcess DEF Alive
  <2> QED
    BY <1>1, <1>4, <2>1, SessionKeepsBalance
<1>5. ASSUME NEW c \in Commands, CommandMoves(c) PROVE Balance'
  <2>1. Alive
    BY <1>5, CommandKeepsProcess DEF Alive
  <2> QED
    BY <1>1, <1>5, <2>1, CommandKeepsBalance
<1>6. CASE UNCHANGED vars
  <2>1. /\ UNCHANGED <<maintenanceMode, pending>> /\ Alive /\ Undisturbed
        /\ Debtors' = Debtors
    BY <1>6
       DEF vars, serverVars, processVars, appVars, controlVars, commandVars, Alive, Undisturbed,
           Debtors, Owes, Reaches
  <2> QED
    BY <1>1, <2>1, SameBalance
<1> QED
  BY <1>2, <1>3, <1>4, <1>5, <1>6 DEF Next

-----------------------------------------------------------------------------
(* The invariant of the installation *)

\* The invariant holds at the start.
LEMMA InstallationInit == Init => FedBOXInv
<1> SUFFICES ASSUME Init PROVE FedBOXInv
  OBVIOUS
<1>1. ServerInv
  BY InvInit DEF Init
<1>2. TypeOK
  BY <1>1, MaxStartsAssumption
     DEF Init, SSHInit, ControlInit, NoPid, Steps, SessionSteps, ServerInv, TypeOK, SSHTypeOK,
         ControlTypeOK
<1>3. TogglesNeedHandlers /\ ~Alive
  BY DEF Init, ServerInit, ProcessInit, NoSignals, Signals, TogglesNeedHandlers, Alive
<1>4. PidsAreOfThePast /\ \A c \in Commands : ShapeOfCommand(c)
  BY DEF Init, ServerInit, ProcessInit, ControlInit, NoPid, PidsAreOfThePast, ShapeOfCommand
<1>5. SessionsLiveInServer
  BY DEF Init, SSHInit, SessionsLiveInServer
<1> QED
  BY <1>1, <1>2, <1>3, <1>4, <1>5 DEF FedBOXInv, FlagCountsDebtors

\* Every step keeps it.
LEMMA InstallationStep == FedBOXInv /\ [Next]_vars => FedBOXInv'
<1> SUFFICES ASSUME FedBOXInv, [Next]_vars PROVE FedBOXInv'
  OBVIOUS
<1> QED
  BY NextKeepsTypes, NextKeepsServerInv, NextKeepsToggles, NextKeepsPids, NextKeepsShape,
     NextKeepsSessions, NextKeepsCount
     DEF FedBOXInv

\* FedBOXInv is an invariant of the installation: of the two toggles of every
\* command, of the handlers of the server and of the restarts between them.
THEOREM InstallationInvariant == Spec => []FedBOXInv
BY InstallationInit, InstallationStep, PTL DEF Spec

\* Type correctness of server, sessions and commands together.
THEOREM InstallationTypeCorrect == Spec => []TypeOK
<1>1. FedBOXInv => TypeOK
  BY DEF FedBOXInv
<1> QED
  BY <1>1, InstallationInvariant, PTL

\* Whatever number of commands run and however they interleave, the flag of an
\* undisturbed server and its waiting toggles count the commands that still
\* have to toggle it back.
THEOREM FlagCounts == Spec => []FlagCountsDebtors
<1>1. FedBOXInv => FlagCountsDebtors
  BY DEF FedBOXInv
<1> QED
  BY <1>1, InstallationInvariant, PTL

\* A settled, undisturbed server has no toggle waiting, so its flag alone counts
\* the debtors.
LEMMA SettledFlag ==
  ASSUME FedBOXInv, Undisturbed, Settled
  PROVE  maintenanceMode = Odd(Cardinality(Debtors)) /\ maintenanceMode \in BOOLEAN
<1>1. pending["USR1"] = 0 /\ maintenanceMode \in BOOLEAN
  BY SignalRoomAssumption
     DEF Settled, Waiting, FedBOXInv, ServerInv, ServerTypeOK, ProcessTypeOK, Signals
<1>2. (maintenanceMode # Odd(pending["USR1"])) = Odd(Cardinality(Debtors))
  BY DEF Settled, Running, Alive, FedBOXInv, FlagCountsDebtors
<1>3. Odd(pending["USR1"]) = FALSE
  BY <1>1 DEF Odd
<1> QED
  BY <1>1, <1>2, <1>3

\* No maintenance is left over when the commands that asked for it are gone and
\* their toggles handled.
THEOREM NoMaintenanceLeftOver == Spec => []NoLeftoverMaintenance
<1>1. FedBOXInv => NoLeftoverMaintenance
  <2> SUFFICES ASSUME FedBOXInv, Undisturbed, Settled, Debtors = {} PROVE ~maintenanceMode
    BY DEF NoLeftoverMaintenance
  <2>1. Cardinality(Debtors) = 0
    BY FS_EmptySet
  <2>2. Odd(Cardinality(Debtors)) = FALSE
    BY <2>1 DEF Odd
  <2> QED
    BY <2>2, SettledFlag
<1> QED
  BY <1>1, InstallationInvariant, PTL

\* A command that shares the storage with an undisturbed server has not paused
\* it, or its toggle is not handled, or another one has paused it too: were it
\* the only debtor, its debt would have raised the flag, and the flag means that
\* the storage is closed.
THEOREM SharingHasCause == Spec => []SharedStorageHasCause
<1>1. FedBOXInv => SharedStorageHasCause
  <2> SUFFICES ASSUME FedBOXInv, NEW c \in Commands, ~SSHBuild, Undisturbed, Settled,
                      Owes(c), \A d \in Commands \ {c} : ~Owes(d)
               PROVE  storage # "open"
    BY DEF SharedStorageHasCause
  <2>1. Debtors = {c}
    BY DEF Debtors
  <2>2. Cardinality(Debtors) = 1
    BY <2>1, FS_Singleton
  <2>3. Odd(Cardinality(Debtors)) = TRUE
    BY <2>2 DEF Odd
  <2>4. maintenanceMode /\ handler = "idle"
    BY <2>3, SettledFlag DEF Settled
  <2> QED
    BY <2>4 DEF FedBOXInv, ServerInv, OfflineMeansClosed, Offline
<1> QED
  BY <1>1, InstallationInvariant, PTL

\* Among commands and sessions the server keeps the promises it makes by
\* itself: the storage is closed while it is offline, and requests that arrive
\* after the shutdown began are refused.
THEOREM ServerPromisesKept == Spec => [](OfflineMeansClosed /\ LateRequestsRefused)
<1>1. FedBOXInv => OfflineMeansClosed /\ LateRequestsRefused
  BY InvRefusesLate DEF FedBOXInv, ServerInv
<1> QED
  BY <1>1, InstallationInvariant, PTL

-----------------------------------------------------------------------------
(* The server of the installation is a server of Server.tla *)

\* The instance of Server.tla that takes any signal starts as this one does.
LEMMA SameInit == ServerInit => AnyServer!ServerInit
BY DEF ServerInit, ProcessInit, NoPid, NoSignals, Signals, Deadly,
       AnyServer!ServerInit, AnyServer!ProcessInit, AnyServer!NoPid, AnyServer!NoSignals,
       AnyServer!Signals, AnyServer!Deadly

\* So does every mode and every witness of it.
LEMMA SameWitness == Witness => AnyServer!Witness
BY DEF Witness, Mode, Running, Active, AnyServer!Witness, AnyServer!Mode,
           AnyServer!Running, AnyServer!Active

\* Starting is the same.
LEMMA SameStart ==
  /\ Boot => AnyServer!Boot
  /\ WritePid => AnyServer!WritePid
  /\ Register => AnyServer!Register
BY DEF Boot, WritePid, Register, Alive, NoSignals, Signals, Deadly, appVars, requestVars,
           AnyServer!Boot, AnyServer!WritePid, AnyServer!Register, AnyServer!Alive,
           AnyServer!NoSignals, AnyServer!Signals, AnyServer!Deadly, AnyServer!appVars,
           AnyServer!requestVars

\* Dying is the same.
LEMMA SameEnd == Die => AnyServer!Die
BY DEF Die, NoSignals, Signals, Deadly, Active, AnyServer!Die, AnyServer!NoSignals,
           AnyServer!Signals, AnyServer!Deadly, AnyServer!Active

\* Taking a signal is the same.
LEMMA SameTake == ASSUME NEW sig PROVE Take(sig) => AnyServer!Take(sig)
BY DEF Take, Running, Waiting, AnyServer!Take, AnyServer!Running, AnyServer!Waiting

\* So is handling one that does not stop the server,
LEMMA SameHandler ==
  /\ Reload => AnyServer!Reload
  /\ ToggleDebug => AnyServer!ToggleDebug
  /\ ToggleMaintenance => AnyServer!ToggleMaintenance
  /\ Pause => AnyServer!Pause
BY SameTake, SameWitness
   DEF Reload, ToggleDebug, ToggleMaintenance, Pause, processVars, requestVars,
           AnyServer!Reload, AnyServer!ToggleDebug, AnyServer!ToggleMaintenance,
           AnyServer!Pause, AnyServer!processVars, AnyServer!requestVars

\* stopping,
LEMMA SameStop == Stop => AnyServer!Stop
<1>1. ASSUME NEW sig \in Signals, BeginStop(sig) PROVE AnyServer!Stop
  <2>1. AnyServer!BeginStop(sig)
    BY <1>1, SameTake, SameWitness
       DEF BeginStop, StopSignals, AnyServer!BeginStop, AnyServer!StopSignals
  <2> QED
    BY <2>1 DEF AnyServer!Stop, Signals, Deadly, AnyServer!Signals, AnyServer!Deadly
<1>2. MarkShuttingDown => AnyServer!MarkShuttingDown
  BY SameWitness
     DEF MarkShuttingDown, processVars, AnyServer!MarkShuttingDown, AnyServer!processVars
<1>3. /\ CloseListeners => AnyServer!CloseListeners
      /\ Drained => AnyServer!Drained
      /\ DrainTimeout => AnyServer!DrainTimeout
      /\ RemovePid => AnyServer!RemovePid
  BY DEF CloseListeners, Drained, DrainTimeout, RemovePid, InProgress, Active, NoPid,
           processVars, appVars, requestVars, AnyServer!CloseListeners, AnyServer!Drained,
           AnyServer!DrainTimeout, AnyServer!RemovePid, AnyServer!InProgress,
           AnyServer!Active, AnyServer!NoPid, AnyServer!processVars, AnyServer!appVars,
           AnyServer!requestVars
<1>4. Exit => AnyServer!Exit
  BY SameEnd DEF Exit, AnyServer!Exit
<1> QED
  BY <1>1, <1>2, <1>3, <1>4 DEF Stop, AnyServer!Stop

\* and a step of a request.
LEMMA SameRequest == ASSUME NEW r \in Requests PROVE Request(r) => AnyServer!Request(r)
<1>1. Arrive(r) => AnyServer!Arrive(r)
  BY DEF Arrive, Listening, Running, Active, Mode, processVars, appVars, AnyServer!Arrive,
           AnyServer!Listening, AnyServer!Running, AnyServer!Active, AnyServer!Mode,
           AnyServer!processVars, AnyServer!appVars
<1>2. /\ CheckShuttingDown(r) => AnyServer!CheckShuttingDown(r)
      /\ CheckMaintenance(r) => AnyServer!CheckMaintenance(r)
      /\ Serve(r) => AnyServer!Serve(r)
  BY DEF CheckShuttingDown, CheckMaintenance, Serve, Reply, processVars, appVars,
           AnyServer!CheckShuttingDown, AnyServer!CheckMaintenance, AnyServer!Serve,
           AnyServer!Reply, AnyServer!processVars, AnyServer!appVars
<1> QED
  BY <1>1, <1>2 DEF Request, AnyServer!Request

\* Every step of the server is the same step of the instance.
LEMMA SameStep == ServerStep => AnyServer!ServerStep
<1>1. Crash \/ KilledUnregistered => AnyServer!Crash \/ AnyServer!KilledUnregistered
  BY SameEnd
     DEF Crash, KilledUnregistered, Alive, Running, NoSignals, Signals, Deadly,
           AnyServer!Crash, AnyServer!KilledUnregistered, AnyServer!Alive, AnyServer!Running,
           AnyServer!NoSignals, AnyServer!Signals, AnyServer!Deadly
<1>2. HandleSignal => AnyServer!HandleSignal
  BY SameHandler, SameStop DEF HandleSignal, AnyServer!HandleSignal
<1> QED
  BY <1>1, <1>2, SameStart, SameRequest DEF ServerStep, AnyServer!ServerStep

\* A signal from a command or a session is one from outside to the instance.
LEMMA SameSignal == SignalArrives => AnyServer!Signalled
BY DEF SignalArrives, AnyServer!Signalled, Kill, Reaches, Queued, Lost, Swallowed, Waiting, Running, Alive, Signals, Deadly,
           appVars, requestVars, AnyServer!Kill, AnyServer!Reaches, AnyServer!Queued,
           AnyServer!Lost, AnyServer!Swallowed, AnyServer!Waiting, AnyServer!Running,
           AnyServer!Alive, AnyServer!Signals, AnyServer!Deadly, AnyServer!appVars,
           AnyServer!requestVars

\* A use of the storage by a session is its sharing to the instance.
LEMMA SameSharing == StorageShared => AnyServer!StorageShared
BY SameWitness
   DEF StorageShared, StorageBecomes, Running, processVars, AnyServer!StorageShared,
           AnyServer!StorageBecomes, AnyServer!Running, AnyServer!processVars

\* The composition implements the server module with any signals from outside:
\* what commands and sessions do to a server is nothing that Server.tla leaves
\* out.
THEOREM CompositionIsServer == Spec => IsServer
<1>1. Init => AnyServer!ServerInit
  BY SameInit DEF Init
<1>2. FedBOXInv /\ [Next]_vars => [AnyServer!ServerNext]_AnyServer!serverVars
  <2> SUFFICES ASSUME FedBOXInv, [Next]_vars
               PROVE  AnyServer!ServerNext \/ UNCHANGED AnyServer!serverVars
    OBVIOUS
  <2>1. UNCHANGED serverVars => UNCHANGED AnyServer!serverVars
    BY DEF serverVars, processVars, appVars, requestVars, AnyServer!serverVars,
           AnyServer!processVars, AnyServer!appVars, AnyServer!requestVars
  <2> QED
    BY <2>1, NextAsSeen, SameStep, SameSignal, SameSharing DEF AnyServer!ServerNext
<1> QED
  BY <1>1, <1>2, InstallationInvariant, PTL DEF Spec, IsServer, AnyServer!ServerSpec

\* And so the installation as a whole promises its clients what Availability.tla
\* says.
THEOREM InstallationImplementsAvailability == Spec => ImplementsAvailability
<1>1. Init => Gate!Init
  BY InitSimulation DEF Init
<1>2. FedBOXInv /\ FedBOXInv' /\ [Next]_vars => [Gate!Next]_Gate!vars
  <2> SUFFICES ASSUME FedBOXInv, FedBOXInv', [Next]_vars PROVE [Gate!Next]_Gate!vars
    OBVIOUS
  <2>1. ServerInv /\ ServerInv'
    BY DEF FedBOXInv
  <2>2. CASE ServerStep \/ StorageShared \/ UNCHANGED serverVars
    BY <2>1, <2>2, StepSimulation DEF ServerNext
  <2>3. CASE SignalArrives
    BY <2>3, KillIsStutter DEF SignalArrives
  <2> QED
    BY <2>2, <2>3, NextAsSeen
<1> QED
  BY <1>1, <1>2, InstallationInvariant, PTL DEF Spec, ImplementsAvailability, Gate!Spec

=============================================================================
