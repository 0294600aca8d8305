-------------------------------- MODULE Control --------------------------------
(***************************************************************************)
(* The fedbox commands (run.go, base.go, cmd-maintenance.go), each a       *)
(* process of its own.  A command that uses the storage finds the server   *)
(* through its pid file, toggles it into maintenance with SIGUSR1, opens   *)
(* the storage, works, closes it, and toggles the server back when Run     *)
(* returns.  kill(2) only leaves the signal with the server: nothing tells *)
(* the command that it was handled.                                        *)
(***************************************************************************)
EXTENDS Process

CONSTANTS
  Commands,    \* the processes that run commands: of operators, of cron jobs
  Available    \* the kinds of command in use

\* "storage" stands for every command that reaches ctx.Run with the storage
\* open (pub, oauth, accounts and the other storage commands).
Signalling == {"maintenance", "reload", "stop"}
Kinds      == {"storage", "bootstrap", "debug"} \cup Signalling

ASSUME AvailableAssumption == Available \subseteq Kinds

VARIABLES
  kind,      \* what each command is, "none" before it begins
  pc,        \* where each command is
  target,    \* the pid it read from the pid file, NoPid if that failed
  paused,    \* its first SIGUSR1 was sent, so Run defers the second
  holds,     \* it has the storage open
  orphaned,  \* history: servers paused by a command that was killed
  operated   \* history: servers toggled by a maintenance command or session

commandVars == <<kind, pc, target, paused, holds>>
controlVars == <<commandVars, orphaned, operated>>

Steps == {"idle", "signal", "pause", "open", "load", "work", "create", "close",
          "unpause", "done"}

ControlTypeOK ==
  /\ kind \in [Commands -> Kinds \cup {"none"}]
  /\ pc \in [Commands -> Steps]
  /\ target \in [Commands -> 0 .. MaxStarts]
  /\ paused \in [Commands -> BOOLEAN]
  /\ holds \in [Commands -> BOOLEAN]
  /\ orphaned \subseteq Pids
  /\ operated \subseteq Pids

ControlInit ==
  /\ kind = [c \in Commands |-> "none"]
  /\ pc = [c \in Commands |-> "idle"]
  /\ target = [c \in Commands |-> NoPid]
  /\ paused = [c \in Commands |-> FALSE]
  /\ holds = [c \in Commands |-> FALSE]
  /\ orphaned = {}
  /\ operated = {}

-----------------------------------------------------------------------------

Goto(c, step) == pc' = [pc EXCEPT ![c] = step]

\* The process ends, and with it its hold on the storage.
End(c) ==
  /\ Goto(c, "done")
  /\ holds' = [holds EXCEPT ![c] = FALSE]

\* Slip: a return that leaves the server paused.
ReturnSilently(c) == End(c)

\* Run returns: the deferred SIGUSR1 comes before the end of the process.
Return(c) ==
  IF paused[c] THEN Goto(c, "unpause") /\ UNCHANGED holds ELSE End(c)

\* SendSignalToServer reads the pid file once and keeps the pid.
CmdBegin(c) ==
  /\ pc[c] = "idle"
  /\ target' = [target EXCEPT ![c] = ReadPid]
  /\ \E k \in Available :
       /\ kind' = [kind EXCEPT ![c] = k]
       /\ Goto(c, IF k \in Signalling THEN "signal" ELSE "pause")
  /\ UNCHANGED <<processVars, paused, holds, orphaned, operated>>

SignalOf(k) ==
  CASE k = "maintenance" -> "USR1"
    [] k = "debug"       -> "USR2"
    [] k = "reload"      -> "HUP"
    [] k = "stop"        -> "TERM"

\* Maintenance.Run, Reload.Run and Stop.Run.
CmdSignal(c) ==
  /\ pc[c] = "signal"
  /\ \/ /\ Kill(target[c], SignalOf(kind[c]))
        /\ operated' = IF kind[c] = "maintenance" THEN operated \cup {started} ELSE operated
     \/ KillFails(target[c]) /\ UNCHANGED operated
  /\ End(c)
  /\ UNCHANGED <<kind, target, paused, orphaned>>

\* The first pauseFn(): when it fails the command goes on without pausing.
CmdPause(c) ==
  /\ pc[c] = "pause"
  /\ \/ Kill(target[c], "USR1") /\ paused' = [paused EXCEPT ![c] = TRUE]
     \/ KillFails(target[c]) /\ UNCHANGED paused
  /\ Goto(c, IF kind[c] = "bootstrap" THEN "work" ELSE "open")
  /\ UNCHANGED <<kind, target, holds, orphaned, operated>>

\* ctl.Storage.Open
CmdOpen(c) ==
  /\ pc[c] = "open"
  /\ \/ Goto(c, "load") /\ holds' = [holds EXCEPT ![c] = TRUE]
     \/ Return(c)
  /\ UNCHANGED <<processVars, kind, target, paused, orphaned, operated>>

\* ctl.LoadServiceActor: when it fails the storage has no deferred Close yet.
CmdLoad(c) ==
  /\ pc[c] = "load"
  /\ \/ Goto(c, "work") /\ UNCHANGED holds
     \/ Return(c)
  /\ UNCHANGED <<processVars, kind, target, paused, orphaned, operated>>

\* ctx.Run of a command that uses the storage
CmdWork(c) ==
  /\ pc[c] = "work"
  /\ kind[c] = "storage"
  /\ Goto(c, "close")
  /\ UNCHANGED <<processVars, kind, target, paused, holds, orphaned, operated>>

\* Debug.Run: not among the commands that skip the pause, it reads the pid
\* file again and sends SIGUSR2 to the server it has paused.
CmdDebug(c) ==
  /\ pc[c] = "work"
  /\ kind[c] = "debug"
  /\ Kill(ReadPid, SignalOf("debug")) \/ KillFails(ReadPid)
  /\ Goto(c, "close")
  /\ UNCHANGED <<kind, target, paused, holds, orphaned, operated>>

\* BootstrapCmd.Run: ctl.Bootstrap creates the storage and opens it ...
CmdBootstrap(c) ==
  /\ pc[c] = "work"
  /\ kind[c] = "bootstrap"
  /\ \/ Goto(c, "create") /\ holds' = [holds EXCEPT ![c] = TRUE]
     \/ Return(c)
  /\ UNCHANGED <<processVars, kind, target, paused, orphaned, operated>>

\* Slip: an error of the service's creation ends the process at once.
CmdCreateExits(c) ==
  /\ pc[c] = "create"
  /\ \/ End(c)
     \/ /\ Goto(c, IF paused[c] THEN "unpause" ELSE "done")
        /\ holds' = [holds EXCEPT ![c] = FALSE]
  /\ UNCHANGED <<processVars, kind, target, paused, orphaned, operated>>

\* ... saves the service in it and closes it; when that worked it opens it once
\* more, and nothing closes it before Run returns.
CmdCreate(c) ==
  /\ pc[c] = "create"
  /\ \/ Return(c)
     \/ /\ Goto(c, IF paused[c] THEN "unpause" ELSE "done")
        /\ holds' = [holds EXCEPT ![c] = FALSE]
  /\ UNCHANGED <<processVars, kind, target, paused, orphaned, operated>>

\* The deferred ctl.Storage.Close, which runs before the deferred pauseFn.
CmdClose(c) ==
  /\ pc[c] = "close"
  /\ holds' = [holds EXCEPT ![c] = FALSE]
  /\ Goto(c, IF paused[c] THEN "unpause" ELSE "done")
  /\ UNCHANGED <<processVars, kind, target, paused, orphaned, operated>>

\* Slip: the pid file is read again for the second signal.
CmdUnpauseAnew(c) ==
  /\ pc[c] = "unpause"
  /\ Kill(ReadPid, "USR1") \/ KillFails(ReadPid)
  /\ End(c)
  /\ UNCHANGED <<kind, target, paused, orphaned, operated>>

\* The second pauseFn(), whose error is dropped; it uses the pid read at first.
CmdUnpause(c) ==
  /\ pc[c] = "unpause"
  /\ Kill(target[c], "USR1") \/ KillFails(target[c])
  /\ End(c)
  /\ UNCHANGED <<kind, target, paused, orphaned, operated>>

\* Has the command toggled the living server, with the second toggle to come?
Owes(c) == paused[c] /\ pc[c] # "done" /\ Reaches(target[c])

\* ^C or SIGKILL ends the process without its deferred calls.
CmdKilled(c) ==
  /\ pc[c] \notin {"idle", "done"}
  /\ orphaned' = IF Owes(c) THEN orphaned \cup {started} ELSE orphaned
  /\ End(c)
  /\ UNCHANGED <<processVars, kind, target, paused, operated>>

CommandStep(c) ==
  \/ CmdSignal(c) \/ CmdPause(c) \/ CmdOpen(c) \/ CmdLoad(c)
  \/ CmdWork(c) \/ CmdDebug(c) \/ CmdBootstrap(c) \/ CmdCreate(c)
  \/ CmdClose(c) \/ CmdUnpause(c)

Command(c) == CmdBegin(c) \/ CommandStep(c) \/ CmdKilled(c)

=============================================================================
