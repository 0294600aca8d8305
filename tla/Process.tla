------------------------------- MODULE Process -------------------------------
(***************************************************************************)
(* The operating system's side of a FedBOX server: which server process    *)
(* lives, the pid file through which the command line finds it             *)
(* (internal/config/config.go), and the signals that wait for its handler  *)
(* goroutine.                                                              *)
(*                                                                         *)
(* A process id is the ordinal of the process among the servers started,   *)
(* so it is never used twice: a pid read from a file left behind by a dead *)
(* server finds no process.                                                *)
(*                                                                         *)
(* What a signal does is not in this repository.  It follows the semantics *)
(* of POSIX standard signals and of Go's os/signal.  A signal may merge    *)
(* with one of its kind that is still pending in the kernel or in the      *)
(* runtime, and is dropped when the program's channel has no room, so once *)
(* a signal is waiting the next one may be lost.  Before the program       *)
(* registers its handlers the runtime swallows SIGUSR1 and SIGUSR2, while  *)
(* the others end the process.                                             *)
(***************************************************************************)
EXTENDS Naturals

CONSTANTS
  MaxStarts,     \* bound: server processes started in one behaviour
  SignalRoom     \* signals of one kind that can wait for the handler

ASSUME MaxStartsAssumption  == MaxStarts \in Nat
ASSUME SignalRoomAssumption == SignalRoom \in Nat \ {0}

VARIABLES
  server,    \* how far the current server process has come
  started,   \* the number of servers started = pid of the latest one
  pidFile,   \* the pid in the pid file, NoPid when there is no file
  pending,   \* of each signal, how many wait for the server's handler
  lostTo     \* history: the servers that lost a SIGUSR1 sent to them

processVars == <<server, started, pidFile, pending, lostTo>>

-----------------------------------------------------------------------------

NoPid == 0
Pids  == 1 .. MaxStarts

Deadly      == {"HUP", "INT", "TERM", "QUIT"}
StopSignals == {"INT", "TERM", "QUIT"}
Signals     == Deadly \cup {"USR1", "USR2"}

NoSignals    == [sig \in Signals |-> 0]
Waiting(sig) == pending[sig] > 0

\* "booting" until the pid file is written, "announced" until the signal
\* handlers are registered and the listeners started, then "running".
Stages == {"down", "booting", "announced", "running"}

Alive   == server # "down"
Running == server = "running"

ProcessTypeOK ==
  /\ server \in Stages
  /\ started \in 0 .. MaxStarts
  /\ Alive => started \in Pids
  /\ pidFile \in 0 .. MaxStarts
  /\ pending \in [Signals -> 0 .. SignalRoom]
  /\ lostTo \subseteq Pids

ProcessInit ==
  /\ server = "down"
  /\ started = 0
  /\ pidFile = NoPid
  /\ pending = NoSignals
  /\ lostTo = {}

-----------------------------------------------------------------------------

\* Conf.ReadPid: what a command learns from the pid file.
ReadPid == pidFile

\* Does the pid name the living server?
Reaches(pid) == Alive /\ pid = started

Swallowed(sig) == ~Running /\ sig \notin Deadly

Queued(sig) ==
  /\ ~Swallowed(sig)
  /\ pending[sig] < SignalRoom
  /\ pending' = [pending EXCEPT ![sig] = @ + 1]
  /\ UNCHANGED lostTo

Lost(sig) ==
  /\ Swallowed(sig) \/ \E other \in Signals : Waiting(other)
  /\ lostTo' = IF sig = "USR1" THEN lostTo \cup {started} ELSE lostTo
  /\ UNCHANGED pending

\* syscall.Kill(pid, sig) that finds its process.
Kill(pid, sig) ==
  /\ Reaches(pid)
  /\ Queued(sig) \/ Lost(sig)
  /\ UNCHANGED <<server, started, pidFile>>

\* syscall.Kill(pid, sig) that finds no process and returns an error.
KillFails(pid) ==
  /\ ~Reaches(pid)
  /\ UNCHANGED processVars

=============================================================================
