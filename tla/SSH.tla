---------------------------------- MODULE SSH ----------------------------------
(***************************************************************************)
(* The SSH sessions of a server built with the ssh tag (ssh.go).  A        *)
(* session runs a command inside the server process on a copy of Base that *)
(* shares f.Storage, and no maintenance mode is involved: what the storage *)
(* commands do to their storage they do to the running server.             *)
(*                                                                         *)
(* To authenticate a session the server loads the actor and its key from   *)
(* the storage.                                                            *)
(***************************************************************************)
EXTENDS Server

CONSTANT Sessions   \* the operators' SSH sessions

VARIABLE session    \* where each session is

SessionSteps == {"none", "in", "reset", "recreate", "closed", "create", "reopen"}

SSHTypeOK == session \in [Sessions -> SessionSteps]

SSHInit == session = [s \in Sessions |-> "none"]

-----------------------------------------------------------------------------

SessionGoto(s, step) == session' = [session EXCEPT ![s] = step]

\* publicKeyCheck and pwCheck: Storage.Load and Storage.LoadKey (or
\* PasswordCheck) must succeed.  The service actor has a fallback for the
\* first, none for the second.
SSHLogin(s) ==
  /\ SSHBuild
  /\ Listening
  /\ storage = "open"
  /\ session[s] = "none"
  /\ SessionGoto(s, "in")
  /\ UNCHANGED serverVars

SessionSignal ==
  [maintenance |-> "USR1", reload |-> "HUP", debug |-> "USR2", stop |-> "TERM"]

\* The signalling commands go through the pid file here too.
SSHSignal(s, cmd) ==
  /\ session[s] = "in"
  /\ Kill(ReadPid, SessionSignal[cmd]) \/ KillFails(ReadPid)
  /\ SessionGoto(s, "none")
  /\ UNCHANGED <<appVars, handler, requestVars>>

\* ResetCmd.Run: opens the storage the server already has open ...
SSHReset(s) ==
  /\ session[s] = "in"
  /\ StorageBecomes("open")
  /\ SessionGoto(s, "reset")

\* ... removes its files, which may fail, or goes on to bootstrap ...
SSHRemove(s) ==
  /\ session[s] = "reset"
  /\ \/ SessionGoto(s, "recreate") /\ StorageBecomes("open")
     \/ SessionGoto(s, "none") /\ StorageBecomes("closed")

\* ... which opens, fills and closes it, before the deferred Close of
\* ResetCmd.Run closes it again.
SSHRecreate(s) ==
  /\ session[s] = "recreate"
  /\ StorageBecomes("closed")
  /\ SessionGoto(s, "none")

\* BootstrapCmd.Run calls Base.Bootstrap, which closes the storage ...
SSHBootstrap(s) ==
  /\ session[s] = "in"
  /\ StorageBecomes("closed")
  /\ SessionGoto(s, "closed")

\* ... bootstraps: storage.Bootstrap and Storage.Open, or an error, after which
\* nothing opens the storage again,
SSHCreate(s) ==
  /\ session[s] = "closed"
  /\ \/ SessionGoto(s, "create") /\ StorageBecomes("open")
     \/ SessionGoto(s, "none") /\ UNCHANGED serverVars

\* then CreateService, or an error, and in both cases Storage.Close,
SSHCreated(s) ==
  /\ session[s] = "create"
  /\ StorageBecomes("closed")
  /\ SessionGoto(s, "reopen") \/ SessionGoto(s, "none")

\* Slip: a session that ends the maintenance it did not begin.
SSHReopenAndResume(s) ==
  /\ session[s] = "reopen"
  /\ Running
  /\ storage' = "open"
  /\ maintenanceMode' = FALSE
  /\ SessionGoto(s, "none")
  /\ UNCHANGED <<processVars, shuttingDown, debugMode, caches, cancelled, handler, at, answer>>
  /\ Witness

\* ... and opens the storage, which may fail.
SSHReopen(s) ==
  /\ session[s] = "reopen"
  /\ StorageBecomes("open") \/ UNCHANGED serverVars
  /\ SessionGoto(s, "none")

StorageSession(s) ==
  \/ SSHReset(s) \/ SSHRemove(s) \/ SSHRecreate(s)
  \/ SSHBootstrap(s) \/ SSHCreate(s) \/ SSHCreated(s) \/ SSHReopen(s)

SessionStep(s) == StorageSession(s) \/ \E cmd \in DOMAIN SessionSignal : SSHSignal(s, cmd)

=============================================================================
