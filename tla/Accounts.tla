-------------------------------- MODULE Accounts --------------------------------
(***************************************************************************)
(* Commands that make actors with all that belongs to them: bootstrap and  *)
(* reset of the storage, actors, OAuth clients and tokens (base.go,        *)
(* cmd-bootstrap.go, cmd-serve.go, cmd-activitypub.go, cmd-oauth.go).      *)
(* Each of them saves the actor, its key, its password, its client and its *)
(* collections one after the other.  "ok" and "failed" are the outcomes of *)
(* the operation, which not every command returns as its own.              *)
(***************************************************************************)
EXTENDS Objects

VARIABLES
  keyFile,    \* the file in which an operator may leave the key ...
  pwFile      \* ... and the one for the password of the service

fileVars == <<keyFile, pwFile>>

AccountsTypeOK ==
  /\ keyFile \in {"none", "valid", "garbage", "removed"}
  /\ pwFile \in {"none", "valid", "removed"}

-----------------------------------------------------------------------------
(* Bootstrap *)

\* getPwAndKey: what it finds in files it removes as it returns; a key that it
\* cannot decode it leaves and makes another.
Key      == IF keyFile = "valid" THEN OperatorSecret ELSE fresh + 1
Password == IF pwFile = "valid" THEN OperatorSecret ELSE fresh + 1

GetPwAndKey ==
  /\ Make
  /\ keyFile' = IF keyFile = "valid" THEN "removed" ELSE keyFile
  /\ pwFile' = IF pwFile = "valid" THEN "removed" ELSE pwFile

NoServer == \A t \in Tasks : ~(Working(t) /\ task[t].job = "serve")

\* BootstrapCmd.Run, and Serve.Run of a server that has not found its service.
\* The actor is a new one, whatever is stored.
Bootstrap(t, job) ==
  /\ At(t, "idle")
  /\ job \in InUse
  /\ job = "serve" => memory = NoSecret /\ NoServer
  /\ GetPwAndKey
  /\ task' = [task EXCEPT ![t] = [Blank(job, "create", {Service}) EXCEPT
                !.seen[Service] = Live(NoSecret), !.key = Key, !.word = Password]]
  /\ Overlap(t, {Service})
  /\ UNCHANGED <<stored, metaVars, colVars, oauthVars, keyVars>>

\* A reset has no password to set.
AfterClient(job) ==
  CASE job = "addclient" -> "ok"
    [] job = "reset"     -> "load"
    [] OTHER             -> "password"

\* SaveClient, the last step of AddClient.  CreateService drops its error.
SaveClient(t) ==
  LET job == task[t].job IN
  /\ At(t, "client")
  /\ \/ /\ clients' = clients \cup {task[t].item}
        /\ Go(t, AfterClient(job))
     \/ /\ Go(t, IF job = "addclient" THEN "failed" ELSE AfterClient(job))
        /\ UNCHANGED clients
  /\ UNCHANGED <<stored, metaVars, colVars, codes, tokens, fresh, disturbed, keyVars, fileVars>>

\* Slip: the errors of the saves are not collected.
SaveStreamsCarelessly(t) ==
  /\ At(t, "streams")
  /\ \E saved \in SUBSET Streams : made' = made \cup saved
  /\ Go(t, IF task[t].job = "reset" THEN "ok" ELSE "open")
  /\ UNCHANGED <<stored, metaVars, listed, oauthVars, fresh, disturbed, keyVars, fileVars>>

\* The collections in the streams of the service, all of them tried.
SaveStreams(t) ==
  /\ At(t, "streams")
  /\ \E saved \in SUBSET Streams :
       /\ made' = made \cup saved
       /\ Go(t, IF saved # Streams THEN "failed"
                ELSE IF task[t].job = "reset" THEN "ok" ELSE "open")
  /\ UNCHANGED <<stored, metaVars, listed, oauthVars, fresh, disturbed, keyVars, fileVars>>

\* Base.Bootstrap opens the storage again; a server keeps the key.
OpenAgain(t) ==
  /\ At(t, "open")
  /\ \/ /\ Go(t, "ok")
        /\ IF task[t].job = "serve"
             THEN memory' = task[t].key /\ rekeyed' = (private[Service] # task[t].key)
             ELSE UNCHANGED <<memory, rekeyed>>
     \/ Go(t, "failed") /\ UNCHANGED <<memory, rekeyed>>
  /\ UNCHANGED <<stored, metaVars, colVars, oauthVars, fresh, disturbed, torn, given, fileVars>>

\* ResetCmd.Run: the service as it was loaded is stored again, with another key
\* and without a password.
Reset(t) ==
  /\ ServiceLoadable
  /\ Make
  /\ Begin(t, "reset", "clean", Service, Things, fresh + 1, NoSecret)
  /\ UNCHANGED <<stored, metaVars, colVars, oauthVars, keyVars, fileVars>>

\* storage.Clean
Clean(t) ==
  /\ At(t, "clean")
  /\ \/ /\ stored' = [i \in Items |-> Absent]
        /\ private' = [a \in Actors |-> NoSecret]
        /\ password' = [a \in Actors |-> NoSecret]
        /\ given' = [a \in Actors |-> NoSecret]
        /\ torn' = {}
        /\ made' = {}
        /\ listed' = [c \in Collections |-> {}]
        /\ clients' = {} /\ codes' = {} /\ tokens' = {}
        /\ rekeyed' = (rekeyed \/ memory # NoSecret)
        /\ Go(t, "create")
     \/ /\ Go(t, "failed")
        /\ UNCHANGED <<stored, metaVars, colVars, oauthVars, torn, given, rekeyed>>
  /\ UNCHANGED <<fresh, disturbed, memory, fileVars>>

-----------------------------------------------------------------------------
(* Actors and clients *)

\* An actor with an identifier not used before, a key and a password
AddAccount(t, job, a) ==
  /\ ServiceLoadable
  /\ a # Service /\ ~Exists(a)
  /\ Make
  /\ Begin(t, job, "create", a, {a}, fresh + 1, fresh + 1)
  /\ UNCHANGED <<stored, metaVars, colVars, oauthVars, keyVars, fileVars>>

\* AddActorCmd.Run for one name; AddClient, the actor of which is an application
AddActorCmd(t, a) == AddAccount(t, "addactor", a)
AddClient(t, a)   == AddAccount(t, "addclient", a)

\* DeleteClient: DeleteObjects comes first, and its error ends the command.
DelClient(t, c) ==
  /\ ServiceLoadable
  /\ Begin(t, "delclient", "delete", c, {c}, NoSecret, NoSecret)
  /\ UNCHANGED <<stored, metaVars, colVars, oauthVars, fresh, keyVars, fileVars>>

RemoveClient(t) ==
  /\ At(t, "remove")
  /\ \/ clients' = clients \ {task[t].item} /\ Go(t, "ok")
     \/ Go(t, "failed") /\ UNCHANGED clients
  /\ UNCHANGED <<stored, metaVars, colVars, codes, tokens, fresh, disturbed, keyVars, fileVars>>

-----------------------------------------------------------------------------
(* Tokens *)

\* GenAuthToken for a client that is known and an actor that can be loaded
GenAuthToken(t, c, a) ==
  /\ ServiceLoadable
  /\ c \in clients
  /\ Lives(a)
  /\ Begin(t, "token", "authorize", a, {c, a}, NoSecret, NoSecret)
  /\ UNCHANGED <<stored, metaVars, colVars, oauthVars, fresh, keyVars, fileVars>>

SaveAuthorize(t) ==
  /\ At(t, "authorize")
  /\ \/ codes' = codes \cup {t} /\ Go(t, "access")
     \/ Go(t, "failed") /\ UNCHANGED codes
  /\ UNCHANGED <<stored, metaVars, colVars, clients, tokens, fresh, disturbed, keyVars, fileVars>>

SaveAccess(t) ==
  /\ At(t, "access")
  /\ \/ tokens' = tokens \cup {t} /\ Go(t, "ok")
     \/ Go(t, "failed") /\ UNCHANGED tokens
  /\ UNCHANGED <<stored, metaVars, colVars, clients, codes, fresh, disturbed, keyVars, fileVars>>

-----------------------------------------------------------------------------

\* The process is killed, in the middle of an actor's key perhaps.
Killed(t) ==
  /\ Working(t)
  /\ Go(t, "failed")
  /\ torn' = IF At(t, "actor") THEN torn \cup {task[t].item} ELSE torn
  /\ UNCHANGED <<stored, metaVars, colVars, oauthVars, fresh, disturbed,
                 memory, given, rekeyed, fileVars>>

AccountSteps(t) ==
  \/ \E job \in {"bootstrap", "serve"} : Bootstrap(t, job)
  \/ SaveClient(t) \/ SaveStreams(t) \/ OpenAgain(t)
  \/ Reset(t) \/ Clean(t)
  \/ \E a \in Actors : AddActorCmd(t, a) \/ AddClient(t, a)
  \/ \E c \in Actors : DelClient(t, c)
  \/ RemoveClient(t)
  \/ \E c, a \in Actors : GenAuthToken(t, c, a)
  \/ SaveAuthorize(t) \/ SaveAccess(t)
  \/ Killed(t)

=============================================================================
