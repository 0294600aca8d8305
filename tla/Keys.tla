---------------------------------- MODULE Keys ----------------------------------
(***************************************************************************)
(* Keys and passwords of actors (activitypub/keys.go, cmd-accounts.go).    *)
(*                                                                         *)
(* A key pair is kept in two places: the private key in the metadata,      *)
(* beside the password, and the public key in the actor.  AddKeyToPerson   *)
(* loads the metadata, saves it, and saves the actor.  The server keeps    *)
(* the private key of the service in memory as well.                       *)
(***************************************************************************)
EXTENDS Store

VARIABLES
  memory,     \* Base.ServicePrivateKey of the server process
  torn,       \* history: actors of which one half of the pair was saved alone
  given,      \* history: of each actor, the last password that was set
  rekeyed     \* history: the service got or lost a key since the server loaded its own

keyVars == <<memory, torn, given, rekeyed>>

KeysTypeOK ==
  /\ memory \in Secrets
  /\ torn \subseteq Actors
  /\ given \in [Actors -> Secrets]
  /\ rekeyed \in BOOLEAN

Bootstraps == {"bootstrap", "serve", "reset"}

-----------------------------------------------------------------------------
(* AddKeyToPerson, for every command that adds a key *)

\* What follows AddKeyToItem in each command ...
AfterKey(job) ==
  CASE job = "genkeys"       -> "update"
    [] job \in Bootstraps    -> "streams"
    [] OTHER                 -> "password"

\* ... and its error, which only CreateService returns.
AfterKeyError(job) == IF job \in Bootstraps THEN "failed" ELSE AfterKey(job)

\* Slip: the metadata is written without having been read.
LoadNoMetadata(t) ==
  /\ At(t, "load")
  /\ task' = [task EXCEPT ![t] = [task[t] EXCEPT !.at = "meta"]]
  /\ UNCHANGED <<stored, metaVars, colVars, oauthVars, fresh, disturbed, keyVars>>

\* LoadMetadata, whose error is dropped: the metadata then counts as empty.
LoadMetadata(t) ==
  /\ At(t, "load")
  /\ \/ /\ task' = [task EXCEPT ![t] = [task[t] EXCEPT !.at = "meta", !.read = password[task[t].item]]]
        /\ UNCHANGED disturbed
     \/ /\ task' = [task EXCEPT ![t] = [task[t] EXCEPT !.at = "meta", !.read = NoSecret]]
        /\ disturbed' = disturbed \cup {task[t].item}
  /\ UNCHANGED <<stored, metaVars, colVars, oauthVars, fresh, keyVars>>

\* Does the service get another key than the server has in memory?
Rekeys(a, k) == a = Service /\ k # memory

\* Slip: the actor in memory gets the public key before the metadata is saved.
SaveMetadataLast(t) ==
  LET a == task[t].item
      k == task[t].key
  IN
  /\ At(t, "meta")
  /\ \/ /\ private' = [private EXCEPT ![a] = k]
        /\ password' = [password EXCEPT ![a] = task[t].read]
        /\ task' = [task EXCEPT ![t] = [task[t] EXCEPT !.seen[a] = Live(k), !.at = "actor"]]
        /\ rekeyed' = (rekeyed \/ Rekeys(a, k))
     \/ /\ task' = [task EXCEPT ![t] = Moved([task[t] EXCEPT !.seen[a] = Live(k)],
                                            AfterKeyError(task[t].job))]
        /\ UNCHANGED <<metaVars, rekeyed>>
  /\ UNCHANGED <<stored, colVars, oauthVars, fresh, disturbed, memory, torn, given>>

\* EncodeKeyPair and SaveMetadata; the public key then goes into the actor
\* that the command has in memory.
SaveMetadata(t) ==
  LET a == task[t].item
      k == task[t].key
  IN
  /\ At(t, "meta")
  /\ \/ /\ private' = [private EXCEPT ![a] = k]
        /\ password' = [password EXCEPT ![a] = task[t].read]
        /\ task' = [task EXCEPT ![t] = [task[t] EXCEPT !.seen[a] = Live(k), !.at = "actor"]]
        /\ rekeyed' = (rekeyed \/ Rekeys(a, k))
     \/ /\ Go(t, AfterKeyError(task[t].job))
        /\ UNCHANGED <<metaVars, rekeyed>>
  /\ UNCHANGED <<stored, colVars, oauthVars, fresh, disturbed, memory, torn, given>>

\* Save of the actor as the command has it in memory.
SaveActor(t) ==
  LET a == task[t].item IN
  /\ At(t, "actor")
  /\ \/ /\ stored' = [stored EXCEPT ![a] = task[t].seen[a]]
        /\ torn' = torn \ {a}
        /\ Go(t, AfterKey(task[t].job))
     \/ /\ torn' = torn \cup {a}
        /\ Go(t, AfterKeyError(task[t].job))
        /\ UNCHANGED stored
  /\ UNCHANGED <<metaVars, colVars, oauthVars, fresh, disturbed, memory, given, rekeyed>>

-----------------------------------------------------------------------------
(* accounts gen-keys *)

\* GenKeys.Run loads all its actors before it begins with the first.
GenKeys(t, scope) ==
  /\ ServiceLoadable
  /\ scope # {} /\ scope \subseteq Actors /\ \A a \in scope : Lives(a)
  /\ Begin(t, "genkeys", "each", Service, scope, NoSecret, NoSecret)
  /\ UNCHANGED <<stored, metaVars, colVars, oauthVars, fresh, keyVars>>

GenerateKeyPair(t) ==
  /\ At(t, "each") /\ task[t].job = "genkeys"
  /\ \/ \E a \in task[t].queue :
          /\ Make
          /\ task' = [task EXCEPT ![t] = [task[t] EXCEPT !.item = a, !.queue = @ \ {a},
                                  !.key = fresh + 1, !.at = "load"]]
     \/ /\ task[t].queue = {}
        /\ Go(t, "ok")
        /\ UNCHANGED fresh
  /\ UNCHANGED <<stored, metaVars, colVars, oauthVars, disturbed, keyVars>>

\* ProcessClientActivity of the Update, which saves the actor in memory: the
\* public key too when only the metadata could be saved before.  Its error
\* ends the command, whatever actors are left.
Update(t) ==
  LET a == task[t].item IN
  /\ At(t, "update")
  /\ \/ /\ stored' = [stored EXCEPT ![a] = task[t].seen[a]]
        /\ torn' = IF task[t].seen[a].key = task[t].key THEN torn \ {a} ELSE torn
        /\ Go(t, "each")
     \/ /\ Go(t, "failed")
        /\ UNCHANGED <<stored, torn>>
  /\ UNCHANGED <<metaVars, colVars, oauthVars, fresh, disturbed, memory, given, rekeyed>>

-----------------------------------------------------------------------------
(* Passwords and metadata *)

\* ChangePassword.Run, after the password was typed twice
ChangePassword(t, a) ==
  /\ ServiceLoadable
  /\ Lives(a)
  /\ Make
  /\ Begin(t, "passwd", "password", a, {a}, NoSecret, fresh + 1)
  /\ UNCHANGED <<stored, metaVars, colVars, oauthVars, keyVars>>

AfterPassword(job) ==
  CASE job \in Bootstraps  -> "load"
    [] job = "addclient"   -> "client"
    [] OTHER               -> "ok"

\* Slip: every command overwrites the error.
PasswordErrorDropped(job) == AfterPassword(job)

\* AddActorCmd and AddClient overwrite the error.
AfterPasswordError(job) ==
  IF job \in {"addactor", "addclient"} THEN AfterPassword(job) ELSE "failed"

SetPassword(t) ==
  LET a == task[t].item IN
  /\ At(t, "password")
  /\ \/ /\ password' = [password EXCEPT ![a] = task[t].word]
        /\ given' = [given EXCEPT ![a] = task[t].word]
        /\ Go(t, AfterPassword(task[t].job))
     \/ /\ Go(t, AfterPasswordError(task[t].job))
        /\ UNCHANGED <<password, given>>
  /\ UNCHANGED <<stored, private, colVars, oauthVars, fresh, disturbed, memory, torn, rekeyed>>

\* Import.Run: the file has metadata of an earlier time.
ImportMetadata(t, scope, k) ==
  /\ ServiceLoadable
  /\ scope # {} /\ scope \subseteq Actors
  /\ Begin(t, "restore", "restore", Service, scope, k, k)
  /\ UNCHANGED <<stored, metaVars, colVars, oauthVars, fresh, keyVars>>

\* SaveMetadataForItems saves what it can; Import.Run prints the errors.
SaveMetadataForItems(t) ==
  LET k == task[t].key IN
  /\ At(t, "restore")
  /\ \/ \E a \in task[t].queue :
          /\ Take(t, a, "restore")
          /\ \/ /\ private' = [private EXCEPT ![a] = k]
                /\ password' = [password EXCEPT ![a] = task[t].word]
                /\ given' = [given EXCEPT ![a] = task[t].word]
                /\ torn' = IF k = stored[a].key THEN torn \ {a} ELSE torn \cup {a}
                /\ rekeyed' = (rekeyed \/ Rekeys(a, k))
             \/ UNCHANGED <<metaVars, given, torn, rekeyed>>
     \/ /\ task[t].queue = {}
        /\ Go(t, "ok")
        /\ UNCHANGED <<metaVars, given, torn, rekeyed>>
  /\ UNCHANGED <<stored, colVars, oauthVars, fresh, disturbed, memory>>

-----------------------------------------------------------------------------
(* The key of the service in the memory of the server *)

\* Slip: a key that is in memory is not loaded again.
LoadServiceActorOnce ==
  /\ memory' = IF memory = NoSecret /\ ServiceLoadable THEN private[Service] ELSE memory
  /\ rekeyed' = FALSE
  /\ UNCHANGED <<stored, metaVars, colVars, oauthVars, fresh, task, disturbed, torn, given>>

\* New calls LoadServiceActor when the server starts; without a service, or
\* without its key, it goes on and has none.
LoadServiceActor ==
  /\ memory' = IF ServiceLoadable THEN private[Service] ELSE NoSecret
  /\ rekeyed' = FALSE
  /\ UNCHANGED <<stored, metaVars, colVars, oauthVars, fresh, task, disturbed, torn, given>>

\* ActorClient signs with the key in the storage when it is given the actor, as
\* Saver and ProxyURL do; given an identifier it asks LoadLocalActorWithKey,
\* which for the service has the key in memory.
SigningKeys(a) ==
  {private[a]} \cup {k \in {memory} : a = Service /\ memory # NoSecret}

KeySteps(t) ==
  \/ LoadMetadata(t) \/ SaveMetadata(t) \/ SaveActor(t)
  \/ \E scope \in Scopes : GenKeys(t, scope)
  \/ GenerateKeyPair(t) \/ Update(t)
  \/ \E a \in Actors : ChangePassword(t, a)
  \/ SetPassword(t)
  \/ \E scope \in Scopes : ImportMetadata(t, scope, OperatorSecret)
  \/ SaveMetadataForItems(t)

=============================================================================
