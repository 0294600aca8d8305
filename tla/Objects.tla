-------------------------------- MODULE Objects --------------------------------
(***************************************************************************)
(* Items and collections (base.go, cmd-activitypub.go,                     *)
(* cmd-fix-storage-collections.go): add, delete, move, copy, import and    *)
(* the repair of collections.  Each of them is a loop of loads and saves.  *)
(***************************************************************************)
EXTENDS Keys

\* A loop, unless it takes a step of its own, has nothing left to do.
LoopEnds(t, job) ==
  /\ At(t, "each") /\ task[t].job = job
  /\ task[t].queue = {}
  /\ Go(t, "ok")
  /\ UNCHANGED <<stored, metaVars, colVars, oauthVars, fresh, disturbed, keyVars>>

Looping(t, job) == At(t, "each") /\ task[t].job = job

-----------------------------------------------------------------------------
(* Adding *)

AddObject(t, n) ==
  /\ ServiceLoadable
  /\ ~Exists(n)
  /\ Begin(t, "addobject", "create", n, {n}, NoSecret, NoSecret)
  /\ UNCHANGED <<stored, metaVars, colVars, oauthVars, fresh, keyVars>>

AfterCreate(job) ==
  CASE job = "addobject" -> "ok"
    [] job \in Bootstraps -> "client"
    [] OTHER -> "load"

\* Base.AddActor and Base.AddObject: ProcessClientActivity of the Create.
\* Something under the same identifier is a conflict, which AddActor takes for
\* success.  What is created is what the command has in memory: of the service
\* on a reset, the actor with its old public key.
Create(t) ==
  LET i == task[t].item
      k == task[t].seen[i].key
  IN
  /\ At(t, "create")
  /\ \/ /\ ~Exists(i)
        /\ stored' = [stored EXCEPT ![i] = Live(k)]
        /\ torn' = IF i \in Actors /\ k # private[i] THEN torn \cup {i} ELSE torn
        /\ Go(t, AfterCreate(task[t].job))
     \/ /\ Exists(i) /\ task[t].job # "addobject"
        /\ Go(t, AfterCreate(task[t].job))
        /\ UNCHANGED <<stored, torn>>
     \/ /\ Go(t, "failed")
        /\ UNCHANGED <<stored, torn>>
  /\ UNCHANGED <<metaVars, colVars, oauthVars, fresh, disturbed, memory, given, rekeyed>>

-----------------------------------------------------------------------------
(* Deleting *)

Delete(t, scope) ==
  /\ ServiceLoadable
  /\ scope # {} /\ scope \subseteq Items
  /\ Begin(t, "delete", "delete", Service, scope, NoSecret, NoSecret)
  /\ UNCHANGED <<stored, metaVars, colVars, oauthVars, fresh, keyVars>>

AfterDelete(job) == IF job = "delclient" THEN "remove" ELSE "ok"

\* Base.DeleteObjects loads the objects.  Those that are tombstones and those
\* whose load fails, though they live, are left out; it is an error when none
\* is left.
LoadObjects(t) ==
  LET live == {i \in task[t].scope : Lives(i)} IN
  /\ At(t, "delete")
  /\ \/ \E found \in (SUBSET live) \ {{}} :
          task' = [task EXCEPT ![t] = [task[t] EXCEPT
                     !.at = "bury", !.queue = found, !.left = live \ found]]
     \/ Go(t, "failed")
  /\ UNCHANGED <<stored, metaVars, colVars, oauthVars, fresh, disturbed, keyVars>>

\* One Delete activity for all that were loaded makes tombstones of them, or
\* fails on the way.
DeleteObjects(t) ==
  LET Bury(gone) == stored' = [i \in Items |->
                      IF i \in gone /\ Exists(i) THEN Tombstone ELSE stored[i]]
  IN
  /\ At(t, "bury")
  /\ \/ Bury(task[t].queue) /\ Go(t, AfterDelete(task[t].job))
     \/ (\E gone \in SUBSET task[t].queue : Bury(gone)) /\ Go(t, "failed")
  /\ UNCHANGED <<metaVars, colVars, oauthVars, fresh, disturbed, keyVars>>

-----------------------------------------------------------------------------
(* Moving and copying *)

\* operateOnObjects needs a destination that can be loaded.
MoveOrCopy(t, job, to, from) ==
  /\ ServiceLoadable
  /\ to \in made
  /\ from # {} /\ to \notin from
  /\ job \in InUse
  /\ At(t, "idle")
  /\ task' = [task EXCEPT ![t] = [Blank(job, "each", from \cup {to}) EXCEPT
                                    !.queue = from, !.to = to]]
  /\ Overlap(t, from \cup {to})
  /\ UNCHANGED <<stored, metaVars, colVars, oauthVars, fresh, keyVars>>

\* Slip: the object is removed first.
UnlinkFirst(t) ==
  /\ \E job \in {"move", "copy"} : Looping(t, job)
  /\ \E i \in task[t].queue \cap Items :
       /\ Exists(i)
       /\ \/ /\ stored' = [stored EXCEPT ![i] = Absent]
             /\ listed' = [listed EXCEPT ![task[t].to] = @ \cup {i}]
             /\ Take(t, i, "each")
          \/ /\ stored' = [stored EXCEPT ![i] = Absent]
             /\ Go(t, "failed")
             /\ UNCHANGED listed
  /\ UNCHANGED <<metaVars, made, oauthVars, fresh, disturbed, keyVars>>

\* Slip: a collection is treated like any object.
PlaceUnexpanded(t) ==
  /\ \E job \in {"move", "copy"} : Looping(t, job)
  /\ \E i \in task[t].queue :
       /\ listed' = [listed EXCEPT ![task[t].to] = @ \cup {i}]
       /\ Take(t, i, IF task[t].job = "move" THEN "unlink" ELSE "each")
  /\ UNCHANGED <<stored, metaVars, made, oauthVars, fresh, disturbed, keyVars>>

\* The object is loaded and added to the destination; only MoveObjects takes
\* an error of AddTo for one.
Place(t) ==
  /\ \E job \in {"move", "copy"} : Looping(t, job)
  /\ \E i \in task[t].queue \cap Items :
       /\ Exists(i)
       /\ \/ /\ listed' = [listed EXCEPT ![task[t].to] = @ \cup {i}]
             /\ Take(t, i, IF task[t].job = "move" THEN "unlink" ELSE "each")
          \/ /\ task[t].job = "copy"
             /\ Take(t, i, "each")
             /\ UNCHANGED listed
  /\ UNCHANGED <<stored, metaVars, made, oauthVars, fresh, disturbed, keyVars>>

\* Slip: an error in the loop is taken for its end.
LoopGivesUp(t) ==
  /\ \E job \in {"move", "copy"} : Looping(t, job)
  /\ task' = [task EXCEPT ![t] = [task[t] EXCEPT !.queue = {}]]
  /\ UNCHANGED <<stored, metaVars, colVars, oauthVars, fresh, disturbed, keyVars>>

\* The object cannot be loaded, or (move) not be added.
LoopFails(t) ==
  /\ \E job \in {"move", "copy"} : Looping(t, job)
  /\ task[t].queue # {}
  /\ Go(t, "failed")
  /\ UNCHANGED <<stored, metaVars, colVars, oauthVars, fresh, disturbed, keyVars>>

\* A collection among the objects: operateOnObjects returns with what it does
\* for the members, so that the objects behind it are left where they are.
Expand(t) ==
  /\ \E job \in {"move", "copy"} : Looping(t, job)
  /\ \E c \in task[t].queue \cap made :
       LET members == {i \in listed[c] : Exists(i)} IN
       /\ task' = [task EXCEPT ![t] = [task[t] EXCEPT
                     !.queue = members, !.scope = @ \cup members,
                     !.left = (@ \cup task[t].queue) \ (members \cup {c})]]
       /\ Overlap(t, members)
  /\ UNCHANGED <<stored, metaVars, colVars, oauthVars, fresh, keyVars>>

\* Storage.Delete of an object that is in its new collection.
Unlink(t) ==
  /\ At(t, "unlink")
  /\ \/ /\ stored' = [stored EXCEPT ![task[t].item] = Absent]
        /\ Go(t, "each")
     \/ Go(t, "failed") /\ UNCHANGED stored
  /\ UNCHANGED <<metaVars, colVars, oauthVars, fresh, disturbed, keyVars>>

-----------------------------------------------------------------------------
(* Importing *)

\* ImportCmd.Run: scope is what is in the last file that could be read, since
\* each file replaces what was read before; k is the public key of its actors.
Import(t, scope, k) ==
  /\ ServiceLoadable
  /\ scope # {} /\ scope \subseteq Items
  /\ Begin(t, "import", "process", Service, scope, k, NoSecret)
  /\ UNCHANGED <<stored, metaVars, colVars, oauthVars, fresh, keyVars>>

FileKey(t, i) == IF i \in Actors THEN task[t].key ELSE NoSecret

\* An imported actor is published with the key of the file, whichever key its
\* metadata has.
ImportItem(t, i) ==
  /\ stored' = [stored EXCEPT ![i] = Live(FileKey(t, i))]
  /\ torn' = IF i \in Actors /\ FileKey(t, i) # private[i] THEN torn \cup {i} ELSE torn

\* The effects that an activity of any type can have on an object of the file:
\* Create and Update (which does not find a tombstone to update), Delete, and
\* those that put something in a collection or take it out (Add, Remove, ...).
Activity(t, i) ==
  \/ stored[i] # Tombstone /\ ImportItem(t, i) /\ UNCHANGED listed
  \/ /\ Lives(i)
     /\ stored' = [stored EXCEPT ![i] = Tombstone]
     /\ UNCHANGED <<listed, torn>>
  \/ /\ Exists(i)
     /\ \E c \in made : listed' \in {[listed EXCEPT ![c] = @ \cup {i}],
                                    [listed EXCEPT ![c] = @ \ {i}]}
     /\ UNCHANGED <<stored, torn>>

\* The activities of the file come first, each through ProcessClientActivity;
\* one that fails is reported and passed over.
ProcessActivities(t) ==
  /\ At(t, "process")
  /\ \/ (\E i \in task[t].queue \cap Items : Activity(t, i)) /\ UNCHANGED task
     \/ Go(t, "each") /\ UNCHANGED <<stored, listed, torn>>
  /\ UNCHANGED <<metaVars, made, oauthVars, fresh, disturbed, memory, given, rekeyed>>

\* Slip: objects are saved whether they exist or not.
SaveUnprobed(t) ==
  /\ Looping(t, "import")
  /\ \E i \in task[t].queue : Take(t, i, "save")
  /\ UNCHANGED <<stored, metaVars, colVars, oauthVars, fresh, disturbed, keyVars>>

\* "need to check if already created by activities processing": what is found
\* is left alone.  A load that fails finds nothing, whatever is stored.
ProbeObject(t) ==
  /\ Looping(t, "import")
  /\ \E i \in task[t].queue :
       \/ Exists(i) /\ Take(t, i, "each") /\ UNCHANGED disturbed
       \/ ~Exists(i) /\ Take(t, i, "save") /\ UNCHANGED disturbed
       \/ Take(t, i, "save") /\ disturbed' = disturbed \cup {i}
  /\ UNCHANGED <<stored, metaVars, colVars, oauthVars, fresh, keyVars>>

SaveObject(t) ==
  /\ At(t, "save")
  /\ Go(t, "each")
  /\ ImportItem(t, task[t].item) \/ UNCHANGED <<stored, torn>>
  /\ UNCHANGED <<metaVars, colVars, oauthVars, fresh, disturbed, memory, given, rekeyed>>

-----------------------------------------------------------------------------
(* Repairing collections *)

\* FixCollections.Run goes through the collections of the service, then
\* through those of the objects in its streams.
FixCollections(t) ==
  /\ ServiceLoadable
  /\ Begin(t, "repair", "each", Service, Collections, NoSecret, NoSecret)
  /\ UNCHANGED <<stored, metaVars, colVars, oauthVars, fresh, keyVars>>

\* tryCreateCollection: a collection that is not found is made ...
LoadCollection(t) ==
  /\ Looping(t, "repair")
  /\ task[t].queue \cap Items = {}
  /\ \E c \in task[t].queue :
       \/ c \notin made /\ Take(t, c, "make") /\ UNCHANGED disturbed
       \/ Take(t, c, "each") /\ UNCHANGED disturbed   \* the load fails
       \/ LET members == {i \in listed[c] : Exists(i)} IN
          /\ c \in made
          /\ task' = [task EXCEPT ![t] = [task[t] EXCEPT
               !.queue = (@ \ {c}) \cup members, !.scope = @ \cup members,
               !.seen = [i \in Items |-> IF i \in members THEN stored[i] ELSE @[i]]]]
          /\ Overlap(t, members)
  /\ UNCHANGED <<stored, metaVars, colVars, oauthVars, fresh, keyVars>>

MakeCollection(t) ==
  /\ At(t, "make")
  /\ made' \in {made, made \cup {task[t].item}}
  /\ Go(t, "each")
  /\ UNCHANGED <<stored, metaVars, listed, oauthVars, fresh, disturbed, keyVars>>

\* Slip: what is saved again is the object as the command would create it.
SaveMembersAnew(t) ==
  /\ Looping(t, "repair")
  /\ \E i \in task[t].queue \cap Items :
       /\ stored' = [stored EXCEPT ![i] = Live(NoSecret)]
       /\ task' = [task EXCEPT ![t] = [task[t] EXCEPT !.queue = @ \ {i}, !.scope = @ \ {i}]]
  /\ UNCHANGED <<metaVars, colVars, oauthVars, fresh, disturbed, keyVars>>

\* ... and of one that is found every member is saved again as it was loaded.
\* The number of items in the collection, saved last, is not modelled.
SaveMember(t) ==
  /\ Looping(t, "repair")
  /\ \E i \in task[t].queue \cap Items :
       /\ stored' \in {stored, [stored EXCEPT ![i] = task[t].seen[i]]}
       /\ task' = [task EXCEPT ![t] = [task[t] EXCEPT !.queue = @ \ {i}, !.scope = @ \ {i}]]
  /\ UNCHANGED <<metaVars, colVars, oauthVars, fresh, disturbed, keyVars>>

-----------------------------------------------------------------------------

ObjectSteps(t) ==
  \/ \E n \in Notes : AddObject(t, n)
  \/ Create(t)
  \/ \E scope \in Scopes : Delete(t, scope)
  \/ LoadObjects(t) \/ DeleteObjects(t)
  \/ \E job \in {"move", "copy"}, to \in Collections, from \in Scopes :
       MoveOrCopy(t, job, to, from)
  \/ Place(t) \/ LoopFails(t) \/ Expand(t) \/ Unlink(t)
  \/ \E scope \in Files, k \in {NoSecret, OperatorSecret} : Import(t, scope, k)
  \/ ProcessActivities(t) \/ ProbeObject(t) \/ SaveObject(t)
  \/ FixCollections(t)
  \/ LoadCollection(t) \/ MakeCollection(t) \/ SaveMember(t)
  \/ \E job \in {"move", "copy", "import", "repair"} : LoopEnds(t, job)

=============================================================================
