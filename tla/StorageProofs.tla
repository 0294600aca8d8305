------------------------------ MODULE StorageProofs ------------------------------
(***************************************************************************)
(* What holds of the storage for any sets of items and any commands.       *)
(***************************************************************************)
EXTENDS Storage, TLAPS

USE ServiceAssumption, SecretsAssumption, StreamsAssumption, InUseAssumption, ScopesAssumption,
    FilesAssumption

-----------------------------------------------------------------------------
(* The two ways in which a step changes the record of its task *)

\* All that TypeOK says of, but for the tasks and what they disturb
StorageTyped ==
  /\ stored \in [Items -> Record]
  /\ private \in [Actors -> Secrets] /\ password \in [Actors -> Secrets]
  /\ made \subseteq Collections /\ listed \in [Collections -> SUBSET Items]
  /\ clients \subseteq Actors /\ codes \subseteq Tasks /\ tokens \subseteq Tasks
  /\ fresh \in Secrets
  /\ KeysTypeOK /\ AccountsTypeOK

\* A task goes on with no more than it works on ...
Narrows(t) ==
  \E r \in TaskRecord :
    /\ task' = [task EXCEPT ![t] = r]
    /\ Shape(r) /\ Working(t) /\ r.scope \subseteq task[t].scope
    /\ disturbed \subseteq disturbed' /\ disturbed' \subseteq Things

\* ... or turns to something new.
Widens(t) ==
  \E r \in TaskRecord, new \in SUBSET Things :
    /\ task' = [task EXCEPT ![t] = r]
    /\ Shape(r) /\ r.scope \subseteq (IF Working(t) THEN task[t].scope ELSE {}) \cup new
    /\ Overlap(t, new)

LEMMA RestingTyped ==
  ASSUME NEW step \in Steps
  PROVE  Resting(step) \in TaskRecord
BY DEF Resting, Blank, TaskRecord, Jobs, Items, Things, Record, Absent, Secrets, NoSecret

LEMMA RestingShaped ==
  ASSUME NEW step \in Ended
  PROVE  Shape(Resting(step)) /\ Resting(step).scope = {} /\ Resting(step) \in TaskRecord
BY RestingTyped DEF Shape, Resting, Blank, Ended, ActorSteps, Steps

\* A task that goes to its end
LEMMA EndNarrows ==
  ASSUME StorageInv, NEW t \in Tasks, NEW step \in Ended, Working(t), Go(t, step),
         disturbed' = disturbed
  PROVE  Narrows(t)
<1>1. task' = [task EXCEPT ![t] = Resting(step)]
  BY DEF Go, Moved
<1> QED
  BY <1>1, RestingShaped DEF Narrows, StorageInv, TypeOK, StoreTypeOK

\* ... and to any other step
LEMMA GoNarrows ==
  ASSUME StorageInv, NEW t \in Tasks, NEW step \in Steps \ Ended, Working(t), Go(t, step),
         Shape([task[t] EXCEPT !.at = step]), disturbed' = disturbed
  PROVE  Narrows(t)
<1>1. task' = [task EXCEPT ![t] = [task[t] EXCEPT !.at = step]]
  BY DEF Go, Moved
<1>2. [task[t] EXCEPT !.at = step] \in TaskRecord /\ [task[t] EXCEPT !.at = step].scope = task[t].scope
  BY DEF StorageInv, TypeOK, StoreTypeOK, TaskRecord
<1> QED
  BY <1>1, <1>2 DEF Narrows, StorageInv, TypeOK, StoreTypeOK

LEMMA TakeNarrows ==
  ASSUME StorageInv, NEW t \in Tasks, NEW x, NEW step \in Steps, Working(t), Take(t, x, step),
         Shape([task[t] EXCEPT !.item = x, !.queue = @ \ {x}, !.at = step]),
         disturbed \subseteq disturbed', disturbed' \subseteq Things
  PROVE  Narrows(t)
<1> DEFINE r == [task[t] EXCEPT !.item = x, !.queue = @ \ {x}, !.at = step]
<1>1. task' = [task EXCEPT ![t] = r]
  BY DEF Take, StorageInv, TypeOK, StoreTypeOK, TaskRecord
<1>2. r \in TaskRecord /\ r.scope = task[t].scope
  BY DEF Take, StorageInv, TypeOK, StoreTypeOK, TaskRecord
<1> QED
  BY <1>1, <1>2 DEF Narrows

LEMMA BeginWidens ==
  ASSUME StorageInv, NEW t \in Tasks, NEW job \in Jobs, NEW step \in Steps, NEW item \in Things,
         NEW scope \in SUBSET Things, NEW key \in Secrets, NEW word \in Secrets,
         Begin(t, job, step, item, scope, key, word),
         step \in ActorSteps => item \in Actors \cap scope,
         step = "create" => item \in scope /\ (job # "addobject" => item \in Actors),
         job \in {"genkeys", "restore"} => scope \subseteq Actors,
         step = "restore" => job = "restore", step # "make",
         step = "delete" => job \in {"delete", "delclient"},
         step = "clean" => item = Service /\ scope = Things
  PROVE  Widens(t)
<1> DEFINE seen == [i \in Items |-> IF i \in scope THEN stored[i] ELSE Absent]
           r == [Blank(job, step, scope) EXCEPT
                   !.queue = scope, !.item = item, !.to = item, !.key = key, !.word = word,
                   !.seen = seen]
<1>1. seen \in [Items -> Record]
  BY DEF StorageInv, TypeOK, StoreTypeOK, Record, Absent, Secrets, NoSecret
<1>2. Blank(job, step, scope) \in TaskRecord
  BY DEF Blank, TaskRecord, Things, Items, Record, Absent, Secrets, NoSecret
<1>3. r \in TaskRecord
  BY <1>1, <1>2 DEF TaskRecord
<1>4. task' = [task EXCEPT ![t] = r] /\ Overlap(t, scope)
  BY DEF Begin
<1>5. Shape(r) /\ r.scope = scope
  BY DEF Shape, Blank
<1> QED
  BY <1>3, <1>4, <1>5 DEF Widens

-----------------------------------------------------------------------------
(* What such steps preserve *)

LEMMA TasksKept ==
  ASSUME StorageInv, NEW t \in Tasks, Narrows(t) \/ Widens(t)
  PROVE  /\ task' \in [Tasks -> TaskRecord] /\ disturbed' \subseteq Things
         /\ disturbed \subseteq disturbed' /\ Shapes' /\ NoSilentOverlap'
         /\ \A u \in Tasks \ {t} : task'[u] = task[u]
<1> USE DEF StorageInv, TypeOK, StoreTypeOK
<1>1. CASE Narrows(t)
  <2>1. PICK r \in TaskRecord :
          /\ task' = [task EXCEPT ![t] = r]
          /\ Shape(r) /\ Working(t) /\ r.scope \subseteq task[t].scope
          /\ disturbed \subseteq disturbed' /\ disturbed' \subseteq Things
    BY <1>1 DEF Narrows
  <2>2. task'[t] = r /\ \A u \in Tasks \ {t} : task'[u] = task[u]
    BY <2>1
  <2>3. Shapes'
    BY <2>1, <2>2 DEF Shapes
  <2>4. NoSilentOverlap'
    BY <2>1, <2>2 DEF NoSilentOverlap, Working
  <2> QED
    BY <2>1, <2>2, <2>3, <2>4
<1>2. CASE Widens(t)
  <2>1. PICK r \in TaskRecord, new \in SUBSET Things :
          /\ task' = [task EXCEPT ![t] = r]
          /\ Shape(r) /\ r.scope \subseteq (IF Working(t) THEN task[t].scope ELSE {}) \cup new
          /\ Overlap(t, new)
    BY <1>2 DEF Widens
  <2>2. task'[t] = r /\ \A u \in Tasks \ {t} : task'[u] = task[u]
    BY <2>1
  <2>3. Shapes'
    BY <2>1, <2>2 DEF Shapes
  <2>4. ASSUME NEW u \in Tasks \ {t}, Working(u)
        PROVE  r.scope \cap task[u].scope \subseteq disturbed'
    BY <2>1, <2>4 DEF Overlap, NoSilentOverlap
  <2>5. NoSilentOverlap'
    BY <2>1, <2>2, <2>4 DEF NoSilentOverlap, Working, Overlap
  <2> QED
    BY <2>1, <2>2, <2>3, <2>5 DEF Overlap
<1> QED
  BY <1>1, <1>2

\* A step that leaves passwords alone and loads no metadata
LEMMA PasswordsKept ==
  ASSUME StorageInv, NEW t \in Tasks, Narrows(t) \/ Widens(t), StorageTyped',
         UNCHANGED <<password, given>>, task'[t].at # "meta"
  PROVE  StorageInv'
<1>1. ReadIsCurrent' /\ PasswordKept'
  BY TasksKept DEF StorageInv, ReadIsCurrent, PasswordKept, At
<1> QED
  BY <1>1, TasksKept DEF StorageInv, StorageTyped, TypeOK, StoreTypeOK

\* The same for each way in which a step changes the record of its task
LEMMA GoKeeps ==
  ASSUME StorageInv, NEW t \in Tasks, NEW step \in Steps \ {"meta"}, Working(t), Go(t, step),
         step \notin Ended => Shape([task[t] EXCEPT !.at = step]),
         disturbed' = disturbed, StorageTyped', UNCHANGED <<password, given>>
  PROVE  StorageInv'
<1>1. Narrows(t)
  BY EndNarrows, GoNarrows
<1>2. task'[t].at = step
  BY DEF Go, Moved, Resting, Blank, StorageInv, TypeOK, StoreTypeOK, TaskRecord
<1> QED
  BY <1>1, <1>2, PasswordsKept

LEMMA TakeKeeps ==
  ASSUME StorageInv, NEW t \in Tasks, NEW x, NEW step \in Steps \ {"meta"}, Working(t),
         Take(t, x, step),
         Shape([task[t] EXCEPT !.item = x, !.queue = @ \ {x}, !.at = step]),
         disturbed \subseteq disturbed', disturbed' \subseteq Things,
         StorageTyped', UNCHANGED <<password, given>>
  PROVE  StorageInv'
<1>1. Narrows(t)
  BY TakeNarrows
<1>2. task'[t].at = step
  BY DEF Take, StorageInv, TypeOK, StoreTypeOK, TaskRecord
<1> QED
  BY <1>1, <1>2, PasswordsKept

LEMMA BeginKeeps ==
  ASSUME StorageInv, NEW t \in Tasks, NEW job \in Jobs, NEW step \in Steps, NEW item \in Things,
         NEW scope \in SUBSET Things, NEW key \in Secrets, NEW word \in Secrets,
         Begin(t, job, step, item, scope, key, word),
         step \in ActorSteps => item \in Actors \cap scope,
         step = "create" => item \in scope /\ (job # "addobject" => item \in Actors),
         job \in {"genkeys", "restore"} => scope \subseteq Actors,
         step = "restore" => job = "restore", step \notin {"make", "meta"},
         step = "delete" => job \in {"delete", "delclient"},
         step = "clean" => item = Service /\ scope = Things,
         StorageTyped', UNCHANGED <<password, given>>
  PROVE  StorageInv'
<1>1. Widens(t)
  BY BeginWidens
<1>2. task'[t].at = step
  BY DEF Begin, Blank, StorageInv, TypeOK, StoreTypeOK, TaskRecord
<1> QED
  BY <1>1, <1>2, PasswordsKept

\* Most steps ask nothing of the record; those on an actor ask for the actor.
LEMMA ShapeStays ==
  ASSUME NEW r \in TaskRecord, Shape(r),
         NEW step \in Steps \ {"create", "restore", "make", "delete", "clean"},
         step \in ActorSteps => r.at \in ActorSteps \/ r.item \in Actors \cap r.scope
  PROVE  Shape([r EXCEPT !.at = step])
BY DEF Shape, TaskRecord

LEMMA MakeTyped ==
  ASSUME TypeOK
  PROVE  Make => fresh' \in Secrets /\ fresh + 1 \in Secrets
BY SecretsAssumption DEF TypeOK, StoreTypeOK, Make, Secrets

-----------------------------------------------------------------------------
(* Keys *)

LEMMA LoadMetadataKeeps ==
  ASSUME StorageInv, NEW t \in Tasks, LoadMetadata(t), UNCHANGED fileVars
  PROVE  StorageInv'
<1> USE DEF StorageInv, TypeOK, StoreTypeOK
<1>1. PICK word \in Secrets :
        /\ task' = [task EXCEPT ![t] = [task[t] EXCEPT !.at = "meta", !.read = word]]
        /\ \/ word = password[task[t].item] /\ disturbed' = disturbed
           \/ disturbed' = disturbed \cup {task[t].item}
  <2>1. password[task[t].item] \in Secrets /\ NoSecret \in Secrets
    BY DEF LoadMetadata, At, Shapes, Shape, ActorSteps, Secrets, NoSecret
  <2>2. CASE /\ task' = [task EXCEPT ![t] = [task[t] EXCEPT !.at = "meta", !.read = password[task[t].item]]]
             /\ UNCHANGED disturbed
    BY <2>1, <2>2
  <2>3. CASE /\ task' = [task EXCEPT ![t] = [task[t] EXCEPT !.at = "meta", !.read = NoSecret]]
             /\ disturbed' = disturbed \cup {task[t].item}
    BY <2>1, <2>3
  <2> QED
    BY <2>2, <2>3 DEF LoadMetadata
<1> DEFINE r == [task[t] EXCEPT !.at = "meta", !.read = word]
<1>2. task' = [task EXCEPT ![t] = r] /\ r \in TaskRecord
  <2>1. task[t] \in TaskRecord
    OBVIOUS
  <2> QED
    BY <1>1, <2>1 DEF TaskRecord, Steps, Ended
<1>3. Shape(r) /\ r.scope = task[t].scope /\ Working(t)
  BY <1>1 DEF LoadMetadata, At, Working, Ended, Shapes, Shape, ActorSteps, TaskRecord
<1>4. Narrows(t)
  BY <1>1, <1>2, <1>3 DEF Narrows, TaskRecord
<1>5. StorageTyped' /\ UNCHANGED <<password, given>>
  BY DEF LoadMetadata, StorageTyped, KeysTypeOK, AccountsTypeOK, metaVars, colVars, oauthVars, keyVars, fileVars
<1>6. task'[t].item = task[t].item /\ task'[t].read = word
  BY <1>2 DEF TaskRecord
<1>7. ReadIsCurrent'
  BY <1>1, <1>4, <1>5, <1>6, TasksKept DEF ReadIsCurrent, At
<1>8. PasswordKept'
  BY <1>4, <1>5, TasksKept DEF PasswordKept
<1> QED
  BY <1>4, <1>5, <1>7, <1>8, TasksKept DEF StorageTyped

LEMMA SaveMetadataKeeps ==
  ASSUME StorageInv, NEW t \in Tasks, SaveMetadata(t), UNCHANGED fileVars
  PROVE  StorageInv'
<1> USE DEF StorageInv, TypeOK, StoreTypeOK
<1> DEFINE a == task[t].item
           k == task[t].key
           r == [task[t] EXCEPT !.seen[a] = Live(k), !.at = "actor"]
           step == AfterKeyError(task[t].job)
<1>1. a \in Actors \cap task[t].scope /\ Working(t) /\ task[t].at = "meta" /\ k \in Secrets
  BY DEF SaveMetadata, At, Working, Ended, Shapes, Shape, ActorSteps, TaskRecord
<1>2. CASE /\ private' = [private EXCEPT ![a] = k]
           /\ password' = [password EXCEPT ![a] = task[t].read]
           /\ task' = [task EXCEPT ![t] = [task[t] EXCEPT !.seen[a] = Live(k), !.at = "actor"]]
           /\ rekeyed' = (rekeyed \/ Rekeys(a, k))
  <2>1. task' = [task EXCEPT ![t] = r] /\ r \in TaskRecord
    <3>1. task[t] \in TaskRecord /\ Live(k) \in Record
      BY <1>1 DEF Record, Live
    <3>2. r \in TaskRecord
      BY <3>1 DEF TaskRecord, Steps, Ended
    <3> QED
      BY <1>2, <3>2
  <2>2. Shape(r) /\ r.scope = task[t].scope
    BY <1>1 DEF Shapes, Shape, ActorSteps, TaskRecord
  <2>3. Narrows(t)
    BY <1>1, <2>1, <2>2 DEF Narrows, SaveMetadata
  <2>4. StorageTyped'
    BY <1>1, <1>2 DEF SaveMetadata, StorageTyped, KeysTypeOK, AccountsTypeOK, TaskRecord, Rekeys,
                      metaVars, colVars, oauthVars, keyVars, fileVars
  <2>5. PasswordKept'
    BY <1>1, <1>2 DEF SaveMetadata, PasswordKept, ReadIsCurrent, At
  <2>6. task'[t].at # "meta"
    BY <2>1 DEF TaskRecord
  <2>7. ASSUME NEW u \in Tasks \ {t}, At(u, "meta"), task[u].item = a
        PROVE  a \in disturbed
    BY <1>1, <2>7 DEF NoSilentOverlap, Shapes, Shape, ActorSteps, Working, Ended, At
  <2>8. ReadIsCurrent'
    BY <1>1, <1>2, <2>3, <2>6, <2>7, TasksKept DEF SaveMetadata, ReadIsCurrent, At
  <2> QED
    BY <2>3, <2>4, <2>5, <2>8, TasksKept DEF StorageTyped
<1>3. CASE Go(t, step) /\ UNCHANGED <<metaVars, rekeyed>>
  <2>1. step \in {"failed", "update", "password"}
    BY DEF AfterKeyError, AfterKey
  <2>2. Shape([task[t] EXCEPT !.at = step]) \/ step = "failed"
    BY <1>1, <2>1 DEF Shapes, Shape, ActorSteps, TaskRecord
  <2>3. Narrows(t)
    BY <1>1, <1>3, <2>1, <2>2, GoNarrows, EndNarrows DEF SaveMetadata, Steps, Ended
  <2>4. StorageTyped' /\ UNCHANGED <<password, given>>
    BY <1>3 DEF SaveMetadata, StorageTyped, KeysTypeOK, AccountsTypeOK,
                metaVars, colVars, oauthVars, keyVars, fileVars
  <2>5. task'[t].at # "meta"
    BY <1>3, <2>1 DEF Go, Moved, Resting, Blank, TaskRecord
  <2> QED
    BY <2>3, <2>4, <2>5, PasswordsKept
<1> QED
  BY <1>2, <1>3 DEF SaveMetadata

LEMMA SaveActorKeeps ==
  ASSUME StorageInv, NEW t \in Tasks, SaveActor(t), UNCHANGED fileVars
  PROVE  StorageInv'
<1> USE DEF StorageInv, TypeOK, StoreTypeOK
<1>1. task[t] \in TaskRecord /\ Shape(task[t]) /\ task[t].item \in Actors /\ Working(t)
        /\ task[t].at \in ActorSteps
  BY DEF SaveActor, At, Working, Ended, Shapes, Shape, ActorSteps, TaskRecord
<1>2. StorageTyped' /\ UNCHANGED <<password, given, disturbed>>
  <2>1. task[t].seen \in [Items -> Record]
    BY <1>1 DEF TaskRecord
  <2> QED
    BY <1>1, <2>1 DEF SaveActor, StorageTyped, KeysTypeOK, AccountsTypeOK, Items,
                      metaVars, colVars, oauthVars, keyVars, fileVars
<1>3. PICK step \in {"update", "streams", "password", "failed"} : Go(t, step)
  BY DEF SaveActor, AfterKey, AfterKeyError
<1>4. step \notin Ended => Shape([task[t] EXCEPT !.at = step])
  BY <1>1, ShapeStays DEF Steps, Ended
<1> QED
  BY <1>1, <1>2, <1>3, <1>4, GoKeeps DEF Steps, Ended

LEMMA UpdateKeeps ==
  ASSUME StorageInv, NEW t \in Tasks, Update(t), UNCHANGED fileVars
  PROVE  StorageInv'
<1> USE DEF StorageInv, TypeOK, StoreTypeOK
<1>1. task[t] \in TaskRecord /\ Shape(task[t]) /\ task[t].item \in Actors /\ Working(t)
  BY DEF Update, At, Working, Ended, Shapes, Shape, ActorSteps, TaskRecord
<1>2. StorageTyped' /\ UNCHANGED <<password, given, disturbed>>
  <2>1. task[t].seen \in [Items -> Record]
    BY <1>1 DEF TaskRecord
  <2> QED
    BY <1>1, <2>1 DEF Update, StorageTyped, KeysTypeOK, AccountsTypeOK, Items,
                      metaVars, colVars, oauthVars, keyVars, fileVars
<1>3. PICK step \in {"each", "failed"} : Go(t, step)
  BY DEF Update
<1>4. Shape([task[t] EXCEPT !.at = "each"])
  BY <1>1, ShapeStays DEF Steps, Ended, ActorSteps
<1> QED
  BY <1>1, <1>2, <1>3, <1>4, GoKeeps DEF Steps, Ended

LEMMA GenerateKeyPairKeeps ==
  ASSUME StorageInv, NEW t \in Tasks, GenerateKeyPair(t), UNCHANGED fileVars
  PROVE  StorageInv'
<1> USE DEF StorageInv, TypeOK, StoreTypeOK
<1>1. task[t] \in TaskRecord /\ Shape(task[t]) /\ task[t].job = "genkeys" /\ Working(t)
  BY DEF GenerateKeyPair, At, Working, Ended, Shapes
<1>2. StorageTyped' /\ UNCHANGED <<password, given, disturbed>>
  <2>1. fresh' \in Secrets
    BY MakeTyped DEF GenerateKeyPair
  <2> QED
    BY <2>1 DEF GenerateKeyPair, StorageTyped, KeysTypeOK, AccountsTypeOK,
                metaVars, colVars, oauthVars, keyVars, fileVars
<1>3. CASE \E a \in task[t].queue :
             /\ Make
             /\ task' = [task EXCEPT ![t] = [task[t] EXCEPT !.item = a, !.queue = @ \ {a},
                                                            !.key = fresh + 1, !.at = "load"]]
  <2>1. PICK a \in task[t].queue :
             /\ Make
             /\ task' = [task EXCEPT ![t] = [task[t] EXCEPT !.item = a, !.queue = @ \ {a},
                                                            !.key = fresh + 1, !.at = "load"]]
    BY <1>3
  <2> DEFINE r == [task[t] EXCEPT !.item = a, !.queue = @ \ {a}, !.key = fresh + 1, !.at = "load"]
  <2>2. a \in Actors \cap task[t].scope /\ fresh + 1 \in Secrets
    BY <1>1, <2>1, MakeTyped DEF Shape
  <2>3. r \in TaskRecord
    BY <1>1, <2>2 DEF TaskRecord, Steps, Things, Items
  <2>4. Shape(r) /\ r.scope = task[t].scope /\ r.at = "load"
    BY <1>1, <2>2 DEF TaskRecord, Shape, ActorSteps
  <2>5. Narrows(t) /\ task'[t].at = "load"
    BY <1>1, <1>2, <2>1, <2>3, <2>4 DEF Narrows
  <2> QED
    BY <1>2, <2>5, PasswordsKept
<1>4. CASE Go(t, "ok")
  BY <1>1, <1>2, <1>4, GoKeeps DEF Steps, Ended
<1> QED
  BY <1>3, <1>4 DEF GenerateKeyPair

LEMMA SetPasswordKeeps ==
  ASSUME StorageInv, NEW t \in Tasks, SetPassword(t), UNCHANGED fileVars
  PROVE  StorageInv'
<1> USE DEF StorageInv, TypeOK, StoreTypeOK
<1> DEFINE a == task[t].item
<1>1. /\ task[t] \in TaskRecord /\ Shape(task[t]) /\ Working(t)
      /\ a \in Actors \cap task[t].scope /\ task[t].at = "password" /\ task[t].word \in Secrets
  BY DEF SetPassword, At, Working, Ended, Shapes, Shape, ActorSteps, TaskRecord
<1>2. StorageTyped' /\ disturbed' = disturbed
  BY <1>1 DEF SetPassword, StorageTyped, KeysTypeOK, AccountsTypeOK,
              metaVars, colVars, oauthVars, keyVars, fileVars
<1>3. PICK step \in {"load", "client", "ok", "failed"} : Go(t, step)
  BY DEF SetPassword, AfterPassword, AfterPasswordError
<1>4. step \notin Ended => Shape([task[t] EXCEPT !.at = step])
  BY <1>1, ShapeStays DEF Steps, Ended, ActorSteps
<1>5. Narrows(t) /\ task'[t].at # "meta"
  <2>1. Narrows(t)
    BY <1>1, <1>2, <1>3, <1>4, GoNarrows, EndNarrows DEF Steps, Ended
  <2> QED
    BY <2>1, <1>1, <1>3 DEF Go, Moved, Resting, Blank, TaskRecord
<1>6. ASSUME NEW u \in Tasks \ {t}, At(u, "meta"), task[u].item = a
      PROVE  a \in disturbed
  BY <1>1, <1>6 DEF NoSilentOverlap, Shapes, Shape, ActorSteps, Working, Ended, At
<1>7. ReadIsCurrent'
  <2> SUFFICES ASSUME NEW u \in Tasks, At(u, "meta")', task'[u].item \notin disturbed'
               PROVE  task'[u].read = password'[task'[u].item]
    BY DEF ReadIsCurrent
  <2>1. u # t /\ task'[u] = task[u]
    BY <1>5, TasksKept DEF At
  <2>2. task[u].item # a /\ task[u].item \in Actors
    BY <1>2, <1>6, <2>1 DEF At, Shapes, Shape, ActorSteps
  <2> QED
    BY <1>2, <2>1, <2>2 DEF SetPassword, ReadIsCurrent, At, metaVars
<1>8. PasswordKept'
  BY <1>1, <1>2 DEF SetPassword, PasswordKept, KeysTypeOK
<1> QED
  BY <1>2, <1>5, <1>7, <1>8, TasksKept DEF StorageTyped

LEMMA SaveMetadataForItemsKeeps ==
  ASSUME StorageInv, NEW t \in Tasks, SaveMetadataForItems(t), UNCHANGED fileVars
  PROVE  StorageInv'
<1> USE DEF StorageInv, TypeOK, StoreTypeOK
<1>1. /\ task[t] \in TaskRecord /\ Shape(task[t]) /\ Working(t)
      /\ task[t].job = "restore" /\ task[t].at = "restore"
      /\ task[t].queue \subseteq Actors \cap task[t].scope
      /\ task[t].key \in Secrets /\ task[t].word \in Secrets
  BY DEF SaveMetadataForItems, At, Working, Ended, Shapes, Shape, TaskRecord
<1>2. CASE task[t].queue = {} /\ Go(t, "ok") /\ UNCHANGED <<metaVars, given, torn, rekeyed>>
  <2>1. StorageTyped' /\ UNCHANGED <<password, given, disturbed>>
    BY <1>2 DEF SaveMetadataForItems, StorageTyped, KeysTypeOK, AccountsTypeOK,
                metaVars, colVars, oauthVars, keyVars, fileVars
  <2> QED
    BY <1>1, <1>2, <2>1, GoKeeps DEF Steps, Ended
<1>3. CASE \E a \in task[t].queue :
          /\ Take(t, a, "restore")
          /\ \/ /\ private' = [private EXCEPT ![a] = task[t].key]
                /\ password' = [password EXCEPT ![a] = task[t].word]
                /\ given' = [given EXCEPT ![a] = task[t].word]
                /\ torn' = IF task[t].key = stored[a].key THEN torn \ {a} ELSE torn \cup {a}
                /\ rekeyed' = (rekeyed \/ Rekeys(a, task[t].key))
             \/ UNCHANGED <<metaVars, given, torn, rekeyed>>
  <2>1. PICK a \in task[t].queue :
          /\ Take(t, a, "restore")
          /\ \/ /\ private' = [private EXCEPT ![a] = task[t].key]
                /\ password' = [password EXCEPT ![a] = task[t].word]
                /\ given' = [given EXCEPT ![a] = task[t].word]
                /\ torn' = IF task[t].key = stored[a].key THEN torn \ {a} ELSE torn \cup {a}
                /\ rekeyed' = (rekeyed \/ Rekeys(a, task[t].key))
             \/ UNCHANGED <<metaVars, given, torn, rekeyed>>
    BY <1>3
  <2>2. StorageTyped' /\ disturbed' = disturbed
    BY <1>1, <2>1 DEF SaveMetadataForItems, StorageTyped, KeysTypeOK, AccountsTypeOK, Rekeys,
                      metaVars, colVars, oauthVars, keyVars, fileVars
  <2>3. Shape([task[t] EXCEPT !.item = a, !.queue = @ \ {a}, !.at = "restore"])
    BY <1>1 DEF Shape, TaskRecord, ActorSteps
  <2>4. Narrows(t)
    BY <1>1, <2>1, <2>2, <2>3, TakeNarrows DEF Steps
  <2>5. task'[t].at = "restore"
    BY <1>1, <2>1 DEF Take, TaskRecord
  <2>6. ASSUME NEW u \in Tasks \ {t}, At(u, "meta"), task[u].item = a
        PROVE  a \in disturbed
    BY <1>1, <2>6 DEF NoSilentOverlap, Shapes, Shape, ActorSteps, Working, Ended, At
  <2>7. ReadIsCurrent'
    <3> SUFFICES ASSUME NEW u \in Tasks, At(u, "meta")', task'[u].item \notin disturbed'
                 PROVE  task'[u].read = password'[task'[u].item]
      BY DEF ReadIsCurrent
    <3>1. u # t /\ task'[u] = task[u]
      BY <2>4, <2>5, TasksKept DEF At
    <3>2. task[u].item # a /\ task[u].item \in Actors
      BY <2>2, <2>6, <3>1 DEF At, Shapes, Shape, ActorSteps
    <3> QED
      BY <2>1, <2>2, <3>1, <3>2 DEF ReadIsCurrent, At, metaVars
  <2>8. PasswordKept'
    BY <1>1, <2>1, <2>2 DEF PasswordKept, KeysTypeOK, metaVars
  <2> QED
    BY <2>2, <2>4, <2>7, <2>8, TasksKept DEF StorageTyped
<1> QED
  BY <1>2, <1>3 DEF SaveMetadataForItems

LEMMA KeyBeginningsKeep ==
  ASSUME StorageInv, NEW t \in Tasks, UNCHANGED fileVars,
         \/ \E scope \in Scopes : GenKeys(t, scope)
         \/ \E a \in Actors : ChangePassword(t, a)
         \/ \E scope \in Scopes : ImportMetadata(t, scope, OperatorSecret)
  PROVE  StorageInv'
<1> USE DEF StorageInv, TypeOK, StoreTypeOK
<1>1. CASE \E scope \in Scopes : GenKeys(t, scope)
  <2>1. PICK scope \in Scopes : GenKeys(t, scope)
    BY <1>1
  <2>2. StorageTyped' /\ UNCHANGED <<password, given>>
    BY <2>1 DEF GenKeys, Begin, StorageTyped, KeysTypeOK, AccountsTypeOK,
                metaVars, colVars, oauthVars, keyVars, fileVars
  <2>3. /\ Begin(t, "genkeys", "each", Service, scope, NoSecret, NoSecret)
        /\ scope \in SUBSET Things /\ scope \subseteq Actors
    BY <2>1 DEF GenKeys, Things, Items
  <2>4. NoSecret \in Secrets /\ Service \in Things /\ "genkeys" \in Jobs /\ "each" \in Steps
    BY DEF NoSecret, Secrets, Things, Items, Jobs, Steps
  <2> QED
    BY <2>2, <2>3, <2>4, BeginKeeps DEF ActorSteps
<1>2. CASE \E a \in Actors : ChangePassword(t, a)
  <2>1. PICK a \in Actors : ChangePassword(t, a)
    BY <1>2
  <2>2. NoSecret \in Secrets /\ fresh + 1 \in Secrets /\ fresh' \in Secrets
    BY <2>1, MakeTyped DEF ChangePassword, NoSecret, Secrets
  <2>3. StorageTyped' /\ UNCHANGED <<password, given>>
    BY <2>1, <2>2 DEF ChangePassword, StorageTyped, KeysTypeOK, AccountsTypeOK,
                metaVars, colVars, oauthVars, keyVars, fileVars
  <2>4. Begin(t, "passwd", "password", a, {a}, NoSecret, fresh + 1)
    BY <2>1 DEF ChangePassword
  <2>5. a \in Things /\ {a} \in SUBSET Things /\ "passwd" \in Jobs /\ "password" \in Steps
    BY DEF Things, Items, Jobs, Steps
  <2> DEFINE word == fresh + 1
  <2>6. word \in Secrets /\ Begin(t, "passwd", "password", a, {a}, NoSecret, word)
    BY <2>2, <2>4
  <2> HIDE DEF word
  <2> QED
    BY <2>2, <2>3, <2>5, <2>6, BeginKeeps DEF ActorSteps
<1>3. CASE \E scope \in Scopes : ImportMetadata(t, scope, OperatorSecret)
  <2>1. PICK scope \in Scopes : ImportMetadata(t, scope, OperatorSecret)
    BY <1>3
  <2>2. StorageTyped' /\ UNCHANGED <<password, given>>
    BY <2>1 DEF ImportMetadata, StorageTyped, KeysTypeOK, AccountsTypeOK,
                metaVars, colVars, oauthVars, keyVars, fileVars
  <2>3. /\ Begin(t, "restore", "restore", Service, scope, OperatorSecret, OperatorSecret)
        /\ scope \in SUBSET Things /\ scope \subseteq Actors
    BY <2>1 DEF ImportMetadata, Things, Items
  <2>4. OperatorSecret \in Secrets /\ Service \in Things /\ "restore" \in Jobs /\ "restore" \in Steps
    BY DEF OperatorSecret, Secrets, Things, Items, Jobs, Steps
  <2> QED
    BY <2>2, <2>3, <2>4, BeginKeeps DEF ActorSteps
<1> QED
  BY <1>1, <1>2, <1>3

LEMMA KeyStepsKeep ==
  ASSUME StorageInv, NEW t \in Tasks, KeySteps(t), UNCHANGED fileVars
  PROVE  StorageInv'
BY LoadMetadataKeeps, SaveMetadataKeeps, SaveActorKeeps, UpdateKeeps, GenerateKeyPairKeeps,
   SetPasswordKeeps, SaveMetadataForItemsKeeps, KeyBeginningsKeep DEF KeySteps

-----------------------------------------------------------------------------
(* Objects *)

LEMMA TakeShapes ==
  ASSUME NEW r \in TaskRecord, Shape(r), NEW x, NEW step \in {"each", "unlink", "save", "make"},
         step = "make" => x \in Collections
  PROVE  Shape([r EXCEPT !.item = x, !.queue = @ \ {x}, !.at = step])
BY DEF Shape, TaskRecord, ActorSteps

\* Where a step on objects may go
LEMMA ObjectGoKeeps ==
  ASSUME StorageInv, NEW t \in Tasks, Working(t),
         NEW step \in {"ok", "failed", "each", "remove"}, Go(t, step),
         disturbed' = disturbed, StorageTyped', UNCHANGED <<password, given>>
  PROVE  StorageInv'
<1>1. task[t] \in TaskRecord /\ Shape(task[t])
  BY DEF StorageInv, TypeOK, StoreTypeOK, Shapes
<1>2. step \notin Ended => Shape([task[t] EXCEPT !.at = step])
  BY <1>1, ShapeStays DEF Ended, Steps, ActorSteps
<1> QED
  BY <1>2, GoKeeps DEF Steps, Ended

LEMMA ObjectTakeKeeps ==
  ASSUME StorageInv, NEW t \in Tasks, Working(t), NEW x,
         NEW step \in {"each", "unlink", "save", "make"}, step = "make" => x \in Collections,
         Take(t, x, step), disturbed' \in {disturbed, disturbed \cup {x}},
         StorageTyped', UNCHANGED <<password, given>>
  PROVE  StorageInv'
<1>1. task[t] \in TaskRecord /\ Shape(task[t])
  BY DEF StorageInv, TypeOK, StoreTypeOK, Shapes
<1>2. Shape([task[t] EXCEPT !.item = x, !.queue = @ \ {x}, !.at = step])
  BY <1>1, TakeShapes
<1>3. disturbed \subseteq disturbed' /\ disturbed' \subseteq Things
  BY <1>1 DEF Take, TaskRecord, StorageInv, TypeOK, StoreTypeOK
<1> QED
  BY <1>2, <1>3, TakeKeeps DEF Steps

\* A step that changes neither its record nor what is disturbed
LEMMA StayNarrows ==
  ASSUME StorageInv, NEW t \in Tasks, Working(t), UNCHANGED <<task, disturbed>>
  PROVE  Narrows(t)
<1>1. task' = [task EXCEPT ![t] = task[t]] /\ task[t] \in TaskRecord /\ Shape(task[t])
  BY DEF StorageInv, TypeOK, StoreTypeOK, Shapes
<1> QED
  BY <1>1 DEF Narrows, StorageInv, TypeOK, StoreTypeOK

LEMMA ObjectBeginningsKeep ==
  ASSUME StorageInv, NEW t \in Tasks, UNCHANGED fileVars,
         \/ \E n \in Notes : AddObject(t, n)
         \/ \E scope \in Scopes : Delete(t, scope)
         \/ \E scope \in Files, k \in {NoSecret, OperatorSecret} : Import(t, scope, k)
         \/ FixCollections(t)
  PROVE  StorageInv'
<1>1. StorageTyped' /\ UNCHANGED <<password, given>>
  BY DEF AddObject, Delete, Import, FixCollections, Begin, StorageInv, TypeOK, StoreTypeOK,
         StorageTyped, KeysTypeOK, AccountsTypeOK, metaVars, colVars, oauthVars, keyVars, fileVars
<1>2. NoSecret \in Secrets /\ OperatorSecret \in Secrets /\ Service \in Things
  BY DEF NoSecret, OperatorSecret, Secrets, Things, Items
<1>3. ASSUME NEW n \in Notes, AddObject(t, n)
      PROVE  StorageInv'
  <2>1. /\ Begin(t, "addobject", "create", n, {n}, NoSecret, NoSecret)
        /\ n \in Things /\ {n} \in SUBSET Things /\ "addobject" \in Jobs /\ "create" \in Steps
    BY <1>3 DEF AddObject, Things, Items, Jobs, Steps
  <2> QED
    BY <1>1, <1>2, <2>1, BeginKeeps DEF ActorSteps
<1>4. ASSUME NEW scope \in Scopes, Delete(t, scope)
      PROVE  StorageInv'
  <2>1. /\ Begin(t, "delete", "delete", Service, scope, NoSecret, NoSecret)
        /\ scope \in SUBSET Things /\ "delete" \in Jobs /\ "delete" \in Steps
    BY <1>4 DEF Delete, Things, Items, Jobs, Steps
  <2> QED
    BY <1>1, <1>2, <2>1, BeginKeeps DEF ActorSteps
<1>5. ASSUME NEW scope \in Files, NEW k \in {NoSecret, OperatorSecret}, Import(t, scope, k)
      PROVE  StorageInv'
  <2>1. /\ Begin(t, "import", "process", Service, scope, k, NoSecret)
        /\ scope \in SUBSET Things /\ "import" \in Jobs /\ "process" \in Steps /\ k \in Secrets
    BY <1>2, <1>5 DEF Import, Things, Items, Jobs, Steps
  <2> QED
    BY <1>1, <1>2, <2>1, BeginKeeps DEF ActorSteps
<1>6. CASE FixCollections(t)
  <2>1. /\ Begin(t, "repair", "each", Service, Collections, NoSecret, NoSecret)
        /\ Collections \in SUBSET Things /\ "repair" \in Jobs /\ "each" \in Steps
    BY <1>6 DEF FixCollections, Things, Jobs, Steps
  <2> QED
    BY <1>1, <1>2, <2>1, BeginKeeps DEF ActorSteps
<1> QED
  BY <1>3, <1>4, <1>5, <1>6

LEMMA CreateKeeps ==
  ASSUME StorageInv, NEW t \in Tasks, Create(t), UNCHANGED fileVars
  PROVE  StorageInv'
<1> USE DEF StorageInv, TypeOK, StoreTypeOK
<1>1. /\ task[t] \in TaskRecord /\ Shape(task[t]) /\ Working(t) /\ task[t].at = "create"
  BY DEF Create, At, Working, Ended, Shapes
<1>2. /\ task[t].item \in task[t].scope
      /\ task[t].job # "addobject" => task[t].item \in Actors
  BY <1>1 DEF Shape
<1>3. task[t].item \in Items => Live(task[t].seen[task[t].item].key) \in Record
  BY <1>1 DEF TaskRecord, Record, Live
<1>4. StorageTyped' /\ UNCHANGED <<password, given, disturbed>>
  <2>1. stored' \in [Items -> Record]
    BY <1>3 DEF Create
  <2>2. torn' \subseteq Actors
    BY DEF Create, KeysTypeOK
  <2> QED
    BY <2>1, <2>2 DEF Create, StorageTyped, KeysTypeOK, AccountsTypeOK,
                      metaVars, colVars, oauthVars, keyVars, fileVars
<1>5. PICK step \in {"ok", "client", "load", "failed"} :
        Go(t, step) /\ (step \in {"client", "load"} => task[t].job # "addobject")
  BY DEF Create, AfterCreate, Bootstraps
<1>6. step \notin Ended => Shape([task[t] EXCEPT !.at = step])
  BY <1>1, <1>2, <1>5, ShapeStays DEF Steps, Ended, ActorSteps
<1> QED
  BY <1>1, <1>4, <1>5, <1>6, GoKeeps DEF Steps, Ended

LEMMA LoadObjectsKeeps ==
  ASSUME StorageInv, NEW t \in Tasks, LoadObjects(t), UNCHANGED fileVars
  PROVE  StorageInv'
<1> USE DEF StorageInv, TypeOK, StoreTypeOK
<1>1. Working(t) /\ task[t] \in TaskRecord /\ Shape(task[t]) /\ task[t].at = "delete"
  BY DEF LoadObjects, At, Working, Ended, Shapes
<1>2. StorageTyped' /\ UNCHANGED <<password, given, disturbed>>
  BY DEF LoadObjects, StorageTyped, KeysTypeOK, AccountsTypeOK,
         metaVars, colVars, oauthVars, keyVars, fileVars
<1>3. CASE Go(t, "failed")
  BY <1>1, <1>2, <1>3, ObjectGoKeeps
<1> DEFINE live == {i \in task[t].scope : Lives(i)}
<1>4. ASSUME NEW found \in SUBSET live,
             task' = [task EXCEPT ![t] = [task[t] EXCEPT
                        !.at = "bury", !.queue = found, !.left = live \ found]]
      PROVE  StorageInv'
  <2> DEFINE r == [task[t] EXCEPT !.at = "bury", !.queue = found, !.left = live \ found]
  <2>1. task' = [task EXCEPT ![t] = r] /\ r.scope = task[t].scope /\ r.at = "bury" /\ r.job = task[t].job
    BY <1>1, <1>4 DEF TaskRecord
  <2>2. found \subseteq task[t].scope /\ live \subseteq Things
    BY <1>1 DEF TaskRecord
  <2>3. r \in TaskRecord
    BY <1>1, <2>2 DEF TaskRecord, Steps
  <2>4. Shape(r)
    BY <1>1, <2>1 DEF Shape, ActorSteps
  <2>5. Narrows(t) /\ task'[t].at # "meta"
    BY <1>1, <1>2, <2>1, <2>3, <2>4 DEF Narrows
  <2> QED
    BY <1>2, <2>5, PasswordsKept
<1> QED
  BY <1>3, <1>4 DEF LoadObjects

LEMMA DeleteObjectsKeeps ==
  ASSUME StorageInv, NEW t \in Tasks, DeleteObjects(t), UNCHANGED fileVars
  PROVE  StorageInv'
<1>1. Working(t)
  BY DEF DeleteObjects, At, Working, Ended
<1>2. PICK step \in {"ok", "remove", "failed"} : Go(t, step)
  BY DEF DeleteObjects, AfterDelete
<1>3. PICK gone : stored' = [i \in Items |-> IF i \in gone /\ Exists(i) THEN Tombstone ELSE stored[i]]
  BY DEF DeleteObjects
<1>4. stored' \in [Items -> Record]
  BY <1>3 DEF StorageInv, TypeOK, StoreTypeOK, Tombstone, Record, Secrets, NoSecret
<1>5. StorageTyped' /\ UNCHANGED <<password, given, disturbed>>
  BY <1>4 DEF DeleteObjects, StorageInv, TypeOK, StoreTypeOK, StorageTyped, KeysTypeOK, AccountsTypeOK,
              metaVars, colVars, oauthVars, keyVars, fileVars
<1> QED
  BY <1>1, <1>2, <1>5, ObjectGoKeeps

LEMMA MoveOrCopyKeeps ==
  ASSUME StorageInv, NEW t \in Tasks, NEW job \in {"move", "copy"}, NEW to \in Collections,
         NEW from \in Scopes, MoveOrCopy(t, job, to, from), UNCHANGED fileVars
  PROVE  StorageInv'
<1> DEFINE scope == from \cup {to}
           r == [Blank(job, "each", scope) EXCEPT !.queue = from, !.to = to]
<1>1. scope \in SUBSET Things /\ from \in SUBSET Things /\ to \in Things
  BY DEF Things, Items
<1>2. Blank(job, "each", scope) \in TaskRecord
  BY <1>1 DEF Blank, TaskRecord, Things, Items, Record, Absent, Secrets, NoSecret, Jobs, Steps
<1>3. r \in TaskRecord
  BY <1>1, <1>2 DEF TaskRecord
<1>4. Shape(r) /\ r.scope = scope /\ r.at = "each"
  BY DEF Shape, Blank, ActorSteps
<1>5. task' = [task EXCEPT ![t] = r] /\ Overlap(t, scope)
  BY DEF MoveOrCopy
<1>6. Widens(t)
  BY <1>1, <1>3, <1>4, <1>5 DEF Widens
<1>7. StorageTyped' /\ UNCHANGED <<password, given>>
  BY DEF MoveOrCopy, StorageInv, TypeOK, StoreTypeOK, StorageTyped, KeysTypeOK, AccountsTypeOK,
         metaVars, colVars, oauthVars, keyVars, fileVars
<1>8. task'[t].at = "each"
  BY <1>4, <1>5 DEF StorageInv, TypeOK, StoreTypeOK
<1> QED
  BY <1>6, <1>7, <1>8, PasswordsKept

LEMMA MovingKeeps ==
  ASSUME StorageInv, NEW t \in Tasks, Place(t) \/ LoopFails(t) \/ Unlink(t), UNCHANGED fileVars
  PROVE  StorageInv'
<1> USE DEF StorageInv, TypeOK, StoreTypeOK
<1>1. Working(t)
  BY DEF Place, LoopFails, Unlink, Looping, At, Working, Ended
<1>2. StorageTyped' /\ UNCHANGED <<password, given, disturbed>>
  <2>1. CASE Place(t)
    <3>1. listed' \in [Collections -> SUBSET Items]
      BY <2>1 DEF Place
    <3> QED
      BY <2>1, <3>1 DEF Place, StorageTyped, KeysTypeOK, AccountsTypeOK, metaVars, oauthVars, keyVars, fileVars
  <2>2. CASE LoopFails(t)
    BY <2>2 DEF LoopFails, StorageTyped, KeysTypeOK, AccountsTypeOK,
                metaVars, colVars, oauthVars, keyVars, fileVars
  <2>3. CASE Unlink(t)
    <3>1. stored' \in [Items -> Record]
      BY <2>3 DEF Unlink, Absent, Record, Secrets, NoSecret
    <3> QED
      BY <2>3, <3>1 DEF Unlink, StorageTyped, KeysTypeOK, AccountsTypeOK,
                        metaVars, colVars, oauthVars, keyVars, fileVars
  <2> QED
    BY <2>1, <2>2, <2>3
<1>3. CASE Place(t)
  <2>1. PICK i \in Items, step \in {"each", "unlink"} : Take(t, i, step)
    BY <1>3 DEF Place
  <2> QED
    BY <1>1, <1>2, <2>1, ObjectTakeKeeps
<1>4. CASE LoopFails(t) \/ Unlink(t)
  <2>1. PICK step \in {"each", "failed"} : Go(t, step)
    BY <1>4 DEF LoopFails, Unlink
  <2> QED
    BY <1>1, <1>2, <2>1, ObjectGoKeeps
<1> QED
  BY <1>3, <1>4

\* A loop that turns to the members of a collection
LEMMA MembersKeep ==
  ASSUME StorageInv, NEW t \in Tasks, Working(t), task[t].at = "each",
         task[t].job \notin {"genkeys", "restore"},
         NEW members \in SUBSET Items, NEW queue \in SUBSET Things, NEW scope \in SUBSET Things,
         NEW left \in SUBSET Things, NEW seen \in [Items -> Record],
         scope \subseteq task[t].scope \cup members,
         task' = [task EXCEPT ![t] =
                    [task[t] EXCEPT !.queue = queue, !.scope = scope, !.left = left, !.seen = seen]],
         Overlap(t, members), StorageTyped', UNCHANGED <<password, given>>
  PROVE  StorageInv'
<1> DEFINE r == [task[t] EXCEPT !.queue = queue, !.scope = scope, !.left = left, !.seen = seen]
<1>1. task[t] \in TaskRecord /\ Shape(task[t])
  BY DEF StorageInv, TypeOK, StoreTypeOK, Shapes
<1>2. r \in TaskRecord
  BY <1>1 DEF TaskRecord
<1>3. Shape(r) /\ r.scope = scope /\ r.at = "each"
  BY <1>1 DEF Shape, ActorSteps, TaskRecord
<1>4. Widens(t)
  BY <1>2, <1>3 DEF Widens, Things
<1>5. task'[t].at = "each"
  BY <1>3 DEF StorageInv, TypeOK, StoreTypeOK
<1> QED
  BY <1>4, <1>5, PasswordsKept

LEMMA ExpandKeeps ==
  ASSUME StorageInv, NEW t \in Tasks, Expand(t), UNCHANGED fileVars
  PROVE  StorageInv'
<1> USE DEF StorageInv, TypeOK, StoreTypeOK
<1>1. /\ Working(t) /\ task[t].at = "each" /\ task[t].job \notin {"genkeys", "restore"}
      /\ task[t] \in TaskRecord
  BY DEF Expand, Looping, At, Working, Ended
<1>2. StorageTyped' /\ UNCHANGED <<password, given>>
  BY DEF Expand, StorageTyped, KeysTypeOK, AccountsTypeOK, metaVars, colVars, oauthVars, keyVars, fileVars
<1>3. PICK c \in task[t].queue \cap made :
        LET members == {i \in listed[c] : Exists(i)} IN
        /\ task' = [task EXCEPT ![t] = [task[t] EXCEPT
                      !.queue = members, !.scope = @ \cup members,
                      !.left = (@ \cup task[t].queue) \ (members \cup {c})]]
        /\ Overlap(t, members)
  BY DEF Expand
<1> DEFINE members == {i \in listed[c] : Exists(i)}
           scope == task[t].scope \cup members
           left == (task[t].left \cup task[t].queue) \ (members \cup {c})
           seen == task[t].seen
<1>4. members \in SUBSET Items /\ members \in SUBSET Things
  BY DEF Things
<1>5. /\ scope \in SUBSET Things /\ left \in SUBSET Things /\ seen \in [Items -> Record]
      /\ scope \subseteq task[t].scope \cup members
  BY <1>1, <1>4 DEF TaskRecord
<1>6. task' = [task EXCEPT ![t] =
                 [task[t] EXCEPT !.queue = members, !.scope = scope, !.left = left, !.seen = seen]]
  BY <1>1, <1>3 DEF TaskRecord
<1>7. Overlap(t, members)
  BY <1>3
<1> HIDE DEF members, scope, left, seen
<1> QED
  BY <1>1, <1>2, <1>4, <1>5, <1>6, <1>7, MembersKeep

LEMMA ActivityTyped ==
  ASSUME StorageInv, NEW t \in Tasks, NEW i \in task[t].queue \cap Items, Activity(t, i)
  PROVE  stored' \in [Items -> Record] /\ listed' \in [Collections -> SUBSET Items]
           /\ torn' \subseteq Actors
<1> USE DEF StorageInv, TypeOK, StoreTypeOK, KeysTypeOK
<1>1. Live(FileKey(t, i)) \in Record /\ Tombstone \in Record
  BY DEF FileKey, Live, Tombstone, Record, TaskRecord, Secrets, NoSecret
<1>2. CASE ImportItem(t, i) /\ UNCHANGED listed
  BY <1>1, <1>2 DEF ImportItem
<1>3. CASE stored' = [stored EXCEPT ![i] = Tombstone] /\ UNCHANGED <<listed, torn>>
  BY <1>1, <1>3
<1>4. CASE /\ \E c \in made : listed' \in {[listed EXCEPT ![c] = @ \cup {i}],
                                         [listed EXCEPT ![c] = @ \ {i}]}
           /\ UNCHANGED <<stored, torn>>
  BY <1>4
<1> QED
  BY <1>2, <1>3, <1>4 DEF Activity

LEMMA ImportingKeeps ==
  ASSUME StorageInv, NEW t \in Tasks, ProcessActivities(t) \/ ProbeObject(t) \/ SaveObject(t),
         UNCHANGED fileVars
  PROVE  StorageInv'
<1> USE DEF StorageInv, TypeOK, StoreTypeOK
<1>1. Working(t) /\ task[t] \in TaskRecord /\ task[t].at # "meta"
  BY DEF ProcessActivities, ProbeObject, SaveObject, Looping, At, Working, Ended
<1>2. ASSUME NEW i
      PROVE  Live(FileKey(t, i)) \in Record
  BY <1>1 DEF FileKey, Live, Record, TaskRecord, Secrets, NoSecret
<1>3. ASSUME NEW i, ImportItem(t, i)
      PROVE  stored' \in [Items -> Record] /\ torn' \subseteq Actors
  BY <1>2, <1>3 DEF ImportItem, KeysTypeOK
<1>4. StorageTyped' /\ UNCHANGED <<password, given>>
  <2>1. ASSUME NEW i \in task[t].queue \cap Items, Activity(t, i)
        PROVE  stored' \in [Items -> Record] /\ listed' \in [Collections -> SUBSET Items]
                 /\ torn' \subseteq Actors
    BY <2>1, ActivityTyped
  <2>2. CASE ProcessActivities(t)
    <3>1. stored' \in [Items -> Record] /\ listed' \in [Collections -> SUBSET Items]
            /\ torn' \subseteq Actors
      BY <2>1, <2>2 DEF ProcessActivities, KeysTypeOK
    <3> QED
      BY <2>2, <3>1 DEF ProcessActivities, StorageTyped, KeysTypeOK, AccountsTypeOK,
                        metaVars, oauthVars, fileVars
  <2>3. CASE ProbeObject(t) \/ SaveObject(t)
    BY <1>3, <2>3 DEF ProbeObject, SaveObject, StorageTyped, KeysTypeOK, AccountsTypeOK,
                      metaVars, colVars, oauthVars, keyVars, fileVars
  <2> QED
    BY <2>2, <2>3
<1>5. CASE ProcessActivities(t) /\ UNCHANGED task
  <2>1. Narrows(t) /\ task'[t].at # "meta"
    BY <1>1, <1>5, StayNarrows DEF ProcessActivities
  <2> QED
    BY <1>4, <2>1, PasswordsKept
<1>6. CASE (ProcessActivities(t) \/ SaveObject(t)) /\ Go(t, "each")
  <2>1. disturbed' = disturbed
    BY <1>6 DEF ProcessActivities, SaveObject
  <2> QED
    BY <1>1, <1>4, <1>6, <2>1, ObjectGoKeeps
<1>7. CASE ProbeObject(t)
  <2>1. PICK i : \/ Take(t, i, "each") /\ disturbed' = disturbed
                 \/ Take(t, i, "save") /\ disturbed' = disturbed
                 \/ Take(t, i, "save") /\ disturbed' = disturbed \cup {i}
    BY <1>7 DEF ProbeObject
  <2> QED
    BY <1>1, <1>4, <2>1, ObjectTakeKeeps
<1> QED
  BY <1>5, <1>6, <1>7 DEF ProcessActivities, SaveObject

LEMMA RepairingKeeps ==
  ASSUME StorageInv, NEW t \in Tasks, LoadCollection(t) \/ MakeCollection(t) \/ SaveMember(t),
         UNCHANGED fileVars
  PROVE  StorageInv'
<1> USE DEF StorageInv, TypeOK, StoreTypeOK
<1>1. Working(t) /\ task[t] \in TaskRecord /\ Shape(task[t])
  BY DEF LoadCollection, MakeCollection, SaveMember, Looping, At, Working, Ended, Shapes
<1>2. CASE LoadCollection(t)
  <2>1. StorageTyped' /\ UNCHANGED <<password, given>>
    BY <1>2 DEF LoadCollection, StorageTyped, KeysTypeOK, AccountsTypeOK,
                metaVars, colVars, oauthVars, keyVars, fileVars
  <2>2. PICK c \in task[t].queue :
          \/ c \notin made /\ Take(t, c, "make") /\ UNCHANGED disturbed
          \/ Take(t, c, "each") /\ UNCHANGED disturbed
          \/ LET members == {i \in listed[c] : Exists(i)} IN
             /\ c \in made
             /\ task' = [task EXCEPT ![t] = [task[t] EXCEPT
                  !.queue = (@ \ {c}) \cup members, !.scope = @ \cup members,
                  !.seen = [i \in Items |-> IF i \in members THEN stored[i] ELSE @[i]]]]
             /\ Overlap(t, members)
    BY <1>2 DEF LoadCollection
  <2>3. c \in Collections
    BY <1>1, <1>2 DEF LoadCollection, TaskRecord, Things
  <2>4. CASE \E step \in {"make", "each"} : Take(t, c, step) /\ UNCHANGED disturbed
    BY <1>1, <2>1, <2>3, <2>4, ObjectTakeKeeps
  <2> DEFINE members == {i \in listed[c] : Exists(i)}
             queue == (task[t].queue \ {c}) \cup members
             scope == task[t].scope \cup members
             left == task[t].left
             seen == [i \in Items |-> IF i \in members THEN stored[i] ELSE task[t].seen[i]]
  <2>5. CASE /\ task' = [task EXCEPT ![t] = [task[t] EXCEPT
                  !.queue = (@ \ {c}) \cup members, !.scope = @ \cup members,
                  !.seen = [i \in Items |-> IF i \in members THEN stored[i] ELSE @[i]]]]
             /\ Overlap(t, members)
    <3>1. members \in SUBSET Items
      BY <2>3
    <3>2. /\ queue \in SUBSET Things /\ scope \in SUBSET Things /\ left \in SUBSET Things
          /\ scope \subseteq task[t].scope \cup members
      BY <1>1, <3>1 DEF TaskRecord, Things
    <3>3. seen \in [Items -> Record]
      BY <1>1 DEF TaskRecord
    <3>4. task' = [task EXCEPT ![t] =
                     [task[t] EXCEPT !.queue = queue, !.scope = scope, !.left = left, !.seen = seen]]
      BY <1>1, <2>5 DEF TaskRecord
    <3>5. Overlap(t, members)
      BY <2>5
    <3>6. task[t].at = "each" /\ task[t].job \notin {"genkeys", "restore"}
      BY <1>2 DEF LoadCollection, Looping, At
    <3> HIDE DEF members, queue, scope, left, seen
    <3> QED
      BY <1>1, <2>1, <3>1, <3>2, <3>3, <3>4, <3>5, <3>6, MembersKeep
  <2> QED
    BY <2>2, <2>4, <2>5
<1>3. CASE MakeCollection(t)
  <2>1. task[t].item \in Collections
    BY <1>1, <1>3 DEF MakeCollection, At, Shape
  <2>2. StorageTyped' /\ UNCHANGED <<password, given, disturbed>>
    BY <1>3, <2>1 DEF MakeCollection, StorageTyped, KeysTypeOK, AccountsTypeOK,
                      metaVars, colVars, oauthVars, keyVars, fileVars
  <2> QED
    BY <1>1, <1>3, <2>2, ObjectGoKeeps DEF MakeCollection
<1>4. CASE SaveMember(t)
  <2>1. PICK i \in task[t].queue \cap Items :
          /\ stored' \in {stored, [stored EXCEPT ![i] = task[t].seen[i]]}
          /\ task' = [task EXCEPT ![t] = [task[t] EXCEPT !.queue = @ \ {i}, !.scope = @ \ {i}]]
    BY <1>4 DEF SaveMember
  <2> DEFINE r == [task[t] EXCEPT !.queue = @ \ {i}, !.scope = @ \ {i}]
  <2>2. task[t].seen[i] \in Record
    BY <1>1 DEF TaskRecord
  <2>3. StorageTyped' /\ UNCHANGED <<password, given, disturbed>>
    BY <1>4, <2>1, <2>2 DEF SaveMember, StorageTyped, KeysTypeOK, AccountsTypeOK,
                            metaVars, colVars, oauthVars, keyVars, fileVars
  <2>4. r \in TaskRecord
    BY <1>1 DEF TaskRecord
  <2>5. task[t].job = "repair" /\ task[t].at = "each"
    BY <1>4 DEF SaveMember, Looping, At
  <2>6. Shape(r) /\ r.scope \subseteq task[t].scope /\ r.at = "each"
    BY <1>1, <2>5 DEF Shape, ActorSteps, TaskRecord
  <2>7. Narrows(t)
    BY <1>1, <2>1, <2>3, <2>4, <2>6 DEF Narrows
  <2>8. task'[t].at = "each"
    BY <2>1, <2>6
  <2> QED
    BY <2>3, <2>7, <2>8, PasswordsKept
<1> QED
  BY <1>2, <1>3, <1>4

LEMMA LoopEndsKeeps ==
  ASSUME StorageInv, NEW t \in Tasks, NEW job, LoopEnds(t, job), UNCHANGED fileVars
  PROVE  StorageInv'
<1>1. Working(t) /\ Go(t, "ok")
  BY DEF LoopEnds, At, Working, Ended
<1>2. StorageTyped' /\ UNCHANGED <<password, given, disturbed>>
  BY DEF LoopEnds, StorageInv, TypeOK, StoreTypeOK, StorageTyped, KeysTypeOK, AccountsTypeOK,
         metaVars, colVars, oauthVars, keyVars, fileVars
<1> QED
  BY <1>1, <1>2, ObjectGoKeeps

LEMMA ObjectStepsKeep ==
  ASSUME StorageInv, NEW t \in Tasks, ObjectSteps(t), UNCHANGED fileVars
  PROVE  StorageInv'
BY ObjectBeginningsKeep, CreateKeeps, LoadObjectsKeeps, DeleteObjectsKeeps, MoveOrCopyKeeps, MovingKeeps, ExpandKeeps,
   ImportingKeeps, RepairingKeeps, LoopEndsKeeps DEF ObjectSteps

-----------------------------------------------------------------------------
(* Accounts *)

LEMMA BootstrapKeeps ==
  ASSUME StorageInv, NEW t \in Tasks, NEW job \in {"bootstrap", "serve"}, Bootstrap(t, job)
  PROVE  StorageInv'
<1> USE DEF StorageInv, TypeOK, StoreTypeOK
<1> DEFINE seen == [Blank(job, "create", {Service}).seen EXCEPT ![Service] = Live(NoSecret)]
           r == [Blank(job, "create", {Service}) EXCEPT !.seen = seen, !.key = Key, !.word = Password]
<1>0. Key \in Secrets /\ Password \in Secrets
  BY MakeTyped, SecretsAssumption DEF Bootstrap, GetPwAndKey, Key, Password, OperatorSecret, Secrets
<1>1. Blank(job, "create", {Service}) \in TaskRecord
  BY DEF Blank, TaskRecord, Things, Items, Record, Absent, Secrets, NoSecret, Jobs, Steps
<1>2. seen \in [Items -> Record]
  <2>1. Blank(job, "create", {Service}).seen \in [Items -> Record]
    BY <1>1 DEF TaskRecord
  <2>2. Live(NoSecret) \in Record
    BY DEF Live, Record, Secrets, NoSecret
  <2> QED
    BY <2>1, <2>2
<1>3. r \in TaskRecord
  BY <1>0, <1>1, <1>2 DEF TaskRecord
<1>4. Shape(r) /\ r.scope = {Service} /\ r.at = "create"
  BY DEF Shape, Blank, ActorSteps
<1>5. task' = [task EXCEPT ![t] = r] /\ Overlap(t, {Service})
  BY <1>1 DEF Bootstrap, TaskRecord
<1>6. Widens(t)
  BY <1>3, <1>4, <1>5 DEF Widens, Things, Items
<1>7. StorageTyped' /\ UNCHANGED <<password, given>>
  <2>1. fresh' \in Secrets
    BY MakeTyped DEF Bootstrap, GetPwAndKey
  <2>2. AccountsTypeOK'
    BY DEF Bootstrap, GetPwAndKey, AccountsTypeOK
  <2> QED
    BY <2>1, <2>2 DEF Bootstrap, StorageTyped, KeysTypeOK, metaVars, colVars, oauthVars, keyVars
<1>8. task'[t].at = "create"
  BY <1>4, <1>5
<1> QED
  BY <1>6, <1>7, <1>8, PasswordsKept

LEMMA AccountBeginningsKeep ==
  ASSUME StorageInv, NEW t \in Tasks,
         \/ Reset(t)
         \/ \E job \in {"addactor", "addclient"}, a \in Actors : AddAccount(t, job, a)
         \/ \E c \in Actors : DelClient(t, c)
         \/ \E c, a \in Actors : GenAuthToken(t, c, a)
  PROVE  StorageInv'
<1> USE DEF StorageInv, TypeOK, StoreTypeOK
<1> DEFINE new == fresh + 1
<1>1. StorageTyped' /\ UNCHANGED <<password, given>>
  <2>1. fresh' \in Secrets
    BY MakeTyped DEF Reset, AddAccount, DelClient, GenAuthToken
  <2>2. /\ UNCHANGED <<stored, metaVars, colVars, oauthVars, keyVars>>
        /\ AccountsTypeOK'
    BY DEF Reset, AddAccount, DelClient, GenAuthToken, AccountsTypeOK, fileVars
  <2> QED
    BY <2>1, <2>2 DEF StorageTyped, KeysTypeOK, metaVars, colVars, oauthVars, keyVars
<1>2. NoSecret \in Secrets /\ Service \in Things /\ (Make => new \in Secrets)
  BY MakeTyped DEF NoSecret, Secrets, Things, Items
<1>3. CASE Reset(t)
  <2>1. /\ Begin(t, "reset", "clean", Service, Things, new, NoSecret) /\ Make
        /\ "reset" \in Jobs /\ "clean" \in Steps /\ Things \in SUBSET Things
    BY <1>3 DEF Reset, Jobs, Steps
  <2> HIDE DEF new
  <2> QED
    BY <1>1, <1>2, <2>1, BeginKeeps DEF ActorSteps
<1>4. ASSUME NEW job \in {"addactor", "addclient"}, NEW a \in Actors, AddAccount(t, job, a)
      PROVE  StorageInv'
  <2>1. /\ Begin(t, job, "create", a, {a}, new, new) /\ Make
        /\ job \in Jobs /\ "create" \in Steps /\ a \in Things /\ {a} \in SUBSET Things
    BY <1>4 DEF AddAccount, Jobs, Steps, Things, Items
  <2> HIDE DEF new
  <2> QED
    BY <1>1, <1>2, <2>1, BeginKeeps DEF ActorSteps
<1>5. ASSUME NEW c \in Actors, DelClient(t, c)
      PROVE  StorageInv'
  <2>1. /\ Begin(t, "delclient", "delete", c, {c}, NoSecret, NoSecret)
        /\ "delclient" \in Jobs /\ "delete" \in Steps /\ c \in Things /\ {c} \in SUBSET Things
    BY <1>5 DEF DelClient, Jobs, Steps, Things, Items
  <2> QED
    BY <1>1, <1>2, <2>1, BeginKeeps DEF ActorSteps
<1>6. ASSUME NEW c \in Actors, NEW a \in Actors, GenAuthToken(t, c, a)
      PROVE  StorageInv'
  <2>1. /\ Begin(t, "token", "authorize", a, {c, a}, NoSecret, NoSecret)
        /\ "token" \in Jobs /\ "authorize" \in Steps /\ a \in Things /\ {c, a} \in SUBSET Things
    BY <1>6 DEF GenAuthToken, Jobs, Steps, Things, Items
  <2> QED
    BY <1>1, <1>2, <2>1, BeginKeeps DEF ActorSteps
<1> QED
  BY <1>3, <1>4, <1>5, <1>6

LEMMA AccountSavesKeep ==
  ASSUME StorageInv, NEW t \in Tasks,
         \/ SaveClient(t) \/ SaveStreams(t) \/ OpenAgain(t) \/ RemoveClient(t)
         \/ SaveAuthorize(t) \/ SaveAccess(t) \/ Killed(t)
  PROVE  StorageInv'
<1> USE DEF StorageInv, TypeOK, StoreTypeOK
<1>1. Working(t) /\ task[t] \in TaskRecord /\ Shape(task[t])
  BY DEF SaveClient, SaveStreams, OpenAgain, RemoveClient, SaveAuthorize, SaveAccess, Killed,
         At, Working, Ended, Shapes
<1>2. CASE SaveClient(t)
  <2>1. task[t].item \in Actors \cap task[t].scope
    BY <1>1, <1>2 DEF SaveClient, At, Shape, ActorSteps
  <2>2. StorageTyped' /\ UNCHANGED <<password, given, disturbed>>
    BY <1>2, <2>1 DEF SaveClient, StorageTyped, KeysTypeOK, AccountsTypeOK,
                      metaVars, colVars, oauthVars, keyVars, fileVars
  <2>3. PICK step \in {"ok", "load", "password", "failed"} : Go(t, step)
    BY <1>2 DEF SaveClient, AfterClient
  <2>4. step \notin Ended => Shape([task[t] EXCEPT !.at = step])
    BY <1>1, <2>1, ShapeStays DEF Steps, Ended, ActorSteps
  <2> QED
    BY <1>1, <2>2, <2>3, <2>4, GoKeeps DEF Steps, Ended
<1>3. CASE SaveStreams(t)
  <2>1. made' \subseteq Collections
    BY <1>3 DEF SaveStreams
  <2>2. StorageTyped' /\ UNCHANGED <<password, given, disturbed>>
    BY <1>3, <2>1 DEF SaveStreams, StorageTyped, KeysTypeOK, AccountsTypeOK,
                      metaVars, oauthVars, keyVars, fileVars
  <2>3. PICK step \in {"failed", "ok", "open"} : Go(t, step)
    BY <1>3 DEF SaveStreams
  <2>4. step \notin Ended => Shape([task[t] EXCEPT !.at = step])
    BY <1>1, <1>3, ShapeStays DEF SaveStreams, At, Steps, Ended, ActorSteps
  <2> QED
    BY <1>1, <2>2, <2>3, <2>4, GoKeeps DEF Steps, Ended
<1>4. CASE OpenAgain(t)
  <2>1. memory' \in Secrets /\ rekeyed' \in BOOLEAN
    BY <1>1, <1>4 DEF OpenAgain, KeysTypeOK, TaskRecord
  <2>2. StorageTyped' /\ UNCHANGED <<password, given, disturbed>>
    BY <1>4, <2>1 DEF OpenAgain, StorageTyped, KeysTypeOK, AccountsTypeOK,
                      metaVars, colVars, oauthVars, fileVars
  <2>3. PICK step \in {"ok", "failed"} : Go(t, step)
    BY <1>4 DEF OpenAgain
  <2> QED
    BY <1>1, <2>2, <2>3, ObjectGoKeeps
<1>5. CASE RemoveClient(t) \/ SaveAuthorize(t) \/ SaveAccess(t)
  <2>1. StorageTyped' /\ UNCHANGED <<password, given, disturbed>>
    BY <1>5 DEF RemoveClient, SaveAuthorize, SaveAccess, StorageTyped, KeysTypeOK, AccountsTypeOK,
                metaVars, colVars, keyVars, fileVars
  <2>2. PICK step \in {"ok", "failed", "access"} : Go(t, step)
    BY <1>5 DEF RemoveClient, SaveAuthorize, SaveAccess
  <2>3. step \notin Ended => Shape([task[t] EXCEPT !.at = step])
    BY <1>1, <2>2, ShapeStays DEF Steps, Ended, ActorSteps
  <2> QED
    BY <1>1, <2>1, <2>2, <2>3, GoKeeps DEF Steps, Ended
<1>6. CASE Killed(t)
  <2>1. torn' \subseteq Actors
    BY <1>1, <1>6 DEF Killed, KeysTypeOK, At, Shape, ActorSteps
  <2>2. StorageTyped' /\ UNCHANGED <<password, given, disturbed>>
    BY <1>6, <2>1 DEF Killed, StorageTyped, KeysTypeOK, AccountsTypeOK,
                      metaVars, colVars, oauthVars, fileVars
  <2> QED
    BY <1>1, <1>6, <2>2, ObjectGoKeeps DEF Killed
<1> QED
  BY <1>2, <1>3, <1>4, <1>5, <1>6

\* Clean takes the passwords of all actors: whoever else has read one works on
\* what the reset works on, everything.
LEMMA CleanKeeps ==
  ASSUME StorageInv, NEW t \in Tasks, Clean(t)
  PROVE  StorageInv'
<1> USE DEF StorageInv, TypeOK, StoreTypeOK
<1>1. /\ Working(t) /\ task[t] \in TaskRecord /\ task[t].at = "clean"
      /\ task[t].item = Service /\ task[t].scope = Things
  BY DEF Clean, At, Working, Ended, Shapes, Shape
<1>2. NoSecret \in Secrets /\ Absent \in Record
  BY DEF NoSecret, Secrets, Absent, Record
<1>3. StorageTyped' /\ disturbed' = disturbed
  <2>1. CASE UNCHANGED <<stored, metaVars, colVars, oauthVars, torn, given, rekeyed>>
    BY <2>1 DEF Clean, StorageTyped, KeysTypeOK, AccountsTypeOK,
                metaVars, colVars, oauthVars, fileVars
  <2>2. CASE /\ stored' = [i \in Items |-> Absent]
             /\ private' = [a \in Actors |-> NoSecret]
             /\ password' = [a \in Actors |-> NoSecret]
             /\ given' = [a \in Actors |-> NoSecret]
             /\ torn' = {} /\ made' = {} /\ clients' = {} /\ codes' = {} /\ tokens' = {}
             /\ listed' = [c \in Collections |-> {}]
             /\ rekeyed' = (rekeyed \/ memory # NoSecret)
    <3>1. stored' \in [Items -> Record] /\ private' \in [Actors -> Secrets]
      BY <1>2, <2>2
    <3>2. listed' \in [Collections -> SUBSET Items]
      BY <2>2
    <3> QED
      BY <1>2, <2>2, <3>1, <3>2 DEF Clean, StorageTyped, KeysTypeOK, AccountsTypeOK, fileVars
  <2> QED
    BY <2>1, <2>2 DEF Clean
<1>4. PICK step \in {"create", "failed"} : Go(t, step)
  BY DEF Clean
<1>5. Shape([task[t] EXCEPT !.at = "create"])
  BY <1>1 DEF Shape, Shapes, TaskRecord, ActorSteps, Things, Items
<1>6. Narrows(t) /\ task'[t].at # "meta"
  <2>1. Narrows(t)
    BY <1>1, <1>3, <1>4, <1>5, GoNarrows, EndNarrows DEF Steps, Ended
  <2> QED
    BY <2>1, <1>1, <1>4 DEF Go, Moved, Resting, Blank, TaskRecord
<1>7. ASSUME NEW u \in Tasks \ {t}, At(u, "meta")
      PROVE  task[u].item \in disturbed
  BY <1>1, <1>7 DEF NoSilentOverlap, Shapes, Shape, ActorSteps, Working, Ended, At, Things, Items
<1>8. ReadIsCurrent'
  BY <1>3, <1>6, <1>7, TasksKept DEF ReadIsCurrent, At
<1>9. PasswordKept'
  BY <1>3 DEF Clean, PasswordKept, metaVars
<1> QED
  BY <1>3, <1>6, <1>8, <1>9, TasksKept DEF StorageTyped

LEMMA AccountStepsKeep ==
  ASSUME StorageInv, NEW t \in Tasks, AccountSteps(t)
  PROVE  StorageInv'
BY BootstrapKeeps, AccountBeginningsKeep, AccountSavesKeep, CleanKeeps
   DEF AccountSteps, AddActorCmd, AddClient

-----------------------------------------------------------------------------
(* The theorems *)

LEMMA InitHolds == Init => StorageInv
<1> SUFFICES ASSUME Init
             PROVE  StorageInv
  OBVIOUS
<1>1. OperatorSecret \in Secrets /\ NoSecret \in Secrets
  BY DEF OperatorSecret, NoSecret, Secrets
<1>2. {Absent, Tombstone, Live(NoSecret), Live(OperatorSecret)} \subseteq Record
  BY <1>1 DEF Absent, Tombstone, Live, Record
<1>3. stored \in [Items -> Record] /\ made \subseteq Collections /\ clients \subseteq Actors
  BY <1>2 DEF Init, NewInstallation, OldInstallation
<1>4. private \in [Actors -> Secrets] /\ listed \in [Collections -> SUBSET Items]
  BY <1>1, <1>3 DEF Init, NewInstallation, OldInstallation, Record, Items
<1>5. task \in [Tasks -> TaskRecord] /\ \A t \in Tasks : task[t] = Resting("idle")
  BY RestingTyped DEF Init, StoreInit, Steps
<1>6. TypeOK
  BY <1>1, <1>3, <1>4, <1>5 DEF Init, StoreInit, NewInstallation, OldInstallation,
     TypeOK, StoreTypeOK, KeysTypeOK, AccountsTypeOK
<1>7. Shapes /\ NoSilentOverlap /\ ReadIsCurrent
  BY <1>5 DEF Shapes, Shape, NoSilentOverlap, ReadIsCurrent, Working, At, Resting, Blank, ActorSteps
<1>8. PasswordKept
  BY DEF Init, PasswordKept
<1> QED
  BY <1>6, <1>7, <1>8 DEF StorageInv

\* Every step of a command, and of a server that starts, keeps the invariant.
LEMMA NextKeeps == StorageInv /\ [Next]_vars => StorageInv'
<1> SUFFICES ASSUME StorageInv, [Next]_vars
             PROVE  StorageInv'
  OBVIOUS
<1>1. ASSUME NEW t \in Tasks, KeySteps(t) \/ ObjectSteps(t), UNCHANGED fileVars
      PROVE  StorageInv'
  BY <1>1, KeyStepsKeep, ObjectStepsKeep
<1>2. ASSUME NEW t \in Tasks, AccountSteps(t)
      PROVE  StorageInv'
  BY <1>2, AccountStepsKeep
<1>3. CASE LoadServiceActor /\ UNCHANGED fileVars
  <2>1. private[Service] \in Secrets /\ NoSecret \in Secrets
    BY DEF StorageInv, TypeOK, StoreTypeOK, NoSecret, Secrets
  <2>2. memory' \in Secrets /\ rekeyed' \in BOOLEAN
    BY <1>3, <2>1 DEF LoadServiceActor
  <2> QED
    BY <1>3, <2>2 DEF LoadServiceActor, StorageInv, TypeOK, StoreTypeOK, KeysTypeOK, AccountsTypeOK,
       Shapes, NoSilentOverlap, ReadIsCurrent, PasswordKept, Working, At,
       metaVars, colVars, oauthVars, fileVars
<1>4. CASE UNCHANGED vars
  BY <1>4 DEF vars, StorageInv, TypeOK, StoreTypeOK, KeysTypeOK, AccountsTypeOK,
     Shapes, NoSilentOverlap, ReadIsCurrent, PasswordKept, Working, At,
     metaVars, colVars, oauthVars, keyVars, fileVars
<1> QED
  BY <1>1, <1>2, <1>3, <1>4 DEF Next

\* However commands interleave, fail or are killed: what two of them work on
\* at once is known, and the password that AddKeyToPerson is about to write
\* back (keys.go) is still the one in the metadata.
THEOREM StorageInvariant == Spec => []StorageInv
<1> QED
  BY InitHolds, NextKeeps, PTL DEF Spec

\* Items, metadata, clients and tasks have their types.
THEOREM TypeCorrect == Spec => []TypeOK
<1>1. StorageInv => TypeOK
  BY DEF StorageInv
<1> QED
  BY <1>1, StorageInvariant, PTL

\* A command that gives an actor another key keeps its password, whatever
\* fails on the way, unless the metadata could not be read or another command
\* worked on the same actor (AddKeyToPerson, SaveMetadataForItems).
THEOREM PasswordsAreKept == Spec => []PasswordKept
<1>1. StorageInv => PasswordKept
  BY DEF StorageInv
<1> QED
  BY <1>1, StorageInvariant, PTL

=============================================================================
