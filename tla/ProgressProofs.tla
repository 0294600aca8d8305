----------------------------- MODULE ProgressProofs -----------------------------
(***************************************************************************)
(* What a command has done stays done, and what it says it has done it has *)
(* done, for any sets of items and any commands.                           *)
(***************************************************************************)
EXTENDS KeysProofs

USE KindsAssumption

AllInv == StorageInv /\ KeysInv /\ ProgressInv

Done(t) ==
  /\ OnItsWay(task[t]) /\ FindingsHold(task[t])
  /\ BootstrapHolds(task[t]) /\ MoveHolds(task[t]) /\ TokenHolds(t)

-----------------------------------------------------------------------------
(* Which jobs come to which steps *)

LEMMA JobsOfSteps ==
  ASSUME NEW job \in Jobs
  PROVE  /\ "create" \in Itinerary(job) <=> job \in Bootstraps \cup {"addactor", "addclient", "addobject"}
         /\ "client" \in Itinerary(job) <=> job \in Bootstraps \cup {"addclient"}
         /\ "password" \in Itinerary(job) <=>
              job \in {"bootstrap", "serve", "addactor", "addclient", "passwd"}
         /\ \A step \in {"load", "meta", "actor"} :
              step \in Itinerary(job) <=> job \in Bootstraps \cup {"addactor", "addclient", "genkeys"}
         /\ "streams" \in Itinerary(job) <=> job \in Bootstraps
         /\ "open" \in Itinerary(job) <=> job \in {"bootstrap", "serve"}
         /\ "clean" \in Itinerary(job) <=> job = "reset"
         /\ "each" \in Itinerary(job) <=> job \in {"genkeys", "move", "copy", "import", "repair"}
         /\ "update" \in Itinerary(job) <=> job = "genkeys"
         /\ "restore" \in Itinerary(job) <=> job = "restore"
         /\ \A step \in {"delete", "bury"} :
              step \in Itinerary(job) <=> job \in {"delete", "delclient"}
         /\ "remove" \in Itinerary(job) <=> job = "delclient"
         /\ \A step \in {"authorize", "access"} : step \in Itinerary(job) <=> job = "token"
         /\ "unlink" \in Itinerary(job) <=> job = "move"
         /\ \A step \in {"process", "save"} : step \in Itinerary(job) <=> job = "import"
         /\ "make" \in Itinerary(job) <=> job = "repair"
<1>1. "create" \in Itinerary(job) <=>
       job \in Bootstraps \cup {"addactor", "addclient", "addobject"}
  BY DEF Jobs, Itinerary, Bootstraps
<1>2. "client" \in Itinerary(job) <=> job \in Bootstraps \cup {"addclient"}
  BY DEF Jobs, Itinerary, Bootstraps
<1>3. "password" \in Itinerary(job) <=>
       job \in {"bootstrap", "serve", "addactor", "addclient", "passwd"}
  BY DEF Jobs, Itinerary, Bootstraps
<1>4. \A step \in {"load", "meta", "actor"} :
       step \in Itinerary(job) <=> job \in Bootstraps \cup {"addactor", "addclient", "genkeys"}
  BY DEF Jobs, Itinerary, Bootstraps
<1>5. "streams" \in Itinerary(job) <=> job \in Bootstraps
  BY DEF Jobs, Itinerary, Bootstraps
<1>6. "open" \in Itinerary(job) <=> job \in {"bootstrap", "serve"}
  BY DEF Jobs, Itinerary, Bootstraps
<1>7. "clean" \in Itinerary(job) <=> job = "reset"
  BY DEF Jobs, Itinerary, Bootstraps
<1>8. "each" \in Itinerary(job) <=> job \in {"genkeys", "move", "copy", "import", "repair"}
  BY DEF Jobs, Itinerary, Bootstraps
<1>9. "update" \in Itinerary(job) <=> job = "genkeys"
  BY DEF Jobs, Itinerary, Bootstraps
<1>10. "restore" \in Itinerary(job) <=> job = "restore"
  BY DEF Jobs, Itinerary, Bootstraps
<1>11. \A step \in {"delete", "bury"} :
       step \in Itinerary(job) <=> job \in {"delete", "delclient"}
  BY DEF Jobs, Itinerary, Bootstraps
<1>12. "remove" \in Itinerary(job) <=> job = "delclient"
  BY DEF Jobs, Itinerary, Bootstraps
<1>13. \A step \in {"authorize", "access"} : step \in Itinerary(job) <=> job = "token"
  BY DEF Jobs, Itinerary, Bootstraps
<1>14. "unlink" \in Itinerary(job) <=> job = "move"
  BY DEF Jobs, Itinerary, Bootstraps
<1>15. \A step \in {"process", "save"} : step \in Itinerary(job) <=> job = "import"
  BY DEF Jobs, Itinerary, Bootstraps
<1>16. "make" \in Itinerary(job) <=> job = "repair"
  BY DEF Jobs, Itinerary, Bootstraps
<1>. QED
  BY <1>1, <1>2, <1>3, <1>4, <1>5, <1>6, <1>7, <1>8, <1>9, <1>10, <1>11, <1>12, <1>13, <1>14, <1>15, <1>16

-----------------------------------------------------------------------------
(* A step of one task, as the others see it *)

\* It undoes nothing, but what it works on; a reset works on everything.
WideFrame(t) ==
  /\ \A u \in Tasks \ {t} : task'[u] = task[u]
  /\ disturbed \subseteq disturbed'
  /\ \/ Working(t) /\ task[t].scope = Things
     \/ /\ \A i \in Items : stored'[i] # stored[i] => Working(t) /\ i \in task[t].scope
        /\ \A a \in Actors : private'[a] # private[a] => Working(t) /\ a \in task[t].scope
        /\ \A a \in Actors : password'[a] # password[a] => Working(t) /\ a \in task[t].scope
        /\ \A c \in Collections : \A x \in listed[c] :
             x \notin listed'[c] => Working(t) /\ x \in task[t].scope
        /\ made \subseteq made' /\ codes \subseteq codes'

\* What a task relies on is in its scope.
LEMMA ReliesOnScope ==
  ASSUME AllInv, NEW u \in Tasks, Working(u)
  PROVE  /\ task[u] \in TaskRecord /\ task[u].queue \subseteq task[u].scope
         /\ task[u].at \in {"create", "load", "meta", "actor", "update", "save", "unlink", "remove"} =>
              task[u].item \in task[u].scope
         /\ task[u].at \in {"create", "load", "meta", "actor", "update", "save", "remove"} =>
              task[u].item \in Items
         /\ task[u].job \in Bootstraps => task[u].item = Service /\ Service \in task[u].scope
         /\ task[u].job \in {"move", "copy"} => task[u].to \in Collections
         /\ task[u].at \in {"delete", "bury", "process", "save"} => task[u].scope \subseteq Items
         /\ task[u].job = "token" => task[u].scope # {}
<1>1. /\ task[u] \in TaskRecord /\ Shape(task[u]) /\ KeyShape(task[u]) /\ OnItsWay(task[u])
      /\ task[u].at \in Itinerary(task[u].job) /\ task[u].job \in Jobs
  BY DEF AllInv, StorageInv, TypeOK, StoreTypeOK, Shapes, KeysInv, ProgressInv, OnItsWay, Working, TaskRecord
<1>2. task[u].at = "remove" => task[u].job = "delclient"
  BY <1>1, JobsOfSteps
<1>3. /\ task[u].at \in {"delete", "bury"} => task[u].job \in {"delete", "delclient"}
      /\ task[u].at \in {"process", "save"} => task[u].job = "import"
  BY <1>1, JobsOfSteps
<1>4. /\ task[u].job \in Bootstraps => task[u].item = Service /\ Service \in task[u].scope
      /\ task[u].job \in {"move", "copy"} => task[u].to \in Collections
      /\ task[u].job = "addobject" => task[u].item \in Notes
      /\ task[u].job \in {"delete", "import"} => task[u].scope \subseteq Items
      /\ task[u].job = "delclient" => task[u].item \in Items /\ task[u].scope = {task[u].item}
      /\ task[u].job = "token" => task[u].scope # {}
  BY <1>1 DEF OnItsWay, Working
<1> QED
  BY <1>1, <1>2, <1>3, <1>4 DEF Shape, KeyShape, ActorSteps, Items

LEMMA OthersStayDone ==
  ASSUME AllInv, NEW t \in Tasks, WideFrame(t), NEW u \in Tasks \ {t}
  PROVE  Done(u)'
<1> DEFINE r == task[u]
<1>1. task'[u] = r /\ Done(u)
  BY DEF WideFrame, AllInv, ProgressInv, Done
<1>2. OnItsWay(task'[u])
  BY <1>1 DEF Done
<1>3. CASE ~Working(u)
  <2>1. r.at \in {"ok", "failed", "idle"} /\ r.job = "token"
    BY <1>1, <1>3 DEF Done, OnItsWay, Working, Ended, Resting, Blank
  <2> QED
    BY <1>1, <1>2, <2>1 DEF Done, FindingsHold, BootstrapHolds, MoveHolds, TokenHolds, At, Bootstraps
<1>4. CASE Working(u) /\ Working(t) /\ task[t].scope = Things
  <2>1. r.scope \subseteq disturbed'
    BY <1>4, ReliesOnScope DEF WideFrame, AllInv, StorageInv, NoSilentOverlap, TaskRecord
  <2>2. FindingsHold(r)' /\ BootstrapHolds(r)'
    BY <1>1, <1>4, <2>1, ReliesOnScope DEF FindingsHold, BootstrapHolds
  <2>3. MoveHolds(r)' /\ TokenHolds(u)'
    BY <1>1, <1>4, <2>1, ReliesOnScope, JobsOfSteps
       DEF MoveHolds, TokenHolds, At, OnItsWay, Working, Done, TaskRecord
  <2> QED
    BY <1>1, <1>2, <2>2, <2>3 DEF Done
<1>5. CASE Working(u) /\ ~(Working(t) /\ task[t].scope = Things)
  <2>1. ASSUME NEW i \in r.scope, i \notin disturbed'
        PROVE  /\ i \notin disturbed
               /\ i \in Items => stored'[i] = stored[i]
               /\ i \in Actors => private'[i] = private[i] /\ password'[i] = password[i]
    BY <1>5, <2>1 DEF WideFrame, AllInv, StorageInv, NoSilentOverlap
  <2>2. /\ made \subseteq made' /\ codes \subseteq codes'
        /\ \A c \in Collections : \A x \in r.scope \cap listed[c] : x \in listed'[c] \/ x \in disturbed'
    BY <1>5 DEF WideFrame, AllInv, StorageInv, NoSilentOverlap
  <2>3. FindingsHold(r)'
    BY <1>1, <1>5, <2>1, ReliesOnScope DEF Done, FindingsHold, Exists, Lives
  <2>4. BootstrapHolds(r)'
    BY <1>1, <1>5, <2>1, <2>2, ReliesOnScope, ServiceAssumption DEF Done, BootstrapHolds, Items
  <2>5. MoveHolds(r)'
    <3>1. /\ r \in TaskRecord /\ MoveHolds(r) /\ (r.at = "unlink" => r.item \in r.scope)
          /\ r.at = "unlink" => r.job = "move"
          /\ r.job = "move" => r.to \in Collections
      BY <1>1, <1>5, ReliesOnScope, JobsOfSteps DEF Done, OnItsWay, Working, TaskRecord
    <3>2. r.at = "unlink" /\ r.item \notin disturbed' => r.item \in listed'[r.to]
      BY <2>1, <2>2, <3>1 DEF MoveHolds
    <3>3. ASSUME r.job = "move", NEW x \in (r.scope \cap Items) \ (r.queue \cup r.left \cup disturbed')
          PROVE  x \in listed'[r.to] /\ (Exists(x)' => r.at = "unlink" /\ x = r.item)
      BY <2>1, <2>2, <3>1, <3>3 DEF MoveHolds, Exists
    <3> QED
      BY <1>1, <3>2, <3>3 DEF MoveHolds
  <2>6. TokenHolds(u)'
    BY <1>1, <1>5, <2>2 DEF Done, TokenHolds, At, WideFrame
  <2> QED
    BY <1>1, <1>2, <2>3, <2>4, <2>5, <2>6 DEF Done
<1> QED
  BY <1>3, <1>4, <1>5

LEMMA ProgressKept ==
  ASSUME AllInv, NEW t \in Tasks, WideFrame(t), Done(t)'
  PROVE  ProgressInv'
BY OthersStayDone DEF ProgressInv, Done

-----------------------------------------------------------------------------
(* The record of a task after a step *)

Same(r, s) ==
  /\ r.job = s.job /\ r.scope = s.scope /\ r.left = s.left /\ r.to = s.to /\ r.seen = s.seen
  /\ r.key = s.key /\ r.word = s.word

LEMMA EndRecord ==
  ASSUME AllInv, NEW t \in Tasks, NEW step \in Ended, Go(t, step)
  PROVE  /\ \A u \in Tasks \ {t} : task'[u] = task[u]
         /\ task'[t].at = step /\ Done(t)'
<1>1. task'[t] = Resting(step) /\ \A u \in Tasks \ {t} : task'[u] = task[u]
  BY DEF Go, Moved, AllInv, StorageInv, TypeOK, StoreTypeOK
<1> QED
  BY <1>1 DEF Done, OnItsWay, FindingsHold, BootstrapHolds, MoveHolds, TokenHolds, At,
              Resting, Blank, Ended, Bootstraps

LEMMA GoRecord ==
  ASSUME AllInv, NEW t \in Tasks, NEW step \in Steps \ Ended, Go(t, step)
  PROVE  /\ \A u \in Tasks \ {t} : task'[u] = task[u]
         /\ Same(task'[t], task[t]) /\ task'[t].at = step
         /\ task'[t].item = task[t].item /\ task'[t].queue = task[t].queue
<1> DEFINE r == [task[t] EXCEPT !.at = step]
<1>1. task'[t] = r /\ task[t] \in TaskRecord /\ \A u \in Tasks \ {t} : task'[u] = task[u]
  BY DEF Go, Moved, AllInv, StorageInv, TypeOK, StoreTypeOK
<1> QED
  BY <1>1 DEF Same, TaskRecord

LEMMA TakeRecord ==
  ASSUME AllInv, NEW t \in Tasks, NEW x, NEW step, Take(t, x, step)
  PROVE  /\ \A u \in Tasks \ {t} : task'[u] = task[u]
         /\ Same(task'[t], task[t]) /\ task'[t].at = step
         /\ task'[t].item = x /\ task'[t].queue = task[t].queue \ {x}
<1> DEFINE r == [task[t] EXCEPT !.item = x, !.queue = @ \ {x}, !.at = step]
<1>1. task[t] \in TaskRecord
  BY DEF AllInv, StorageInv, TypeOK, StoreTypeOK
<1>2. task'[t] = r /\ \A u \in Tasks \ {t} : task'[u] = task[u]
  BY <1>1 DEF Take, AllInv, StorageInv, TypeOK, StoreTypeOK, TaskRecord
<1> QED
  BY <1>1, <1>2 DEF Same, TaskRecord

LEMMA BeginRecord ==
  ASSUME AllInv, NEW t \in Tasks,
         NEW job, NEW step, NEW item, NEW scope, NEW key, NEW word,
         Begin(t, job, step, item, scope, key, word)
  PROVE  /\ \A u \in Tasks \ {t} : task'[u] = task[u]
         /\ task'[t].at = step /\ task'[t].job = job /\ task'[t].scope = scope
         /\ task'[t].queue = scope /\ task'[t].left = {}
         /\ task'[t].item = item /\ task'[t].to = item
         /\ task'[t].key = key /\ task'[t].word = word
         /\ task'[t].seen = [i \in Items |-> IF i \in scope THEN stored[i] ELSE Absent]
         /\ ~Working(t) /\ disturbed \subseteq disturbed'
<1> DEFINE r == [Blank(job, step, scope) EXCEPT
                   !.queue = scope, !.item = item, !.to = item, !.key = key, !.word = word,
                   !.seen = [i \in Items |-> IF i \in scope THEN stored[i] ELSE Absent]]
<1>1. task'[t] = r /\ (\A u \in Tasks \ {t} : task'[u] = task[u]) /\ At(t, "idle")
      /\ disturbed \subseteq disturbed'
  BY DEF Begin, Overlap, AllInv, StorageInv, TypeOK, StoreTypeOK
<1> QED
  BY <1>1 DEF Blank, Working, At

\* What is known of a task that works
LEMMA KnownOf ==
  ASSUME AllInv, NEW t \in Tasks, Working(t)
  PROVE  /\ task[t] \in TaskRecord /\ Done(t) /\ task[t].at \in Itinerary(task[t].job)
         /\ task[t].job \in Jobs /\ MemoryIsCurrent(task[t]) /\ Shape(task[t]) /\ KeyShape(task[t])
         /\ stored \in [Items -> Record] /\ private \in [Actors -> Secrets]
         /\ password \in [Actors -> Secrets] /\ listed \in [Collections -> SUBSET Items]
BY DEF AllInv, StorageInv, TypeOK, StoreTypeOK, KeysInv, ProgressInv, Done, OnItsWay, Working,
       Shapes, TaskRecord

-----------------------------------------------------------------------------
(* Steps in which a task just goes on *)

\* The step asks nothing, and its job, which is no move, goes there.
LEMMA GoDone ==
  ASSUME AllInv, NEW t \in Tasks, Working(t), disturbed' = disturbed,
         NEW step \in {"client", "password", "each", "make", "streams", "open", "update", "load",
                       "remove", "access", "create"},
         Go(t, step), step \in Itinerary(task[t].job),
         step = "each" => task[t].job # "move",
         FindingsHold(task[t])', BootstrapHolds(task[t])', TokenHolds(t)'
  PROVE  (\A u \in Tasks \ {t} : task'[u] = task[u]) /\ task'[t].at = step /\ Done(t)'
<1>1. /\ \A u \in Tasks \ {t} : task'[u] = task[u]
      /\ Same(task'[t], task[t]) /\ task'[t].at = step
      /\ task'[t].item = task[t].item /\ task'[t].queue = task[t].queue
  BY GoRecord DEF Steps, Ended
<1>2. task[t] \in TaskRecord /\ OnItsWay(task[t])
  BY KnownOf DEF Done
<1>3. OnItsWay(task'[t])
  BY <1>1, <1>2 DEF OnItsWay, Same, Working, Ended
<1>4. task[t].job # "move"
  BY DEF Itinerary, Bootstraps
<1>5. MoveHolds(task[t])'
  BY <1>1, <1>4 DEF MoveHolds, Same
<1> QED
  BY <1>1, <1>3, <1>5 DEF Done

LEMMA EndKeepsProgress ==
  ASSUME AllInv, NEW t \in Tasks, NEW step \in Ended, Go(t, step), Working(t),
         UNCHANGED <<stored, private, password, listed, disturbed>>,
         made \subseteq made', codes \subseteq codes'
  PROVE  ProgressInv'
<1>1. (\A u \in Tasks \ {t} : task'[u] = task[u]) /\ Done(t)'
  BY EndRecord
<1>2. WideFrame(t)
  BY <1>1 DEF WideFrame
<1> QED
  BY <1>1, <1>2, ProgressKept

LEMMA LoadMetadataKeepsProgress ==
  ASSUME AllInv, NEW t \in Tasks, LoadMetadata(t)
  PROVE  ProgressInv'
<1>1. /\ UNCHANGED <<stored, private, password, listed, made, codes>>
      /\ disturbed \subseteq disturbed' /\ task[t].at = "load" /\ Working(t)
  BY DEF LoadMetadata, At, Working, Ended, metaVars, colVars, oauthVars
<1>2. /\ task[t] \in TaskRecord /\ Done(t) /\ task[t].at \in Itinerary(task[t].job)
      /\ task[t].job \in Jobs /\ task[t].job # "move"
  BY <1>1, KnownOf, JobsOfSteps DEF Bootstraps
<1>3. PICK word : task' = [task EXCEPT ![t] = [task[t] EXCEPT !.at = "meta", !.read = word]]
  BY DEF LoadMetadata
<1> DEFINE r == [task[t] EXCEPT !.at = "meta", !.read = word]
<1>4. task'[t] = r /\ \A u \in Tasks \ {t} : task'[u] = task[u]
  BY <1>3 DEF AllInv, StorageInv, TypeOK, StoreTypeOK
<1>5. r.at = "meta" /\ Same(r, task[t]) /\ r.item = task[t].item /\ r.queue = task[t].queue
  BY <1>2 DEF Same, TaskRecord
<1> HIDE DEF r
<1>6. OnItsWay(task'[t])
  <2>1. "meta" \in Itinerary(task[t].job)
    BY <1>1, <1>2, JobsOfSteps
  <2> QED
    BY <1>1, <1>2, <1>4, <1>5, <2>1 DEF Done, OnItsWay, Same, Ended, Working
<1>7. FindingsHold(task[t])' /\ BootstrapHolds(task[t])' /\ MoveHolds(task[t])' /\ TokenHolds(t)'
  BY <1>1, <1>2, <1>4, <1>5
     DEF Done, FindingsHold, BootstrapHolds, MoveHolds, TokenHolds, At, Same, Lives
<1>8. WideFrame(t)
  BY <1>1, <1>4 DEF WideFrame
<1> QED
  BY <1>6, <1>7, <1>8, ProgressKept DEF Done

LEMMA SaveMetadataKeepsProgress ==
  ASSUME AllInv, NEW t \in Tasks, SaveMetadata(t)
  PROVE  ProgressInv'
<1> DEFINE a == task[t].item
           k == task[t].key
<1>1. /\ UNCHANGED <<stored, listed, made, codes, disturbed>> /\ task[t].at = "meta" /\ Working(t)
  BY DEF SaveMetadata, At, Working, Ended, colVars, oauthVars
<1>2. /\ task[t] \in TaskRecord /\ Done(t) /\ task[t].job \in Jobs
      /\ task[t].job \in Bootstraps \cup {"addactor", "addclient", "genkeys"}
      /\ a \in Actors /\ a \in task[t].scope /\ a \in Items
      /\ private \in [Actors -> Secrets] /\ password \in [Actors -> Secrets]
      /\ task[t].job \in Bootstraps => a = Service
  BY <1>1, KnownOf, ReliesOnScope, JobsOfSteps DEF Shape, ActorSteps
<1>3. CASE /\ private' = [private EXCEPT ![a] = k]
           /\ password' = [password EXCEPT ![a] = task[t].read]
           /\ task' = [task EXCEPT ![t] = [task[t] EXCEPT !.seen[a] = Live(k), !.at = "actor"]]
  <2> DEFINE seen == [task[t].seen EXCEPT ![a] = Live(k)]
             r == [task[t] EXCEPT !.seen = seen, !.at = "actor"]
  <2>1. task'[t] = r /\ \A u \in Tasks \ {t} : task'[u] = task[u]
    BY <1>2, <1>3 DEF AllInv, StorageInv, TypeOK, StoreTypeOK, TaskRecord
  <2>2. /\ r.at = "actor" /\ r.job = task[t].job /\ r.queue = task[t].queue /\ r.to = task[t].to
        /\ r.left = task[t].left
        /\ r.scope = task[t].scope /\ r.item = a /\ r.word = task[t].word /\ r.seen = seen
    BY <1>2 DEF TaskRecord
  <2>3. \A i \in task[t].scope : (task[t].seen[i].life = "live" /\ i \in Items) => seen[i].life = "live"
    BY <1>2 DEF TaskRecord, Live
  <2> HIDE DEF r, seen
  <2>4. OnItsWay(task'[t])
    <3>1. "actor" \in Itinerary(task[t].job)
      BY <1>2, JobsOfSteps
    <3>2. OnItsWay(task[t])
      BY <1>2 DEF Done
    <3> QED
      BY <1>1, <1>2, <2>1, <2>2, <2>3, <3>1, <3>2 DEF OnItsWay, Ended, Items
  <2>5. FindingsHold(task[t])'
    BY <1>1, <1>2, <2>1, <2>2 DEF Done, FindingsHold, Lives
  <2>6. a \notin disturbed => password'[a] = password[a]
    BY <1>1, <1>2, <1>3 DEF AllInv, StorageInv, ReadIsCurrent, At
  <2>7. BootstrapHolds(task[t])'
    BY <1>1, <1>2, <2>1, <2>2, <2>6 DEF Done, BootstrapHolds
  <2>8. MoveHolds(task[t])' /\ TokenHolds(t)'
    BY <1>1, <1>2, <2>1, <2>2 DEF MoveHolds, TokenHolds, At, Bootstraps
  <2>9. WideFrame(t)
    BY <1>1, <1>2, <1>3, <2>1 DEF WideFrame
  <2> QED
    BY <2>4, <2>5, <2>7, <2>8, <2>9, ProgressKept DEF Done
<1>4. CASE Go(t, AfterKeyError(task[t].job)) /\ UNCHANGED <<private, password>>
  <2>1. CASE task[t].job \in Bootstraps
    BY <1>1, <1>4, <2>1, EndKeepsProgress DEF AfterKeyError, Ended
  <2>2. CASE task[t].job \notin Bootstraps
    <3>1. PICK step \in {"update", "password"} : Go(t, step) /\ step \in Itinerary(task[t].job)
      BY <1>2, <1>4, <2>2, JobsOfSteps DEF AfterKeyError, AfterKey
    <3>2. /\ \A u \in Tasks \ {t} : task'[u] = task[u]
          /\ Same(task'[t], task[t]) /\ task'[t].at = step /\ task'[t].item = task[t].item
      BY <3>1, GoRecord DEF Steps, Ended
    <3>3. FindingsHold(task[t])' /\ BootstrapHolds(task[t])' /\ TokenHolds(t)'
      BY <1>1, <1>2, <2>2, <3>2 DEF Done, FindingsHold, BootstrapHolds, TokenHolds, At, Same, Lives
    <3>4. Done(t)'
      BY <1>1, <3>1, <3>3, GoDone
    <3>5. WideFrame(t)
      BY <1>1, <1>4, <3>2 DEF WideFrame
    <3> QED
      BY <3>4, <3>5, ProgressKept
  <2> QED
    BY <2>1, <2>2
<1> QED
  BY <1>3, <1>4 DEF SaveMetadata, metaVars

LEMMA SaveActorKeepsProgress ==
  ASSUME AllInv, NEW t \in Tasks, SaveActor(t)
  PROVE  ProgressInv'
<1> DEFINE a == task[t].item
           job == task[t].job
<1>1. /\ UNCHANGED <<private, password, listed, made, codes, disturbed>>
      /\ task[t].at = "actor" /\ Working(t)
  BY DEF SaveActor, At, Working, Ended, metaVars, colVars, oauthVars
<1>2. /\ task[t] \in TaskRecord /\ Done(t) /\ job \in Jobs /\ MemoryIsCurrent(task[t])
      /\ job \in Bootstraps \cup {"addactor", "addclient", "genkeys"}
      /\ a \in Actors /\ a \in task[t].scope /\ a \in Items /\ stored \in [Items -> Record]
      /\ job \in Bootstraps => a = Service
  BY <1>1, KnownOf, ReliesOnScope, JobsOfSteps DEF Shape, ActorSteps
<1>3. CASE job \in Bootstraps /\ Go(t, "failed") /\ UNCHANGED stored
  BY <1>1, <1>3, EndKeepsProgress DEF Ended
<1>4. ASSUME stored' = [stored EXCEPT ![a] = task[t].seen[a]] \/ (job \notin Bootstraps /\ UNCHANGED stored),
             NEW step \in {"update", "streams", "password"}, step = AfterKey(job), Go(t, step)
      PROVE  ProgressInv'
  <2>1. step \in Itinerary(job) /\ (step = "streams" <=> job \in Bootstraps)
    BY <1>2, <1>4, JobsOfSteps DEF AfterKey, Bootstraps
  <2>2. /\ \A u \in Tasks \ {t} : task'[u] = task[u]
        /\ Same(task'[t], task[t]) /\ task'[t].at = step /\ task'[t].item = task[t].item
    BY <1>4, GoRecord DEF Steps, Ended
  <2>3. a \notin disturbed => task[t].seen[a] = Live(task[t].key) /\ private[a] = task[t].key
    BY <1>1, <1>2 DEF MemoryIsCurrent
  <2>4. FindingsHold(task[t])'
    BY <1>1, <1>2, <1>4, <2>2, <2>3 DEF Done, FindingsHold, Same, Lives, Live
  <2>5. BootstrapHolds(task[t])'
    BY <1>1, <1>2, <1>4, <2>1, <2>2, <2>3 DEF Done, BootstrapHolds, Same
  <2>6. TokenHolds(t)'
    BY <2>2 DEF TokenHolds, At
  <2>7. Done(t)'
    BY <1>1, <1>4, <2>1, <2>4, <2>5, <2>6, GoDone
  <2>8. WideFrame(t)
    BY <1>1, <1>2, <1>4, <2>2 DEF WideFrame
  <2> QED
    BY <2>7, <2>8, ProgressKept
<1>5. AfterKey(job) \in {"update", "streams", "password"}
  BY DEF AfterKey
<1> QED
  BY <1>3, <1>4, <1>5 DEF SaveActor, AfterKeyError

LEMMA UpdateKeepsProgress ==
  ASSUME AllInv, NEW t \in Tasks, Update(t)
  PROVE  ProgressInv'
<1> DEFINE a == task[t].item
<1>1. /\ UNCHANGED <<private, password, listed, made, codes, disturbed>>
      /\ task[t].at = "update" /\ Working(t)
  BY DEF Update, At, Working, Ended, metaVars, colVars, oauthVars
<1>2. /\ Done(t) /\ task[t].job = "genkeys" /\ a \in task[t].scope /\ a \in Items
      /\ stored \in [Items -> Record]
  BY <1>1, KnownOf, ReliesOnScope, JobsOfSteps
<1>3. CASE Go(t, "failed") /\ UNCHANGED stored
  BY <1>1, <1>3, EndKeepsProgress DEF Ended
<1>4. CASE stored' = [stored EXCEPT ![a] = task[t].seen[a]] /\ Go(t, "each")
  <2>1. "each" \in Itinerary(task[t].job)
    BY <1>2, JobsOfSteps DEF Jobs
  <2>2. /\ \A u \in Tasks \ {t} : task'[u] = task[u]
        /\ Same(task'[t], task[t]) /\ task'[t].at = "each"
    BY <1>4, GoRecord DEF Steps, Ended
  <2>3. FindingsHold(task[t])' /\ BootstrapHolds(task[t])' /\ TokenHolds(t)'
    BY <1>2, <2>2 DEF FindingsHold, BootstrapHolds, TokenHolds, At, Same, Bootstraps
  <2>4. Done(t)'
    BY <1>1, <1>2, <1>4, <2>1, <2>3, GoDone
  <2>5. WideFrame(t)
    BY <1>1, <1>2, <1>4, <2>2 DEF WideFrame
  <2> QED
    BY <2>4, <2>5, ProgressKept
<1> QED
  BY <1>3, <1>4 DEF Update

\* An actor that gen-keys has loaded lives where nobody else has worked on it.
LEMMA GenerateKeyPairKeepsProgress ==
  ASSUME AllInv, NEW t \in Tasks, GenerateKeyPair(t)
  PROVE  ProgressInv'
<1>1. /\ UNCHANGED <<stored, private, password, listed, made, codes, disturbed>>
      /\ task[t].at = "each" /\ task[t].job = "genkeys" /\ Working(t)
  BY DEF GenerateKeyPair, At, Working, Ended, metaVars, colVars, oauthVars
<1>2. /\ task[t] \in TaskRecord /\ Done(t) /\ KeyShape(task[t]) /\ MemoryIsCurrent(task[t])
  BY <1>1, KnownOf
<1>3. CASE Go(t, "ok")
  BY <1>1, <1>3, EndKeepsProgress DEF Ended
<1>4. ASSUME NEW a \in task[t].queue,
             task' = [task EXCEPT ![t] = [task[t] EXCEPT !.item = a, !.queue = @ \ {a},
                                  !.key = fresh + 1, !.at = "load"]]
      PROVE  ProgressInv'
  <2> DEFINE r == [task[t] EXCEPT !.item = a, !.queue = @ \ {a}, !.key = fresh + 1, !.at = "load"]
  <2>1. task'[t] = r /\ \A u \in Tasks \ {t} : task'[u] = task[u]
    BY <1>4 DEF AllInv, StorageInv, TypeOK, StoreTypeOK
  <2>2. /\ r.at = "load" /\ r.job = "genkeys" /\ r.scope = task[t].scope
        /\ r.item = a /\ r.seen = task[t].seen
    BY <1>1, <1>2 DEF TaskRecord
  <2> HIDE DEF r
  <2>3. task[t].scope \subseteq Actors /\ (\A b \in task[t].scope : task[t].seen[b].life = "live")
    BY <1>1, <1>2 DEF Done, OnItsWay, Working
  <2>4. a \in task[t].scope /\ a \in Items
    BY <1>2, <2>3 DEF KeyShape, Items
  <2>5. OnItsWay(task'[t])
    BY <2>1, <2>2, <2>3, JobsOfSteps DEF OnItsWay, Ended, Jobs, Bootstraps
  <2>6. a \notin disturbed => Lives(a)
    BY <1>1, <1>2, <2>3, <2>4 DEF MemoryIsCurrent, Lives
  <2>7. FindingsHold(task[t])' /\ BootstrapHolds(task[t])' /\ MoveHolds(task[t])' /\ TokenHolds(t)'
    BY <1>1, <2>1, <2>2, <2>6
       DEF FindingsHold, BootstrapHolds, MoveHolds, TokenHolds, At, Bootstraps, Lives
  <2>8. WideFrame(t)
    BY <1>1, <2>1 DEF WideFrame
  <2> QED
    BY <2>5, <2>7, <2>8, ProgressKept DEF Done
<1> QED
  BY <1>3, <1>4 DEF GenerateKeyPair

LEMMA SetPasswordKeepsProgress ==
  ASSUME AllInv, NEW t \in Tasks, SetPassword(t)
  PROVE  ProgressInv'
<1> DEFINE a == task[t].item
           job == task[t].job
<1>1. /\ UNCHANGED <<stored, private, listed, made, codes, disturbed>>
      /\ task[t].at = "password" /\ Working(t)
  BY DEF SetPassword, At, Working, Ended, colVars, oauthVars
<1>2. /\ task[t] \in TaskRecord /\ Done(t) /\ job \in Jobs
      /\ job \in {"bootstrap", "serve", "addactor", "addclient", "passwd"}
      /\ a \in Actors /\ a \in task[t].scope /\ password \in [Actors -> Secrets]
      /\ job \in Bootstraps => a = Service
  BY <1>1, KnownOf, ReliesOnScope, JobsOfSteps DEF Shape, ActorSteps
<1>3. password' = [password EXCEPT ![a] = task[t].word] \/ password' = password
  BY DEF SetPassword
<1>4. CASE \E step \in Ended : Go(t, step)
  <2>1. (\A u \in Tasks \ {t} : task'[u] = task[u]) /\ Done(t)'
    BY <1>4, EndRecord
  <2>2. WideFrame(t)
    BY <1>1, <1>2, <1>3, <2>1 DEF WideFrame
  <2> QED
    BY <2>1, <2>2, ProgressKept
<1>5. ASSUME NEW step \in {"load", "client"}, Go(t, step), step \in Itinerary(job),
             step = "load" => /\ job \in Bootstraps
                              /\ password' = [password EXCEPT ![a] = task[t].word]
      PROVE  ProgressInv'
  <2>1. /\ \A u \in Tasks \ {t} : task'[u] = task[u]
        /\ Same(task'[t], task[t]) /\ task'[t].at = step /\ task'[t].item = a
    BY <1>5, GoRecord DEF Steps, Ended
  <2>2. FindingsHold(task[t])' /\ TokenHolds(t)'
    BY <1>5, <2>1 DEF FindingsHold, TokenHolds, At, Same
  <2>3. BootstrapHolds(task[t])'
    BY <1>1, <1>2, <1>5, <2>1 DEF BootstrapHolds, Same
  <2>4. Done(t)'
    BY <1>1, <1>5, <2>2, <2>3, GoDone
  <2>5. WideFrame(t)
    BY <1>1, <1>2, <1>3, <2>1 DEF WideFrame
  <2> QED
    BY <2>4, <2>5, ProgressKept
<1>6. CASE /\ password' = [password EXCEPT ![a] = task[t].word]
           /\ Go(t, AfterPassword(job))
  <2>1. CASE job \in Bootstraps
    BY <1>2, <1>5, <1>6, <2>1, JobsOfSteps DEF AfterPassword
  <2>2. CASE job = "addclient"
    BY <1>2, <1>5, <1>6, <2>2, JobsOfSteps DEF AfterPassword, Bootstraps
  <2>3. CASE job \notin Bootstraps \cup {"addclient"}
    BY <1>4, <1>6, <2>3 DEF AfterPassword, Ended
  <2> QED
    BY <2>1, <2>2, <2>3
<1>7. CASE Go(t, AfterPasswordError(job))
  <2>1. CASE job = "addclient"
    BY <1>2, <1>5, <1>7, <2>1, JobsOfSteps DEF AfterPassword, AfterPasswordError, Bootstraps
  <2>2. CASE job # "addclient"
    BY <1>4, <1>7, <2>2 DEF AfterPassword, AfterPasswordError, Ended, Bootstraps
  <2> QED
    BY <2>1, <2>2
<1> QED
  BY <1>6, <1>7 DEF SetPassword

LEMMA SaveMetadataForItemsKeepsProgress ==
  ASSUME AllInv, NEW t \in Tasks, SaveMetadataForItems(t)
  PROVE  ProgressInv'
<1>1. /\ UNCHANGED <<stored, listed, made, codes, disturbed>>
      /\ task[t].at = "restore" /\ Working(t)
  BY DEF SaveMetadataForItems, At, Working, Ended, colVars, oauthVars
<1>2. /\ task[t] \in TaskRecord /\ Done(t) /\ task[t].job = "restore"
      /\ private \in [Actors -> Secrets] /\ password \in [Actors -> Secrets]
      /\ task[t].queue \subseteq Actors \cap task[t].scope
  BY <1>1, KnownOf, JobsOfSteps DEF Shape
<1>3. CASE Go(t, "ok") /\ UNCHANGED metaVars
  BY <1>1, <1>3, EndKeepsProgress DEF Ended, metaVars
<1>4. ASSUME NEW a \in task[t].queue, Take(t, a, "restore"),
             \/ /\ private' = [private EXCEPT ![a] = task[t].key]
                /\ password' = [password EXCEPT ![a] = task[t].word]
             \/ UNCHANGED metaVars
      PROVE  ProgressInv'
  <2>1. /\ \A u \in Tasks \ {t} : task'[u] = task[u]
        /\ Same(task'[t], task[t]) /\ task'[t].at = "restore"
    BY <1>4, TakeRecord
  <2>2. OnItsWay(task'[t])
    BY <1>1, <1>2, <2>1 DEF Done, OnItsWay, Same, Ended, Bootstraps
  <2>3. FindingsHold(task[t])' /\ BootstrapHolds(task[t])' /\ MoveHolds(task[t])' /\ TokenHolds(t)'
    BY <1>2, <2>1 DEF FindingsHold, BootstrapHolds, MoveHolds, TokenHolds, At, Same, Bootstraps
  <2>4. WideFrame(t)
    BY <1>1, <1>2, <1>4, <2>1 DEF WideFrame, metaVars
  <2> QED
    BY <2>2, <2>3, <2>4, ProgressKept DEF Done
<1> QED
  BY <1>3, <1>4 DEF SaveMetadataForItems

-----------------------------------------------------------------------------
(* Commands that begin *)

LEMMA BeginKeepsProgress ==
  ASSUME AllInv, NEW t \in Tasks,
         NEW job \in Jobs \ {"bootstrap", "serve", "move", "copy"},
         NEW step \in {"clean", "create", "each", "restore", "delete", "process", "authorize", "password"},
         NEW item, NEW scope, NEW key, NEW word,
         Begin(t, job, step, item, scope, key, word),
         UNCHANGED <<stored, private, password, listed, made, codes>>,
         step \in Itinerary(job),
         step = "create" => ~Exists(item),
         job = "reset" => item = Service /\ Service \in scope /\ word = NoSecret /\ step = "clean",
         job = "genkeys" => scope \subseteq Actors /\ \A a \in scope : Lives(a),
         job = "addobject" => item \in Notes,
         job \in {"delete", "import"} => scope \subseteq Items,
         job = "delclient" => item \in Items /\ scope = {item},
         job = "token" => scope # {}
  PROVE  ProgressInv'
<1>1. /\ \A u \in Tasks \ {t} : task'[u] = task[u]
      /\ task'[t].at = step /\ task'[t].job = job /\ task'[t].scope = scope
      /\ task'[t].item = item /\ task'[t].word = word /\ task'[t].left = {}
      /\ task'[t].seen = [i \in Items |-> IF i \in scope THEN stored[i] ELSE Absent]
      /\ disturbed \subseteq disturbed'
  BY BeginRecord
<1>2. OnItsWay(task'[t])
  BY <1>1 DEF OnItsWay, Ended, Bootstraps, Lives, Items
<1>4. FindingsHold(task[t])'
  BY <1>1 DEF FindingsHold, Exists
<1>5. BootstrapHolds(task[t])' /\ MoveHolds(task[t])' /\ TokenHolds(t)'
  BY <1>1 DEF BootstrapHolds, MoveHolds, TokenHolds, At, Bootstraps
<1>6. WideFrame(t)
  BY <1>1 DEF WideFrame
<1> QED
  BY <1>2, <1>4, <1>5, <1>6, ProgressKept DEF Done

LEMMA KeyBeginningsKeepProgress ==
  ASSUME AllInv, NEW t \in Tasks,
         \/ \E scope \in Scopes : GenKeys(t, scope)
         \/ \E a \in Actors : ChangePassword(t, a)
         \/ \E scope \in Scopes : ImportMetadata(t, scope, OperatorSecret)
  PROVE  ProgressInv'
<1>1. CASE \E scope \in Scopes : GenKeys(t, scope)
  BY <1>1, BeginKeepsProgress, JobsOfSteps DEF GenKeys, Jobs, metaVars, colVars, oauthVars
<1>2. CASE \E a \in Actors : ChangePassword(t, a)
  BY <1>2, BeginKeepsProgress, JobsOfSteps DEF ChangePassword, Jobs, metaVars, colVars, oauthVars
<1>3. CASE \E scope \in Scopes : ImportMetadata(t, scope, OperatorSecret)
  BY <1>3, BeginKeepsProgress, JobsOfSteps DEF ImportMetadata, Jobs, metaVars, colVars, oauthVars
<1> QED
  BY <1>1, <1>2, <1>3

LEMMA ObjectBeginningsKeepProgress ==
  ASSUME AllInv, NEW t \in Tasks,
         \/ \E n \in Notes : AddObject(t, n)
         \/ \E scope \in Scopes : Delete(t, scope)
         \/ \E scope \in Files, k \in {NoSecret, OperatorSecret} : Import(t, scope, k)
         \/ FixCollections(t)
  PROVE  ProgressInv'
<1>1. CASE \E n \in Notes : AddObject(t, n)
  BY <1>1, BeginKeepsProgress, JobsOfSteps DEF AddObject, Jobs, metaVars, colVars, oauthVars
<1>2. CASE \E scope \in Scopes : Delete(t, scope)
  BY <1>2, BeginKeepsProgress, JobsOfSteps DEF Delete, Jobs, metaVars, colVars, oauthVars
<1>3. CASE \E scope \in Files, k \in {NoSecret, OperatorSecret} : Import(t, scope, k)
  BY <1>3, BeginKeepsProgress, JobsOfSteps DEF Import, Jobs, metaVars, colVars, oauthVars
<1>4. CASE FixCollections(t)
  BY <1>4, BeginKeepsProgress, JobsOfSteps DEF FixCollections, Jobs, metaVars, colVars, oauthVars
<1> QED
  BY <1>1, <1>2, <1>3, <1>4

LEMMA AccountBeginningsKeepProgress ==
  ASSUME AllInv, NEW t \in Tasks,
         \/ Reset(t)
         \/ \E a \in Actors : AddActorCmd(t, a) \/ AddClient(t, a)
         \/ \E c \in Actors : DelClient(t, c)
         \/ \E c, a \in Actors : GenAuthToken(t, c, a)
  PROVE  ProgressInv'
<1>1. CASE Reset(t)
  BY <1>1, BeginKeepsProgress, JobsOfSteps, ServiceAssumption
     DEF Reset, Jobs, metaVars, colVars, oauthVars, Bootstraps, Things, Items
<1>2. CASE \E a \in Actors : AddActorCmd(t, a)
  BY <1>2, BeginKeepsProgress, JobsOfSteps
     DEF AddActorCmd, AddAccount, Jobs, metaVars, colVars, oauthVars
<1>3. CASE \E a \in Actors : AddClient(t, a)
  BY <1>3, BeginKeepsProgress, JobsOfSteps
     DEF AddClient, AddAccount, Jobs, metaVars, colVars, oauthVars
<1>4. CASE \E c \in Actors : DelClient(t, c)
  BY <1>4, BeginKeepsProgress, JobsOfSteps DEF DelClient, Jobs, metaVars, colVars, oauthVars, Items
<1>5. CASE \E c, a \in Actors : GenAuthToken(t, c, a)
  BY <1>5, BeginKeepsProgress, JobsOfSteps DEF GenAuthToken, Jobs, metaVars, colVars, oauthVars
<1> QED
  BY <1>1, <1>2, <1>3, <1>4, <1>5

\* A bootstrap begins with nothing done.
LEMMA BootstrapKeepsProgress ==
  ASSUME AllInv, NEW t \in Tasks, NEW job \in {"bootstrap", "serve"}, Bootstrap(t, job)
  PROVE  ProgressInv'
<1> DEFINE r == [Blank(job, "create", {Service}) EXCEPT
                   !.seen[Service] = Live(NoSecret), !.key = Key, !.word = Password]
<1>1. task'[t] = r /\ (\A u \in Tasks \ {t} : task'[u] = task[u]) /\ disturbed \subseteq disturbed'
      /\ UNCHANGED <<stored, private, password, listed, made, codes>>
  BY DEF Bootstrap, Overlap, AllInv, StorageInv, TypeOK, StoreTypeOK, metaVars, colVars, oauthVars
<1>2. r.at = "create" /\ r.job = job /\ r.scope = {Service} /\ r.item = Service
  BY DEF Blank
<1> HIDE DEF r
<1>3. OnItsWay(task'[t])
  BY <1>1, <1>2, JobsOfSteps DEF OnItsWay, Ended, Bootstraps, Jobs
<1>4. FindingsHold(task[t])' /\ BootstrapHolds(task[t])' /\ MoveHolds(task[t])' /\ TokenHolds(t)'
  BY <1>1, <1>2 DEF FindingsHold, BootstrapHolds, MoveHolds, TokenHolds, At, Bootstraps
<1>5. WideFrame(t)
  BY <1>1 DEF WideFrame
<1> QED
  BY <1>3, <1>4, <1>5, ProgressKept DEF Done

\* A move begins with all that it is given in its queue.
LEMMA MoveOrCopyKeepsProgress ==
  ASSUME AllInv, NEW t \in Tasks,
         \E job \in {"move", "copy"}, to \in Collections, from \in Scopes : MoveOrCopy(t, job, to, from)
  PROVE  ProgressInv'
<1>1. PICK job \in {"move", "copy"}, to \in Collections, from \in Scopes : MoveOrCopy(t, job, to, from)
  OBVIOUS
<1> DEFINE r == [Blank(job, "each", from \cup {to}) EXCEPT !.queue = from, !.to = to]
<1>2. task'[t] = r /\ (\A u \in Tasks \ {t} : task'[u] = task[u]) /\ disturbed \subseteq disturbed'
      /\ UNCHANGED <<stored, private, password, listed, made, codes>>
  BY <1>1 DEF MoveOrCopy, Overlap, AllInv, StorageInv, TypeOK, StoreTypeOK, metaVars, colVars, oauthVars
<1>3. /\ r.at = "each" /\ r.job = job /\ r.scope = from \cup {to}
      /\ r.queue = from /\ r.to = to
  BY DEF Blank
<1> HIDE DEF r
<1>4. OnItsWay(task'[t])
  BY <1>2, <1>3, JobsOfSteps DEF OnItsWay, Ended, Bootstraps, Jobs
<1>5. FindingsHold(task[t])' /\ BootstrapHolds(task[t])' /\ TokenHolds(t)'
  BY <1>2, <1>3 DEF FindingsHold, BootstrapHolds, TokenHolds, At, Bootstraps
<1>6. MoveHolds(task[t])'
  BY <1>2, <1>3, KindsAssumption DEF MoveHolds, Items
<1>7. WideFrame(t)
  BY <1>2 DEF WideFrame
<1> QED
  BY <1>4, <1>5, <1>6, <1>7, ProgressKept DEF Done

-----------------------------------------------------------------------------
(* Items *)

\* What a command creates lives, where nobody else has worked.
LEMMA CreateKeepsProgress ==
  ASSUME AllInv, NEW t \in Tasks, Create(t)
  PROVE  ProgressInv'
<1> DEFINE i == task[t].item
           job == task[t].job
<1>1. /\ UNCHANGED <<private, password, listed, made, codes, disturbed>>
      /\ task[t].at = "create" /\ Working(t)
  BY DEF Create, At, Working, Ended, metaVars, colVars, oauthVars
<1>2. /\ Done(t) /\ job \in Bootstraps \cup {"addactor", "addclient", "addobject"}
      /\ i \in task[t].scope /\ i \in Items /\ stored \in [Items -> Record] /\ job \in Jobs
  BY <1>1, KnownOf, ReliesOnScope, JobsOfSteps
<1>3. \A j \in Items : j # i => stored'[j] = stored[j]
  BY <1>2 DEF Create
<1>4. CASE \E step \in Ended : Go(t, step)
  <2>1. (\A u \in Tasks \ {t} : task'[u] = task[u]) /\ Done(t)'
    BY <1>4, EndRecord
  <2>2. WideFrame(t)
    BY <1>1, <1>2, <1>3, <2>1 DEF WideFrame
  <2> QED
    BY <2>1, <2>2, ProgressKept
<1>5. ASSUME NEW step \in {"client", "load"}, Go(t, step), step = AfterCreate(job),
             stored'[i].life = "live" \/ (Exists(i) /\ UNCHANGED stored)
      PROVE  ProgressInv'
  <2>1. step \in Itinerary(job) /\ (step = "client" <=> job \in Bootstraps)
    BY <1>2, <1>5, JobsOfSteps DEF AfterCreate
  <2>2. /\ \A u \in Tasks \ {t} : task'[u] = task[u]
        /\ Same(task'[t], task[t]) /\ task'[t].at = step /\ task'[t].item = i
    BY <1>5, GoRecord DEF Steps, Ended
  <2>3. step = "load" /\ i \notin disturbed => stored'[i].life = "live"
    BY <1>1, <1>2, <1>5, <2>1 DEF Done, FindingsHold
  <2>4. FindingsHold(task[t])' /\ TokenHolds(t)'
    BY <1>1, <1>5, <2>2, <2>3 DEF FindingsHold, TokenHolds, At, Same, Lives
  <2>5. BootstrapHolds(task[t])'
    BY <1>1, <1>2, <1>5, <2>1, <2>2 DEF Done, BootstrapHolds, Same
  <2>6. Done(t)'
    BY <1>1, <1>5, <2>1, <2>4, <2>5, GoDone
  <2>7. WideFrame(t)
    BY <1>1, <1>2, <1>3, <2>2 DEF WideFrame
  <2> QED
    BY <2>6, <2>7, ProgressKept
<1>6. job = "addobject" \/ AfterCreate(job) \in {"client", "load"}
  BY <1>2 DEF AfterCreate, Bootstraps
<1>7. CASE ~Exists(i) /\ stored' = [stored EXCEPT ![i] = Live(task[t].seen[i].key)]
           /\ Go(t, AfterCreate(job))
  <2>1. stored'[i].life = "live"
    BY <1>2, <1>7 DEF Live
  <2>2. CASE job = "addobject"
    BY <1>4, <1>7, <2>2 DEF AfterCreate, Ended, Bootstraps
  <2> QED
    BY <1>5, <1>6, <1>7, <2>1, <2>2
<1>8. CASE Exists(i) /\ job # "addobject" /\ Go(t, AfterCreate(job)) /\ UNCHANGED stored
  BY <1>5, <1>6, <1>8
<1>9. CASE Go(t, "failed")
  BY <1>4, <1>9 DEF Ended
<1> QED
  BY <1>7, <1>8, <1>9 DEF Create

\* What a deletion leaves to be buried is all that it has found; of a client's
\* deletion, the client.
LEMMA LoadObjectsKeepsProgress ==
  ASSUME AllInv, NEW t \in Tasks, LoadObjects(t)
  PROVE  ProgressInv'
<1> DEFINE live == {i \in task[t].scope : Lives(i)}
<1>1. /\ UNCHANGED <<stored, private, password, listed, made, codes, disturbed>>
      /\ task[t].at = "delete" /\ Working(t)
  BY DEF LoadObjects, At, Working, Ended, metaVars, colVars, oauthVars
<1>2. /\ task[t] \in TaskRecord /\ OnItsWay(task[t]) /\ task[t].job \in {"delete", "delclient"}
  BY <1>1, KnownOf, JobsOfSteps DEF Done
<1>3. CASE Go(t, "failed")
  BY <1>1, <1>3, EndKeepsProgress DEF Ended
<1>4. ASSUME NEW found \in (SUBSET live) \ {{}},
             task' = [task EXCEPT ![t] = [task[t] EXCEPT
                        !.at = "bury", !.queue = found, !.left = live \ found]]
      PROVE  ProgressInv'
  <2> DEFINE left == live \ found
             r == [task[t] EXCEPT !.at = "bury", !.queue = found, !.left = left]
  <2>1. task'[t] = r /\ \A u \in Tasks \ {t} : task'[u] = task[u]
    BY <1>4 DEF AllInv, StorageInv, TypeOK, StoreTypeOK
  <2>2. /\ r.at = "bury" /\ r.job = task[t].job /\ r.queue = found /\ r.left = left
        /\ r.scope = task[t].scope /\ r.item = task[t].item
    BY <1>2 DEF TaskRecord
  <2>3. live \subseteq task[t].scope /\ (task[t].job = "delclient" => left = {})
    <3>1. found \subseteq live /\ found # {}
      BY <1>4
    <3> QED
      BY <1>1, <1>2, <3>1 DEF OnItsWay, Working
  <2> HIDE DEF r
  <2>4. OnItsWay(task'[t])
    <3>1. "bury" \in Itinerary(task[t].job)
      BY <1>2 DEF Itinerary, Bootstraps
    <3> QED
      BY <1>1, <1>2, <2>1, <2>2, <2>3, <3>1 DEF OnItsWay, Ended, Working, Bootstraps
  <2>5. FindingsHold(task[t])'
    BY <1>1, <2>1, <2>2 DEF FindingsHold, Lives
  <2>6. BootstrapHolds(task[t])' /\ MoveHolds(task[t])' /\ TokenHolds(t)'
    BY <1>2, <2>1, <2>2 DEF BootstrapHolds, MoveHolds, TokenHolds, At, Bootstraps
  <2>7. WideFrame(t)
    BY <1>1, <2>1 DEF WideFrame
  <2> QED
    BY <2>4, <2>5, <2>6, <2>7, ProgressKept DEF Done
<1> QED
  BY <1>3, <1>4 DEF LoadObjects

\* What a client's deletion has buried is not live, where nobody else has worked.
LEMMA DeleteObjectsKeepsProgress ==
  ASSUME AllInv, NEW t \in Tasks, DeleteObjects(t)
  PROVE  ProgressInv'
<1> DEFINE found == task[t].queue
           job == task[t].job
<1>1. /\ UNCHANGED <<private, password, listed, made, codes, disturbed>>
      /\ task[t].at = "bury" /\ Working(t)
  BY DEF DeleteObjects, At, Working, Ended, metaVars, colVars, oauthVars
<1>2. /\ Done(t) /\ job \in {"delete", "delclient"} /\ task[t].scope \subseteq Items
      /\ found \subseteq task[t].scope
      /\ stored \in [Items -> Record] /\ job \in Jobs
  BY <1>1, KnownOf, ReliesOnScope, JobsOfSteps
<1>3. PICK gone \in SUBSET found :
        /\ stored' = [i \in Items |-> IF i \in gone /\ Exists(i) THEN Tombstone ELSE stored[i]]
        /\ Go(t, "failed") \/ (gone = found /\ Go(t, AfterDelete(job)))
  BY DEF DeleteObjects
<1>4. \A i \in Items : stored'[i] # stored[i] => i \in task[t].scope
  BY <1>2, <1>3
<1>5. CASE \E step \in Ended : Go(t, step)
  <2>1. (\A u \in Tasks \ {t} : task'[u] = task[u]) /\ Done(t)'
    BY <1>5, EndRecord
  <2>2. WideFrame(t)
    BY <1>1, <1>4, <2>1 DEF WideFrame
  <2> QED
    BY <2>1, <2>2, ProgressKept
<1>6. CASE job = "delclient" /\ gone = found /\ Go(t, "remove")
  <2>1. "remove" \in Itinerary(job)
    BY <1>2, <1>6, JobsOfSteps
  <2>2. /\ \A u \in Tasks \ {t} : task'[u] = task[u]
        /\ Same(task'[t], task[t]) /\ task'[t].at = "remove" /\ task'[t].item = task[t].item
    BY <1>6, GoRecord DEF Steps, Ended
  <2>3. task[t].item \in Items /\ task[t].scope = {task[t].item} /\ task[t].left = {}
    BY <1>1, <1>2, <1>6 DEF Done, OnItsWay, Working
  <2>4. task[t].item \notin disturbed => stored'[task[t].item].life # "live"
    BY <1>1, <1>2, <1>3, <1>6, <2>3 DEF Done, FindingsHold, Lives, Tombstone, Exists
  <2>5. FindingsHold(task[t])' /\ BootstrapHolds(task[t])' /\ TokenHolds(t)'
    BY <1>1, <1>6, <2>2, <2>4 DEF FindingsHold, BootstrapHolds, TokenHolds, At, Same, Lives, Bootstraps
  <2>6. Done(t)'
    BY <1>1, <1>6, <2>1, <2>5, GoDone
  <2>7. WideFrame(t)
    BY <1>1, <1>4, <2>2 DEF WideFrame
  <2> QED
    BY <2>6, <2>7, ProgressKept
<1>7. AfterDelete(job) \in Ended \/ (job = "delclient" /\ AfterDelete(job) = "remove")
  BY DEF AfterDelete, Ended
<1> QED
  BY <1>3, <1>5, <1>6, <1>7 DEF Ended

-----------------------------------------------------------------------------
(* Moves *)

LEMMA LoopingKnown ==
  ASSUME AllInv, NEW t \in Tasks, \E job \in {"move", "copy"} : Looping(t, job)
  PROVE  /\ task[t].at = "each" /\ task[t].job \in {"move", "copy"} /\ Working(t)
         /\ task[t] \in TaskRecord /\ OnItsWay(task[t]) /\ MoveHolds(task[t])
         /\ task[t].to \in Collections
BY KnownOf, ReliesOnScope DEF Looping, At, Working, Ended, Done

LEMMA PlaceKeepsProgress ==
  ASSUME AllInv, NEW t \in Tasks, Place(t)
  PROVE  ProgressInv'
<1> DEFINE c == task[t].to
           next == IF task[t].job = "move" THEN "unlink" ELSE "each"
<1>1. UNCHANGED <<stored, private, password, made, codes, disturbed>>
  BY DEF Place, metaVars, oauthVars
<1>2. /\ task[t].at = "each" /\ task[t].job \in {"move", "copy"} /\ Working(t)
      /\ task[t] \in TaskRecord /\ OnItsWay(task[t]) /\ MoveHolds(task[t]) /\ c \in Collections
      /\ listed \in [Collections -> SUBSET Items]
  BY LoopingKnown, KnownOf DEF Place
<1>3. PICK i \in task[t].queue \cap Items :
        /\ Take(t, i, next)
        /\ \/ listed' = [listed EXCEPT ![c] = @ \cup {i}]
           \/ task[t].job = "copy" /\ UNCHANGED listed
  BY DEF Place
<1>4. /\ \A u \in Tasks \ {t} : task'[u] = task[u]
      /\ Same(task'[t], task[t]) /\ task'[t].at = next
      /\ task'[t].item = i /\ task'[t].queue = task[t].queue \ {i}
  BY <1>3, TakeRecord
<1>5. (\A d \in Collections : listed[d] \subseteq listed'[d]) /\ (task[t].job = "move" => i \in listed'[c])
  BY <1>2, <1>3
<1>6. OnItsWay(task'[t])
  <2>1. next \in Itinerary(task[t].job)
    BY <1>2, JobsOfSteps DEF Jobs
  <2> QED
    BY <1>2, <1>4, <2>1 DEF OnItsWay, Same, Ended, Working, Bootstraps
<1>7. FindingsHold(task[t])' /\ BootstrapHolds(task[t])' /\ TokenHolds(t)'
  BY <1>2, <1>4 DEF FindingsHold, BootstrapHolds, TokenHolds, At, Same, Bootstraps
<1>8. MoveHolds(task[t])'
  <2>1. task[t].job # "move" => next = "each"
    OBVIOUS
  <2>2. ASSUME task[t].job = "move",
               NEW x \in (task[t].scope \cap Items) \ ((task[t].queue \ {i}) \cup task[t].left \cup disturbed)
        PROVE  x \in listed'[c] /\ (Exists(x) => x = i)
    BY <1>2, <1>5, <2>2 DEF MoveHolds
  <2> QED
    BY <1>1, <1>4, <1>5, <2>1, <2>2 DEF MoveHolds, Same, Exists
<1>9. WideFrame(t)
  BY <1>1, <1>4, <1>5 DEF WideFrame
<1> QED
  BY <1>6, <1>7, <1>8, <1>9, ProgressKept DEF Done

LEMMA ExpandKeepsProgress ==
  ASSUME AllInv, NEW t \in Tasks, Expand(t)
  PROVE  ProgressInv'
<1>1. UNCHANGED <<stored, private, password, listed, made, codes>>
  BY DEF Expand, metaVars, colVars, oauthVars
<1>2. /\ task[t].at = "each" /\ task[t].job \in {"move", "copy"} /\ Working(t)
      /\ task[t] \in TaskRecord /\ OnItsWay(task[t]) /\ MoveHolds(task[t])
  BY LoopingKnown DEF Expand
<1>3. PICK members, left :
        /\ task' = [task EXCEPT ![t] = [task[t] EXCEPT
                      !.queue = members, !.scope = @ \cup members, !.left = left]]
        /\ Overlap(t, members)
        /\ (task[t].left \cup task[t].queue) \cap Items \subseteq left \cup members
  <2>1. PICK c \in task[t].queue \cap made :
          LET members == {i \in listed[c] : Exists(i)} IN
          /\ task' = [task EXCEPT ![t] = [task[t] EXCEPT
                        !.queue = members, !.scope = @ \cup members,
                        !.left = (@ \cup task[t].queue) \ (members \cup {c})]]
          /\ Overlap(t, members)
    BY DEF Expand
  <2> DEFINE members == {i \in listed[c] : Exists(i)}
             left == (task[t].left \cup task[t].queue) \ (members \cup {c})
  <2>2. c \notin Items
    BY <2>1, KindsAssumption DEF AllInv, StorageInv, TypeOK, StoreTypeOK, Items
  <2>3. (task[t].left \cup task[t].queue) \cap Items \subseteq left \cup members
    BY <2>2
  <2>4. /\ task' = [task EXCEPT ![t] = [task[t] EXCEPT
                      !.queue = members, !.scope = @ \cup members, !.left = left]]
        /\ Overlap(t, members)
    BY <1>2, <2>1 DEF TaskRecord
  <2> HIDE DEF members, left
  <2> QED
    BY <2>3, <2>4
<1> DEFINE r == [task[t] EXCEPT !.queue = members, !.scope = @ \cup members, !.left = left]
<1>4. /\ task'[t] = r /\ (\A u \in Tasks \ {t} : task'[u] = task[u]) /\ disturbed \subseteq disturbed'
  BY <1>3 DEF Overlap, AllInv, StorageInv, TypeOK, StoreTypeOK
<1>5. /\ r.at = "each" /\ r.job = task[t].job /\ r.queue = members /\ r.to = task[t].to
      /\ r.scope = task[t].scope \cup members /\ r.left = left
  BY <1>2 DEF TaskRecord
<1> HIDE DEF r
<1>6. OnItsWay(task'[t])
  BY <1>2, <1>4, <1>5 DEF OnItsWay, Ended, Working, Bootstraps
<1>7. FindingsHold(task[t])' /\ BootstrapHolds(task[t])' /\ TokenHolds(t)'
  BY <1>2, <1>4, <1>5 DEF FindingsHold, BootstrapHolds, TokenHolds, At, Bootstraps
<1>8. MoveHolds(task[t])'
  BY <1>1, <1>2, <1>3, <1>4, <1>5 DEF MoveHolds, Exists
<1>9. WideFrame(t)
  BY <1>1, <1>4 DEF WideFrame
<1> QED
  BY <1>6, <1>7, <1>8, <1>9, ProgressKept DEF Done

LEMMA UnlinkKeepsProgress ==
  ASSUME AllInv, NEW t \in Tasks, Unlink(t)
  PROVE  ProgressInv'
<1>1. /\ UNCHANGED <<private, password, listed, made, codes, disturbed>>
      /\ task[t].at = "unlink" /\ Working(t)
  BY DEF Unlink, At, Working, Ended, metaVars, colVars, oauthVars
<1>2. Done(t) /\ task[t].job = "move" /\ task[t].item \in task[t].scope
  BY <1>1, KnownOf, ReliesOnScope, JobsOfSteps
<1>3. CASE Go(t, "failed") /\ UNCHANGED stored
  BY <1>1, <1>3, EndKeepsProgress DEF Ended
<1>4. CASE stored' = [stored EXCEPT ![task[t].item] = Absent] /\ Go(t, "each")
  <2>1. "each" \in Itinerary(task[t].job)
    BY <1>2, JobsOfSteps DEF Jobs
  <2>2. /\ \A u \in Tasks \ {t} : task'[u] = task[u]
        /\ Same(task'[t], task[t]) /\ task'[t].at = "each"
    BY <1>4, GoRecord DEF Steps, Ended
  <2>3. FindingsHold(task[t])' /\ BootstrapHolds(task[t])' /\ TokenHolds(t)'
    BY <1>2, <2>2 DEF FindingsHold, BootstrapHolds, TokenHolds, At, Same, Bootstraps
  <2>4. OnItsWay(task'[t])
    BY <1>1, <1>2, <2>1, <2>2 DEF Done, OnItsWay, Same, Ended, Working, Bootstraps
  <2>5. stored \in [Items -> Record]
    BY <1>1, KnownOf
  <2>7. MoveHolds(task[t])'
    <3>1. /\ \A x \in Items : Exists(x)' => Exists(x) /\ x # task[t].item
          /\ task'[t].queue = task[t].queue
      BY <1>4, <2>5, GoRecord DEF Exists, Absent, Steps, Ended
    <3> QED
      BY <1>1, <1>2, <2>2, <3>1 DEF Done, MoveHolds, Same
  <2>6. WideFrame(t)
    BY <1>1, <1>2, <1>4, <2>2, <2>5 DEF WideFrame
  <2> QED
    BY <2>3, <2>4, <2>6, <2>7, ProgressKept DEF Done
<1> QED
  BY <1>3, <1>4 DEF Unlink

-----------------------------------------------------------------------------
(* Imports *)

LEMMA ProcessActivitiesKeepsProgress ==
  ASSUME AllInv, NEW t \in Tasks, ProcessActivities(t)
  PROVE  ProgressInv'
<1>1. /\ UNCHANGED <<private, password, made, codes, disturbed>>
      /\ task[t].at = "process" /\ Working(t)
  BY DEF ProcessActivities, At, Working, Ended, metaVars, colVars, oauthVars
<1>2. /\ Done(t) /\ task[t].job = "import" /\ task[t].scope \subseteq Items
      /\ task[t].queue \subseteq task[t].scope /\ stored \in [Items -> Record]
      /\ listed \in [Collections -> SUBSET Items] /\ made \subseteq Collections
  BY <1>1, KnownOf, ReliesOnScope, JobsOfSteps DEF AllInv, StorageInv, TypeOK, StoreTypeOK
<1>3. CASE (\E i \in task[t].queue \cap Items : Activity(t, i)) /\ UNCHANGED task
  <2>1. Done(t)'
    BY <1>1, <1>2, <1>3
       DEF Done, OnItsWay, FindingsHold, BootstrapHolds, MoveHolds, TokenHolds, At, Bootstraps
  <2>2. PICK i \in task[t].queue \cap Items : Activity(t, i)
    BY <1>3
  <2>3. \A j \in Items : stored'[j] # stored[j] => j = i
    BY <1>2, <2>2 DEF Activity, ImportItem
  <2>4. \A c \in Collections : \A x \in listed[c] : x \notin listed'[c] => x = i
    BY <1>2, <2>2 DEF Activity
  <2>5. WideFrame(t)
    BY <1>1, <1>2, <1>3, <2>3, <2>4 DEF WideFrame
  <2> QED
    BY <2>1, <2>5, ProgressKept
<1>4. CASE Go(t, "each") /\ UNCHANGED <<stored, listed>>
  <2>1. "each" \in Itinerary(task[t].job)
    BY <1>2, JobsOfSteps DEF Jobs
  <2>2. /\ \A u \in Tasks \ {t} : task'[u] = task[u]
        /\ Same(task'[t], task[t]) /\ task'[t].at = "each"
    BY <1>4, GoRecord DEF Steps, Ended
  <2>3. FindingsHold(task[t])' /\ BootstrapHolds(task[t])' /\ TokenHolds(t)'
    BY <1>2, <2>2 DEF FindingsHold, BootstrapHolds, TokenHolds, At, Same, Bootstraps
  <2>4. Done(t)'
    BY <1>1, <1>2, <1>4, <2>1, <2>3, GoDone
  <2>5. WideFrame(t)
    BY <1>1, <1>4, <2>2 DEF WideFrame
  <2> QED
    BY <2>4, <2>5, ProgressKept
<1> QED
  BY <1>3, <1>4 DEF ProcessActivities

\* What is going to be saved does not exist, or the load has failed.
LEMMA ProbeObjectKeepsProgress ==
  ASSUME AllInv, NEW t \in Tasks, ProbeObject(t)
  PROVE  ProgressInv'
<1>1. /\ UNCHANGED <<stored, private, password, listed, made, codes>>
      /\ task[t].at = "each" /\ task[t].job = "import" /\ Working(t)
  BY DEF ProbeObject, Looping, At, Working, Ended, metaVars, colVars, oauthVars
<1>2. Done(t) /\ task[t] \in TaskRecord
  BY <1>1, KnownOf
<1>3. PICK i \in task[t].queue, step \in {"each", "save"} :
        /\ Take(t, i, step)
        /\ disturbed' = disturbed \/ disturbed' = disturbed \cup {i}
        /\ step = "save" => ~Exists(i) \/ i \in disturbed'
  BY DEF ProbeObject
<1>4. /\ \A u \in Tasks \ {t} : task'[u] = task[u]
      /\ Same(task'[t], task[t]) /\ task'[t].at = step /\ task'[t].item = i
  BY <1>3, TakeRecord
<1>5. OnItsWay(task'[t])
  <2>1. step \in Itinerary(task[t].job)
    BY <1>1, JobsOfSteps DEF Jobs
  <2> QED
    BY <1>1, <1>2, <1>4, <2>1 DEF Done, OnItsWay, Same, Ended, Bootstraps
<1>6. FindingsHold(task[t])'
  BY <1>1, <1>3, <1>4 DEF FindingsHold, Exists
<1>7. BootstrapHolds(task[t])' /\ MoveHolds(task[t])' /\ TokenHolds(t)'
  BY <1>1, <1>4 DEF BootstrapHolds, MoveHolds, TokenHolds, At, Same, Bootstraps
<1>8. WideFrame(t)
  BY <1>1, <1>3, <1>4 DEF WideFrame
<1> QED
  BY <1>5, <1>6, <1>7, <1>8, ProgressKept DEF Done

LEMMA SaveObjectKeepsProgress ==
  ASSUME AllInv, NEW t \in Tasks, SaveObject(t)
  PROVE  ProgressInv'
<1>1. /\ UNCHANGED <<private, password, listed, made, codes, disturbed>>
      /\ task[t].at = "save" /\ Working(t) /\ Go(t, "each")
      /\ ImportItem(t, task[t].item) \/ UNCHANGED stored
  BY DEF SaveObject, At, Working, Ended, metaVars, colVars, oauthVars
<1>2. /\ Done(t) /\ task[t].job = "import" /\ task[t].item \in task[t].scope
      /\ stored \in [Items -> Record]
  BY <1>1, KnownOf, ReliesOnScope, JobsOfSteps
<1>3. "each" \in Itinerary(task[t].job)
  BY <1>2, JobsOfSteps DEF Jobs
<1>4. /\ \A u \in Tasks \ {t} : task'[u] = task[u]
      /\ Same(task'[t], task[t]) /\ task'[t].at = "each"
  BY <1>1, GoRecord DEF Steps, Ended
<1>5. FindingsHold(task[t])' /\ BootstrapHolds(task[t])' /\ TokenHolds(t)'
  BY <1>2, <1>4 DEF FindingsHold, BootstrapHolds, TokenHolds, At, Same, Bootstraps
<1>6. Done(t)'
  BY <1>1, <1>2, <1>3, <1>5, GoDone
<1>7. WideFrame(t)
  BY <1>1, <1>2, <1>4 DEF WideFrame, ImportItem
<1> QED
  BY <1>6, <1>7, ProgressKept

-----------------------------------------------------------------------------
(* Repairs *)

\* A repair has found out nothing that it relies on but what it has in memory.
LEMMA RepairDone ==
  ASSUME NEW t \in Tasks, task'[t].job = "repair", task'[t].at \in {"each", "make"}
  PROVE  Done(t)'
<1>1. task'[t].at \in Itinerary("repair")
  BY JobsOfSteps DEF Jobs
<1>2. OnItsWay(task'[t])
  BY <1>1 DEF OnItsWay, Ended, Bootstraps
<1>3. FindingsHold(task[t])' /\ BootstrapHolds(task[t])' /\ MoveHolds(task[t])' /\ TokenHolds(t)'
  BY DEF FindingsHold, BootstrapHolds, MoveHolds, TokenHolds, At, Bootstraps
<1> QED
  BY <1>2, <1>3 DEF Done

LEMMA LoadCollectionKeepsProgress ==
  ASSUME AllInv, NEW t \in Tasks, LoadCollection(t)
  PROVE  ProgressInv'
<1>1. /\ UNCHANGED <<stored, private, password, listed, made, codes>>
      /\ task[t].at = "each" /\ task[t].job = "repair" /\ Working(t)
  BY DEF LoadCollection, Looping, At, Working, Ended, metaVars, colVars, oauthVars
<1>2. task[t] \in TaskRecord
  BY <1>1, KnownOf
<1>3. ASSUME NEW c, NEW step \in {"each", "make"}, Take(t, c, step), UNCHANGED disturbed
      PROVE  ProgressInv'
  <2>1. /\ \A u \in Tasks \ {t} : task'[u] = task[u]
        /\ Same(task'[t], task[t]) /\ task'[t].at = step
    BY <1>3, TakeRecord
  <2>2. Done(t)'
    BY <1>1, <2>1, RepairDone DEF Same
  <2>3. WideFrame(t)
    BY <1>1, <1>3, <2>1 DEF WideFrame
  <2> QED
    BY <2>2, <2>3, ProgressKept
<1>4. ASSUME NEW c, NEW members,
             task' = [task EXCEPT ![t] = [task[t] EXCEPT
               !.queue = (@ \ {c}) \cup members, !.scope = @ \cup members,
               !.seen = [i \in Items |-> IF i \in members THEN stored[i] ELSE @[i]]]],
             Overlap(t, members)
      PROVE  ProgressInv'
  <2> DEFINE r == [task[t] EXCEPT
               !.queue = (@ \ {c}) \cup members, !.scope = @ \cup members,
               !.seen = [i \in Items |-> IF i \in members THEN stored[i] ELSE @[i]]]
  <2>1. task'[t] = r /\ (\A u \in Tasks \ {t} : task'[u] = task[u]) /\ disturbed \subseteq disturbed'
    BY <1>4 DEF Overlap, AllInv, StorageInv, TypeOK, StoreTypeOK
  <2>2. r.at = "each" /\ r.job = "repair"
    BY <1>1, <1>2 DEF TaskRecord
  <2> HIDE DEF r
  <2>3. Done(t)'
    BY <2>1, <2>2, RepairDone
  <2>4. WideFrame(t)
    BY <1>1, <2>1 DEF WideFrame
  <2> QED
    BY <2>3, <2>4, ProgressKept
<1> QED
  BY <1>3, <1>4 DEF LoadCollection

LEMMA MakeCollectionKeepsProgress ==
  ASSUME AllInv, NEW t \in Tasks, MakeCollection(t)
  PROVE  ProgressInv'
<1>1. /\ UNCHANGED <<stored, private, password, listed, codes, disturbed>> /\ made \subseteq made'
      /\ task[t].at = "make" /\ Working(t) /\ Go(t, "each")
  BY DEF MakeCollection, At, Working, Ended, metaVars, oauthVars
<1>2. task[t].job = "repair"
  BY <1>1, KnownOf, JobsOfSteps
<1>3. /\ \A u \in Tasks \ {t} : task'[u] = task[u]
      /\ Same(task'[t], task[t]) /\ task'[t].at = "each"
  BY <1>1, GoRecord DEF Steps, Ended
<1>4. Done(t)'
  BY <1>2, <1>3, RepairDone DEF Same
<1>5. WideFrame(t)
  BY <1>1, <1>3 DEF WideFrame
<1> QED
  BY <1>4, <1>5, ProgressKept

LEMMA SaveMemberKeepsProgress ==
  ASSUME AllInv, NEW t \in Tasks, SaveMember(t)
  PROVE  ProgressInv'
<1>1. /\ UNCHANGED <<private, password, listed, made, codes, disturbed>>
      /\ task[t].at = "each" /\ task[t].job = "repair" /\ Working(t)
  BY DEF SaveMember, Looping, At, Working, Ended, metaVars, colVars, oauthVars
<1>2. task[t] \in TaskRecord /\ stored \in [Items -> Record] /\ task[t].queue \subseteq task[t].scope
  BY <1>1, KnownOf, ReliesOnScope
<1>3. PICK i \in task[t].queue \cap Items :
        /\ stored' \in {stored, [stored EXCEPT ![i] = task[t].seen[i]]}
        /\ task' = [task EXCEPT ![t] = [task[t] EXCEPT !.queue = @ \ {i}, !.scope = @ \ {i}]]
  BY DEF SaveMember
<1> DEFINE r == [task[t] EXCEPT !.queue = @ \ {i}, !.scope = @ \ {i}]
<1>4. task'[t] = r /\ \A u \in Tasks \ {t} : task'[u] = task[u]
  BY <1>3 DEF AllInv, StorageInv, TypeOK, StoreTypeOK
<1>5. r.at = "each" /\ r.job = "repair"
  BY <1>1, <1>2 DEF TaskRecord
<1> HIDE DEF r
<1>6. Done(t)'
  BY <1>4, <1>5, RepairDone
<1>7. WideFrame(t)
  BY <1>1, <1>2, <1>3, <1>4 DEF WideFrame
<1> QED
  BY <1>6, <1>7, ProgressKept

-----------------------------------------------------------------------------
(* Commands that end *)

LEMMA EndsKeepProgress ==
  ASSUME AllInv, NEW t \in Tasks,
         \/ LoopFails(t) \/ (\E job \in {"move", "copy", "import", "repair"} : LoopEnds(t, job))
         \/ RemoveClient(t) \/ SaveAccess(t) \/ OpenAgain(t) \/ Killed(t)
  PROVE  ProgressInv'
<1>1. CASE LoopFails(t)
  BY <1>1, EndKeepsProgress
     DEF LoopFails, Looping, At, Working, Ended, metaVars, colVars, oauthVars
<1>2. CASE \E job \in {"move", "copy", "import", "repair"} : LoopEnds(t, job)
  BY <1>2, EndKeepsProgress DEF LoopEnds, At, Working, Ended, metaVars, colVars, oauthVars
<1>3. CASE RemoveClient(t)
  BY <1>3, EndKeepsProgress DEF RemoveClient, At, Working, Ended, metaVars, colVars
<1>4. CASE SaveAccess(t)
  BY <1>4, EndKeepsProgress DEF SaveAccess, At, Working, Ended, metaVars, colVars
<1>5. CASE OpenAgain(t)
  BY <1>5, EndKeepsProgress DEF OpenAgain, At, Working, Ended, metaVars, colVars, oauthVars
<1>6. CASE Killed(t)
  BY <1>6, EndKeepsProgress DEF Killed, Ended, metaVars, colVars, oauthVars
<1> QED
  BY <1>1, <1>2, <1>3, <1>4, <1>5, <1>6

-----------------------------------------------------------------------------
(* Accounts *)

LEMMA SaveClientKeepsProgress ==
  ASSUME AllInv, NEW t \in Tasks, SaveClient(t)
  PROVE  ProgressInv'
<1> DEFINE job == task[t].job
<1>1. /\ UNCHANGED <<stored, private, password, listed, made, codes, disturbed>>
      /\ task[t].at = "client" /\ Working(t)
  BY DEF SaveClient, At, Working, Ended, metaVars, colVars
<1>2. Done(t) /\ job \in Bootstraps \cup {"addclient"} /\ job \in Jobs
  BY <1>1, KnownOf, JobsOfSteps
<1>3. CASE \E step \in Ended : Go(t, step)
  BY <1>1, <1>3, EndKeepsProgress
<1>4. CASE job \in Bootstraps /\ Go(t, AfterClient(job))
  <2>1. PICK step \in {"load", "password"} :
          Go(t, step) /\ step \in Itinerary(job) /\ (step = "load" => job = "reset")
    BY <1>2, <1>4, JobsOfSteps DEF AfterClient, Bootstraps
  <2>2. /\ \A u \in Tasks \ {t} : task'[u] = task[u]
        /\ Same(task'[t], task[t]) /\ task'[t].at = step
    BY <2>1, GoRecord DEF Steps, Ended
  <2>3. FindingsHold(task[t])' /\ TokenHolds(t)'
    BY <1>4, <2>1, <2>2 DEF FindingsHold, TokenHolds, At, Same
  <2>4. BootstrapHolds(task[t])'
    BY <1>1, <1>2, <2>1, <2>2 DEF Done, BootstrapHolds, Same
  <2>5. Done(t)'
    BY <1>1, <2>1, <2>3, <2>4, GoDone
  <2>6. WideFrame(t)
    BY <1>1, <2>2 DEF WideFrame
  <2> QED
    BY <2>5, <2>6, ProgressKept
<1>5. (job \in Bootstraps /\ Go(t, AfterClient(job))) \/ \E step \in Ended : Go(t, step)
  BY <1>2 DEF SaveClient, AfterClient, Ended, Bootstraps
<1> QED
  BY <1>3, <1>4, <1>5

\* A bootstrap goes on when all the collections could be saved.
LEMMA SaveStreamsKeepsProgress ==
  ASSUME AllInv, NEW t \in Tasks, SaveStreams(t)
  PROVE  ProgressInv'
<1>1. /\ UNCHANGED <<stored, private, password, listed, codes, disturbed>>
      /\ task[t].at = "streams" /\ Working(t) /\ made \subseteq made'
  BY DEF SaveStreams, At, Working, Ended, metaVars, oauthVars
<1>2. Done(t) /\ task[t].job \in Bootstraps /\ task[t].job \in Jobs
  BY <1>1, KnownOf, JobsOfSteps
<1>3. CASE \E step \in Ended : Go(t, step)
  BY <1>1, <1>3, EndKeepsProgress
<1>4. CASE Streams \subseteq made' /\ task[t].job # "reset" /\ Go(t, "open")
  <2>1. "open" \in Itinerary(task[t].job)
    BY <1>2, <1>4, JobsOfSteps DEF Bootstraps
  <2>2. /\ \A u \in Tasks \ {t} : task'[u] = task[u]
        /\ Same(task'[t], task[t]) /\ task'[t].at = "open"
    BY <1>4, GoRecord DEF Steps, Ended
  <2>3. FindingsHold(task[t])' /\ TokenHolds(t)'
    BY <2>2 DEF FindingsHold, TokenHolds, At
  <2>4. BootstrapHolds(task[t])'
    BY <1>1, <1>2, <1>4, <2>2 DEF Done, BootstrapHolds, Same
  <2>5. Done(t)'
    BY <1>1, <1>4, <2>1, <2>3, <2>4, GoDone
  <2>6. WideFrame(t)
    BY <1>1, <2>2 DEF WideFrame
  <2> QED
    BY <2>5, <2>6, ProgressKept
<1> QED
  BY <1>3, <1>4 DEF SaveStreams, Ended

LEMMA SaveAuthorizeKeepsProgress ==
  ASSUME AllInv, NEW t \in Tasks, SaveAuthorize(t)
  PROVE  ProgressInv'
<1>1. /\ UNCHANGED <<stored, private, password, listed, made, disturbed>>
      /\ task[t].at = "authorize" /\ Working(t) /\ codes \subseteq codes'
  BY DEF SaveAuthorize, At, Working, Ended, metaVars, colVars
<1>2. task[t].job = "token"
  BY <1>1, KnownOf, JobsOfSteps
<1>3. CASE Go(t, "failed")
  BY <1>1, <1>3, EndKeepsProgress DEF Ended
<1>4. CASE codes' = codes \cup {t} /\ Go(t, "access")
  <2>1. "access" \in Itinerary(task[t].job)
    BY <1>2, JobsOfSteps DEF Jobs
  <2>2. /\ \A u \in Tasks \ {t} : task'[u] = task[u]
        /\ Same(task'[t], task[t]) /\ task'[t].at = "access"
    BY <1>4, GoRecord DEF Steps, Ended
  <2>3. FindingsHold(task[t])' /\ BootstrapHolds(task[t])' /\ TokenHolds(t)'
    BY <1>2, <1>4, <2>2 DEF FindingsHold, BootstrapHolds, TokenHolds, Same, Bootstraps
  <2>4. Done(t)'
    BY <1>1, <1>4, <2>1, <2>3, GoDone
  <2>5. WideFrame(t)
    BY <1>1, <2>2 DEF WideFrame
  <2> QED
    BY <2>4, <2>5, ProgressKept
<1> QED
  BY <1>3, <1>4 DEF SaveAuthorize

\* A reset undoes everything, also what the others have done; but they are
\* disturbed from its beginning.
LEMMA CleanKeepsProgress ==
  ASSUME AllInv, NEW t \in Tasks, Clean(t)
  PROVE  ProgressInv'
<1>1. task[t].at = "clean" /\ Working(t) /\ UNCHANGED disturbed
  BY DEF Clean, At, Working, Ended
<1>2. /\ Done(t) /\ task[t].job = "reset" /\ task[t].scope = Things /\ OnItsWay(task[t])
  BY <1>1, KnownOf, JobsOfSteps DEF Shape, Done
<1>3. CASE Go(t, "failed") /\ UNCHANGED <<stored, metaVars, colVars, oauthVars>>
  BY <1>1, <1>3, EndKeepsProgress DEF Ended, metaVars, colVars, oauthVars
<1>4. CASE password' = [a \in Actors |-> NoSecret] /\ Go(t, "create")
  <2>1. /\ \A u \in Tasks \ {t} : task'[u] = task[u]
        /\ Same(task'[t], task[t]) /\ task'[t].at = "create" /\ task'[t].item = task[t].item
    BY <1>4, GoRecord DEF Steps, Ended
  <2>2. OnItsWay(task'[t])
    BY <1>1, <1>2, <2>1, JobsOfSteps DEF OnItsWay, Same, Ended, Bootstraps, Jobs
  <2>3. FindingsHold(task[t])' /\ MoveHolds(task[t])' /\ TokenHolds(t)'
    BY <1>2, <2>1 DEF FindingsHold, MoveHolds, TokenHolds, At, Same, Bootstraps
  <2>4. task[t].word = NoSecret
    BY <1>1, <1>2 DEF OnItsWay, Ended
  <2>5. BootstrapHolds(task[t])'
    BY <1>4, <2>1, <2>4, ServiceAssumption DEF BootstrapHolds, Same
  <2>6. WideFrame(t)
    BY <1>1, <1>2, <2>1 DEF WideFrame
  <2> QED
    BY <2>2, <2>3, <2>5, <2>6, ProgressKept DEF Done
<1> QED
  BY <1>3, <1>4 DEF Clean

-----------------------------------------------------------------------------

LEMMA InitHasProgress == Init => ProgressInv
<1> SUFFICES ASSUME Init, NEW t \in Tasks
             PROVE  Done(t)
  BY DEF ProgressInv, Done
<1>1. task[t] = Resting("idle")
  BY DEF Init, StoreInit
<1> QED
  BY <1>1 DEF Done, OnItsWay, FindingsHold, BootstrapHolds, MoveHolds, TokenHolds, At,
              Resting, Blank, Ended, Bootstraps

LEMMA TasksKeepProgress ==
  ASSUME AllInv, NEW t \in Tasks, KeySteps(t) \/ ObjectSteps(t) \/ AccountSteps(t)
  PROVE  ProgressInv'
<1>1. CASE KeySteps(t)
  BY <1>1, LoadMetadataKeepsProgress, SaveMetadataKeepsProgress, SaveActorKeepsProgress,
     GenerateKeyPairKeepsProgress, UpdateKeepsProgress, SetPasswordKeepsProgress,
     SaveMetadataForItemsKeepsProgress, KeyBeginningsKeepProgress
     DEF KeySteps
<1>2. CASE ObjectSteps(t)
  BY <1>2, ObjectBeginningsKeepProgress, CreateKeepsProgress, LoadObjectsKeepsProgress, DeleteObjectsKeepsProgress,
     MoveOrCopyKeepsProgress, PlaceKeepsProgress, ExpandKeepsProgress, UnlinkKeepsProgress,
     ProcessActivitiesKeepsProgress, ProbeObjectKeepsProgress, SaveObjectKeepsProgress,
     LoadCollectionKeepsProgress, MakeCollectionKeepsProgress, SaveMemberKeepsProgress,
     EndsKeepProgress
     DEF ObjectSteps
<1>3. CASE AccountSteps(t)
  BY <1>3, AccountBeginningsKeepProgress, BootstrapKeepsProgress, SaveClientKeepsProgress,
     SaveStreamsKeepsProgress, SaveAuthorizeKeepsProgress, CleanKeepsProgress, EndsKeepProgress
     DEF AccountSteps
<1> QED
  BY <1>1, <1>2, <1>3

\* The server loading its key, and a step that changes nothing
LEMMA QuietKeepsProgress ==
  ASSUME AllInv,
         UNCHANGED <<stored, private, password, listed, made, codes, task, disturbed>>
  PROVE  ProgressInv'
BY DEF AllInv, ProgressInv, OnItsWay, FindingsHold, BootstrapHolds, MoveHolds, TokenHolds,
       At, Exists, Lives

LEMMA NextKeepsProgress == AllInv /\ [Next]_vars => ProgressInv'
<1> SUFFICES ASSUME AllInv, [Next]_vars
             PROVE  ProgressInv'
  OBVIOUS
<1>1. CASE \E t \in Tasks : KeySteps(t) \/ ObjectSteps(t) \/ AccountSteps(t)
  BY <1>1, TasksKeepProgress
<1>2. CASE LoadServiceActor \/ UNCHANGED vars
  BY <1>2, QuietKeepsProgress DEF LoadServiceActor, vars, metaVars, colVars, oauthVars
<1> QED
  BY <1>1, <1>2 DEF Next

LEMMA InitHasAll == Init => AllInv
BY InitHolds, InitHasKeys, InitHasProgress DEF AllInv

LEMMA NextKeepsAll == AllInv /\ [Next]_vars => AllInv'
BY NextKeeps, NextKeepsKeys, NextKeepsProgress DEF AllInv

\* Wherever commands interleave, fail or are killed, a command that works alone
\* on something finds it as it has left it (base.go, cmd-activitypub.go,
\* cmd-bootstrap.go, cmd-oauth.go).
THEOREM ProgressInvariant == Spec => []ProgressInv
<1>1. AllInv => ProgressInv
  BY DEF AllInv
<1> QED
  BY <1>1, InitHasAll, NextKeepsAll, PTL DEF Spec

-----------------------------------------------------------------------------
(* Whose step it is *)

OwnStep(t) == KeySteps(t) \/ ObjectSteps(t) \/ AccountSteps(t)

\* A task is changed by its own steps only.
LEMMA OthersUnchanged ==
  ASSUME AllInv, NEW u \in Tasks, OwnStep(u)
  PROVE  \A t \in Tasks \ {u} : task'[t] = task[t]
<1>1. task = [t \in Tasks |-> task[t]]
  BY DEF AllInv, StorageInv, TypeOK, StoreTypeOK
<1>2. ASSUME NEW r, task' = [task EXCEPT ![u] = r]
      PROVE  \A t \in Tasks \ {u} : task'[t] = task[t]
  BY <1>1, <1>2
<1>3. CASE \E step \in Steps : Go(u, step)
  BY <1>1, <1>3 DEF Go
<1>4. CASE \E x, step : Take(u, x, step)
  BY <1>1, <1>4 DEF Take
<1>5. CASE \E job, step, item, scope, key, word : Begin(u, job, step, item, scope, key, word)
  BY <1>1, <1>5 DEF Begin
<1>6. CASE KeySteps(u)
  <2>1. CASE LoadMetadata(u) \/ SaveMetadata(u) \/ SaveActor(u) \/ Update(u) \/ SetPassword(u)
    BY <1>1, <2>1 DEF LoadMetadata, SaveMetadata, SaveActor, Update, SetPassword, Go
  <2>2. CASE GenerateKeyPair(u) \/ SaveMetadataForItems(u)
    BY <1>1, <2>2 DEF GenerateKeyPair, SaveMetadataForItems, Go, Take
  <2>3. CASE \/ \E scope \in Scopes : GenKeys(u, scope) \/ ImportMetadata(u, scope, OperatorSecret)
             \/ \E a \in Actors : ChangePassword(u, a)
    BY <1>5, <2>3 DEF GenKeys, ImportMetadata, ChangePassword
  <2> QED
    BY <1>6, <2>1, <2>2, <2>3 DEF KeySteps
<1>7. CASE ObjectSteps(u)
  <2>1. CASE Create(u) \/ DeleteObjects(u) \/ LoopFails(u) \/ Unlink(u) \/ SaveObject(u)
             \/ MakeCollection(u) \/ \E job \in {"move", "copy", "import", "repair"} : LoopEnds(u, job)
    BY <1>1, <2>1
       DEF Create, DeleteObjects, LoopFails, Unlink, SaveObject, MakeCollection, LoopEnds, Go
  <2>2. CASE Place(u) \/ ProbeObject(u) \/ ProcessActivities(u)
    BY <1>1, <2>2 DEF Place, ProbeObject, ProcessActivities, Go, Take
  <2>3. CASE Expand(u) \/ LoadCollection(u) \/ SaveMember(u)
    BY <1>1, <2>3 DEF Expand, LoadCollection, SaveMember, Take
  <2>6. CASE LoadObjects(u)
    BY <1>1, <2>6 DEF LoadObjects, Go
  <2>4. CASE \E job \in {"move", "copy"}, to \in Collections, from \in Scopes : MoveOrCopy(u, job, to, from)
    BY <1>1, <2>4 DEF MoveOrCopy
  <2>5. CASE \/ \E n \in Notes : AddObject(u, n)
             \/ \E scope \in Scopes : Delete(u, scope)
             \/ \E scope \in Files, k \in {NoSecret, OperatorSecret} : Import(u, scope, k)
             \/ FixCollections(u)
    BY <1>5, <2>5 DEF AddObject, Delete, Import, FixCollections
  <2> QED
    BY <1>7, <2>1, <2>2, <2>3, <2>4, <2>5, <2>6 DEF ObjectSteps
<1>8. CASE AccountSteps(u)
  <2>1. CASE SaveClient(u) \/ SaveStreams(u) \/ OpenAgain(u) \/ Clean(u) \/ RemoveClient(u)
             \/ SaveAuthorize(u) \/ SaveAccess(u) \/ Killed(u)
    BY <1>1, <2>1 DEF SaveClient, SaveStreams, OpenAgain, Clean, RemoveClient, SaveAuthorize,
                      SaveAccess, Killed, Go
  <2>2. CASE \E job \in {"bootstrap", "serve"} : Bootstrap(u, job)
    BY <1>1, <2>2 DEF Bootstrap
  <2>3. CASE \/ Reset(u)
             \/ \E a \in Actors : AddActorCmd(u, a) \/ AddClient(u, a) \/ DelClient(u, a)
             \/ \E c, a \in Actors : GenAuthToken(u, c, a)
    BY <1>5, <2>3 DEF Reset, AddActorCmd, AddClient, AddAccount, DelClient, GenAuthToken
  <2> QED
    BY <1>8, <2>1, <2>2, <2>3 DEF AccountSteps
<1> QED
  BY <1>6, <1>7, <1>8 DEF OwnStep

\* The server loading its key changes no task, and nothing that is stored.
LEMMA WhoseStep ==
  ASSUME AllInv, [Next]_vars
  PROVE  \/ \E u \in Tasks : OwnStep(u) /\ \A t \in Tasks \ {u} : task'[t] = task[t]
         \/ UNCHANGED <<stored, task>>
BY OthersUnchanged DEF Next, OwnStep, LoadServiceActor, vars

\* What was disturbed once is not relied on again.
LEMMA DisturbedStays ==
  ASSUME AllInv, [Next]_vars
  PROVE  disturbed \subseteq disturbed'
<1>1. CASE \E t \in Tasks : OwnStep(t)
  <2>1. PICK t \in Tasks : OwnStep(t)
    BY <1>1
  <2>2. CASE KeySteps(t)
    BY <2>2 DEF KeySteps, LoadMetadata, SaveMetadata, SaveActor, Update, GenKeys, GenerateKeyPair,
                ChangePassword, SetPassword, ImportMetadata, SaveMetadataForItems, Begin, Overlap
  <2>3. CASE ObjectSteps(t)
    BY <2>3 DEF ObjectSteps, AddObject, Create, Delete, LoadObjects, DeleteObjects, MoveOrCopy, Place,
                LoopFails, Expand, Unlink, Import, ProcessActivities, ProbeObject, SaveObject,
                FixCollections, LoadCollection, MakeCollection, SaveMember, LoopEnds, Begin, Overlap
  <2>4. CASE AccountSteps(t)
    BY <2>4 DEF AccountSteps, Bootstrap, SaveClient, SaveStreams, OpenAgain, Reset, Clean,
                AddActorCmd, AddClient, AddAccount, DelClient, RemoveClient, GenAuthToken,
                SaveAuthorize, SaveAccess, Killed, Begin, Overlap
  <2> QED
    BY <2>1, <2>2, <2>3, <2>4 DEF OwnStep
<1>2. CASE LoadServiceActor \/ UNCHANGED vars
  BY <1>2 DEF LoadServiceActor, vars
<1> QED
  BY <1>1, <1>2 DEF Next, OwnStep

-----------------------------------------------------------------------------
(* What a step may do to what is stored *)

Stores(t) ==
  \/ SaveActor(t) \/ Update(t) \/ Create(t) \/ DeleteObjects(t) \/ Unlink(t)
  \/ ProcessActivities(t) \/ SaveObject(t) \/ SaveMember(t) \/ Clean(t)

LEMMA OnlyTheseStore ==
  ASSUME NEW t \in Tasks, OwnStep(t)
  PROVE  Stores(t) \/ UNCHANGED stored
<1>1. CASE KeySteps(t)
  BY <1>1 DEF KeySteps, Stores, LoadMetadata, SaveMetadata, GenKeys, GenerateKeyPair,
              ChangePassword, SetPassword, ImportMetadata, SaveMetadataForItems
<1>2. CASE ObjectSteps(t)
  BY <1>2 DEF ObjectSteps, Stores, AddObject, Delete, LoadObjects, MoveOrCopy, Place, LoopFails, Expand,
              Import, ProbeObject, FixCollections, LoadCollection, MakeCollection, LoopEnds
<1>3. CASE AccountSteps(t)
  BY <1>3 DEF AccountSteps, Stores, Bootstrap, SaveClient, SaveStreams, OpenAgain, Reset,
              AddActorCmd, AddClient, AddAccount, DelClient, RemoveClient, GenAuthToken,
              SaveAuthorize, SaveAccess, Killed
<1> QED
  BY <1>1, <1>2, <1>3 DEF OwnStep

\* What t does to i, which was disturbed by nobody: it saves an actor with its
\* new key, makes what there was nothing of, does an activity of a file, buries
\* what there is, takes away what is in the other collection, or cleans the
\* storage.
Treats(t, i) ==
  \/ /\ At(t, "actor") /\ i = task[t].item /\ Exists(i)' /\ Lives(i)'
     /\ task[t].job \in Bootstraps => i = Service
     /\ task[t].job \notin Bootstraps => Lives(i)
  \/ At(t, "update") /\ Lives(i) /\ Lives(i)'
  \/ /\ task[t].at \in {"create", "save"}
     /\ ~Exists(i) /\ Lives(i)'
  \/ /\ At(t, "process") /\ UNCHANGED task
     /\ stored[i] # Tombstone /\ Exists(i)'
  \/ At(t, "bury") /\ Exists(i) /\ ~Lives(i)' /\ Exists(i)'
  \/ At(t, "unlink") /\ i \in listed[task[t].to] /\ ~Lives(i)'
  \/ At(t, "clean") /\ task'[t].at = "create" /\ ~Lives(i)'

LEMMA StepTreats ==
  ASSUME AllInv, NEW t \in Tasks, OwnStep(t),
         NEW i \in Items \ disturbed, stored'[i] # stored[i]
  PROVE  Treats(t, i)
<1>1. stored \in [Items -> Record]
  BY DEF AllInv, StorageInv, TypeOK, StoreTypeOK
<1>2. CASE SaveActor(t)
  <2>1. At(t, "actor") /\ Working(t) /\ i = task[t].item /\ stored'[i] = task[t].seen[i]
    BY <1>1, <1>2 DEF SaveActor, At, Working, Ended
  <2>2. /\ task[t].seen[i] = Live(task[t].key)
        /\ task[t].job \in Bootstraps => i = Service
        /\ task[t].job \notin Bootstraps => Lives(i)
    BY <2>1, KnownOf, ReliesOnScope DEF MemoryIsCurrent, Done, FindingsHold, At
  <2> QED
    BY <2>1, <2>2 DEF Treats, Live, Lives, Exists
<1>3. CASE Update(t)
  <2>1. At(t, "update") /\ Working(t) /\ i = task[t].item /\ stored'[i] = task[t].seen[i]
    BY <1>1, <1>3 DEF Update, At, Working, Ended
  <2>2. task[t].job = "genkeys" /\ i \in task[t].scope /\ Lives(i)
    BY <2>1, KnownOf, ReliesOnScope, JobsOfSteps DEF Done, FindingsHold, At, Bootstraps
  <2>3. task[t].seen[i].life = "live"
    BY <2>1, <2>2, KnownOf DEF Done, OnItsWay, Working
  <2> QED
    BY <2>1, <2>2, <2>3 DEF Treats, Lives
<1>4. CASE Create(t)
  BY <1>1, <1>4 DEF Create, Treats, At, Lives, Live
<1>5. CASE DeleteObjects(t)
  <2>1. At(t, "bury") /\ Exists(i) /\ stored'[i] = Tombstone
    BY <1>1, <1>5 DEF DeleteObjects
  <2> QED
    BY <2>1 DEF Treats, Tombstone, Lives, Exists
<1>6. CASE Unlink(t)
  <2>1. At(t, "unlink") /\ Working(t) /\ i = task[t].item /\ stored'[i] = Absent
    BY <1>1, <1>6 DEF Unlink, At, Working, Ended
  <2>2. i \in listed[task[t].to]
    BY <2>1, KnownOf DEF Done, MoveHolds, At
  <2> QED
    BY <2>1, <2>2 DEF Treats, Absent, Lives
<1>7. CASE ProcessActivities(t)
  <2>1. PICK j \in task[t].queue \cap Items : Activity(t, j)
    BY <1>7 DEF ProcessActivities
  <2>2. At(t, "process") /\ UNCHANGED task
    BY <1>7 DEF ProcessActivities
  <2>3. stored[i] # Tombstone /\ stored'[i].life # "absent"
    BY <1>1, <2>1 DEF Activity, ImportItem, Live, Lives, Tombstone
  <2> QED
    BY <2>2, <2>3 DEF Treats, Exists
<1>8. CASE SaveObject(t)
  <2>1. At(t, "save") /\ Working(t) /\ i = task[t].item /\ stored'[i] = Live(FileKey(t, i))
    BY <1>1, <1>8 DEF SaveObject, ImportItem, At, Working, Ended
  <2>2. ~Exists(i)
    BY <2>1, KnownOf DEF Done, FindingsHold, At
  <2> QED
    BY <2>1, <2>2 DEF Treats, At, Lives, Live
<1>9. CASE SaveMember(t)
  <2>1. /\ task[t].job = "repair" /\ Working(t) /\ i \in task[t].queue \cap Items
        /\ stored'[i] = task[t].seen[i]
    BY <1>1, <1>9 DEF SaveMember, Looping, At, Working, Ended
  <2>2. task[t].seen[i] = stored[i]
    BY <2>1, KnownOf DEF MemoryIsCurrent
  <2> QED
    BY <2>1, <2>2
<1>10. CASE Clean(t)
  <2>1. At(t, "clean") /\ stored'[i] = Absent /\ Go(t, "create")
    BY <1>1, <1>10 DEF Clean
  <2>2. task'[t].at = "create"
    BY <2>1, GoRecord DEF Steps, Ended
  <2> QED
    BY <2>1, <2>2 DEF Treats, Absent, Lives
<1> QED
  BY <1>2, <1>3, <1>4, <1>5, <1>6, <1>7, <1>8, <1>9, <1>10, OnlyTheseStore DEF Stores

-----------------------------------------------------------------------------
(* The properties of a step that changes an item *)

LEMMA ChangedByATask ==
  ASSUME AllInv, [Next]_vars, NEW i \in Items \ disturbed, stored'[i] # stored[i]
  PROVE  \E t \in Tasks : Treats(t, i)
BY WhoseStep, StepTreats

LEMMA StepRemovesListed == AllInv /\ [Next]_vars => RemovedWhenListed
<1> SUFFICES ASSUME AllInv, [Next]_vars, NEW i \in Items \ disturbed, Exists(i), ~Exists(i)'
             PROVE  Cleaned \/ \E t \in Tasks : At(t, "unlink") /\ i \in listed[task[t].to]
  BY DEF RemovedWhenListed
<1>1. stored'[i] # stored[i]
  BY DEF Exists
<1>2. PICK t \in Tasks : Treats(t, i)
  BY <1>1, ChangedByATask
<1>3. ~Lives(i)'
  BY DEF Exists, Lives
<1> QED
  BY <1>2, <1>3 DEF Treats, Cleaned

LEMMA StepRevivesNone == AllInv /\ [Next]_vars => NoneRevives
<1> SUFFICES ASSUME AllInv, [Next]_vars, NEW i \in Items \ disturbed',
                    stored[i] = Tombstone, Lives(i)'
             PROVE  i = Service /\ \E t \in Tasks : At(t, "actor") /\ task[t].job \in Bootstraps
  BY DEF NoneRevives
<1>1. stored'[i] # stored[i] /\ Exists(i) /\ ~Lives(i)
  BY DEF Lives, Exists, Tombstone
<1>2. PICK t \in Tasks : Treats(t, i)
  BY <1>1, ChangedByATask, DisturbedStays
<1> QED
  BY <1>1, <1>2 DEF Treats

LEMMA StepReplacesNothing == AllInv /\ [Next]_vars => SavesReplaceNothing
<1> SUFFICES ASSUME AllInv, [Next]_vars, NEW t \in Tasks, Working(t),
                    task[t].job \in {"import", "repair"}, task'[t] # task[t],
                    NEW i \in Items \ disturbed', Exists(i), stored'[i] # stored[i]
             PROVE  FALSE
  BY DEF SavesReplaceNothing
<1>1. OwnStep(t)
  BY WhoseStep
<1>2. Treats(t, i)
  BY <1>1, StepTreats, DisturbedStays
<1>3. task[t].at \in {"process", "each", "save", "make"}
  BY KnownOf DEF Itinerary
<1> QED
  BY <1>2, <1>3 DEF Treats, At

\* An item leaves the storage only by a reset, or when a move has put it in the
\* other collection before (operateOnObjects, cmd-activitypub.go): wherever a
\* move is stopped, there is the item, or its entry, or both.
THEOREM RemovalsAreListed == Spec => RemovedOnlyAfterListed
BY InitHasAll, NextKeepsAll, StepRemovesListed, PTL DEF Spec, RemovedOnlyAfterListed

\* No step of a command makes a live item of a tombstone, but a bootstrap of the
\* service (DeleteObjects, base.go).
THEOREM TombstonesStay == Spec => DeletedStaysDeleted
BY InitHasAll, NextKeepsAll, StepRevivesNone, PTL DEF Spec, DeletedStaysDeleted

\* The saves of an import, after the activities of its file, and those of a
\* repair replace nothing that is stored, or by the same (ImportCmd.Run,
\* cmd-activitypub.go; tryCreateCollection, cmd-fix-storage-collections.go).
THEOREM SavesKeepItems == Spec => SavesKeepWhatExists
BY InitHasAll, NextKeepsAll, StepReplacesNothing, PTL DEF Spec, SavesKeepWhatExists

-----------------------------------------------------------------------------
(* What success means *)

\* The last step of a command that returns no error
LastStep(t) ==
  \/ LoopEnds(t, task[t].job) /\ task[t].job \in {"move", "copy", "import", "repair"}
  \/ GenerateKeyPair(t) \/ SaveMetadataForItems(t)
  \/ Create(t) /\ task[t].job = "addobject"
  \/ SetPassword(t) /\ task[t].job \notin Bootstraps
  \/ SaveClient(t) /\ task[t].job = "addclient"
  \/ /\ DeleteObjects(t) /\ task[t].job # "delclient"
     /\ \A i \in task[t].queue \cap Items :
          stored'[i] = IF Exists(i) THEN Tombstone ELSE stored[i]
  \/ RemoveClient(t) /\ clients' = clients \ {task[t].item}
  \/ SaveAccess(t) /\ tokens' = tokens \cup {t}
  \/ SaveStreams(t) /\ Streams \subseteq made'
  \/ OpenAgain(t)

LEMMA SuccessesOfKeys ==
  ASSUME AllInv, NEW t \in Tasks, KeySteps(t), Succeeds(t)
  PROVE  LastStep(t)
<1>1. /\ task[t] \in TaskRecord /\ task'[t].at = "ok" /\ Working(t)
      /\ task = [u \in Tasks |-> task[u]]
  BY KnownOf DEF Succeeds, AllInv, StorageInv, TypeOK, StoreTypeOK
<1>2. \A job, step, item, scope, key, word : ~Begin(t, job, step, item, scope, key, word)
  BY <1>1 DEF Begin, At, Working
<1>3. \A step \in Steps : Go(t, step) => step = "ok"
  BY <1>1, GoRecord, EndRecord
<1>4. ~LoadMetadata(t)
  BY <1>1 DEF LoadMetadata, TaskRecord
<1>5. ~SaveMetadata(t)
  <2>1. AfterKeyError(task[t].job) \in Steps \ {"ok"}
    BY DEF AfterKeyError, AfterKey, Steps, Ended
  <2> QED
    BY <1>1, <1>3, <2>1 DEF SaveMetadata, TaskRecord
<1>6. ~SaveActor(t)
  <2>1. AfterKeyError(task[t].job) \in Steps \ {"ok"} /\ AfterKey(task[t].job) \in Steps \ {"ok"}
    BY DEF AfterKeyError, AfterKey, Steps, Ended
  <2> QED
    BY <1>3, <2>1 DEF SaveActor
<1>7. ~Update(t)
  BY <1>3 DEF Update, Steps, Ended
<1>8. SetPassword(t) => task[t].job \notin Bootstraps
  <2>1. ASSUME task[t].job \in Bootstraps
        PROVE  {AfterPassword(task[t].job), AfterPasswordError(task[t].job)} \subseteq Steps \ {"ok"}
    BY <2>1 DEF AfterPassword, AfterPasswordError, Bootstraps, Steps, Ended
  <2> QED
    BY <1>3, <2>1 DEF SetPassword
<1> QED
  BY <1>2, <1>4, <1>5, <1>6, <1>7, <1>8
     DEF KeySteps, LastStep, GenKeys, ChangePassword, ImportMetadata

LEMMA SuccessesOfObjects ==
  ASSUME AllInv, NEW t \in Tasks, ObjectSteps(t), Succeeds(t)
  PROVE  LastStep(t)
<1>1. /\ task[t] \in TaskRecord /\ task'[t].at = "ok" /\ Working(t)
      /\ task = [u \in Tasks |-> task[u]]
  BY KnownOf DEF Succeeds, AllInv, StorageInv, TypeOK, StoreTypeOK
<1>2. \A job, step, item, scope, key, word : ~Begin(t, job, step, item, scope, key, word)
  BY <1>1 DEF Begin, At, Working
<1>3. \A step \in Steps : Go(t, step) => step = "ok"
  BY <1>1, GoRecord, EndRecord
<1>4. \A x, step : Take(t, x, step) => step = "ok"
  BY <1>1, TakeRecord
<1>5. Create(t) => task[t].job = "addobject"
  <2>1. task[t].job # "addobject" => AfterCreate(task[t].job) \in Steps \ {"ok"}
    BY DEF AfterCreate, Steps, Ended
  <2>2. "failed" \in Steps
    BY DEF Steps, Ended
  <2> QED
    BY <1>3, <2>1, <2>2 DEF Create
<1>6. ASSUME DeleteObjects(t)
      PROVE  /\ task[t].job # "delclient"
             /\ \A i \in task[t].queue \cap Items :
                  stored'[i] = IF Exists(i) THEN Tombstone ELSE stored[i]
  <2>1. ~Go(t, "failed") /\ ~Go(t, "remove")
    BY <1>3 DEF Steps, Ended
  <2> QED
    BY <1>6, <2>1 DEF DeleteObjects, AfterDelete
<1>7. ~Place(t) /\ ~ProbeObject(t)
  BY <1>4 DEF Place, ProbeObject
<1>8. ~LoopFails(t) /\ ~Unlink(t) /\ ~SaveObject(t) /\ ~MakeCollection(t)
  BY <1>3 DEF LoopFails, Unlink, SaveObject, MakeCollection, Steps, Ended
<1>9. ~ProcessActivities(t)
  BY <1>1, <1>3 DEF ProcessActivities, At, Steps, Ended
<1>10. ~Expand(t) /\ ~SaveMember(t)
  BY <1>1 DEF Expand, SaveMember, Looping, At, TaskRecord
<1>14. ~LoadObjects(t)
  <2>1. ~Go(t, "failed")
    BY <1>3 DEF Steps, Ended
  <2>2. ASSUME NEW found, NEW left, task' = [task EXCEPT ![t] = [task[t] EXCEPT
                 !.at = "bury", !.queue = found, !.left = left]]
        PROVE  FALSE
    BY <1>1, <2>2 DEF TaskRecord
  <2> QED
    BY <2>1, <2>2 DEF LoadObjects
<1>11. ~LoadCollection(t)
  BY <1>1, <1>4 DEF LoadCollection, Looping, At, TaskRecord
<1>12. ~(\E job \in {"move", "copy"}, to \in Collections, from \in Scopes : MoveOrCopy(t, job, to, from))
  BY <1>1 DEF MoveOrCopy, At, Working
<1>13. ASSUME NEW job \in {"move", "copy", "import", "repair"}, LoopEnds(t, job)
       PROVE  job = task[t].job
  BY <1>13 DEF LoopEnds
<1> QED
  BY <1>2, <1>5, <1>6, <1>7, <1>8, <1>9, <1>10, <1>11, <1>12, <1>13,
     <1>14 DEF ObjectSteps, LastStep, AddObject, Delete, Import, FixCollections

LEMMA SuccessesOfAccounts ==
  ASSUME AllInv, NEW t \in Tasks, AccountSteps(t), Succeeds(t)
  PROVE  LastStep(t)
<1>1. /\ task[t] \in TaskRecord /\ task'[t].at = "ok" /\ Working(t)
      /\ task = [u \in Tasks |-> task[u]]
  BY KnownOf DEF Succeeds, AllInv, StorageInv, TypeOK, StoreTypeOK
<1>2. \A job, step, item, scope, key, word : ~Begin(t, job, step, item, scope, key, word)
  BY <1>1 DEF Begin, At, Working
<1>3. \A step \in Steps : Go(t, step) => step = "ok"
  BY <1>1, GoRecord, EndRecord
<1>4. SaveClient(t) => task[t].job = "addclient"
  <2>1. task[t].job # "addclient" => AfterClient(task[t].job) \in Steps \ {"ok"}
    BY DEF AfterClient, Steps, Ended
  <2> QED
    BY <1>3, <2>1 DEF SaveClient
<1>5. SaveStreams(t) => Streams \subseteq made'
  BY <1>3 DEF SaveStreams, Steps, Ended
<1>6. RemoveClient(t) => clients' = clients \ {task[t].item}
  BY <1>3 DEF RemoveClient, Steps, Ended
<1>7. SaveAccess(t) => tokens' = tokens \cup {t}
  BY <1>3 DEF SaveAccess, Steps, Ended
<1>8. ~SaveAuthorize(t) /\ ~Killed(t) /\ ~Clean(t)
  BY <1>3 DEF SaveAuthorize, Killed, Clean, Steps, Ended
<1>9. ~(\E job \in {"bootstrap", "serve"} : Bootstrap(t, job))
  BY <1>1 DEF Bootstrap, At, Working
<1> QED
  BY <1>2, <1>4, <1>5, <1>6, <1>7, <1>8, <1>9
     DEF AccountSteps, LastStep, Reset, AddActorCmd, AddClient, AddAccount, DelClient, GenAuthToken

\* A task that has succeeded has taken the last step of its command.
LEMMA SuccessIsLastStep ==
  ASSUME AllInv, [Next]_vars, NEW t \in Tasks, Succeeds(t)
  PROVE  LastStep(t)
<1>1. task'[t] # task[t]
  BY DEF Succeeds, Working, Ended
<1>2. OwnStep(t)
  BY <1>1, WhoseStep
<1> QED
  BY <1>2, SuccessesOfKeys, SuccessesOfObjects, SuccessesOfAccounts DEF OwnStep

LEMMA StepBootstraps == AllInv /\ [Next]_vars => Bootstrapped
<1> SUFFICES ASSUME AllInv, [Next]_vars, NEW t \in Tasks, Succeeds(t),
                    task[t].job \in Bootstraps, Service \notin disturbed
             PROVE  /\ stored'[Service] = Live(task[t].key)
                    /\ private'[Service] = task[t].key
                    /\ password'[Service] = task[t].word
                    /\ Streams \subseteq made'
  BY DEF Bootstrapped
<1>1. /\ LastStep(t) /\ task[t].at \in Itinerary(task[t].job) /\ BootstrapHolds(task[t])
      /\ task[t].job \in Jobs
  BY SuccessIsLastStep, KnownOf DEF Succeeds, Done
<1>2. (SaveStreams(t) /\ Streams \subseteq made') \/ OpenAgain(t)
  <2>1. task[t].at \notin {"each", "restore", "bury", "remove", "access"}
    BY <1>1, JobsOfSteps DEF Bootstraps
  <2> QED
    BY <1>1, <2>1
       DEF LastStep, LoopEnds, GenerateKeyPair, SaveMetadataForItems, DeleteObjects, RemoveClient,
           SaveAccess, At, Bootstraps
<1>3. CASE SaveStreams(t) /\ (Streams \subseteq made')
  BY <1>1, <1>3 DEF SaveStreams, BootstrapHolds, At, metaVars
<1>4. CASE OpenAgain(t)
  BY <1>1, <1>4 DEF OpenAgain, BootstrapHolds, At, metaVars, colVars
<1> QED
  BY <1>2, <1>3, <1>4

LEMMA StepDoesAsSaid == AllInv /\ [Next]_vars => DoneAsSaid
<1> SUFFICES ASSUME AllInv, [Next]_vars, NEW t \in Tasks, Succeeds(t)
             PROVE  LET its == task[t].scope \ (task[t].left \cup disturbed') IN
                    CASE task[t].job = "move"      -> \A i \in its \cap Items : i \in listed'[task[t].to] /\ ~Exists(i)'
                      [] task[t].job = "delete"    -> \A i \in its : ~Lives(i)'
                      [] task[t].job = "delclient" -> \A c \in task[t].scope \ disturbed' : ~Lives(c)' /\ c \notin clients'
                      [] task[t].job = "token"     -> its = task[t].scope => t \in codes' \cap tokens'
                      [] OTHER -> TRUE
  BY DEF DoneAsSaid
<1> DEFINE job == task[t].job
           its == task[t].scope \ (task[t].left \cup disturbed')
<1>1. /\ LastStep(t) /\ task[t].at \in Itinerary(job) /\ Done(t) /\ job \in Jobs
      /\ Working(t) /\ stored \in [Items -> Record]
  BY SuccessIsLastStep, KnownOf DEF Succeeds
<1>2. its \subseteq task[t].scope \ (task[t].left \cup disturbed) /\ disturbed \subseteq disturbed'
  BY DisturbedStays
<1>3. ASSUME job = "move"
      PROVE  \A i \in its \cap Items : i \in listed'[task[t].to] /\ ~Exists(i)'
  <2>1. LoopEnds(t, job)
    BY <1>1, <1>3, JobsOfSteps
       DEF LastStep, GenerateKeyPair, SaveMetadataForItems, DeleteObjects, RemoveClient,
           SaveAccess, SetPassword, SaveStreams, OpenAgain, At, Bootstraps
  <2>2. task[t].queue = {} /\ task[t].at = "each" /\ UNCHANGED <<listed, stored>>
    BY <2>1 DEF LoopEnds, At, colVars
  <2> QED
    BY <1>1, <1>2, <1>3, <2>2 DEF Done, MoveHolds, Exists
<1>4. ASSUME job = "delete"
      PROVE  \A i \in its : ~Lives(i)'
  <2>1. DeleteObjects(t)
    BY <1>1, <1>4, JobsOfSteps
       DEF LastStep, LoopEnds, GenerateKeyPair, SaveMetadataForItems, RemoveClient,
           SaveAccess, SetPassword, SaveStreams, OpenAgain, At, Bootstraps
  <2>2. task[t].at = "bury" /\ task[t].scope \subseteq Items
    BY <1>1, <2>1, ReliesOnScope DEF DeleteObjects, At
  <2>3. \A i \in task[t].queue \cap Items : stored'[i] = IF Exists(i) THEN Tombstone ELSE stored[i]
    BY <1>1, <1>4, <2>2 DEF LastStep, LoopEnds, GenerateKeyPair, SaveMetadataForItems, RemoveClient,
           SaveAccess, SetPassword, SaveClient, Create, SaveStreams, OpenAgain, At
  <2>4. \A i \in its \ task[t].queue : ~Lives(i)
    BY <1>1, <1>2, <2>2 DEF Done, FindingsHold
  <2>5. \A i \in Items : stored'[i] = stored[i] \/ stored'[i] = Tombstone
    BY <1>1, <2>1 DEF DeleteObjects
  <2> QED
    BY <1>2, <2>2, <2>3, <2>4, <2>5 DEF Lives, Exists, Tombstone
<1>5. ASSUME job = "delclient"
      PROVE  \A c \in task[t].scope \ disturbed' : ~Lives(c)' /\ c \notin clients'
  <2>1. RemoveClient(t) /\ clients' = clients \ {task[t].item}
    BY <1>1, <1>5, JobsOfSteps
       DEF LastStep, LoopEnds, GenerateKeyPair, SaveMetadataForItems,
           SaveAccess, SetPassword, SaveStreams, OpenAgain, At, Bootstraps
  <2>2. task[t].at = "remove" /\ UNCHANGED stored /\ task[t].scope = {task[t].item}
    BY <1>1, <1>5, <2>1 DEF RemoveClient, At, Done, OnItsWay, Working
  <2> QED
    BY <1>1, <1>2, <2>1, <2>2 DEF Done, FindingsHold, Lives
<1>6. ASSUME job = "token", its = task[t].scope
      PROVE  t \in codes' \cap tokens'
  <2>1. SaveAccess(t) /\ tokens' = tokens \cup {t}
    BY <1>1, <1>6, JobsOfSteps
       DEF LastStep, LoopEnds, GenerateKeyPair, SaveMetadataForItems, DeleteObjects, RemoveClient,
           SetPassword, SaveStreams, OpenAgain, At, Bootstraps
  <2>2. At(t, "access") /\ UNCHANGED codes
    BY <2>1 DEF SaveAccess
  <2> QED
    BY <1>1, <1>2, <1>6, <2>1, <2>2 DEF Done, TokenHolds
<1>7. CASE job = "move"
  BY <1>3, <1>7
<1>8. CASE job = "delete"
  BY <1>4, <1>8
<1>9. CASE job = "delclient"
  BY <1>5, <1>9
<1>10. CASE job = "token"
  BY <1>6, <1>10
<1>11. CASE job \notin {"move", "delete", "delclient", "token"}
  BY <1>11
<1> QED
  BY <1>7, <1>8, <1>9, <1>10, <1>11

\* A bootstrap that returns no error has left a service with its key, its
\* password and its streams (Base.Bootstrap, base.go; ResetCmd.Run).
THEOREM BootstrapsAreComplete == Spec => BootstrapComplete
BY InitHasAll, NextKeepsAll, StepBootstraps, PTL DEF Spec, BootstrapComplete

\* Where nobody interferes, success of the removal of a client or of a token
\* means that it is done, and success of a move or a deletion that it is done
\* for what the command has not passed over: operateOnObjects passes over what
\* is behind a collection, DeleteObjects over what it cannot load (base.go,
\* cmd-activitypub.go, cmd-oauth.go).
THEOREM SuccessIsDone == Spec => SuccessMeansDone
BY InitHasAll, NextKeepsAll, StepDoesAsSaid, PTL DEF Spec, SuccessMeansDone

=============================================================================
