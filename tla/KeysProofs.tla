------------------------------- MODULE KeysProofs -------------------------------
(***************************************************************************)
(* The two halves of an actor's key pair agree, for any sets of items and  *)
(* any commands.                                                           *)
(***************************************************************************)
EXTENDS StorageProofs

-----------------------------------------------------------------------------
(* A step of one task, as the others see it *)

\* It changes nothing but what it works on.
Frame(t) ==
  /\ \A u \in Tasks \ {t} : task'[u] = task[u]
  /\ disturbed \subseteq disturbed'
  /\ \A i \in Items : stored'[i] # stored[i] => Working(t) /\ i \in task[t].scope
  /\ \A a \in Actors : private'[a] # private[a] => Working(t) /\ a \in task[t].scope

\* What the step leaves of the task itself
RecordFresh(r) == r.key <= fresh /\ \A i \in Items : r.seen[i].key <= fresh

Own(t) == KeyShape(task[t]) /\ MemoryIsCurrent(task[t]) /\ RecordFresh(task[t])

LEMMA Numbers ==
  ASSUME StorageInv
  PROVE  /\ fresh \in Nat
         /\ \A i \in Items : stored[i].key \in Nat
         /\ \A t \in Tasks : task[t].key \in Nat /\ \A i \in Items : task[t].seen[i].key \in Nat
<1>1. Secrets \subseteq Nat
  BY SecretsAssumption DEF Secrets
<1>2. \A t \in Tasks : task[t].key \in Secrets /\ task[t].seen \in [Items -> Record]
  BY DEF StorageInv, TypeOK, StoreTypeOK, TaskRecord
<1>3. \A r \in Record : r.key \in Secrets
  BY DEF Record
<1> QED
  BY <1>1, <1>2, <1>3 DEF StorageInv, TypeOK, StoreTypeOK

LEMMA FreshLater ==
  ASSUME StorageInv'
  PROVE  fresh' \in Nat
BY SecretsAssumption DEF StorageInv, TypeOK, StoreTypeOK, Secrets

\* Another task that has read what the step changes works on the same things.
LEMMA OthersStayCurrent ==
  ASSUME StorageInv, KeysInv, NEW t \in Tasks, Frame(t), NEW u \in Tasks \ {t}
  PROVE  KeyShape(task'[u]) /\ MemoryIsCurrent(task[u])'
<1> DEFINE r == task[u]
<1>1. task'[u] = r /\ r \in TaskRecord /\ Shape(r) /\ KeyShape(r) /\ MemoryIsCurrent(r)
  BY DEF Frame, KeysInv, StorageInv, TypeOK, StoreTypeOK, Shapes
<1>2. ASSUME NEW i \in r.scope, i \notin disturbed', Working(u)
      PROVE  /\ i \in Items => stored'[i] = stored[i]
             /\ i \in Actors => private'[i] = private[i]
             /\ i \notin disturbed
  BY <1>2 DEF Frame, StorageInv, NoSilentOverlap
<1>3. r.at \in {"load", "meta", "actor", "update"} =>
        Working(u) /\ r.item \in r.scope /\ r.item \in Actors /\ r.item \in Items
  BY <1>1 DEF Shape, ActorSteps, Working, Ended, Items
<1>4. r.job \in {"genkeys", "repair"} => Working(u) /\ r.queue \subseteq r.scope
  BY <1>1 DEF KeyShape, Working, Ended
<1>5. ASSUME r.at = "actor", r.item \notin disturbed'
      PROVE  r.seen[r.item] = Live(r.key) /\ private'[r.item] = r.key
  BY <1>1, <1>2, <1>3, <1>5 DEF MemoryIsCurrent
<1>6. ASSUME r.at = "update", r.item \notin disturbed'
      PROVE  IF r.seen[r.item].key = r.key THEN private'[r.item] = r.key
             ELSE r.seen[r.item] = stored'[r.item]
  BY <1>1, <1>2, <1>3, <1>6 DEF MemoryIsCurrent
<1>7. ASSUME r.job = "genkeys", r.at \in {"load", "meta"}, r.item \notin disturbed'
      PROVE  r.seen[r.item] = stored'[r.item] /\ r.seen[r.item].key # r.key
  BY <1>1, <1>2, <1>3, <1>7 DEF MemoryIsCurrent
<1>8. ASSUME r.job \in {"genkeys", "repair"}, NEW j \in (r.queue \cap Items) \ disturbed'
      PROVE  r.seen[j] = stored'[j]
  BY <1>1, <1>2, <1>4, <1>8 DEF MemoryIsCurrent
<1>9. MemoryIsCurrent(r)'
  BY <1>1, <1>5, <1>6, <1>7, <1>8 DEF MemoryIsCurrent
<1> QED
  BY <1>1, <1>9

LEMMA KeysKept ==
  ASSUME StorageInv, StorageInv', KeysInv, NEW t \in Tasks, Frame(t), Own(t)', fresh <= fresh',
         \A i \in Items : stored'[i].key <= fresh', KeysAgree', ServerHasKey'
  PROVE  KeysInv'
<1>1. \A u \in Tasks : KeyShape(task'[u]) /\ MemoryIsCurrent(task[u])'
  BY OthersStayCurrent DEF Own
<1>2. fresh \in Nat /\ fresh' \in Nat /\ OperatorSecret \in Nat
  BY Numbers, FreshLater DEF OperatorSecret
<1>3. OperatorSecret <= fresh'
  BY <1>2 DEF KeysInv, KeysAreFresh
<1>4. ASSUME NEW u \in Tasks
      PROVE  task'[u].key <= fresh' /\ \A i \in Items : task'[u].seen[i].key <= fresh'
  <2>1. CASE u = t
    BY <2>1 DEF Own, RecordFresh
  <2>2. CASE u # t
    BY <1>2, <2>2, Numbers DEF Frame, KeysInv, KeysAreFresh
  <2> QED
    BY <2>1, <2>2
<1> QED
  BY <1>1, <1>3, <1>4 DEF KeysInv, KeysAreFresh

\* A step that changes neither items nor keys, outside the two saves
LEMMA QuietKeeps ==
  ASSUME StorageInv, StorageInv', KeysInv, NEW t \in Tasks,
         \A u \in Tasks \ {t} : task'[u] = task[u], disturbed \subseteq disturbed',
         UNCHANGED <<stored, private, torn, memory, rekeyed>>,
         task[t].at # "actor", Own(t)', fresh <= fresh'
  PROVE  KeysInv'
<1>1. Frame(t)
  BY DEF Frame
<1>2. \A i \in Items : stored'[i].key <= fresh'
  BY Numbers, FreshLater DEF KeysInv, KeysAreFresh
<1>3. ASSUME NEW a \in Actors \ (torn' \cup disturbed'), Lives(a)', ~HalfSaved(a)'
      PROVE  private'[a] = stored'[a].key
  <2>1. ~HalfSaved(a)
    BY <1>3 DEF HalfSaved, At
  <2> QED
    BY <1>3, <2>1 DEF KeysInv, KeysAgree, Lives
<1>4. KeysAgree'
  BY <1>3 DEF KeysAgree
<1>5. ServerHasKey'
  BY DEF KeysInv, ServerHasKey
<1> QED
  BY <1>1, <1>2, <1>4, <1>5, KeysKept

-----------------------------------------------------------------------------
(* What the ways to change the record of a task leave of it *)

LEMMA RestingOwn ==
  ASSUME StorageInv, StorageInv', NEW t \in Tasks, NEW step \in Ended, Go(t, step)
  PROVE  /\ \A u \in Tasks \ {t} : task'[u] = task[u]
         /\ Own(t)' /\ task'[t].at = step
<1>1. task'[t] = Resting(step) /\ \A u \in Tasks \ {t} : task'[u] = task[u]
  BY DEF Go, Moved, StorageInv, TypeOK, StoreTypeOK
<1>2. KeyShape(task'[t]) /\ MemoryIsCurrent(task[t])'
  BY <1>1 DEF KeyShape, MemoryIsCurrent, Resting, Blank, Ended
<1>3. RecordFresh(task[t])'
  BY <1>1, FreshLater DEF RecordFresh, Resting, Blank, Absent, NoSecret
<1> QED
  BY <1>1, <1>2, <1>3 DEF Own, Resting, Blank

LEMMA OwnStaysFresh ==
  ASSUME StorageInv, StorageInv', KeysInv, NEW t \in Tasks, fresh <= fresh',
         task'[t].key = task[t].key, task'[t].seen = task[t].seen
  PROVE  RecordFresh(task[t])'
BY Numbers, FreshLater DEF KeysInv, KeysAreFresh, RecordFresh

\* Neither gen-keys nor a repair, whose memory has to be current, and no step
\* that needs it
LEMMA GoOwn ==
  ASSUME StorageInv, StorageInv', KeysInv, NEW t \in Tasks, fresh <= fresh',
         NEW step \in Steps \ {"actor", "update", "save", "unlink"}, Go(t, step),
         step \notin Ended => task[t].job \notin {"genkeys", "repair"}
  PROVE  /\ \A u \in Tasks \ {t} : task'[u] = task[u]
         /\ Own(t)' /\ task'[t].at = step
<1>1. CASE step \in Ended
  BY <1>1, RestingOwn
<1>2. CASE step \notin Ended
  <2> DEFINE r == [task[t] EXCEPT !.at = step]
  <2>1. task[t] \in TaskRecord /\ KeyShape(task[t])
    BY DEF StorageInv, TypeOK, StoreTypeOK, KeysInv
  <2>2. task'[t] = r /\ \A u \in Tasks \ {t} : task'[u] = task[u]
    BY <1>2 DEF Go, Moved, StorageInv, TypeOK, StoreTypeOK
  <2>3. r.at = step /\ r.job = task[t].job /\ r.queue = task[t].queue /\ r.scope = task[t].scope
        /\ r.key = task[t].key /\ r.seen = task[t].seen
    BY <2>1 DEF TaskRecord
  <2> HIDE DEF r
  <2>4. KeyShape(task'[t]) /\ MemoryIsCurrent(task[t])'
    BY <1>2, <2>1, <2>2, <2>3 DEF KeyShape, MemoryIsCurrent
  <2>5. RecordFresh(task[t])'
    BY <2>2, <2>3, OwnStaysFresh
  <2> QED
    BY <2>2, <2>3, <2>4, <2>5 DEF Own
<1> QED
  BY <1>1, <1>2

\* A repair goes on with what it has still to save.
LEMMA RepairOwn ==
  ASSUME StorageInv, StorageInv', KeysInv, NEW t \in Tasks, fresh <= fresh',
         NEW r, task' = [task EXCEPT ![t] = r], task[t].job = "repair",
         r.job = "repair", r.at \in {"each", "make"},
         r.queue \subseteq task[t].queue, r.queue \subseteq r.scope,
         r.key = task[t].key, r.seen = task[t].seen,
         disturbed \subseteq disturbed', \A i \in r.queue \cap Items : stored'[i] = stored[i]
  PROVE  /\ \A u \in Tasks \ {t} : task'[u] = task[u]
         /\ Own(t)' /\ task'[t].at = r.at
<1>1. task'[t] = r /\ \A u \in Tasks \ {t} : task'[u] = task[u]
  BY DEF StorageInv, TypeOK, StoreTypeOK
<1>2. KeyShape(r)
  BY DEF KeyShape
<1>3. MemoryIsCurrent(r)'
  BY DEF KeysInv, MemoryIsCurrent
<1>4. RecordFresh(task[t])'
  BY <1>1, OwnStaysFresh
<1> QED
  BY <1>1, <1>2, <1>3, <1>4 DEF Own

LEMMA TakeOwn ==
  ASSUME StorageInv, StorageInv', KeysInv, NEW t \in Tasks, fresh <= fresh',
         NEW x, NEW step \in {"each", "unlink", "save", "make", "restore"}, Take(t, x, step),
         task[t].job # "genkeys",
         task[t].job = "repair" => /\ step \in {"each", "make"}
                                   /\ UNCHANGED stored /\ disturbed \subseteq disturbed'
  PROVE  /\ \A u \in Tasks \ {t} : task'[u] = task[u]
         /\ Own(t)' /\ task'[t].at = step
<1> DEFINE r == [task[t] EXCEPT !.item = x, !.queue = @ \ {x}, !.at = step]
<1>1. task[t] \in TaskRecord /\ KeyShape(task[t])
  BY DEF StorageInv, TypeOK, StoreTypeOK, KeysInv
<1>2. task' = [task EXCEPT ![t] = r]
  BY <1>1 DEF Take, TaskRecord
<1>3. task'[t] = r /\ \A u \in Tasks \ {t} : task'[u] = task[u]
  BY <1>2 DEF StorageInv, TypeOK, StoreTypeOK
<1>4. /\ r.at = step /\ r.job = task[t].job /\ r.queue = task[t].queue \ {x} /\ r.item = x
      /\ r.scope = task[t].scope /\ r.key = task[t].key /\ r.seen = task[t].seen
  BY <1>1 DEF TaskRecord
<1> HIDE DEF r
<1>5. CASE task[t].job = "repair"
  <2>1. r.queue \subseteq task[t].queue /\ r.queue \subseteq r.scope
    BY <1>1, <1>4 DEF KeyShape
  <2> QED
    BY <1>2, <1>4, <1>5, <2>1, RepairOwn
<1>6. CASE task[t].job # "repair"
  <2>1. KeyShape(task'[t]) /\ MemoryIsCurrent(task[t])'
    BY <1>1, <1>3, <1>4, <1>6 DEF Take, KeyShape, MemoryIsCurrent
  <2>2. RecordFresh(task[t])'
    BY <1>3, <1>4, OwnStaysFresh
  <2> QED
    BY <1>3, <1>4, <2>1, <2>2 DEF Own
<1> QED
  BY <1>5, <1>6

\* What a command begins with it has just read.
LEMMA BeginOwn ==
  ASSUME StorageInv, StorageInv', KeysInv, NEW t \in Tasks, fresh <= fresh',
         NEW job, NEW step, NEW item, NEW scope, NEW key \in Nat, NEW word,
         Begin(t, job, step, item, scope, key, word), UNCHANGED stored, key <= fresh',
         step \notin {"actor", "update", "save", "unlink"},
         job \in {"genkeys", "repair"} => step = "each"
  PROVE  /\ \A u \in Tasks \ {t} : task'[u] = task[u]
         /\ Own(t)' /\ task[t].at = "idle" /\ disturbed \subseteq disturbed'
<1> DEFINE r == [Blank(job, step, scope) EXCEPT
                   !.queue = scope, !.item = item, !.to = item, !.key = key, !.word = word,
                   !.seen = [i \in Items |-> IF i \in scope THEN stored[i] ELSE Absent]]
<1>1. task'[t] = r /\ \A u \in Tasks \ {t} : task'[u] = task[u]
  BY DEF Begin, StorageInv, TypeOK, StoreTypeOK
<1>2. /\ r.at = step /\ r.job = job /\ r.queue = scope /\ r.scope = scope /\ r.key = key
      /\ r.seen = [i \in Items |-> IF i \in scope THEN stored[i] ELSE Absent]
  BY DEF Blank
<1> HIDE DEF r
<1>3. KeyShape(task'[t]) /\ MemoryIsCurrent(task[t])'
  BY <1>1, <1>2 DEF KeyShape, MemoryIsCurrent
<1>4. RecordFresh(task[t])'
  BY <1>1, <1>2, Numbers, FreshLater DEF RecordFresh, KeysInv, KeysAreFresh, Absent, NoSecret
<1> QED
  BY <1>1, <1>3, <1>4 DEF Own, Begin, At, Overlap

-----------------------------------------------------------------------------
(* Steps that change neither items nor keys *)

LEMMA QuietGoKeeps ==
  ASSUME StorageInv, StorageInv', KeysInv, NEW t \in Tasks, task[t].at # "actor",
         UNCHANGED <<stored, private, torn, memory, rekeyed, fresh, disturbed>>,
         NEW step \in Steps \ {"actor", "update", "save", "unlink"}, Go(t, step),
         step \notin Ended => task[t].job \notin {"genkeys", "repair"}
  PROVE  KeysInv'
<1>1. fresh <= fresh'
  BY Numbers
<1> QED
  BY <1>1, GoOwn, QuietKeeps

LEMMA QuietGosKeepKeys ==
  ASSUME StorageInv, StorageInv', KeysInv, NEW t \in Tasks,
         \/ SetPassword(t) \/ SaveClient(t) \/ SaveStreams(t) \/ RemoveClient(t)
         \/ SaveAuthorize(t) \/ SaveAccess(t) \/ LoopFails(t) \/ \E job : LoopEnds(t, job)
  PROVE  KeysInv'
<1>1. KeyShape(task[t])
  BY DEF KeysInv
<1>2. /\ UNCHANGED <<stored, private, torn, memory, rekeyed, fresh, disturbed>>
      /\ task[t].at # "actor"
  BY DEF SetPassword, SaveClient, SaveStreams, RemoveClient, SaveAuthorize, SaveAccess,
         LoopFails, LoopEnds, Looping, At, metaVars, keyVars
<1>3. CASE LoopFails(t) \/ \E job : LoopEnds(t, job)
  <2>1. PICK step \in Ended : Go(t, step)
    BY <1>3 DEF LoopFails, LoopEnds, Ended
  <2> QED
    BY <1>2, <2>1, QuietGoKeeps DEF Steps, Ended
<1>4. CASE \/ SetPassword(t) \/ SaveClient(t) \/ SaveStreams(t) \/ RemoveClient(t)
           \/ SaveAuthorize(t) \/ SaveAccess(t)
  <2>1. task[t].job \notin {"genkeys", "repair"}
    BY <1>1, <1>4 DEF KeyShape, At, SetPassword, SaveClient, SaveStreams, RemoveClient,
                      SaveAuthorize, SaveAccess
  <2>2. PICK step \in {"ok", "failed", "load", "client", "password", "open", "access"} : Go(t, step)
    BY <1>4 DEF SetPassword, SaveClient, SaveStreams, RemoveClient, SaveAuthorize, SaveAccess,
                AfterPassword, AfterPasswordError, AfterClient
  <2> QED
    BY <1>2, <2>1, <2>2, QuietGoKeeps DEF Steps, Ended
<1> QED
  BY <1>3, <1>4

LEMMA MakeCollectionKeepsKeys ==
  ASSUME StorageInv, StorageInv', KeysInv, NEW t \in Tasks, MakeCollection(t)
  PROVE  KeysInv'
<1>1. /\ UNCHANGED <<stored, private, torn, memory, rekeyed, fresh, disturbed>>
      /\ task[t].at = "make" /\ Go(t, "each") /\ fresh <= fresh'
  BY Numbers DEF MakeCollection, At, metaVars, keyVars
<1>2. task[t] \in TaskRecord /\ KeyShape(task[t])
  BY DEF StorageInv, TypeOK, StoreTypeOK, KeysInv
<1>3. CASE task[t].job = "repair"
  <2> DEFINE r == [task[t] EXCEPT !.at = "each"]
  <2>1. task' = [task EXCEPT ![t] = r]
    BY <1>1 DEF Go, Moved, Ended
  <2>2. /\ r.at = "each" /\ r.job = "repair" /\ r.queue = task[t].queue
        /\ r.queue \subseteq r.scope /\ r.key = task[t].key /\ r.seen = task[t].seen
    BY <1>2, <1>3 DEF TaskRecord, KeyShape
  <2> HIDE DEF r
  <2> QED
    BY <1>1, <1>3, <2>1, <2>2, RepairOwn, QuietKeeps
<1>4. CASE task[t].job # "repair"
  BY <1>1, <1>2, <1>4, QuietGoKeeps DEF KeyShape, Steps, Ended
<1> QED
  BY <1>3, <1>4

LEMMA QuietTakeKeeps ==
  ASSUME StorageInv, StorageInv', KeysInv, NEW t \in Tasks, task[t].at = "each",
         task[t].job # "genkeys",
         UNCHANGED <<stored, private, torn, memory, rekeyed, fresh>>, disturbed \subseteq disturbed',
         NEW x, NEW step \in {"each", "unlink", "save", "make"}, Take(t, x, step),
         task[t].job = "repair" => step \in {"each", "make"}
  PROVE  KeysInv'
<1>1. fresh <= fresh'
  BY Numbers
<1> QED
  BY <1>1, TakeOwn, QuietKeeps

LEMMA QuietTakesKeepKeys ==
  ASSUME StorageInv, StorageInv', KeysInv, NEW t \in Tasks, Place(t) \/ ProbeObject(t)
  PROVE  KeysInv'
<1>1. UNCHANGED <<stored, private, torn, memory, rekeyed, fresh>> /\ disturbed \subseteq disturbed'
  BY DEF Place, ProbeObject, metaVars, keyVars
<1>2. task[t].at = "each" /\ task[t].job \in {"move", "copy", "import"}
  BY DEF Place, ProbeObject, Looping, At
<1>3. PICK x : Take(t, x, "each") \/ Take(t, x, "unlink") \/ Take(t, x, "save")
  BY DEF Place, ProbeObject
<1> QED
  BY <1>1, <1>2, <1>3, QuietTakeKeeps

LEMMA LoadCollectionKeepsKeys ==
  ASSUME StorageInv, StorageInv', KeysInv, NEW t \in Tasks, LoadCollection(t)
  PROVE  KeysInv'
<1>1. /\ UNCHANGED <<stored, private, torn, memory, rekeyed, fresh>> /\ disturbed \subseteq disturbed'
      /\ task[t].at = "each" /\ task[t].job = "repair" /\ fresh <= fresh' /\ fresh \in Nat
      /\ task[t].queue \cap Items = {}
  BY Numbers DEF LoadCollection, Looping, At, Overlap, metaVars, keyVars
<1>2. task[t] \in TaskRecord /\ KeyShape(task[t])
  BY DEF StorageInv, TypeOK, StoreTypeOK, KeysInv
<1>3. ASSUME NEW c, NEW step \in {"each", "make"}, Take(t, c, step)
      PROVE  KeysInv'
  BY <1>1, <1>3, QuietTakeKeeps
<1>4. ASSUME NEW c,
             LET members == {i \in listed[c] : Exists(i)} IN
               task' = [task EXCEPT ![t] = [task[t] EXCEPT
                 !.queue = (@ \ {c}) \cup members, !.scope = @ \cup members,
                 !.seen = [i \in Items |-> IF i \in members THEN stored[i] ELSE @[i]]]]
      PROVE  KeysInv'
  <2> DEFINE members == {i \in listed[c] : Exists(i)}
             r == [task[t] EXCEPT
                 !.queue = (@ \ {c}) \cup members, !.scope = @ \cup members,
                 !.seen = [i \in Items |-> IF i \in members THEN stored[i] ELSE @[i]]]
  <2>1. task'[t] = r /\ \A u \in Tasks \ {t} : task'[u] = task[u]
    BY <1>4 DEF StorageInv, TypeOK, StoreTypeOK
  <2>2. /\ r.queue = (task[t].queue \ {c}) \cup members /\ r.scope = task[t].scope \cup members
        /\ r.seen = [i \in Items |-> IF i \in members THEN stored[i] ELSE task[t].seen[i]]
        /\ r.at = "each" /\ r.job = "repair" /\ r.key = task[t].key
    BY <1>1, <1>2 DEF TaskRecord
  <2> HIDE DEF members, r
  <2>3. KeyShape(task'[t]) /\ MemoryIsCurrent(task[t])'
    BY <1>1, <1>2, <2>1, <2>2 DEF KeyShape, MemoryIsCurrent
  <2>4. RecordFresh(task[t])'
    BY <1>1, <2>1, <2>2 DEF RecordFresh, KeysInv, KeysAreFresh
  <2> QED
    BY <1>1, <2>1, <2>3, <2>4, QuietKeeps DEF Own
<1> QED
  BY <1>3, <1>4 DEF LoadCollection

LEMMA ExpandKeepsKeys ==
  ASSUME StorageInv, StorageInv', KeysInv, NEW t \in Tasks, Expand(t)
  PROVE  KeysInv'
<1>1. /\ UNCHANGED <<stored, private, torn, memory, rekeyed, fresh>> /\ disturbed \subseteq disturbed'
      /\ task[t].at = "each" /\ task[t].job \in {"move", "copy"} /\ fresh <= fresh'
  BY Numbers DEF Expand, Looping, At, Overlap, metaVars, keyVars
<1>2. task[t] \in TaskRecord
  BY DEF StorageInv, TypeOK, StoreTypeOK
<1>3. PICK members, left : task' = [task EXCEPT ![t] = [task[t] EXCEPT
        !.queue = members, !.scope = @ \cup members, !.left = left]]
  BY DEF Expand
<1> DEFINE r == [task[t] EXCEPT !.queue = members, !.scope = @ \cup members, !.left = left]
<1>4. task'[t] = r /\ \A u \in Tasks \ {t} : task'[u] = task[u]
  BY <1>3 DEF StorageInv, TypeOK, StoreTypeOK
<1>5. /\ r.queue = members /\ members \subseteq r.scope /\ r.at = "each" /\ r.job = task[t].job
      /\ r.key = task[t].key /\ r.seen = task[t].seen
  BY <1>1, <1>2 DEF TaskRecord
<1> HIDE DEF r
<1>6. KeyShape(task'[t]) /\ MemoryIsCurrent(task[t])'
  BY <1>1, <1>4, <1>5 DEF KeyShape, MemoryIsCurrent
<1>7. RecordFresh(task[t])'
  BY <1>1, <1>4, <1>5, OwnStaysFresh
<1> QED
  BY <1>1, <1>4, <1>6, <1>7, QuietKeeps DEF Own

LEMMA LoadObjectsKeepsKeys ==
  ASSUME StorageInv, StorageInv', KeysInv, NEW t \in Tasks, LoadObjects(t)
  PROVE  KeysInv'
<1>1. /\ UNCHANGED <<stored, private, torn, memory, rekeyed, fresh, disturbed>>
      /\ task[t].at = "delete" /\ task[t].job \notin {"genkeys", "repair"} /\ fresh <= fresh'
  <2>1. /\ UNCHANGED <<stored, private, torn, memory, rekeyed, fresh, disturbed>>
        /\ task[t].at = "delete"
    BY DEF LoadObjects, At, metaVars, keyVars
  <2>2. task[t].job \notin {"genkeys", "repair"}
    BY <2>1 DEF KeysInv, KeyShape
  <2> QED
    BY <2>1, <2>2, Numbers
<1>2. task[t] \in TaskRecord
  BY DEF StorageInv, TypeOK, StoreTypeOK
<1>3. CASE Go(t, "failed")
  BY <1>1, <1>3, RestingOwn, QuietKeeps DEF Ended
<1>4. ASSUME NEW found \in SUBSET task[t].scope, NEW left,
             task' = [task EXCEPT ![t] = [task[t] EXCEPT
                        !.at = "bury", !.queue = found, !.left = left]]
      PROVE  KeysInv'
  <2> DEFINE r == [task[t] EXCEPT !.at = "bury", !.queue = found, !.left = left]
  <2>1. task'[t] = r /\ \A u \in Tasks \ {t} : task'[u] = task[u]
    BY <1>4 DEF StorageInv, TypeOK, StoreTypeOK
  <2>2. /\ r.queue = found /\ r.scope = task[t].scope /\ r.at = "bury" /\ r.job = task[t].job
        /\ r.key = task[t].key /\ r.seen = task[t].seen
    BY <1>2 DEF TaskRecord
  <2> HIDE DEF r
  <2>3. KeyShape(task'[t]) /\ MemoryIsCurrent(task[t])'
    BY <1>1, <2>1, <2>2 DEF KeyShape, MemoryIsCurrent
  <2>4. RecordFresh(task[t])'
    BY <1>1, <2>1, <2>2, OwnStaysFresh
  <2> QED
    BY <1>1, <2>1, <2>3, <2>4, QuietKeeps DEF Own
<1> QED
  BY <1>3, <1>4 DEF LoadObjects

LEMMA LoadMetadataKeepsKeys ==
  ASSUME StorageInv, StorageInv', KeysInv, NEW t \in Tasks, LoadMetadata(t)
  PROVE  KeysInv'
<1>1. /\ UNCHANGED <<stored, private, torn, memory, rekeyed, fresh>> /\ disturbed \subseteq disturbed'
      /\ task[t].at = "load" /\ fresh <= fresh'
  BY Numbers DEF LoadMetadata, At, metaVars, keyVars
<1>2. task[t] \in TaskRecord /\ KeyShape(task[t]) /\ MemoryIsCurrent(task[t])
  BY DEF StorageInv, TypeOK, StoreTypeOK, KeysInv
<1>3. PICK word : task' = [task EXCEPT ![t] = [task[t] EXCEPT !.at = "meta", !.read = word]]
  BY DEF LoadMetadata
<1> DEFINE r == [task[t] EXCEPT !.at = "meta", !.read = word]
<1>4. task'[t] = r /\ \A u \in Tasks \ {t} : task'[u] = task[u]
  BY <1>3 DEF StorageInv, TypeOK, StoreTypeOK
<1>5. /\ r.at = "meta" /\ r.job = task[t].job /\ r.queue = task[t].queue /\ r.scope = task[t].scope
      /\ r.item = task[t].item /\ r.key = task[t].key /\ r.seen = task[t].seen
  BY <1>2 DEF TaskRecord
<1> HIDE DEF r
<1>6. KeyShape(task'[t])
  BY <1>1, <1>2, <1>4, <1>5 DEF KeyShape
<1>7. MemoryIsCurrent(task[t])'
  BY <1>1, <1>2, <1>4, <1>5 DEF MemoryIsCurrent
<1>8. RecordFresh(task[t])'
  BY <1>1, <1>4, <1>5, OwnStaysFresh
<1> QED
  BY <1>1, <1>4, <1>6, <1>7, <1>8, QuietKeeps DEF Own

\* The key that is made is new, also to the actors that were loaded before.
LEMMA GenerateKeyPairKeepsKeys ==
  ASSUME StorageInv, StorageInv', KeysInv, NEW t \in Tasks, GenerateKeyPair(t)
  PROVE  KeysInv'
<1>1. /\ UNCHANGED <<stored, private, torn, memory, rekeyed, disturbed>>
      /\ task[t].at = "each" /\ task[t].job = "genkeys"
  BY DEF GenerateKeyPair, At, metaVars, keyVars
<1>2. /\ task[t] \in TaskRecord /\ KeyShape(task[t]) /\ MemoryIsCurrent(task[t])
      /\ Shape(task[t])
  BY DEF StorageInv, TypeOK, StoreTypeOK, KeysInv, Shapes
<1>3. CASE Go(t, "ok") /\ UNCHANGED fresh
  BY <1>1, <1>3, QuietGoKeeps DEF Steps, Ended
<1>4. ASSUME NEW a \in task[t].queue, Make,
             task' = [task EXCEPT ![t] = [task[t] EXCEPT !.item = a, !.queue = @ \ {a},
                                  !.key = fresh + 1, !.at = "load"]]
      PROVE  KeysInv'
  <2> DEFINE r == [task[t] EXCEPT !.item = a, !.queue = @ \ {a}, !.key = fresh + 1, !.at = "load"]
  <2>1. task'[t] = r /\ \A u \in Tasks \ {t} : task'[u] = task[u]
    BY <1>4 DEF StorageInv, TypeOK, StoreTypeOK
  <2>2. /\ r.at = "load" /\ r.job = "genkeys" /\ r.queue = task[t].queue \ {a}
        /\ r.scope = task[t].scope /\ r.item = a /\ r.key = fresh + 1 /\ r.seen = task[t].seen
    BY <1>1, <1>2 DEF TaskRecord
  <2> HIDE DEF r
  <2>3. a \in Items /\ fresh' = fresh + 1 /\ fresh \in Nat /\ fresh <= fresh'
    BY <1>1, <1>2, <1>4, Numbers DEF Shape, Items, Make
  <2>4. KeyShape(task'[t])
    BY <1>1, <1>2, <2>1, <2>2 DEF KeyShape
  <2>5. task[t].seen[a].key # fresh + 1
    BY <2>3, Numbers DEF KeysInv, KeysAreFresh
  <2>6. MemoryIsCurrent(task[t])'
    BY <1>1, <1>2, <1>4, <2>1, <2>2, <2>3, <2>5 DEF MemoryIsCurrent
  <2>7. RecordFresh(task[t])'
    BY <2>1, <2>2, <2>3, Numbers DEF RecordFresh, KeysInv, KeysAreFresh
  <2> QED
    BY <1>1, <2>1, <2>3, <2>4, <2>6, <2>7, QuietKeeps DEF Own
<1> QED
  BY <1>3, <1>4 DEF GenerateKeyPair

LEMMA BeginKeepsKeys ==
  ASSUME StorageInv, StorageInv', KeysInv, NEW t \in Tasks,
         UNCHANGED <<stored, private, torn, memory, rekeyed>>, fresh <= fresh',
         NEW job, NEW step, NEW item, NEW scope, NEW key \in Nat, NEW word,
         Begin(t, job, step, item, scope, key, word), key <= fresh',
         step \notin {"actor", "update", "save", "unlink"},
         job \in {"genkeys", "repair"} => step = "each"
  PROVE  KeysInv'
BY BeginOwn, QuietKeeps

LEMMA BeginningsKeepKeys ==
  ASSUME StorageInv, StorageInv', KeysInv, NEW t \in Tasks,
         \/ \E scope \in Scopes : GenKeys(t, scope)
         \/ \E a \in Actors : ChangePassword(t, a)
         \/ \E scope \in Scopes : ImportMetadata(t, scope, OperatorSecret)
         \/ \E n \in Notes : AddObject(t, n)
         \/ \E scope \in Scopes : Delete(t, scope)
         \/ \E scope \in Files, k \in {NoSecret, OperatorSecret} : Import(t, scope, k)
         \/ FixCollections(t)
         \/ Reset(t)
         \/ \E job \in {"addactor", "addclient"}, a \in Actors : AddAccount(t, job, a)
         \/ \E c \in Actors : DelClient(t, c)
         \/ \E c, a \in Actors : GenAuthToken(t, c, a)
  PROVE  KeysInv'
<1>1. UNCHANGED <<stored, private, torn, memory, rekeyed>>
  BY DEF GenKeys, ChangePassword, ImportMetadata, AddObject, Delete, Import, FixCollections,
         Reset, AddAccount, DelClient, GenAuthToken, metaVars, keyVars
<1>2. /\ fresh \in Nat /\ OperatorSecret \in Nat /\ NoSecret \in Nat
      /\ OperatorSecret <= fresh /\ NoSecret <= fresh
  BY Numbers DEF OperatorSecret, NoSecret, KeysInv, KeysAreFresh
<1> DEFINE new == fresh + 1
<1>3. Make => fresh' = new /\ new \in Nat /\ new <= fresh' /\ fresh <= fresh' /\ NoSecret <= fresh'
  BY <1>2 DEF Make, NoSecret
<1> HIDE DEF new
<1>4. ASSUME NEW scope \in Scopes, GenKeys(t, scope)
      PROVE  KeysInv'
  <2>1. UNCHANGED fresh /\ Begin(t, "genkeys", "each", Service, scope, NoSecret, NoSecret)
    BY <1>4 DEF GenKeys
  <2> QED
    BY <1>1, <1>2, <2>1, BeginKeepsKeys
<1>5. ASSUME NEW a \in Actors, ChangePassword(t, a)
      PROVE  KeysInv'
  <2>1. Make /\ Begin(t, "passwd", "password", a, {a}, NoSecret, new)
    BY <1>5 DEF ChangePassword, new
  <2> QED
    BY <1>1, <1>2, <1>3, <2>1, BeginKeepsKeys
<1>6. ASSUME NEW scope \in Scopes, ImportMetadata(t, scope, OperatorSecret)
      PROVE  KeysInv'
  <2>1. UNCHANGED fresh /\ Begin(t, "restore", "restore", Service, scope, OperatorSecret, OperatorSecret)
    BY <1>6 DEF ImportMetadata
  <2> QED
    BY <1>1, <1>2, <2>1, BeginKeepsKeys
<1>7. ASSUME NEW n \in Notes, AddObject(t, n)
      PROVE  KeysInv'
  <2>1. UNCHANGED fresh /\ Begin(t, "addobject", "create", n, {n}, NoSecret, NoSecret)
    BY <1>7 DEF AddObject
  <2> QED
    BY <1>1, <1>2, <2>1, BeginKeepsKeys
<1>8. ASSUME NEW scope \in Scopes, Delete(t, scope)
      PROVE  KeysInv'
  <2>1. UNCHANGED fresh /\ Begin(t, "delete", "delete", Service, scope, NoSecret, NoSecret)
    BY <1>8 DEF Delete
  <2> QED
    BY <1>1, <1>2, <2>1, BeginKeepsKeys
<1>9. ASSUME NEW scope \in Files, NEW k \in {NoSecret, OperatorSecret}, Import(t, scope, k)
      PROVE  KeysInv'
  <2>1. UNCHANGED fresh /\ Begin(t, "import", "process", Service, scope, k, NoSecret)
    BY <1>9 DEF Import
  <2> QED
    BY <1>1, <1>2, <2>1, BeginKeepsKeys
<1>10. CASE FixCollections(t)
  <2>1. UNCHANGED fresh /\ Begin(t, "repair", "each", Service, Collections, NoSecret, NoSecret)
    BY <1>10 DEF FixCollections
  <2> QED
    BY <1>1, <1>2, <2>1, BeginKeepsKeys
<1>11. CASE Reset(t)
  <2>1. Make /\ Begin(t, "reset", "clean", Service, Things, new, NoSecret)
    BY <1>11 DEF Reset, new
  <2> QED
    BY <1>1, <1>2, <1>3, <2>1, BeginKeepsKeys
<1>12. ASSUME NEW job \in {"addactor", "addclient"}, NEW a \in Actors, AddAccount(t, job, a)
       PROVE  KeysInv'
  <2>1. Make /\ Begin(t, job, "create", a, {a}, new, new)
    BY <1>12 DEF AddAccount, new
  <2> QED
    BY <1>1, <1>2, <1>3, <2>1, BeginKeepsKeys
<1>13. ASSUME NEW c \in Actors, DelClient(t, c)
       PROVE  KeysInv'
  <2>1. UNCHANGED fresh /\ Begin(t, "delclient", "delete", c, {c}, NoSecret, NoSecret)
    BY <1>13 DEF DelClient
  <2> QED
    BY <1>1, <1>2, <2>1, BeginKeepsKeys
<1>14. ASSUME NEW c \in Actors, NEW a \in Actors, GenAuthToken(t, c, a)
       PROVE  KeysInv'
  <2>1. UNCHANGED fresh /\ Begin(t, "token", "authorize", a, {c, a}, NoSecret, NoSecret)
    BY <1>14 DEF GenAuthToken
  <2> QED
    BY <1>1, <1>2, <2>1, BeginKeepsKeys
<1> QED
  BY <1>4, <1>5, <1>6, <1>7, <1>8, <1>9, <1>10, <1>11, <1>12, <1>13, <1>14

LEMMA MoveOrCopyKeepsKeys ==
  ASSUME StorageInv, StorageInv', KeysInv, NEW t \in Tasks, NEW job \in {"move", "copy"},
         NEW to, NEW from, MoveOrCopy(t, job, to, from)
  PROVE  KeysInv'
<1> DEFINE r == [Blank(job, "each", from \cup {to}) EXCEPT !.queue = from, !.to = to]
<1>1. /\ UNCHANGED <<stored, private, torn, memory, rekeyed, fresh>> /\ disturbed \subseteq disturbed'
      /\ task[t].at # "actor" /\ fresh <= fresh'
  BY Numbers DEF MoveOrCopy, At, Overlap, metaVars, keyVars
<1>2. task'[t] = r /\ \A u \in Tasks \ {t} : task'[u] = task[u]
  BY DEF MoveOrCopy, StorageInv, TypeOK, StoreTypeOK
<1>3. KeyShape(task'[t]) /\ MemoryIsCurrent(task[t])'
  BY <1>2 DEF KeyShape, MemoryIsCurrent, Blank
<1>4. RecordFresh(task[t])'
  BY <1>2, FreshLater DEF RecordFresh, Blank, Absent, NoSecret
<1> QED
  BY <1>1, <1>2, <1>3, <1>4, QuietKeeps DEF Own

LEMMA BootstrapKeepsKeys ==
  ASSUME StorageInv, StorageInv', KeysInv, NEW t \in Tasks, NEW job \in {"bootstrap", "serve"},
         Bootstrap(t, job)
  PROVE  KeysInv'
<1> DEFINE seen == [Blank(job, "create", {Service}).seen EXCEPT ![Service] = Live(NoSecret)]
           r == [Blank(job, "create", {Service}) EXCEPT !.seen = seen, !.key = Key, !.word = Password]
<1>1. /\ UNCHANGED <<stored, private, torn, memory, rekeyed>> /\ disturbed \subseteq disturbed'
      /\ task[t].at # "actor" /\ fresh <= fresh' /\ Key <= fresh'
  BY Numbers DEF Bootstrap, At, Overlap, GetPwAndKey, Make, Key, OperatorSecret, metaVars, keyVars,
                 KeysInv, KeysAreFresh
<1>2. task'[t] = r /\ \A u \in Tasks \ {t} : task'[u] = task[u]
  BY DEF Bootstrap, Blank, StorageInv, TypeOK, StoreTypeOK
<1>3. r.at = "create" /\ r.job = job /\ r.queue = {} /\ r.key = Key /\ r.seen = seen
  BY DEF Blank
<1>4. \A i \in Items : seen[i].key = 0
  BY DEF Blank, Absent, Live, NoSecret
<1> HIDE DEF r, seen
<1>5. KeyShape(task'[t]) /\ MemoryIsCurrent(task[t])'
  BY <1>2, <1>3 DEF KeyShape, MemoryIsCurrent
<1>6. RecordFresh(task[t])'
  BY <1>1, <1>2, <1>3, <1>4, FreshLater DEF RecordFresh
<1> QED
  BY <1>1, <1>2, <1>5, <1>6, QuietKeeps DEF Own

-----------------------------------------------------------------------------
(* Steps that save items or keys *)

LEMMA AgreementKept ==
  ASSUME KeysInv, NEW t \in Tasks, Frame(t), task[t].at # "actor",
         \A a \in Actors \ (torn' \cup disturbed') :
           Lives(a)' => \/ private'[a] = stored'[a].key
                        \/ /\ a \notin torn
                           /\ stored'[a] = stored[a] /\ private'[a] = private[a]
  PROVE  KeysAgree'
<1>1. ASSUME NEW a \in Actors \ (torn' \cup disturbed'), Lives(a)', ~HalfSaved(a)'
      PROVE  private'[a] = stored'[a].key
  <2>1. ~HalfSaved(a)
    BY <1>1 DEF HalfSaved, At, Frame
  <2> QED
    BY <1>1, <2>1 DEF KeysInv, KeysAgree, Lives, Frame
<1> QED
  BY <1>1 DEF KeysAgree

\* A step that changes items, but no key
LEMMA SavingKeeps ==
  ASSUME StorageInv, StorageInv', KeysInv, NEW t \in Tasks, task[t].at # "actor",
         \A u \in Tasks \ {t} : task'[u] = task[u], Own(t)',
         UNCHANGED <<private, memory, rekeyed, fresh, disturbed>>, Working(t),
         \A i \in Items : stored'[i] # stored[i] => i \in task[t].scope /\ stored'[i].key <= fresh,
         \A a \in Actors \ (torn' \cup disturbed) :
           Lives(a)' => \/ private[a] = stored'[a].key
                        \/ a \notin torn /\ stored'[a] = stored[a]
  PROVE  KeysInv'
<1>1. Frame(t)
  BY DEF Frame
<1>2. KeysAgree'
  BY <1>1, AgreementKept
<1>3. ServerHasKey'
  BY DEF KeysInv, ServerHasKey
<1>4. fresh <= fresh' /\ \A i \in Items : stored'[i].key <= fresh'
  BY Numbers DEF KeysInv, KeysAreFresh
<1> QED
  BY <1>1, <1>2, <1>3, <1>4, KeysKept

LEMMA CreateKeepsKeys ==
  ASSUME StorageInv, StorageInv', KeysInv, NEW t \in Tasks, Create(t)
  PROVE  KeysInv'
<1> DEFINE i == task[t].item
           k == task[t].seen[i].key
<1>1. /\ UNCHANGED <<private, memory, rekeyed, fresh, disturbed>> /\ fresh <= fresh'
      /\ task[t].at = "create" /\ Working(t) /\ i \in task[t].scope
      /\ task[t].job \notin {"genkeys", "repair"}
  BY Numbers DEF Create, At, Working, Ended, metaVars, StorageInv, Shapes, Shape, KeysInv, KeyShape
<1>2. PICK step \in {"ok", "client", "load", "failed"} : Go(t, step)
  BY DEF Create, AfterCreate
<1>3. (\A u \in Tasks \ {t} : task'[u] = task[u]) /\ Own(t)'
  BY <1>1, <1>2, GoOwn DEF Steps, Ended
<1>4. \/ stored' = stored /\ torn' = torn
      \/ /\ stored' = [stored EXCEPT ![i] = Live(k)]
         /\ torn' = IF i \in Actors /\ k # private[i] THEN torn \cup {i} ELSE torn
  BY DEF Create
<1>5. \A j \in Items : stored'[j] # stored[j] =>
        j = i /\ stored'[j] = Live(k) /\ stored'[j].key <= fresh
  BY <1>4 DEF StorageInv, TypeOK, StoreTypeOK, Live, KeysInv, KeysAreFresh
<1>6. \A a \in Actors \ torn' :
        private[a] = stored'[a].key \/ (a \notin torn /\ stored'[a] = stored[a])
  <2> TAKE a \in Actors \ torn'
  <2>1. CASE stored' = stored /\ torn' = torn
    BY <2>1
  <2>2. CASE /\ stored' = [stored EXCEPT ![i] = Live(k)]
             /\ torn' = IF i \in Actors /\ k # private[i] THEN torn \cup {i} ELSE torn
    <3>1. a = i => stored'[a] = Live(k) /\ k = private[a]
      BY <2>2 DEF StorageInv, TypeOK, StoreTypeOK, Items
    <3>2. a # i => stored'[a] = stored[a] /\ a \notin torn
      BY <2>2 DEF StorageInv, TypeOK, StoreTypeOK, Items
    <3> QED
      BY <3>1, <3>2 DEF Live
  <2> QED
    BY <1>4, <2>1, <2>2
<1> QED
  BY <1>1, <1>3, <1>5, <1>6, SavingKeeps

LEMMA RemovalsKeepKeys ==
  ASSUME StorageInv, StorageInv', KeysInv, NEW t \in Tasks, DeleteObjects(t) \/ Unlink(t)
  PROVE  KeysInv'
<1>1. /\ UNCHANGED <<private, memory, rekeyed, fresh, disturbed, torn>> /\ fresh <= fresh'
      /\ task[t].at \in {"bury", "unlink"} /\ Working(t)
      /\ task[t].queue \subseteq task[t].scope
      /\ task[t].job \notin {"genkeys", "repair"}
  BY Numbers DEF DeleteObjects, Unlink, At, Working, Ended, metaVars, keyVars, KeysInv, KeyShape
<1>2. PICK step \in {"ok", "remove", "each", "failed"} : Go(t, step)
  BY DEF DeleteObjects, AfterDelete, Unlink
<1>3. (\A u \in Tasks \ {t} : task'[u] = task[u]) /\ Own(t)'
  BY <1>1, <1>2, GoOwn DEF Steps, Ended
<1>4. \A j \in Items : stored'[j] # stored[j] =>
        j \in task[t].scope /\ stored'[j] \in {Absent, Tombstone}
  <2>1. CASE DeleteObjects(t)
    BY <1>1, <2>1 DEF DeleteObjects
  <2>2. CASE Unlink(t)
    BY <1>1, <2>2 DEF Unlink, At, KeysInv, KeyShape, StorageInv, TypeOK, StoreTypeOK
  <2> QED
    BY <2>1, <2>2
<1>5. \A j \in Items : stored'[j] # stored[j] => j \in task[t].scope /\ stored'[j].key <= fresh
  BY <1>4, Numbers DEF Absent, Tombstone, NoSecret
<1>6. \A a \in Actors : Lives(a)' => stored'[a] = stored[a]
  BY <1>4 DEF Lives, Absent, Tombstone, Items
<1> QED
  BY <1>1, <1>3, <1>5, <1>6, SavingKeeps

LEMMA ImportItemAgrees ==
  ASSUME StorageInv, KeysInv, NEW t \in Tasks, NEW i \in Things, ImportItem(t, i)
  PROVE  /\ \A j \in Items : stored'[j] # stored[j] => j = i /\ stored'[j].key <= fresh
         /\ \A a \in Actors \ torn' :
              private[a] = stored'[a].key \/ (a \notin torn /\ stored'[a] = stored[a])
<1>1. FileKey(t, i) <= fresh
  BY Numbers DEF FileKey, NoSecret, KeysInv, KeysAreFresh
<1> DEFINE k == FileKey(t, i)
<1>2. /\ stored' = [stored EXCEPT ![i] = Live(k)]
      /\ torn' = IF i \in Actors /\ k # private[i] THEN torn \cup {i} ELSE torn
  BY DEF ImportItem
<1> HIDE DEF k
<1>3. \A j \in Items : stored'[j] # stored[j] => j = i /\ stored'[j] = Live(k)
  BY <1>2 DEF StorageInv, TypeOK, StoreTypeOK
<1>4. ASSUME NEW a \in Actors \ torn'
      PROVE  private[a] = stored'[a].key \/ (a \notin torn /\ stored'[a] = stored[a])
  <2>1. a = i => stored'[a] = Live(k) /\ k = private[a]
    BY <1>2 DEF StorageInv, TypeOK, StoreTypeOK, Items
  <2>2. a # i => stored'[a] = stored[a] /\ a \notin torn
    BY <1>2 DEF StorageInv, TypeOK, StoreTypeOK, Items
  <2> QED
    BY <2>1, <2>2 DEF Live
<1> QED
  BY <1>1, <1>3, <1>4 DEF Live, k

LEMMA ImportingKeepsKeys ==
  ASSUME StorageInv, StorageInv', KeysInv, NEW t \in Tasks, ProcessActivities(t) \/ SaveObject(t)
  PROVE  KeysInv'
<1>1. /\ UNCHANGED <<private, memory, rekeyed, fresh, disturbed>> /\ fresh <= fresh'
      /\ task[t].at \in {"process", "save"} /\ Working(t)
      /\ task[t].job \notin {"genkeys", "repair"}
      /\ task[t].at = "save" => task[t].item \in task[t].scope
      /\ task[t].queue \subseteq task[t].scope /\ task[t].scope \subseteq Things
      /\ KeyShape(task[t]) /\ MemoryIsCurrent(task[t])
  BY Numbers DEF ProcessActivities, SaveObject, At, Working, Ended, metaVars, KeysInv, KeyShape,
                 StorageInv, TypeOK, StoreTypeOK, TaskRecord
<1>2. (\A u \in Tasks \ {t} : task'[u] = task[u]) /\ Own(t)'
  <2>1. CASE Go(t, "each")
    BY <1>1, <2>1, GoOwn DEF Steps, Ended
  <2>2. CASE UNCHANGED task
    BY <1>1, <2>2, OwnStaysFresh DEF Own, MemoryIsCurrent
  <2> QED
    BY <2>1, <2>2 DEF ProcessActivities, SaveObject
<1>3. CASE UNCHANGED <<stored, torn>>
  BY <1>1, <1>2, <1>3, SavingKeeps
<1>4. CASE \E i \in task[t].scope : ImportItem(t, i)
  <2>1. PICK i \in task[t].scope : ImportItem(t, i)
    BY <1>4
  <2> QED
    BY <1>1, <1>2, <2>1, ImportItemAgrees, SavingKeeps
<1>5. CASE /\ \E i \in task[t].queue \cap Items : stored' = [stored EXCEPT ![i] = Tombstone]
           /\ UNCHANGED torn
  <2>1. PICK i \in task[t].queue \cap Items : stored' = [stored EXCEPT ![i] = Tombstone]
    BY <1>5
  <2>2. \A j \in Items : stored'[j] # stored[j] => j = i /\ stored'[j] = Tombstone
    BY <2>1 DEF StorageInv, TypeOK, StoreTypeOK
  <2>3. \A j \in Items : stored'[j] # stored[j] => j \in task[t].scope /\ stored'[j].key <= fresh
    BY <1>1, <2>2, Numbers DEF Tombstone, NoSecret
  <2>4. \A a \in Actors : Lives(a)' => stored'[a] = stored[a]
    BY <2>2 DEF Lives, Tombstone, Items
  <2> QED
    BY <1>1, <1>2, <1>5, <2>3, <2>4, SavingKeeps
<1> QED
  BY <1>1, <1>3, <1>4, <1>5 DEF ProcessActivities, Activity, SaveObject, At

\* What a repair saves again is what is there.
LEMMA SaveMemberKeepsKeys ==
  ASSUME StorageInv, StorageInv', KeysInv, NEW t \in Tasks, SaveMember(t)
  PROVE  KeysInv'
<1>1. /\ UNCHANGED <<private, memory, rekeyed, fresh, disturbed, torn>> /\ fresh <= fresh'
      /\ task[t].at = "each" /\ task[t].job = "repair" /\ Working(t)
  BY Numbers DEF SaveMember, Looping, At, Working, Ended, metaVars, keyVars
<1>2. task[t] \in TaskRecord /\ KeyShape(task[t]) /\ MemoryIsCurrent(task[t])
  BY DEF StorageInv, TypeOK, StoreTypeOK, KeysInv
<1>3. PICK i \in task[t].queue \cap Items :
        /\ stored' \in {stored, [stored EXCEPT ![i] = task[t].seen[i]]}
        /\ task' = [task EXCEPT ![t] = [task[t] EXCEPT !.queue = @ \ {i}, !.scope = @ \ {i}]]
  BY DEF SaveMember
<1> DEFINE r == [task[t] EXCEPT !.queue = @ \ {i}, !.scope = @ \ {i}]
<1>4. /\ r.queue = task[t].queue \ {i} /\ r.scope = task[t].scope \ {i} /\ r.at = "each"
      /\ r.job = "repair" /\ r.key = task[t].key /\ r.seen = task[t].seen
  BY <1>1, <1>2 DEF TaskRecord
<1>5. task' = [task EXCEPT ![t] = r] /\ r.queue \subseteq r.scope /\ r.queue \subseteq task[t].queue
  BY <1>2, <1>3, <1>4 DEF KeyShape
<1>6. \A j \in r.queue \cap Items : stored'[j] = stored[j]
  BY <1>3, <1>4 DEF StorageInv, TypeOK, StoreTypeOK
<1>7. (\A u \in Tasks \ {t} : task'[u] = task[u]) /\ Own(t)'
  <2> HIDE DEF r
  <2> QED
    BY <1>1, <1>4, <1>5, <1>6, RepairOwn
<1>8. \A j \in Items : stored'[j] # stored[j] =>
        j = i /\ i \in disturbed /\ stored'[j] = task[t].seen[j]
  BY <1>1, <1>2, <1>3 DEF MemoryIsCurrent, StorageInv, TypeOK, StoreTypeOK
<1>9. \A j \in Items : stored'[j] # stored[j] => j \in task[t].scope /\ stored'[j].key <= fresh
  BY <1>2, <1>3, <1>8 DEF KeyShape, KeysInv, KeysAreFresh
<1>10. \A a \in Actors \ disturbed : stored'[a] = stored[a]
  BY <1>8 DEF Items
<1> QED
  BY <1>1, <1>7, <1>9, <1>10, SavingKeeps

-----------------------------------------------------------------------------
(* AddKeyToPerson and the Update that follows it *)

\* What they all find in memory
LEMMA ActorInMemory ==
  ASSUME StorageInv, KeysInv, NEW t \in Tasks, task[t].at \in {"meta", "actor", "update"}
  PROVE  /\ task[t] \in TaskRecord /\ KeyShape(task[t]) /\ MemoryIsCurrent(task[t])
         /\ Working(t) /\ task[t].job # "repair"
         /\ task[t].item \in Actors /\ task[t].item \in Items
         /\ task[t].item \in task[t].scope
         /\ stored \in [Items -> Record] /\ private \in [Actors -> Secrets]
         /\ fresh \in Nat /\ task[t].key <= fresh
         /\ \A i \in Items : stored[i].key <= fresh /\ task[t].seen[i].key <= fresh
<1>1. task[t] \in TaskRecord /\ Shape(task[t]) /\ KeyShape(task[t]) /\ MemoryIsCurrent(task[t])
  BY DEF StorageInv, TypeOK, StoreTypeOK, Shapes, KeysInv
<1> QED
  BY <1>1, Numbers DEF Shape, ActorSteps, Items, KeyShape, Working, Ended, KeysInv, KeysAreFresh,
     StorageInv, TypeOK, StoreTypeOK

\* Gen-keys goes on to its Update, whatever was saved.
LEMMA UpdateOwn ==
  ASSUME StorageInv, StorageInv', KeysInv, NEW t \in Tasks, fresh <= fresh',
         task[t].at \in {"meta", "actor"}, task[t].job = "genkeys", Go(t, "update"),
         UNCHANGED disturbed,
         \A i \in Items : stored'[i] # stored[i] => i = task[t].item,
         task[t].item \notin disturbed =>
           IF task[t].seen[task[t].item].key = task[t].key
             THEN private'[task[t].item] = task[t].key
             ELSE task[t].seen[task[t].item] = stored'[task[t].item]
  PROVE  (\A u \in Tasks \ {t} : task'[u] = task[u]) /\ Own(t)' /\ task'[t].at = "update"
<1> DEFINE r == [task[t] EXCEPT !.at = "update"]
<1>1. task[t] \in TaskRecord /\ KeyShape(task[t]) /\ MemoryIsCurrent(task[t])
  BY ActorInMemory
<1>2. task'[t] = r /\ \A u \in Tasks \ {t} : task'[u] = task[u]
  BY DEF Go, Moved, Ended, StorageInv, TypeOK, StoreTypeOK
<1>3. /\ r.at = "update" /\ r.job = "genkeys" /\ r.queue = task[t].queue /\ r.scope = task[t].scope
      /\ r.item = task[t].item /\ r.key = task[t].key /\ r.seen = task[t].seen
  BY <1>1 DEF TaskRecord
<1> HIDE DEF r
<1>4. KeyShape(task'[t])
  BY <1>1, <1>2, <1>3 DEF KeyShape
<1>5. \A j \in (task[t].queue \cap Items) \ disturbed : task[t].seen[j] = stored'[j]
  BY <1>1 DEF KeyShape, MemoryIsCurrent
<1>6. MemoryIsCurrent(task[t])'
  BY <1>2, <1>3, <1>5 DEF MemoryIsCurrent
<1>7. RecordFresh(task[t])'
  BY <1>2, <1>3, OwnStaysFresh
<1> QED
  BY <1>2, <1>3, <1>4, <1>6, <1>7 DEF Own

LEMMA SaveMetadataKeepsKeys ==
  ASSUME StorageInv, StorageInv', KeysInv, NEW t \in Tasks, SaveMetadata(t)
  PROVE  KeysInv'
<1> DEFINE a == task[t].item
           k == task[t].key
<1>1. /\ UNCHANGED <<stored, fresh, disturbed, memory, torn>> /\ task[t].at = "meta"
      /\ fresh <= fresh'
  BY Numbers DEF SaveMetadata, At
<1>2. /\ task[t] \in TaskRecord /\ KeyShape(task[t]) /\ MemoryIsCurrent(task[t]) /\ Working(t)
      /\ a \in Actors /\ a \in Items /\ a \in task[t].scope /\ task[t].job # "repair"
      /\ stored \in [Items -> Record] /\ private \in [Actors -> Secrets]
      /\ fresh \in Nat /\ k <= fresh
      /\ \A i \in Items : stored[i].key <= fresh /\ task[t].seen[i].key <= fresh
  BY <1>1, ActorInMemory
<1>3. CASE /\ private' = [private EXCEPT ![a] = k]
           /\ task' = [task EXCEPT ![t] = [task[t] EXCEPT !.seen[a] = Live(k), !.at = "actor"]]
           /\ rekeyed' = (rekeyed \/ Rekeys(a, k))
  <2> DEFINE seen == [task[t].seen EXCEPT ![a] = Live(k)]
             r == [task[t] EXCEPT !.seen = seen, !.at = "actor"]
  <2>1. task'[t] = r /\ \A u \in Tasks \ {t} : task'[u] = task[u]
    BY <1>2, <1>3 DEF StorageInv, TypeOK, StoreTypeOK, TaskRecord
  <2>2. /\ r.at = "actor" /\ r.job = task[t].job /\ r.queue = task[t].queue
        /\ r.scope = task[t].scope /\ r.item = a /\ r.key = k /\ r.seen = seen
    BY <1>2 DEF TaskRecord
  <2>3. seen[a] = Live(k) /\ \A i \in Items : i # a => seen[i] = task[t].seen[i]
    BY <1>2 DEF TaskRecord
  <2> HIDE DEF r, seen
  <2>4. KeyShape(task'[t])
    BY <1>1, <1>2, <2>1, <2>2 DEF KeyShape
  <2>5. \A j \in (task[t].queue \cap Items) \ disturbed :
          task[t].job = "genkeys" => seen[j] = stored[j]
    BY <1>1, <1>2, <2>3 DEF KeyShape, MemoryIsCurrent
  <2>6. private'[a] = k
    BY <1>2, <1>3
  <2>7. MemoryIsCurrent(task[t])'
    BY <1>1, <1>2, <2>1, <2>2, <2>3, <2>5, <2>6 DEF MemoryIsCurrent
  <2>8. RecordFresh(task[t])'
    BY <1>1, <1>2, <2>1, <2>2, <2>3 DEF RecordFresh, Live
  <2>9. Frame(t)
    BY <1>1, <1>2, <1>3, <2>1 DEF Frame
  <2>10. ASSUME NEW b \in Actors \ (torn \cup disturbed), Lives(b), ~HalfSaved(b)'
         PROVE  private'[b] = stored[b].key
    <3>1. b # a
      BY <2>1, <2>2, <2>10 DEF HalfSaved, At
    <3>2. ~HalfSaved(b)
      BY <1>1, <2>1, <2>10 DEF HalfSaved, At
    <3> QED
      BY <1>2, <1>3, <2>10, <3>1, <3>2 DEF KeysInv, KeysAgree
  <2>11. KeysAgree'
    BY <1>1, <2>10 DEF KeysAgree, Lives
  <2>12. ServerHasKey'
    <3>1. ~rekeyed' => ~rekeyed /\ (a # Service \/ k = memory)
      BY <1>3 DEF Rekeys
    <3>2. private'[Service] = IF a = Service THEN k ELSE private[Service]
      BY <1>2, <1>3, ServiceAssumption
    <3> QED
      BY <1>1, <3>1, <3>2 DEF KeysInv, ServerHasKey
  <2> QED
    BY <1>1, <1>2, <2>4, <2>7, <2>8, <2>9, <2>11, <2>12, KeysKept DEF Own
<1>4. CASE Go(t, AfterKeyError(task[t].job)) /\ UNCHANGED <<private, rekeyed>>
  <2>1. CASE task[t].job = "genkeys"
    <3>1. Go(t, "update")
      BY <1>4, <2>1 DEF AfterKeyError, AfterKey, Bootstraps
    <3>2. a \notin disturbed => task[t].seen[a] = stored[a] /\ task[t].seen[a].key # k
      BY <1>1, <1>2, <2>1 DEF MemoryIsCurrent
    <3>3. (\A u \in Tasks \ {t} : task'[u] = task[u]) /\ Own(t)'
      BY <1>1, <2>1, <3>1, <3>2, UpdateOwn
    <3> QED
      BY <1>1, <1>4, <3>3, QuietKeeps
  <2>2. CASE task[t].job # "genkeys"
    <3>1. PICK step \in {"failed", "password"} : Go(t, step)
      BY <1>4, <2>2 DEF AfterKeyError, AfterKey
    <3> QED
      BY <1>1, <1>2, <1>4, <2>2, <3>1, QuietGoKeeps DEF Steps, Ended
  <2> QED
    BY <2>1, <2>2
<1> QED
  BY <1>3, <1>4 DEF SaveMetadata, metaVars

\* Where AddKeyToPerson goes, when the actor was saved and when it was not
LEMMA AfterActorOwn ==
  ASSUME StorageInv, StorageInv', KeysInv, NEW t \in Tasks, fresh <= fresh', UNCHANGED disturbed,
         task[t].at = "actor", UNCHANGED private,
         Go(t, AfterKey(task[t].job)) \/ Go(t, AfterKeyError(task[t].job)),
         \A i \in Items : stored'[i] # stored[i] => i = task[t].item
  PROVE  (\A u \in Tasks \ {t} : task'[u] = task[u]) /\ Own(t)' /\ task'[t].at # "actor"
<1>1. MemoryIsCurrent(task[t]) /\ task[t].job # "repair"
  BY ActorInMemory
<1>2. CASE task[t].job = "genkeys"
  <2>1. Go(t, "update")
    BY <1>2 DEF AfterKeyError, AfterKey, Bootstraps
  <2>2. task[t].item \notin disturbed =>
          task[t].seen[task[t].item].key = task[t].key /\ private[task[t].item] = task[t].key
    BY <1>1 DEF MemoryIsCurrent, Live
  <2> QED
    BY <1>2, <2>1, <2>2, UpdateOwn
<1>3. CASE task[t].job # "genkeys"
  <2>1. PICK step \in {"failed", "streams", "password"} : Go(t, step)
    BY <1>3 DEF AfterKeyError, AfterKey
  <2> QED
    BY <1>1, <1>3, <2>1, GoOwn DEF Steps, Ended
<1> QED
  BY <1>2, <1>3

LEMMA SaveActorKeepsKeys ==
  ASSUME StorageInv, StorageInv', KeysInv, NEW t \in Tasks, SaveActor(t)
  PROVE  KeysInv'
<1> DEFINE a == task[t].item
<1>1. /\ UNCHANGED <<private, fresh, disturbed, memory, rekeyed>> /\ task[t].at = "actor"
      /\ fresh <= fresh'
  BY Numbers DEF SaveActor, At, metaVars
<1>2. /\ task[t] \in TaskRecord /\ MemoryIsCurrent(task[t]) /\ Working(t)
      /\ a \in Actors /\ a \in Items /\ a \in task[t].scope
      /\ stored \in [Items -> Record]
      /\ \A i \in Items : stored[i].key <= fresh /\ task[t].seen[i].key <= fresh
  BY <1>1, ActorInMemory
<1>3. \/ stored' = [stored EXCEPT ![a] = task[t].seen[a]] /\ torn' = torn \ {a}
      \/ stored' = stored /\ torn' = torn \cup {a}
  BY DEF SaveActor
<1>4. \A i \in Items : stored'[i] # stored[i] => i = a /\ stored'[i] = task[t].seen[i]
  BY <1>2, <1>3
<1>5. (\A u \in Tasks \ {t} : task'[u] = task[u]) /\ Own(t)' /\ task'[t].at # "actor"
  <2>1. Go(t, AfterKey(task[t].job)) \/ Go(t, AfterKeyError(task[t].job))
    BY DEF SaveActor
  <2> QED
    BY <1>1, <1>4, <2>1, AfterActorOwn
<1>6. Frame(t)
  BY <1>1, <1>2, <1>4, <1>5 DEF Frame
<1>7. \A i \in Items : stored'[i].key <= fresh'
  BY <1>1, <1>2, <1>4
<1>8. ASSUME NEW b \in Actors \ (torn' \cup disturbed), Lives(b)', ~HalfSaved(b)'
      PROVE  private[b] = stored'[b].key
  <2>1. CASE b = a
    <3>1. stored'[a] = task[t].seen[a]
      BY <1>2, <1>3, <1>8, <2>1
    <3>2. task[t].seen[a] = Live(task[t].key) /\ private[a] = task[t].key
      BY <1>1, <1>2, <1>8, <2>1 DEF MemoryIsCurrent
    <3> QED
      BY <2>1, <3>1, <3>2 DEF Live
  <2>2. CASE b # a
    <3>1. b \notin torn /\ stored'[b] = stored[b]
      BY <1>2, <1>3, <1>4, <1>8, <2>2 DEF Items
    <3>2. ~HalfSaved(b)
      BY <1>5, <1>8, <2>2 DEF HalfSaved, At
    <3> QED
      BY <1>8, <3>1, <3>2 DEF KeysInv, KeysAgree, Lives
  <2> QED
    BY <2>1, <2>2
<1>9. KeysAgree'
  BY <1>1, <1>8 DEF KeysAgree
<1>10. ServerHasKey'
  BY <1>1 DEF KeysInv, ServerHasKey
<1> QED
  BY <1>1, <1>5, <1>6, <1>7, <1>9, <1>10, KeysKept

LEMMA UpdateKeepsKeys ==
  ASSUME StorageInv, StorageInv', KeysInv, NEW t \in Tasks, Update(t)
  PROVE  KeysInv'
<1> DEFINE a == task[t].item
           seen == task[t].seen
<1>1. /\ UNCHANGED <<private, fresh, disturbed, memory, rekeyed>> /\ task[t].at = "update"
      /\ fresh <= fresh'
  BY Numbers DEF Update, At, metaVars
<1>2. /\ task[t] \in TaskRecord /\ KeyShape(task[t]) /\ MemoryIsCurrent(task[t]) /\ Working(t)
      /\ a \in Actors /\ a \in Items /\ a \in task[t].scope /\ task[t].job # "repair"
      /\ stored \in [Items -> Record]
      /\ \A i \in Items : stored[i].key <= fresh /\ seen[i].key <= fresh
  BY <1>1, ActorInMemory
<1>3. CASE Go(t, "failed") /\ UNCHANGED <<stored, torn>>
  BY <1>1, <1>3, QuietGoKeeps DEF Steps, Ended
<1>4. CASE /\ stored' = [stored EXCEPT ![a] = seen[a]] /\ Go(t, "each")
           /\ torn' = IF seen[a].key = task[t].key THEN torn \ {a} ELSE torn
  <2>1. \A i \in Items : stored'[i] # stored[i] => i = a /\ stored'[i] = seen[i]
    BY <1>2, <1>4
  <2> DEFINE r == [task[t] EXCEPT !.at = "each"]
  <2>2. task'[t] = r /\ \A u \in Tasks \ {t} : task'[u] = task[u]
    BY <1>4 DEF Go, Moved, Ended, StorageInv, TypeOK, StoreTypeOK
  <2>3. /\ r.at = "each" /\ r.job = task[t].job /\ r.queue = task[t].queue
        /\ r.scope = task[t].scope /\ r.key = task[t].key /\ r.seen = seen
    BY <1>2 DEF TaskRecord
  <2> HIDE DEF r
  <2>4. KeyShape(task'[t])
    BY <1>2, <2>2, <2>3 DEF KeyShape
  <2>5. task[t].job = "genkeys" =>
          \A j \in (task[t].queue \cap Items) \ disturbed : seen[j] = stored'[j]
    BY <1>1, <1>2, <2>1 DEF KeyShape, MemoryIsCurrent
  <2>6. MemoryIsCurrent(task[t])'
    BY <1>1, <1>2, <2>2, <2>3, <2>5 DEF MemoryIsCurrent
  <2>7. Own(t)'
    BY <1>1, <2>2, <2>3, <2>4, <2>6, OwnStaysFresh DEF Own
  <2>8. \A i \in Items : stored'[i] # stored[i] => i \in task[t].scope /\ stored'[i].key <= fresh
    BY <1>2, <2>1
  <2>9. ASSUME NEW b \in Actors \ (torn' \cup disturbed)
        PROVE  private[b] = stored'[b].key \/ (b \notin torn /\ stored'[b] = stored[b])
    <3>1. CASE b = a
      BY <1>1, <1>2, <1>4, <2>9, <3>1 DEF MemoryIsCurrent
    <3>2. CASE b # a
      BY <1>4, <2>1, <2>9, <3>2 DEF Items
    <3> QED
      BY <3>1, <3>2
  <2> QED
    BY <1>1, <1>2, <2>2, <2>7, <2>8, <2>9, SavingKeeps
<1> QED
  BY <1>3, <1>4 DEF Update

-----------------------------------------------------------------------------
(* The other steps that save keys *)

LEMMA SaveMetadataForItemsKeepsKeys ==
  ASSUME StorageInv, StorageInv', KeysInv, NEW t \in Tasks, SaveMetadataForItems(t)
  PROVE  KeysInv'
<1> DEFINE k == task[t].key
<1>1. /\ UNCHANGED <<stored, fresh, disturbed, memory>> /\ task[t].at = "restore" /\ Working(t)
      /\ task[t].job = "restore" /\ fresh <= fresh'
      /\ task[t].queue \subseteq Actors \cap task[t].scope
      /\ stored \in [Items -> Record] /\ private \in [Actors -> Secrets]
      /\ \A i \in Items : stored[i].key <= fresh
  BY Numbers DEF SaveMetadataForItems, At, Working, Ended, StorageInv, TypeOK, StoreTypeOK,
                 Shapes, Shape, KeysInv, KeysAreFresh
<1>2. CASE Go(t, "ok") /\ UNCHANGED <<private, torn, rekeyed>>
  BY <1>1, <1>2, QuietGoKeeps DEF Steps, Ended
<1>3. ASSUME NEW a \in task[t].queue, Take(t, a, "restore"),
             \/ /\ private' = [private EXCEPT ![a] = k]
                /\ torn' = IF k = stored[a].key THEN torn \ {a} ELSE torn \cup {a}
                /\ rekeyed' = (rekeyed \/ Rekeys(a, k))
             \/ UNCHANGED <<private, torn, rekeyed>>
      PROVE  KeysInv'
  <2>1. (\A u \in Tasks \ {t} : task'[u] = task[u]) /\ Own(t)'
    BY <1>1, <1>3, TakeOwn
  <2>2. CASE UNCHANGED <<private, torn, rekeyed>>
    BY <1>1, <2>1, <2>2, QuietKeeps
  <2>3. CASE /\ private' = [private EXCEPT ![a] = k]
             /\ torn' = IF k = stored[a].key THEN torn \ {a} ELSE torn \cup {a}
             /\ rekeyed' = (rekeyed \/ Rekeys(a, k))
    <3>1. Frame(t)
      BY <1>1, <2>1, <2>3 DEF Frame
    <3>2. \A b \in Actors \ torn' :
            private'[b] = stored[b].key \/ (b \notin torn /\ private'[b] = private[b])
      BY <1>1, <2>3
    <3>3. KeysAgree'
      BY <1>1, <3>1, <3>2, AgreementKept
    <3>4. ~rekeyed' => ~rekeyed /\ (a # Service \/ k = memory)
      BY <2>3 DEF Rekeys
    <3>5. private'[Service] = IF a = Service THEN k ELSE private[Service]
      BY <1>1, <2>3, ServiceAssumption
    <3>6. ServerHasKey'
      BY <1>1, <3>4, <3>5 DEF KeysInv, ServerHasKey
    <3> QED
      BY <1>1, <2>1, <3>1, <3>3, <3>6, KeysKept
  <2> QED
    BY <1>3, <2>2, <2>3
<1> QED
  BY <1>2, <1>3 DEF SaveMetadataForItems, metaVars

\* Nothing lives that keys could disagree about.
LEMMA CleanKeepsKeys ==
  ASSUME StorageInv, StorageInv', KeysInv, NEW t \in Tasks, Clean(t)
  PROVE  KeysInv'
<1>1. /\ UNCHANGED <<fresh, disturbed, memory>> /\ task[t].at = "clean" /\ Working(t)
      /\ task[t].scope = Things /\ task[t].job \notin {"genkeys", "repair"} /\ fresh <= fresh'
      /\ fresh \in Nat
  BY Numbers DEF Clean, At, Working, Ended, StorageInv, Shapes, Shape, KeysInv, KeyShape
<1>2. CASE Go(t, "failed") /\ UNCHANGED <<stored, private, torn, rekeyed>>
  BY <1>1, <1>2, QuietGoKeeps DEF Steps, Ended
<1>3. CASE /\ stored' = [i \in Items |-> Absent] /\ private' = [b \in Actors |-> NoSecret]
           /\ rekeyed' = (rekeyed \/ memory # NoSecret) /\ Go(t, "create")
  <2>1. (\A u \in Tasks \ {t} : task'[u] = task[u]) /\ Own(t)'
    BY <1>1, <1>3, GoOwn DEF Steps, Ended
  <2>2. Frame(t)
    BY <1>1, <2>1 DEF Frame, Things, Items
  <2>3. KeysAgree'
    BY <1>3 DEF KeysAgree, Lives, Absent, Items
  <2>4. ServerHasKey'
    BY <1>1, <1>3 DEF ServerHasKey
  <2>5. \A i \in Items : stored'[i].key <= fresh'
    BY <1>1, <1>3 DEF Absent, NoSecret
  <2> QED
    BY <1>1, <2>1, <2>2, <2>3, <2>4, <2>5, KeysKept
<1> QED
  BY <1>2, <1>3 DEF Clean, metaVars

LEMMA KilledKeepsKeys ==
  ASSUME StorageInv, StorageInv', KeysInv, NEW t \in Tasks, Killed(t)
  PROVE  KeysInv'
<1>1. /\ UNCHANGED <<stored, private, fresh, disturbed, memory, rekeyed>> /\ fresh <= fresh'
      /\ fresh \in Nat /\ \A i \in Items : stored'[i].key <= fresh'
  BY Numbers DEF Killed, metaVars, KeysInv, KeysAreFresh
<1>2. (\A u \in Tasks \ {t} : task'[u] = task[u]) /\ Own(t)'
  BY RestingOwn DEF Killed, Ended
<1>3. Frame(t)
  BY <1>1, <1>2 DEF Frame
<1>4. ASSUME NEW b \in Actors \ (torn' \cup disturbed), Lives(b), ~HalfSaved(b)'
      PROVE  private[b] = stored[b].key
  <2>1. b \notin torn /\ ~(At(t, "actor") /\ task[t].item = b)
    BY <1>4 DEF Killed
  <2>2. ~HalfSaved(b)
    BY <1>2, <1>4, <2>1 DEF HalfSaved, At
  <2> QED
    BY <1>4, <2>1, <2>2 DEF KeysInv, KeysAgree
<1>5. KeysAgree'
  BY <1>1, <1>4 DEF KeysAgree, Lives
<1>6. ServerHasKey'
  BY <1>1 DEF KeysInv, ServerHasKey
<1> QED
  BY <1>1, <1>2, <1>3, <1>5, <1>6, KeysKept

LEMMA OpenAgainKeepsKeys ==
  ASSUME StorageInv, StorageInv', KeysInv, NEW t \in Tasks, OpenAgain(t)
  PROVE  KeysInv'
<1>1. /\ UNCHANGED <<stored, private, fresh, disturbed, torn>> /\ fresh <= fresh'
      /\ task[t].at = "open" /\ \A i \in Items : stored'[i].key <= fresh'
  BY Numbers DEF OpenAgain, At, metaVars, KeysInv, KeysAreFresh
<1>2. PICK step \in Ended : Go(t, step)
  BY DEF OpenAgain, Ended
<1>3. (\A u \in Tasks \ {t} : task'[u] = task[u]) /\ Own(t)'
  BY <1>2, RestingOwn
<1>4. Frame(t)
  BY <1>1, <1>3 DEF Frame
<1>5. KeysAgree'
  <2>1. \A a \in Actors \ (torn' \cup disturbed') :
          a \notin torn /\ stored'[a] = stored[a] /\ private'[a] = private[a]
    BY <1>1
  <2> QED
    BY <1>1, <1>4, <2>1, AgreementKept
<1>6. ServerHasKey'
  <2>1. CASE memory' = task[t].key /\ rekeyed' = (private[Service] # task[t].key)
    BY <1>1, <2>1 DEF ServerHasKey
  <2>2. CASE UNCHANGED <<memory, rekeyed>>
    BY <1>1, <2>2 DEF KeysInv, ServerHasKey
  <2> QED
    BY <2>1, <2>2 DEF OpenAgain
<1> QED
  BY <1>1, <1>3, <1>4, <1>5, <1>6, KeysKept

-----------------------------------------------------------------------------
(* The theorems *)

LEMMA InitHasKeys == Init => KeysInv
<1> SUFFICES ASSUME Init
             PROVE  KeysInv
  OBVIOUS
<1>1. \A t \in Tasks : task[t] = Resting("idle")
  BY DEF Init, StoreInit
<1>2. \A t \in Tasks : KeyShape(task[t]) /\ MemoryIsCurrent(task[t])
  BY <1>1 DEF KeyShape, MemoryIsCurrent, Resting, Blank
<1>3. \A i \in Items : stored[i].key \in {NoSecret, OperatorSecret}
  <2>1. stored \in [Items -> {Absent, Tombstone, Live(NoSecret), Live(OperatorSecret)}]
    BY DEF Init, NewInstallation, OldInstallation
  <2> QED
    BY <2>1 DEF Absent, Tombstone, Live
<1>4. KeysAreFresh
  BY <1>1, <1>3 DEF KeysAreFresh, Init, Resting, Blank, Absent, NoSecret, OperatorSecret
<1>5. ServerHasKey
  BY ServiceAssumption DEF ServerHasKey, Init, NewInstallation, OldInstallation, Live
<1>6. KeysAgree
  BY DEF KeysAgree, Init, NewInstallation, OldInstallation, Lives, Absent, Items
<1> QED
  BY <1>2, <1>4, <1>5, <1>6 DEF KeysInv

LEMMA TasksKeepKeys ==
  ASSUME StorageInv, StorageInv', KeysInv, NEW t \in Tasks,
         KeySteps(t) \/ ObjectSteps(t) \/ AccountSteps(t)
  PROVE  KeysInv'
<1>1. CASE KeySteps(t)
  BY <1>1, LoadMetadataKeepsKeys, SaveMetadataKeepsKeys, SaveActorKeepsKeys, UpdateKeepsKeys,
     GenerateKeyPairKeepsKeys, QuietGosKeepKeys, SaveMetadataForItemsKeepsKeys, BeginningsKeepKeys
     DEF KeySteps
<1>2. CASE ObjectSteps(t)
  BY <1>2, BeginningsKeepKeys, CreateKeepsKeys, RemovalsKeepKeys, MoveOrCopyKeepsKeys,
     QuietTakesKeepKeys, QuietGosKeepKeys, ExpandKeepsKeys, LoadObjectsKeepsKeys, ImportingKeepsKeys,
     LoadCollectionKeepsKeys, MakeCollectionKeepsKeys, SaveMemberKeepsKeys DEF ObjectSteps
<1>3. CASE AccountSteps(t)
  BY <1>3, BootstrapKeepsKeys, QuietGosKeepKeys, OpenAgainKeepsKeys, BeginningsKeepKeys,
     CleanKeepsKeys, KilledKeepsKeys DEF AccountSteps, AddActorCmd, AddClient
<1> QED
  BY <1>1, <1>2, <1>3

\* A start of the server takes the key that the service has then.
LEMMA LoadingKeepsKeys ==
  ASSUME KeysInv, LoadServiceActor
  PROVE  KeysInv'
BY DEF KeysInv, LoadServiceActor, KeyShape, MemoryIsCurrent, KeysAreFresh, ServerHasKey,
       KeysAgree, HalfSaved, Lives, At, metaVars

LEMMA StutterKeepsKeys ==
  ASSUME KeysInv, UNCHANGED vars
  PROVE  KeysInv'
BY DEF vars, KeysInv, KeyShape, MemoryIsCurrent, KeysAreFresh, ServerHasKey,
       KeysAgree, HalfSaved, Lives, At, metaVars, keyVars

LEMMA NextKeepsKeys == StorageInv /\ KeysInv /\ [Next]_vars => KeysInv'
<1> SUFFICES ASSUME StorageInv, KeysInv, [Next]_vars
             PROVE  KeysInv'
  OBVIOUS
<1>1. StorageInv'
  BY NextKeeps
<1> QED
  BY <1>1, TasksKeepKeys, LoadingKeepsKeys, StutterKeepsKeys DEF Next

\* What a command has in memory of an actor, and will write back, is what the
\* storage has, wherever it works alone; a key that is made is a new one; the
\* server has the key of its service until the key is changed (keys.go,
\* cmd-accounts.go, cmd-fix-storage-collections.go, run.go).
THEOREM KeysInvariant == Spec => []KeysInv
<1> QED
  BY InitHasKeys, NextKeepsKeys, StorageInvariant, PTL DEF Spec

\* The public key of an actor belongs to the private key in its metadata, at
\* every moment but between the two saves of AddKeyToPerson, whatever commands
\* interleave, fail or are killed: the exceptions are known, those in torn (a
\* save that was alone, an import) and disturbed (two commands on one actor).
THEOREM ActorsAndKeysAgree == Spec => []KeysAgree
<1>1. KeysInv => KeysAgree
  BY DEF KeysInv
<1> QED
  BY <1>1, KeysInvariant, PTL

\* What is signed as an actor (LoadLocalActorWithKey) can be verified with the
\* public key that is served for it; for the service, until its key changes
\* while the server runs.
THEOREM SignaturesAreGood == Spec => []SignaturesVerify
<1>1. KeysInv => SignaturesVerify
  BY DEF KeysInv, KeysAgree, SignaturesVerify, SigningKeys, ServerHasKey
<1> QED
  BY <1>1, KeysInvariant, PTL

=============================================================================
