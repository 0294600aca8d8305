----------------------------- MODULE RequestCache -----------------------------
(***************************************************************************)
(* The request cache in front of the storage (handlers.go): GET requests   *)
(* look an item up in fb.caches, load it from the storage when it is not   *)
(* there and store what they loaded; POST requests save an activity and    *)
(* then purge from the cache what it touched; SIGHUP empties the cache;    *)
(* fedbox commands change the storage from another process.                *)
(*                                                                         *)
(* Every one of these is a separate call, and the goroutines of different  *)
(* requests interleave between them.  An item is abstracted to the number  *)
(* of times it was changed, and what is loaded of it to that number, the   *)
(* actor that it was loaded for and whether the storage was asked to leave *)
(* out what that actor may not see.  Collections are items too, and differ *)
(* in when they are filtered (HandleCollection).                           *)
(*                                                                         *)
(* The cache (github.com/go-ap/cache) is external: a map that is safe for  *)
(* concurrent use, whose purge removes every entry of the item.            *)
(***************************************************************************)
EXTENDS Naturals

CONSTANTS
  IRIs,          \* the items and collections
  Collections,   \* those that HandleCollection answers, the others HandleItem
  Actors,        \* the users, and the anonymous one
  Allowed,       \* of each item, the actors filters.Authorized lets see it
  Own,           \* of each actor and collection, the collection of that name the
                 \* actor has (maybeCol.Of): "none", "this" one or an "other"
  Readers,       \* GET requests
  Wants, User,   \* of each reader, the item it asks for and its actor
  Writers,       \* POST requests
  Changes,       \* of each writer, the item its activity changes
  MaxOutside,    \* bound: changes made by commands
  CacheEnabled,  \* Conf.RequestCache
  PurgeMayFail   \* can cache.ActivityPurge return an error?

ASSUME RequestsAssumption ==
  /\ Collections \subseteq IRIs
  /\ Allowed \in [IRIs -> SUBSET Actors]
  /\ Own \in [Actors -> [Collections -> {"none", "this", "other"}]]
  /\ Wants \in [Readers -> IRIs]
  /\ User \in [Readers -> Actors]
  /\ Changes \in [Writers -> IRIs]
  /\ MaxOutside \in Nat
  /\ CacheEnabled \in BOOLEAN
  /\ PurgeMayFail \in BOOLEAN

VARIABLES
  stored,      \* how often each item was changed in the storage
  cached,      \* the entry of each item in fb.caches
  reader,      \* where each reader is
  got,         \* what each reader has loaded, or answered
  writer,      \* where each writer is
  outside,     \* the number of changes made by commands
  acked,       \* history: the changes of each item that were answered 201
  floor,       \* history: acked of its item when the reader began
  bypassed     \* history: items with an entry that no coming purge will fix

vars == <<stored, cached, reader, got, writer, outside, acked, floor, bypassed>>

Nothing  == [version |-> 0, by |-> "nobody", filtered |-> TRUE]
Entries  == [version : Nat, by : Actors \cup {"nobody"}, filtered : BOOLEAN]

TypeOK ==
  /\ stored \in [IRIs -> Nat]
  /\ cached \in [IRIs -> Entries]
  /\ reader \in [Readers -> {"idle", "lookup", "load", "store", "done"}]
  /\ got \in [Readers -> Entries]
  /\ writer \in [Writers -> {"idle", "saved", "done"}]
  /\ outside \in 0 .. MaxOutside
  /\ acked \in [IRIs -> Nat]
  /\ floor \in [Readers -> Nat]
  /\ bypassed \subseteq IRIs

Init ==
  /\ stored = [i \in IRIs |-> 0]
  /\ cached = [i \in IRIs |-> Nothing]
  /\ reader = [r \in Readers |-> "idle"]
  /\ got = [r \in Readers |-> Nothing]
  /\ writer = [w \in Writers |-> "idle"]
  /\ outside = 0
  /\ acked = [i \in IRIs |-> 0]
  /\ floor = [r \in Readers |-> 0]
  /\ bypassed = {}

-----------------------------------------------------------------------------

\* CacheKey: auth ends up in u.User, which reqURL leaves out of the URL it
\* builds, so the key is the item's alone.
CacheKey(actor, iri) == iri

IsCached(key) == cached[key] # Nothing

\* Is the entry out of date, and who is still to purge the item?
Stale(iri)    == IsCached(iri) /\ cached[iri].version < stored[iri]
Purging(iri)  == {w \in Writers : Changes[w] = iri /\ writer[w] = "saved"}

Goto(r, step) == reader' = [reader EXCEPT ![r] = step]

\* actorFromRequestWithClient, before the cache is looked at.
Begin(r) ==
  /\ reader[r] \in {"idle", "done"}
  /\ Goto(r, "lookup")
  /\ got' = [got EXCEPT ![r] = Nothing]
  /\ floor' = [floor EXCEPT ![r] = acked[Wants[r]]]
  /\ UNCHANGED <<stored, cached, writer, outside, acked, bypassed>>

\* fb.caches.Load: what is found is answered without asking the storage.
Lookup(r) ==
  LET key == CacheKey(User[r], Wants[r])
  IN  /\ reader[r] = "lookup"
      /\ \/ /\ IsCached(key)
            /\ got' = [got EXCEPT ![r] = cached[key]]
            /\ Goto(r, "done")
         \/ /\ ~IsCached(key)
            /\ Goto(r, "load")
            /\ UNCHANGED got
      /\ UNCHANGED <<stored, cached, writer, outside, acked, floor, bypassed>>

\* Slip: the load names the item for the actor.
LoadedForItem(r, filtered) ==
  [version |-> stored[Wants[r]], by |-> Wants[r], filtered |-> filtered]

\* What the storage gives for a request now
Loaded(r, filtered) == [version |-> stored[Wants[r]], by |-> User[r], filtered |-> filtered]

\* HandleItem: repo.Load with filters.Authorized, not found for those who may
\* not see the item.
LoadItem(r) ==
  /\ reader[r] = "load"
  /\ Wants[r] \notin Collections
  /\ \/ /\ User[r] \in Allowed[Wants[r]]
        /\ got' = [got EXCEPT ![r] = Loaded(r, TRUE)]
        /\ Goto(r, "store")
     \/ /\ User[r] \notin Allowed[Wants[r]]
        /\ Goto(r, "done")
        /\ UNCHANGED got
  /\ UNCHANGED <<stored, cached, writer, outside, acked, floor, bypassed>>

\* Slip: users without a collection of that name are not told from the others.
FilteredForOwner(r) == Own[User[r]][Wants[r]] = "this"

\* HandleCollection filters for users that have no collection of the name in
\* the request, and for those whose collection it is.
Filtered(r) == Own[User[r]][Wants[r]] \in {"none", "this"}

\* HandleCollection: repo.Load of what the filters, if any, leave of the
\* collection, or an error.
LoadCollection(r) ==
  /\ reader[r] = "load"
  /\ Wants[r] \in Collections
  /\ \/ /\ got' = [got EXCEPT ![r] = Loaded(r, Filtered(r))]
        /\ Goto(r, "store")
     \/ /\ Goto(r, "done")
        /\ UNCHANGED got
  /\ UNCHANGED <<stored, cached, writer, outside, acked, floor, bypassed>>

\* fb.caches.Store of what was loaded a while ago, and the answer.  Nobody will
\* purge an entry that is stored out of date after the last purge of the item.
StoreItem(r) ==
  LET key == CacheKey(User[r], Wants[r])
  IN  /\ reader[r] = "store"
      /\ cached' = IF CacheEnabled THEN [cached EXCEPT ![key] = got[r]] ELSE cached
      /\ bypassed' =
           IF CacheEnabled /\ got[r].version < stored[Wants[r]] /\ Purging(Wants[r]) = {}
           THEN bypassed \cup {Wants[r]} ELSE bypassed
      /\ Goto(r, "done")
      /\ UNCHANGED <<stored, got, writer, outside, acked, floor>>

\* HandleActivity: processor.ProcessActivity saves the activity and its effects,
Save(w) ==
  /\ writer[w] = "idle"
  /\ stored' = [stored EXCEPT ![Changes[w]] = @ + 1]
  /\ writer' = [writer EXCEPT ![w] = "saved"]
  /\ UNCHANGED <<cached, reader, got, outside, acked, floor, bypassed>>

\* Slip: the purge is for the activity and forgets the item it changed.
PurgeActivityOnly(w) ==
  /\ writer[w] = "saved"
  /\ writer' = [writer EXCEPT ![w] = "done"]
  /\ acked' = [acked EXCEPT ![Changes[w]] = stored[Changes[w]]]
  /\ UNCHANGED <<stored, cached, reader, got, outside, floor, bypassed>>

\* and only then cache.ActivityPurge, whose failure is only logged, and the
\* answer 201 (or 410).
Purge(w) ==
  LET iri == Changes[w]
  IN  /\ writer[w] = "saved"
      /\ writer' = [writer EXCEPT ![w] = "done"]
      /\ \/ /\ cached' = [cached EXCEPT ![iri] = Nothing]
            /\ bypassed' = bypassed \ {iri}
         \/ /\ PurgeMayFail
            /\ UNCHANGED cached
            /\ bypassed' = bypassed \cup {iri}
      /\ acked' = [acked EXCEPT ![iri] = stored[iri]]
      /\ UNCHANGED <<stored, reader, got, outside, floor>>

\* A command changes an item in the storage, which the server's cache does not
\* learn of: leaving maintenance mode (Pause) does not touch the cache.
OutsideWrite(iri) ==
  /\ outside < MaxOutside
  /\ outside' = outside + 1
  /\ stored' = [stored EXCEPT ![iri] = @ + 1]
  /\ bypassed' = IF IsCached(iri) THEN bypassed \cup {iri} ELSE bypassed
  /\ UNCHANGED <<cached, reader, got, writer, acked, floor>>

\* FedBOX.reload on SIGHUP
Reload ==
  /\ \E iri \in IRIs : IsCached(iri)
  /\ cached' = [iri \in IRIs |-> Nothing]
  /\ bypassed' = {}
  /\ UNCHANGED <<stored, reader, got, writer, outside, acked, floor>>

Read(r)  == Begin(r) \/ Lookup(r) \/ LoadItem(r) \/ LoadCollection(r) \/ StoreItem(r)
Write(w) == Save(w) \/ Purge(w)

Next ==
  \/ \E r \in Readers : Read(r)
  \/ \E w \in Writers : Write(w)
  \/ \E iri \in IRIs : OutsideWrite(iri)
  \/ Reload

Spec == Init /\ [][Next]_vars

-----------------------------------------------------------------------------

\* Out of date entries have three causes and no other: a change that is saved
\* and about to be purged, a store that came after the purge, or a purge that
\* failed or was never asked for; and the next purge of the item, or a reload,
\* removes them whatever the cause.
StaleHasCause ==
  \A iri \in IRIs : Stale(iri) => Purging(iri) # {} \/ iri \in bypassed

\* May what is loaded look like that?
WasChecked(entry, iri) ==
  IF iri \in Collections
  THEN entry.filtered \/ Own[entry.by][iri] = "other"
  ELSE entry.filtered /\ entry.by \in Allowed[iri]

\* However requests interleave, an item is in the cache, and is answered, only
\* after the filters let a user see it, be it another user; and a collection
\* that was loaded without filters was loaded for a user who is neither its
\* owner nor without a collection of that name, whoever is answered with it.
CachedWasChecked ==
  /\ \A iri \in IRIs : IsCached(iri) => WasChecked(cached[iri], iri)
  /\ \A r \in Readers : got[r] # Nothing => WasChecked(got[r], Wants[r])

-----------------------------------------------------------------------------
(* What the documentation and the tests say, and the code does not do *)

\* integration/c2s-outbox_test.go, "check updated object": a GET that begins
\* when an update has been answered 201 returns the updated object, here when
\* nobody but activities changes the storage.
UpdatesAreVisible ==
  \A r \in Readers :
    reader[r] = "done" /\ got[r] # Nothing => got[r].version >= floor[r]

\* handlers.go: "CacheKey generates a unique vocab.IRI hash based on its
\* authenticated user and other parameters".  What a request gets from the
\* cache was put there for its own user.
CachedForOwnUser ==
  \A r \in Readers : got[r] # Nothing => got[r].by = User[r]

=============================================================================
