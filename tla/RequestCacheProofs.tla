-------------------------- MODULE RequestCacheProofs --------------------------
(***************************************************************************)
(* Proofs about RequestCache.tla, for any items, users and requests:       *)
(*   CacheTypeCorrect   the type invariant                                 *)
(*   StaleEntriesHaveCause, CacheHoldsWhatWasChecked                       *)
(***************************************************************************)
EXTENDS RequestCache, TLAPS

\* What a reader is about to store has been checked.
StoresWhatWasChecked ==
  \A r \in Readers :
    reader[r] = "store" => WasChecked(got[r], Wants[r])

\* The inductive invariant: StaleHasCause is inductive by itself given the
\* types, CachedWasChecked needs to know what a reader is about to store.
CacheInv == TypeOK /\ StaleHasCause /\ CachedWasChecked /\ StoresWhatWasChecked

\* Every step keeps the types.
LEMMA TypeStep == TypeOK /\ [Next]_vars => TypeOK'
<1> SUFFICES ASSUME TypeOK, [Next]_vars PROVE TypeOK'
  OBVIOUS
<1> USE RequestsAssumption DEF TypeOK
<1>0. Nothing \in Entries
  BY DEF Nothing, Entries
<1>1. ASSUME NEW r \in Readers, Begin(r) PROVE TypeOK'
  BY <1>0, <1>1 DEF Begin, Goto
<1>2. ASSUME NEW r \in Readers, Lookup(r) PROVE TypeOK'
  BY <1>2 DEF Lookup, Goto, CacheKey
<1>3. ASSUME NEW r \in Readers, LoadItem(r) \/ LoadCollection(r) PROVE TypeOK'
  <2>1. Filtered(r) \in BOOLEAN
    BY DEF Filtered
  <2>2. \A f \in BOOLEAN : Loaded(r, f) \in Entries
    BY DEF Loaded, Entries
  <2>3. CASE \E f \in BOOLEAN : got' = [got EXCEPT ![r] = Loaded(r, f)] /\ Goto(r, "store")
                              /\ UNCHANGED <<stored, cached, writer, outside, acked, floor, bypassed>>
    BY <2>2, <2>3 DEF Goto
  <2>4. CASE Goto(r, "done")
             /\ UNCHANGED <<got, stored, cached, writer, outside, acked, floor, bypassed>>
    BY <2>4 DEF Goto
  <2> QED
    BY <1>3, <2>1, <2>3, <2>4 DEF LoadItem, LoadCollection
<1>4. ASSUME NEW r \in Readers, StoreItem(r) PROVE TypeOK'
  BY <1>4 DEF StoreItem, Goto, CacheKey
<1>5. ASSUME NEW w \in Writers, Save(w) PROVE TypeOK'
  BY <1>5 DEF Save
<1>6. ASSUME NEW w \in Writers, Purge(w) PROVE TypeOK'
  BY <1>0, <1>6 DEF Purge
<1>7. ASSUME NEW iri \in IRIs, OutsideWrite(iri) PROVE TypeOK'
  BY <1>7 DEF OutsideWrite
<1>8. CASE Reload
  BY <1>0, <1>8 DEF Reload
<1>9. CASE UNCHANGED vars
  BY <1>9 DEF vars
<1> QED
  BY <1>1, <1>2, <1>3, <1>4, <1>5, <1>6, <1>7, <1>8, <1>9 DEF Next, Read, Write

\* The initial states have the right types.
LEMMA TypeInit == Init => TypeOK
BY RequestsAssumption DEF Init, TypeOK, Nothing, Entries

\* Type correctness of the request cache and its clients.
THEOREM CacheTypeCorrect == Spec => []TypeOK
BY TypeInit, TypeStep, PTL DEF Spec

\* Every step keeps an out of date entry explained.
LEMMA StaleStep ==
  ASSUME TypeOK, StaleHasCause, [Next]_vars
  PROVE  StaleHasCause'
<1> SUFFICES ASSUME NEW iri \in IRIs, Stale(iri)', iri \notin bypassed'
             PROVE  \E w \in Writers : Changes[w] = iri /\ writer'[w] = "saved"
  BY DEF StaleHasCause, Purging
<1> USE RequestsAssumption DEF TypeOK, Stale, IsCached
<1>1. Stale(iri) /\ iri \notin bypassed => \E w \in Writers : Changes[w] = iri /\ writer[w] = "saved"
  BY DEF StaleHasCause, Purging
<1>2. ASSUME NEW r \in Readers, Begin(r) \/ Lookup(r) \/ LoadItem(r) \/ LoadCollection(r)
      PROVE  \E w \in Writers : Changes[w] = iri /\ writer'[w] = "saved"
  BY <1>1, <1>2 DEF Begin, Lookup, LoadItem, LoadCollection
<1>3. ASSUME NEW r \in Readers, StoreItem(r)
      PROVE  \E w \in Writers : Changes[w] = iri /\ writer'[w] = "saved"
  <2>1. CASE Wants[r] = iri /\ CacheEnabled
    <3>1. cached'[iri] = got[r] /\ stored' = stored /\ writer' = writer
      BY <1>3, <2>1 DEF StoreItem, CacheKey
    <3>2. Purging(iri) # {}
      BY <1>3, <2>1, <3>1 DEF StoreItem
    <3> QED
      BY <3>1, <3>2 DEF Purging
  <2>2. CASE Wants[r] # iri \/ ~CacheEnabled
    <3>1. cached'[iri] = cached[iri] /\ stored' = stored /\ writer' = writer /\ iri \notin bypassed
      BY <1>3, <2>2 DEF StoreItem, CacheKey
    <3> QED
      BY <1>1, <3>1
  <2> QED
    BY <2>1, <2>2
<1>4. ASSUME NEW v \in Writers, Save(v)
      PROVE  \E w \in Writers : Changes[w] = iri /\ writer'[w] = "saved"
  <2>1. writer'[v] = "saved"
    BY <1>4 DEF Save
  <2>2. CASE Changes[v] # iri
    <3>1. Stale(iri) /\ iri \notin bypassed
      BY <1>4, <2>2 DEF Save
    <3> QED
      BY <1>1, <1>4, <3>1 DEF Save
  <2> QED
    BY <2>1, <2>2
<1>5. ASSUME NEW v \in Writers, Purge(v)
      PROVE  \E w \in Writers : Changes[w] = iri /\ writer'[w] = "saved"
  <2>1. Changes[v] # iri /\ cached'[iri] = cached[iri] /\ stored' = stored /\ iri \notin bypassed
    BY <1>5 DEF Purge
  <2>2. PICK w \in Writers : Changes[w] = iri /\ writer[w] = "saved"
    BY <1>1, <2>1
  <2>3. writer'[w] = "saved"
    BY <1>5, <2>1, <2>2 DEF Purge
  <2> QED
    BY <2>2, <2>3
<1>6. ASSUME NEW other \in IRIs, OutsideWrite(other)
      PROVE  \E w \in Writers : Changes[w] = iri /\ writer'[w] = "saved"
  BY <1>1, <1>6 DEF OutsideWrite
<1>7. CASE Reload
  BY <1>7 DEF Reload
<1>8. CASE UNCHANGED vars
  BY <1>1, <1>8 DEF vars
<1> QED
  BY <1>2, <1>3, <1>4, <1>5, <1>6, <1>7, <1>8 DEF Next, Read, Write

\* What the storage gives to HandleItem and to HandleCollection is as it should be.
LEMMA LoadsAreChecked ==
  ASSUME TypeOK, NEW r \in Readers
  PROVE  /\ Wants[r] \notin Collections /\ User[r] \in Allowed[Wants[r]] =>
              WasChecked(Loaded(r, TRUE), Wants[r])
         /\ Wants[r] \in Collections => WasChecked(Loaded(r, Filtered(r)), Wants[r])
<1>1. \A f : Loaded(r, f).by = User[r] /\ Loaded(r, f).filtered = f
  BY DEF Loaded
<1>2. ASSUME Wants[r] \in Collections, ~Filtered(r) PROVE Own[User[r]][Wants[r]] = "other"
  <2>1. Own[User[r]][Wants[r]] \in {"none", "this", "other"}
    BY <1>2, RequestsAssumption
  <2> QED
    BY <1>2, <2>1 DEF Filtered
<1> QED
  BY <1>1, <1>2 DEF WasChecked

\* Every step keeps the cache, and the answers, to what was checked.
LEMMA CheckedStep ==
  ASSUME TypeOK, CachedWasChecked, StoresWhatWasChecked, [Next]_vars
  PROVE  CachedWasChecked' /\ StoresWhatWasChecked'
<1> USE RequestsAssumption DEF TypeOK, IsCached, CachedWasChecked, StoresWhatWasChecked
<1>1. ASSUME NEW r \in Readers, Begin(r) PROVE CachedWasChecked' /\ StoresWhatWasChecked'
  BY <1>1 DEF Begin, Goto
<1>2. ASSUME NEW r \in Readers, Lookup(r) PROVE CachedWasChecked' /\ StoresWhatWasChecked'
  BY <1>2 DEF Lookup, Goto, CacheKey
<1>3. ASSUME NEW r \in Readers, LoadItem(r) \/ LoadCollection(r)
      PROVE  CachedWasChecked' /\ StoresWhatWasChecked'
  <2>1. CASE \E f \in BOOLEAN : WasChecked(Loaded(r, f), Wants[r])
                              /\ got' = [got EXCEPT ![r] = Loaded(r, f)]
                              /\ reader' = [reader EXCEPT ![r] = "store"] /\ cached' = cached
    BY <2>1
  <2>2. CASE got' = got /\ cached' = cached /\ reader' = [reader EXCEPT ![r] = "done"]
    BY <2>2
  <2>3. Filtered(r) \in BOOLEAN
    BY DEF Filtered
  <2> QED
    BY <1>3, <2>1, <2>2, <2>3, LoadsAreChecked DEF LoadItem, LoadCollection, Goto
<1>4. ASSUME NEW r \in Readers, StoreItem(r) PROVE CachedWasChecked' /\ StoresWhatWasChecked'
  BY <1>4 DEF StoreItem, Goto, CacheKey
<1>5. ASSUME NEW w \in Writers, Write(w) PROVE CachedWasChecked' /\ StoresWhatWasChecked'
  BY <1>5 DEF Write, Save, Purge
<1>6. ASSUME NEW iri \in IRIs, OutsideWrite(iri) PROVE CachedWasChecked' /\ StoresWhatWasChecked'
  BY <1>6 DEF OutsideWrite
<1>7. CASE Reload
  BY <1>7 DEF Reload
<1>8. CASE UNCHANGED vars
  BY <1>8 DEF vars
<1> QED
  BY <1>1, <1>2, <1>3, <1>4, <1>5, <1>6, <1>7, <1>8 DEF Next, Read

\* The invariant holds at the start.
LEMMA InvInit == Init => CacheInv
<1> SUFFICES ASSUME Init PROVE CacheInv
  OBVIOUS
<1>1. TypeOK
  BY TypeInit
<1>2. \A iri \in IRIs : ~IsCached(iri)
  BY DEF Init, IsCached
<1> QED
  BY <1>1, <1>2
     DEF Init, CacheInv, StaleHasCause, CachedWasChecked, StoresWhatWasChecked, Stale

\* CacheInv is an invariant.
LEMMA Invariance == Spec => []CacheInv
<1>1. CacheInv /\ [Next]_vars => CacheInv'
  BY TypeStep, StaleStep, CheckedStep DEF CacheInv
<1> QED
  BY <1>1, InvInit, PTL DEF Spec

\* An entry is out of date only while a purge of its item is to come, or
\* because it was stored after the purge, or because a purge failed or a
\* command changed the item behind the server's back.
THEOREM StaleEntriesHaveCause == Spec => []StaleHasCause
<1>1. CacheInv => StaleHasCause
  BY DEF CacheInv
<1> QED
  BY <1>1, Invariance, PTL

\* No item is in the cache, and none is answered, that the filters let nobody
\* see; and collections that were loaded without filters were loaded for users
\* with another collection of that name.
THEOREM CacheHoldsWhatWasChecked == Spec => []CachedWasChecked
<1>1. CacheInv => CachedWasChecked
  BY DEF CacheInv
<1> QED
  BY <1>1, Invariance, PTL

=============================================================================
