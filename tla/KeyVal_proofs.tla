---------------------------- MODULE KeyVal_proofs ----------------------------
(***************************************************************************)
(* Proofs about KeyVal for any keys and values, with crashes, failed reads *)
(* and failures of the filter's file at any point: the Bloom filter does   *)
(* not forget a key unless it comes from a file that an earlier opening    *)
(* left in place, and the storage implements the map its users may expect. *)
(***************************************************************************)
EXTENDS KeyVal, TLAPS

\* While the database may be written there is no filter file to trust but
\* one that was left in place, and a temporary file that is about to be
\* renamed knows what the filter knows.
FilesAreHandled ==
    /\ pc \in {"load", "up", "save"} /\ file.state = "good" => "file" \in left
    /\ pc = "save" /\ tmp.state = "good" => tmp.keys = filter

\* The inductive invariant.
IInv ==
    /\ TypeOK
    /\ FilterKnowsEveryKey
    /\ StoredFilterIsCurrent
    /\ FilesAreHandled

\* Where the content is the map, a batch changes it to a map.
LEMMA ApplyType ==
    ASSUME NEW c \in [Keys -> Vals \cup {NotFound}],
           NEW b \in [Keys -> KV!Changes]
    PROVE  KV!Apply(c, b) \in [Keys -> Vals \cup {NotFound}]
  BY DEF KV!Apply, KV!Changes

LEMMA FileTypes ==
    /\ NoFile \in Files /\ NoFile.state = "absent"
    /\ Torn \in Files /\ Torn.state = "torn"
    /\ \A f \in SUBSET Keys : /\ Stored(f) \in Files
                              /\ Stored(f).state = "good"
                              /\ Stored(f).keys = f
  BY DEF NoFile, Torn, Stored, Files

LEMMA LeftoverTypes == "file" \in Leftovers /\ "filter" \in Leftovers
  BY DEF Leftovers

LEMMA InitInv == Init => IInv
  <1> SUFFICES ASSUME Init PROVE IInv
    OBVIOUS
  <1>1. TypeOK
    BY FileTypes DEF Init, TypeOK, NoValues, KV!NoChanges, KV!Changes
  <1>2. Present = {} /\ file.state # "good" /\ pc = "down"
    BY FileTypes DEF Init, Present, NoValues
  <1> QED
    BY <1>1, <1>2 DEF IInv, FilterKnowsEveryKey, StoredFilterIsCurrent,
                      FilesAreHandled

\* Types are preserved by every step.
LEMMA TypeStep == TypeOK /\ [Next]_vars => TypeOK'
  <1> SUFFICES ASSUME TypeOK, [Next]_vars PROVE TypeOK'
    OBVIOUS
  <1> USE FileTypes, LeftoverTypes, KeyValAssumption DEF TypeOK, memVars, fileVars
  <1>0. KV!NoChanges \in [Keys -> KV!Changes] /\ NoValues \in [Keys -> Vals \cup {NotFound}]
    BY DEF KV!NoChanges, KV!Changes, NoValues
  <1>1. CASE NewKeyVal \/ LoadFails
    <2>1. CASE NewKeyVal
      BY <1>0, <2>1 DEF NewKeyVal
    <2>2. CASE LoadFails
      <3>1. file' \in Files
        BY <2>2 DEF LoadFails
      <3>2. left' \in SUBSET Leftovers
        BY <2>2 DEF LoadFails
      <3> QED
        BY <2>2, <3>1, <3>2 DEF LoadFails
    <2> QED
      BY <1>1, <2>1, <2>2
  <1>2. CASE LoadFilter
    BY <1>2 DEF LoadFilter, Files
  <1>3. CASE RebuildFilter
    BY <1>3 DEF RebuildFilter, Present
  <1>4. CASE SaveData
    BY <1>4 DEF SaveData
  <1>5. CASE RenameAndClose \/ SaveFails \/ Crash
    <2>1. left' \in SUBSET Leftovers
      BY <1>5 DEF RenameAndClose, SaveFails, Crash
    <2>2. tmp' \in Files /\ file' \in Files
      BY <1>5 DEF RenameAndClose, SaveFails, Crash
    <2> QED
      BY <1>0, <1>5, <2>1, <2>2 DEF RenameAndClose, SaveFails, Crash
  <1>6. ASSUME NEW k \in Keys,
               \/ GetCached(k) \/ GetFiltered(k) \/ GetFromDB(k)
               \/ Has(k) \/ Evict(k) \/ Delete(k)
        PROVE  TypeOK'
    <2>1. CASE GetCached(k) \/ GetFiltered(k) \/ Has(k)
      BY <2>1 DEF GetCached, GetFiltered, Has
    <2>2. CASE GetFromDB(k)
      <3>1. PICK v \in Vals \cup {NotFound} : cache' = [cache EXCEPT ![k] = v]
        BY <2>2 DEF GetFromDB
      <3> QED
        BY <2>2, <3>1 DEF GetFromDB
    <2>3. CASE Evict(k) \/ Delete(k)
      BY <2>3 DEF Evict, Delete
    <2> QED
      BY <1>6, <2>1, <2>2, <2>3
  <1>7. ASSUME NEW k \in Keys, NEW v \in Vals, Put(k, v) PROVE TypeOK'
    BY <1>7 DEF Put
  <1>8. ASSUME NEW k \in Keys, NEW v \in Vals \cup {NotFound}, BatchAdd(k, v)
        PROVE  TypeOK'
    BY <1>8 DEF BatchAdd, KV!Changes
  <1>9. CASE BatchReset
    BY <1>0, <1>9 DEF BatchReset
  <1>10. CASE Flush
    <2>1. db' \in [Keys -> Vals \cup {NotFound}] /\ cache' \in [Keys -> Vals \cup {NotFound}]
      BY <1>10, ApplyType DEF Flush
    <2> QED
      BY <1>0, <1>10, <2>1 DEF Flush
  <1>11. CASE UNCHANGED vars
    BY <1>11 DEF vars
  <1> QED
    BY <1>1, <1>2, <1>3, <1>4, <1>5, <1>6, <1>7, <1>8, <1>9, <1>10, <1>11
    DEF Next

\* The filter's facts are preserved by every step.
LEMMA InvStep == IInv /\ [Next]_vars => IInv'
  <1> SUFFICES ASSUME IInv, [Next]_vars PROVE IInv'
    OBVIOUS
  <1>0. TypeOK'
    BY TypeStep DEF IInv
  <1> SUFFICES FilterKnowsEveryKey' /\ StoredFilterIsCurrent' /\ FilesAreHandled'
    BY <1>0 DEF IInv
  <1> USE DEF FilterKnowsEveryKey, StoredFilterIsCurrent, FilesAreHandled,
              memVars, fileVars
  <1> USE DEF IInv
  <1>1. CASE NewKeyVal \/ LoadFails \/ LoadFilter \/ RebuildFilter
    BY <1>1, FileTypes DEF NewKeyVal, LoadFails, LoadFilter, RebuildFilter,
                           Present, TypeOK
  <1>2. CASE SaveData \/ RenameAndClose \/ SaveFails \/ Crash
    BY <1>2, FileTypes DEF SaveData, RenameAndClose, SaveFails, Crash,
                           Present, TypeOK
  <1>3. ASSUME NEW k \in Keys,
               GetCached(k) \/ GetFiltered(k) \/ GetFromDB(k) \/ Has(k) \/ Evict(k)
        PROVE  FilterKnowsEveryKey' /\ StoredFilterIsCurrent' /\ FilesAreHandled'
    BY <1>3 DEF GetCached, GetFiltered, GetFromDB, Has, Evict, Present
  <1>4. ASSUME NEW k \in Keys, Delete(k)
        PROVE  FilterKnowsEveryKey' /\ StoredFilterIsCurrent' /\ FilesAreHandled'
    BY <1>4 DEF Delete, Present, TypeOK
  <1>5. ASSUME NEW k \in Keys, NEW v \in Vals, Put(k, v)
        PROVE  FilterKnowsEveryKey' /\ StoredFilterIsCurrent' /\ FilesAreHandled'
    BY <1>5 DEF Put, Present, TypeOK
  <1>6. ASSUME NEW k \in Keys, NEW v \in Vals \cup {NotFound}, BatchAdd(k, v)
        PROVE  FilterKnowsEveryKey' /\ StoredFilterIsCurrent' /\ FilesAreHandled'
    BY <1>6 DEF BatchAdd, Present
  <1>7. CASE BatchReset
    BY <1>7 DEF BatchReset, Present
  <1>8. CASE Flush
    <2>1. "filter" \notin left => Present' \subseteq filter'
      <3> SUFFICES ASSUME "filter" \notin left,
                          NEW k \in Keys, db'[k] # NotFound
                   PROVE  k \in filter'
        BY DEF Present
      <3>1. CASE pairs[k] = NoChange
        BY <1>8, <3>1 DEF Flush, KV!Apply, Present
      <3>2. CASE pairs[k] # NoChange
        BY <1>8, <3>2 DEF Flush, KV!Apply, KV!Changes, TypeOK
      <3> QED
        BY <3>1, <3>2
    <2> QED
      BY <1>8, <2>1 DEF Flush
  <1>9. CASE UNCHANGED vars
    BY <1>9 DEF vars, Present
  <1> QED
    BY <1>1, <1>2, <1>3, <1>4, <1>5, <1>6, <1>7, <1>8, <1>9 DEF Next

LEMMA Invariance == Spec => []IInv
  BY InitInv, InvStep, PTL DEF Spec

\* Every variable of KeyVal (pkg/keyvalue) keeps its type.
THEOREM TypeCorrect == Spec => []TypeOK
  BY Invariance, PTL DEF IInv

\* The Bloom filter of an open database knows every key that is in it,
\* whether it was loaded from its file or rebuilt (initBloomFilter), unless
\* the file was left in place by an earlier opening (storeImpl.load).
THEOREM FilterIsComplete == Spec => []FilterKnowsEveryKey
  BY Invariance, PTL DEF IInv

\* A filter file that can be loaded (storeImpl.load) is never behind the
\* database, unless an opening could not read or remove it.
THEOREM StoredFilterIsNeverStale == Spec => []StoredFilterIsCurrent
  BY Invariance, PTL DEF IInv

-----------------------------------------------------------------------------
(* The refinement                                                          *)

\* A process starts with an empty cache, and only a filter that is in use
\* has been loaded.
OpeningInv ==
    /\ pc \in {"open", "load"} => cache = NoValues
    /\ "filter" \in left => pc \in {"up", "save"}

LEMMA OpeningStep == OpeningInv /\ [Next]_vars => OpeningInv'
  <1> SUFFICES ASSUME OpeningInv, [Next]_vars PROVE OpeningInv'
    OBVIOUS
  <1> USE DEF OpeningInv, memVars, fileVars
  <1>1. CASE NewKeyVal \/ LoadFails \/ LoadFilter \/ RebuildFilter
    BY <1>1 DEF NewKeyVal, LoadFails, LoadFilter, RebuildFilter
  <1>2. CASE SaveData \/ RenameAndClose \/ SaveFails \/ Crash
    BY <1>2 DEF SaveData, RenameAndClose, SaveFails, Crash
  <1>3. ASSUME NEW k \in Keys,
               \/ GetCached(k) \/ GetFiltered(k) \/ GetFromDB(k)
               \/ Has(k) \/ Evict(k) \/ Delete(k)
        PROVE  OpeningInv'
    BY <1>3 DEF GetCached, GetFiltered, GetFromDB, Has, Evict, Delete
  <1>4. ASSUME NEW k \in Keys, NEW v \in Vals, Put(k, v) PROVE OpeningInv'
    BY <1>4 DEF Put
  <1>5. ASSUME NEW k \in Keys, NEW v \in Vals \cup {NotFound}, BatchAdd(k, v)
        PROVE  OpeningInv'
    BY <1>5 DEF BatchAdd
  <1>6. CASE BatchReset \/ Flush
    BY <1>6 DEF BatchReset, Flush
  <1>7. CASE UNCHANGED vars
    BY <1>7 DEF vars
  <1> QED
    BY <1>1, <1>2, <1>3, <1>4, <1>5, <1>6, <1>7 DEF Next

LEMMA OpeningInvariance == Spec => []OpeningInv
  <1>1. Init => OpeningInv
    BY DEF Init, OpeningInv
  <1> QED
    BY <1>1, OpeningStep, PTL DEF Spec

\* Opening raises doubts about keys only where a file had been left.
LEMMA OpeningRefines ==
    ASSUME IInv, OpeningInv, NewKeyVal \/ LoadFails \/ LoadFilter \/ RebuildFilter
    PROVE  KV!StoreNext \/ UNCHANGED KV!storeVars
  <1> USE DEF memVars, fileVars
  <1>1. CASE NewKeyVal
    <2>1. Doubtful = {} /\ Doubtful' = {} /\ pairs' = KV!NoChanges
      BY <1>1 DEF NewKeyVal, Doubtful
    <2>2. KV!StoreBatch
      BY <1>1, <2>1 DEF NewKeyVal, KV!StoreBatch
    <2> QED
      BY <2>2 DEF KV!StoreNext
  <1>2. CASE LoadFails
    <2>1. Doubtful = {} /\ Doubtful' = {}
      BY <1>2 DEF LoadFails, Doubtful
    <2>2. CASE left' # {}
      BY <1>2, <2>1, <2>2 DEF LoadFails, KV!StoreFaultyStart, KV!StoreNext
    <2>3. CASE left' = {}
      BY <1>2, <2>1, <2>3 DEF LoadFails, KV!StoreStart, KV!StoreNext
    <2> QED
      BY <2>2, <2>3
  <1>3. CASE LoadFilter
    <2>1. cache' = NoValues
      BY <1>3 DEF LoadFilter, OpeningInv
    <2>2. Doubtful' \in SUBSET IF left # {} THEN Keys ELSE {}
      BY <1>3, <2>1 DEF LoadFilter, Doubtful, Present, NoValues, IInv,
                        StoredFilterIsCurrent
    <2>3. KV!StoreStart
      BY <1>3, <2>2 DEF LoadFilter, KV!StoreStart
    <2> QED
      BY <2>3 DEF KV!StoreNext
  <1>4. CASE RebuildFilter
    <2>1. cache' = NoValues
      BY <1>4 DEF RebuildFilter, OpeningInv
    <2>2. Doubtful = {} /\ Doubtful' = {}
      BY <1>4, <2>1 DEF RebuildFilter, Doubtful, Present, NoValues
    <2> QED
      BY <1>4, <2>2 DEF RebuildFilter, KV!storeVars
  <1> QED
    BY <1>1, <1>2, <1>3, <1>4

\* Closing and dying drop the batch and the doubts.
LEMMA StoppingRefines ==
    ASSUME IInv, SaveData \/ RenameAndClose \/ SaveFails \/ Crash
    PROVE  KV!StoreNext \/ UNCHANGED KV!storeVars
  <1>1. CASE SaveData
    <2>1. Doubtful' = Doubtful
      BY <1>1 DEF SaveData, Doubtful, Present
    <2> QED
      BY <1>1, <2>1 DEF SaveData, KV!storeVars
  <1>2. CASE RenameAndClose \/ SaveFails \/ Crash
    <2>1. Doubtful' = {}
      BY <1>2 DEF RenameAndClose, SaveFails, Crash, Doubtful
    <2>2. (left' # {}) => (left # {})
      BY <1>2 DEF RenameAndClose, SaveFails, Crash
    <2>3. KV!StoreStop
      BY <1>2, <2>1, <2>2 DEF RenameAndClose, SaveFails, Crash, KV!StoreStop
    <2> QED
      BY <2>3 DEF KV!StoreNext
  <1> QED
    BY <1>1, <1>2

\* A read answers from the content or is about a doubtful key.
LEMMA ReadsRefine ==
    ASSUME IInv, NEW k \in Keys,
           GetCached(k) \/ GetFiltered(k) \/ GetFromDB(k) \/ Has(k) \/ Evict(k)
    PROVE  KV!StoreNext
  <1> USE DEF memVars, fileVars
  <1>0. db[k] \in Vals \cup {NotFound} /\ cache[k] \in Vals \cup {NotFound}
    BY DEF IInv, TypeOK
  <1>1. CASE GetCached(k)
    <2>1. Doubtful' = Doubtful
      BY <1>1 DEF GetCached, Doubtful, Present
    <2>2. cache[k] = db[k] \/ k \in Doubtful
      BY <1>1 DEF GetCached, Doubtful
    <2>3. KV!StoreGet(k)
      BY <1>0, <1>1, <2>1, <2>2 DEF GetCached, KV!StoreGet
    <2> QED
      BY <2>3 DEF KV!StoreNext
  <1>2. CASE GetFiltered(k)
    <2>1. Doubtful' = Doubtful
      BY <1>2 DEF GetFiltered, Doubtful, Present
    <2>2. db[k] = NotFound \/ k \in Doubtful
      BY <1>2 DEF GetFiltered, NotInTheSet, Doubtful, Present
    <2>3. KV!StoreGet(k)
      BY <1>2, <2>1, <2>2 DEF GetFiltered, KV!StoreGet
    <2> QED
      BY <2>3 DEF KV!StoreNext
  <1>3. CASE GetFromDB(k)
    <2>1. PICK failed \in BOOLEAN :
             /\ reply' = <<"get", k, IF failed THEN Failed ELSE db[k]>>
             /\ cache' = [cache EXCEPT ![k] = IF failed THEN Empty ELSE db[k]]
      BY <1>3 DEF GetFromDB
    <2>2. CASE failed
      <3>1. \A j \in Keys \ {k} : cache'[j] = cache[j]
        BY <2>1 DEF IInv, TypeOK
      <3>2. \A j \in Keys \ {k} : j \in Doubtful' <=> j \in Doubtful
        BY <1>3, <3>1 DEF GetFromDB, Doubtful, Present
      <3>3. k \in Doubtful => k \in Doubtful'
        BY <1>3 DEF GetFromDB, Doubtful, Present
      <3>4. Doubtful' \in {Doubtful, Doubtful \cup {k}}
        BY <3>2, <3>3 DEF Doubtful
      <3>5. KV!StoreReadFails(k)
        BY <1>3, <2>1, <2>2, <3>4 DEF GetFromDB, KV!StoreReadFails
      <3> QED
        BY <3>5 DEF KV!StoreNext
    <2>3. CASE ~failed
      <3>1. \A j \in Keys : cache'[j] = IF j = k THEN db[j] ELSE cache[j]
        BY <2>1, <2>3 DEF IInv, TypeOK
      <3>2. \A j \in Keys : j \in Doubtful' <=> j \in Doubtful
        BY <1>3, <3>1 DEF GetFromDB, Doubtful, Present
      <3>3. Doubtful' = Doubtful
        BY <3>2 DEF Doubtful
      <3>4. KV!StoreGet(k)
        BY <1>3, <2>1, <2>3, <3>3 DEF GetFromDB, KV!StoreGet
      <3> QED
        BY <3>4 DEF KV!StoreNext
    <2> QED
      BY <2>2, <2>3
  <1>4. CASE Has(k)
    <2>1. Doubtful' = Doubtful
      BY <1>4 DEF Has, Doubtful, Present
    <2>2. PICK guess \in BOOLEAN :
             \/ reply' = <<"has", k, /\ ~NotInTheSet(k, guess)
                                     /\ cache[k] # NotFound \/ db[k] # NotFound>>
             \/ /\ ~NotInTheSet(k, guess)
                /\ cache[k] = NotFound
                /\ reply' = <<"has", k, Failed>>
      BY <1>4 DEF Has
    <2>3. CASE reply' = <<"has", k, Failed>>
      BY <1>4, <2>1, <2>3 DEF Has, KV!StoreReadFails, KV!StoreNext
    <2>4. CASE reply' = <<"has", k, /\ ~NotInTheSet(k, guess)
                                    /\ cache[k] # NotFound \/ db[k] # NotFound>>
      <3> DEFINE ans == /\ ~NotInTheSet(k, guess)
                        /\ cache[k] # NotFound \/ db[k] # NotFound
      <3>1. k \notin Doubtful => (ans <=> db[k] # NotFound)
        BY <1>4 DEF Has, Doubtful, Present, NotInTheSet
      <3>2. ans \in BOOLEAN
        BY DEF NotInTheSet
      <3>3. KV!StoreHas(k)
        <4>1. CASE k \in Doubtful
          BY <1>4, <2>1, <2>4, <3>2, <4>1 DEF Has, KV!StoreHas
        <4>2. CASE k \notin Doubtful
          <5>1. ans = (db[k] # NotFound)
            BY <3>1, <3>2, <4>2
          <5> HIDE DEF ans
          <5>2. reply' = <<"has", k, ans>>
            BY <2>4 DEF ans
          <5>3. reply' = <<"has", k, db[k] # NotFound>>
            BY <5>1, <5>2
          <5> QED
            BY <1>4, <2>1, <5>3 DEF Has, KV!StoreHas
        <4> QED
          BY <4>1, <4>2
      <3> QED
        BY <3>3 DEF KV!StoreNext
    <2> QED
      BY <2>2, <2>3, <2>4
  <1>5. CASE Evict(k)
    <2>1. Doubtful' \in SUBSET Doubtful
      BY <1>5 DEF Evict, Doubtful, Present, IInv, TypeOK
    <2>2. KV!StoreForget
      BY <1>5, <2>1 DEF Evict, KV!StoreForget
    <2> QED
      BY <2>2 DEF KV!StoreNext
  <1> QED
    BY <1>1, <1>2, <1>3, <1>4, <1>5

\* A write ends the doubt about its key.
LEMMA WritesRefine ==
    ASSUME IInv, NEW k \in Keys, NEW v \in Vals, Put(k, v) \/ Delete(k)
    PROVE  KV!StoreNext
  <1> USE DEF memVars, fileVars
  <1> DEFINE w == IF Put(k, v) THEN v ELSE NotFound
  <1>1. /\ pc = "up" /\ pc' = pc
        /\ db' = [db EXCEPT ![k] = w]
        /\ cache' = [cache EXCEPT ![k] = w]
        /\ w # NotFound => filter' = filter \cup {k}
        /\ w = NotFound => filter' = filter
        /\ UNCHANGED <<pairs, left, reply>>
    BY KeyValAssumption DEF Put, Delete
  <1>2. w \in Vals \cup {NotFound}
    OBVIOUS
  <1> HIDE DEF w
  <1>3. \A j \in Keys : /\ db'[j] = IF j = k THEN w ELSE db[j]
                        /\ cache'[j] = IF j = k THEN w ELSE cache[j]
    BY <1>1 DEF IInv, TypeOK
  <1>4. \A j \in Keys : j \in Doubtful' <=> j \in Doubtful /\ j # k
    BY <1>1, <1>3 DEF Doubtful, Present
  <1>5. Doubtful' = Doubtful \ {k}
    BY <1>4 DEF Doubtful
  <1>6. KV!StorePut(k, w)
    BY <1>1, <1>5 DEF KV!StorePut
  <1> QED
    BY <1>2, <1>6 DEF KV!StoreNext

\* A flushed batch ends the doubt about its keys.
LEMMA FlushRefines == ASSUME IInv, Flush PROVE KV!StoreNext
  <1> USE DEF memVars, fileVars
  <1>1. \A j \in Keys :
           /\ db'[j] = IF pairs[j] = NoChange THEN db[j] ELSE pairs[j]
           /\ cache'[j] = IF pairs[j] = NoChange THEN cache[j] ELSE pairs[j]
           /\ j \in filter' <=> j \in filter \/ pairs[j] \in Vals
           /\ pairs[j] \in Vals \cup {NotFound, NoChange}
    BY DEF Flush, KV!Apply, KV!Changes, IInv, TypeOK
  <1>2. \A j \in Keys : j \in Doubtful' <=> j \in Doubtful /\ pairs[j] = NoChange
    BY <1>1, KeyValAssumption DEF Flush, Doubtful, Present
  <1>3. Doubtful' = {j \in Doubtful : pairs[j] = NoChange}
    BY <1>2 DEF Doubtful
  <1>4. KV!StoreFlush
    BY <1>3 DEF Flush, KV!StoreFlush
  <1> QED
    BY <1>4 DEF KV!StoreNext

\* Every step of the storage is a step of the map or leaves it alone.
LEMMA RefinementStep ==
    IInv /\ OpeningInv /\ [Next]_vars => [KV!StoreNext]_(KV!storeVars)
  <1> SUFFICES ASSUME IInv, OpeningInv, [Next]_vars
               PROVE  KV!StoreNext \/ UNCHANGED KV!storeVars
    OBVIOUS
  <1>1. CASE NewKeyVal \/ LoadFails \/ LoadFilter \/ RebuildFilter
    BY <1>1, OpeningRefines
  <1>2. CASE SaveData \/ RenameAndClose \/ SaveFails \/ Crash
    BY <1>2, StoppingRefines
  <1>3. ASSUME NEW k \in Keys,
               GetCached(k) \/ GetFiltered(k) \/ GetFromDB(k) \/ Has(k) \/ Evict(k)
        PROVE  KV!StoreNext
    BY <1>3, ReadsRefine
  <1>4. ASSUME NEW k \in Keys, Delete(k) PROVE KV!StoreNext
    BY <1>4, WritesRefine, KeyValAssumption
  <1>5. ASSUME NEW k \in Keys, NEW v \in Vals, Put(k, v) PROVE KV!StoreNext
    BY <1>5, WritesRefine
  <1>6. ASSUME NEW k \in Keys, NEW v \in Vals \cup {NotFound}, BatchAdd(k, v)
        PROVE  KV!StoreNext
    <2>1. Doubtful' = Doubtful
      BY <1>6 DEF BatchAdd, Doubtful, Present, fileVars
    <2>2. KV!StoreBatch
      BY <1>6, <2>1 DEF BatchAdd, KV!StoreBatch, fileVars
    <2> QED
      BY <2>2 DEF KV!StoreNext
  <1>7. CASE BatchReset
    <2>1. Doubtful' = Doubtful
      BY <1>7 DEF BatchReset, Doubtful, Present, fileVars
    <2>2. KV!StoreBatch
      BY <1>7, <2>1 DEF BatchReset, KV!StoreBatch, fileVars
    <2> QED
      BY <2>2 DEF KV!StoreNext
  <1>8. CASE Flush
    BY <1>8, FlushRefines
  <1>9. CASE UNCHANGED vars
    BY <1>9 DEF vars, KV!storeVars, Doubtful, Present
  <1> QED
    BY <1>1, <1>2, <1>3, <1>4, <1>5, <1>6, <1>7, <1>8, <1>9 DEF Next

\* The cache, the Bloom filter and its file are invisible to the users of
\* the storage up to the doubts that KeyValue allows after failed reads and
\* after a start that left the file: KeyVal implements the interface
\* keyvalue.KeyValue as a map with atomic batches that survives crashes.
THEOREM Refinement == Spec => ImplementsKeyValue
  <1>1. Init => KV!StoreInit
    BY DEF Init, KV!StoreInit, NoValues, Doubtful
  <1>2. IInv /\ OpeningInv /\ [Next]_vars => [KV!StoreNext]_(KV!storeVars)
    BY RefinementStep
  <1> QED
    BY <1>1, <1>2, Invariance, OpeningInvariance, PTL
    DEF Spec, ImplementsKeyValue, KV!StoreSpec
=============================================================================
