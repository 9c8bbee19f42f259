------------------------------- MODULE KeyVal -------------------------------
(***************************************************************************)
(* KeyVal (pkg/keyvalue): the LevelDB database of the node behind a cache  *)
(* of values and a Bloom filter of the keys.  A filter that forgot a key   *)
(* makes the key unreadable although it is in the database, so the module  *)
(* is about where the filter comes from after a restart: Close writes it   *)
(* to a file (to a temporary file first, which is then renamed), opening   *)
(* the database reads that file and removes it, and without a readable     *)
(* file the filter is rebuilt from the keys of the database.  A file that  *)
(* could not be read or removed stays, and falls behind the database: the  *)
(* start after a crash trusts it.                                          *)
(*                                                                         *)
(* Every operation holds KeyVal.mu, a reader shares it with readers only,  *)
(* so an operation is one action; a crash may come between any two, and    *)
(* between the steps of opening and closing.  LevelDB, freecache and the   *)
(* library of the filter are external: a write of LevelDB is atomic and    *)
(* survives a crash of the process, the cache may drop an entry at any     *)
(* time, the filter may take a key for known that it never saw.            *)
(***************************************************************************)
CONSTANTS
    Keys,
    Vals,
    Empty,        \* the empty slice, which also comes with an error
    NotFound,     \* ErrNotFound
    Failed,       \* any other error
    NoChange,     \* a batch has no pair for the key
    NoReply       \* nothing has been read yet

VARIABLES
    db,      \* KeyVal.db: value of every key, NotFound where there is none
    filter,  \* KeyVal.filter: the keys added to it
    cache,   \* KeyVal.cache: value of a cached key, NotFound if not cached
    pairs,   \* batch.pairs: the last pair of every key
    file,    \* storeImpl.path: the stored filter
    tmp,     \* storeImpl.tmpFileName: the filter being stored
    pc,      \* "down", "open", "load", "up", "save"
    left,    \* history: "file" if an opening left the stored filter in
             \* place, "filter" if such a file was loaded later
    reply    \* history: the answer of the last read

vars == <<db, filter, cache, pairs, file, tmp, pc, left, reply>>
memVars == <<filter, cache, pairs>>
fileVars == <<file, tmp, left>>

\* The keys the database holds.
Present == {k \in Keys : db[k] # NotFound}

\* The keys that may be read wrongly: the filter hides them, or the cache
\* has another value.
Doubtful ==
    IF pc \in {"up", "save"}
    THEN {k \in Keys : \/ k \in Present /\ k \notin filter
                       \/ cache[k] # NotFound /\ cache[k] # db[k]}
    ELSE {}

KV == INSTANCE KeyValue WITH content <- db, batch <- pairs,
                             doubtful <- Doubtful, risk <- (left # {})

ASSUME KeyValAssumption ==
    /\ Empty \in Vals
    /\ NotFound \notin Vals
    /\ Failed \notin Vals \cup {NotFound}
    /\ NoChange \notin Vals \cup {NotFound}

\* A file of the filter: absent, not decodable, or with the keys it knows.
Files == [state : {"absent", "torn", "good"}, keys : SUBSET Keys]
NoFile == [state |-> "absent", keys |-> {}]
Torn == [state |-> "torn", keys |-> {}]
Stored(f) == [state |-> "good", keys |-> f]

\* What may lack keys after a load that left the file in place.
Leftovers == {"file", "filter"}

NoValues == [k \in Keys |-> NotFound]

\* bloomFilter.notInTheSet: guess is the filter's chance to take a key it
\* never saw for a known one.
NotInTheSet(k, guess) == k \notin filter /\ ~guess

Init ==
    /\ db = NoValues
    /\ filter = {}
    /\ cache = NoValues
    /\ pairs = KV!NoChanges
    /\ file = NoFile
    /\ tmp = NoFile
    /\ pc = "down"
    /\ left = {}
    /\ reply = NoReply

-----------------------------------------------------------------------------
(* Opening and closing                                                     *)

\* NewKeyVal up to initBloomFilter: LevelDB is open, the cache is empty.
NewKeyVal ==
    /\ pc = "down"
    /\ pc' = "open"
    /\ filter' = {}
    /\ cache' = NoValues
    /\ pairs' = KV!NoChanges
    /\ UNCHANGED <<db, fileVars, reply>>

\* Mutant of LoadFilter: load leaves the file in place.
LoadFilter_KeepFile ==
    /\ pc = "open"
    /\ file.state = "good"
    /\ filter' = file.keys
    /\ left' = IF "file" \in left THEN {"filter"} ELSE {}
    /\ pc' = "up"
    /\ UNCHANGED <<db, cache, pairs, file, tmp, reply>>

\* newBloomFilterFromStore with a readable file: storeImpl.load reads the
\* file and removes it before anybody may write to the database.
LoadFilter ==
    /\ pc = "open"
    /\ file.state = "good"
    /\ filter' = file.keys
    /\ file' = NoFile
    /\ left' = IF "file" \in left THEN {"filter"} ELSE {}
    /\ pc' = "up"
    /\ UNCHANGED <<db, cache, pairs, tmp, reply>>

\* newBloomFilterFromStore fails: there is no file, it cannot be read or it
\* cannot be removed, and then it stays; or it is removed and does not decode.
LoadFails ==
    /\ pc = "open"
    /\ \/ file' = file
       \/ file.state = "torn" /\ file' = NoFile
    /\ left' = IF file'.state = "good" THEN {"file"} ELSE {}
    /\ pc' = "load"
    /\ UNCHANGED <<db, filter, cache, pairs, tmp, reply>>

\* Mutant of RebuildFilter: an absent file is taken for an empty filter.
RebuildFilter_Empty ==
    /\ pc = "load"
    /\ pc' = "up"
    /\ UNCHANGED <<db, filter, cache, pairs, fileVars, reply>>

\* The rest of initBloomFilter: the filter is built from all the keys.
RebuildFilter ==
    /\ pc = "load"
    /\ filter' = Present
    /\ pc' = "up"
    /\ UNCHANGED <<db, cache, pairs, fileVars, reply>>

\* Close, storeImpl.saveData: the temporary file is written.  A failure of
\* the buffer's flush or of closing the file is only logged.
SaveData ==
    /\ pc = "up"
    /\ tmp' \in {Stored(filter), Torn}
    /\ pc' = "save"
    /\ UNCHANGED <<db, filter, cache, pairs, file, left, reply>>

\* The rename of storeImpl.save and the end of Close.
RenameAndClose ==
    /\ pc = "save"
    /\ file' = tmp
    /\ tmp' = NoFile
    /\ left' = IF "filter" \in left THEN {"file"} ELSE {}
    /\ pc' = "down"
    /\ pairs' = KV!NoChanges
    /\ UNCHANGED <<db, filter, cache, reply>>

\* saveData or the rename fails: Close logs it and closes the database.
SaveFails ==
    /\ pc \in {"up", "save"}
    /\ tmp' \in {tmp, Torn}
    /\ left' = left \ {"filter"}
    /\ pc' = "down"
    /\ pairs' = KV!NoChanges
    /\ UNCHANGED <<db, filter, cache, file, reply>>

\* The process ends without Close.
Crash ==
    /\ pc # "down"
    /\ pc' = "down"
    /\ pairs' = KV!NoChanges
    /\ tmp' \in IF pc \in {"up", "save"} THEN {tmp, Torn} ELSE {tmp}
    /\ left' = left \ {"filter"}
    /\ UNCHANGED <<db, filter, cache, file, reply>>

-----------------------------------------------------------------------------
(* Reads                                                                   *)

GetCached(k) ==
    /\ pc = "up"
    /\ cache[k] # NotFound
    /\ reply' = <<"get", k, cache[k]>>
    /\ UNCHANGED <<db, memVars, fileVars, pc>>

GetFiltered(k) ==
    /\ pc = "up"
    /\ cache[k] = NotFound
    /\ NotInTheSet(k, FALSE)
    /\ reply' = <<"get", k, NotFound>>
    /\ UNCHANGED <<db, memVars, fileVars, pc>>

\* The lookup in LevelDB.  An error other than ErrNotFound is returned to
\* the caller, after the empty value that came with it went to the cache.
GetFromDB(k) ==
    /\ pc = "up"
    /\ cache[k] = NotFound
    /\ \E guess \in BOOLEAN : ~NotInTheSet(k, guess)
    /\ \E failed \in BOOLEAN :
          /\ reply' = <<"get", k, IF failed THEN Failed ELSE db[k]>>
          /\ cache' = [cache EXCEPT ![k] = IF failed THEN Empty ELSE db[k]]
    /\ UNCHANGED <<db, filter, pairs, fileVars, pc>>

\* The filter is asked first, then the cache, then LevelDB, which may fail.
Has(k) ==
    /\ pc = "up"
    /\ \E guess \in BOOLEAN :
          \/ reply' = <<"has", k, /\ ~NotInTheSet(k, guess)
                                  /\ cache[k] # NotFound \/ db[k] # NotFound>>
          \/ /\ ~NotInTheSet(k, guess)
             /\ cache[k] = NotFound
             /\ reply' = <<"has", k, Failed>>
    /\ UNCHANGED <<db, memVars, fileVars, pc>>

\* freecache drops an entry, or addToCache could not set it.
Evict(k) ==
    /\ pc = "up"
    /\ cache[k] # NotFound
    /\ cache' = [cache EXCEPT ![k] = NotFound]
    /\ UNCHANGED <<db, filter, pairs, fileVars, pc, reply>>

-----------------------------------------------------------------------------
(* Writes                                                                  *)

Put(k, v) ==
    /\ pc = "up"
    /\ db' = [db EXCEPT ![k] = v]
    /\ filter' = filter \cup {k}
    /\ cache' = [cache EXCEPT ![k] = v]
    /\ UNCHANGED <<pairs, fileVars, pc, reply>>

Delete(k) ==
    /\ pc = "up"
    /\ cache' = [cache EXCEPT ![k] = NotFound]
    /\ db' = [db EXCEPT ![k] = NotFound]
    /\ UNCHANGED <<filter, pairs, fileVars, pc, reply>>

\* batch.Put, and batch.Delete with NotFound as the value.
BatchAdd(k, v) ==
    /\ pc = "up"
    /\ pairs' = [pairs EXCEPT ![k] = v]
    /\ UNCHANGED <<db, filter, cache, fileVars, pc, reply>>

BatchReset ==
    /\ pc = "up"
    /\ pairs' = KV!NoChanges
    /\ UNCHANGED <<db, filter, cache, fileVars, pc, reply>>

\* Mutant of Flush: deletions of the batch do not reach the cache.
Flush_NoCacheDelete ==
    /\ pc = "up"
    /\ pairs # KV!NoChanges
    /\ db' = KV!Apply(db, pairs)
    /\ cache' = [k \in Keys |-> IF db'[k] = NotFound THEN cache[k]
                                ELSE KV!Apply(cache, pairs)[k]]
    /\ filter' = filter \cup {k \in Keys : pairs[k] \in Vals}
    /\ pairs' = KV!NoChanges
    /\ UNCHANGED <<fileVars, pc, reply>>

\* Flush: LevelDB writes the batch, batch.addToCache and batch.addToFilter
\* repeat it, the batch is emptied.  A write that fails changes nothing.
Flush ==
    /\ pc = "up"
    /\ pairs # KV!NoChanges
    /\ db' = KV!Apply(db, pairs)
    /\ cache' = KV!Apply(cache, pairs)
    /\ filter' = filter \cup {k \in Keys : pairs[k] \in Vals}
    /\ pairs' = KV!NoChanges
    /\ UNCHANGED <<fileVars, pc, reply>>

-----------------------------------------------------------------------------

Next ==
    \/ NewKeyVal \/ LoadFilter \/ LoadFails \/ RebuildFilter
    \/ SaveData \/ RenameAndClose \/ SaveFails \/ Crash
    \/ \E k \in Keys : \/ GetCached(k) \/ GetFiltered(k) \/ GetFromDB(k)
                       \/ Has(k) \/ Evict(k) \/ Delete(k)
    \/ \E k \in Keys, v \in Vals : Put(k, v)
    \/ \E k \in Keys, v \in Vals \cup {NotFound} : BatchAdd(k, v)
    \/ BatchReset \/ Flush

Spec == Init /\ [][Next]_vars

-----------------------------------------------------------------------------
(* Properties                                                              *)

\* Types of the variables.
TypeOK ==
    /\ db \in [Keys -> Vals \cup {NotFound}]
    /\ filter \in SUBSET Keys
    /\ cache \in [Keys -> Vals \cup {NotFound}]
    /\ pairs \in [Keys -> KV!Changes]
    /\ file \in Files
    /\ tmp \in Files
    /\ pc \in {"down", "open", "load", "up", "save"}
    /\ left \in SUBSET Leftovers

\* While the database is open the Bloom filter knows every key that is in
\* it, whatever crashes, failed saves and failed loads came before: a filter
\* that is behind would hide blocks and balances from the node.  The only
\* exception is a filter that was loaded from a file which an earlier
\* opening had left in place, or was saved and loaded again since.
FilterKnowsEveryKey ==
    pc \in {"up", "save"} /\ "filter" \notin left => Present \subseteq filter

\* A filter file that the next start would trust knows every key of the
\* database, unless an opening has left it in place.  It holds because load
\* removes the file before the first write, and because closing replaces
\* also a file that was left.
StoredFilterIsCurrent ==
    file.state = "good" /\ "file" \notin left => Present \subseteq file.keys

\* Cache, filter and the filter's file are invisible up to the doubts that
\* KeyValue allows: reads answer from the present content, batches are
\* atomic and a restart changes nothing but the batch that was not flushed.
\* Only a failed read ("addToCache" of the empty value) makes its key
\* doubtful, and only a start after one that left the filter's file in place
\* others; a write makes a key readable again.
ImplementsKeyValue == KV!StoreSpec
=============================================================================
