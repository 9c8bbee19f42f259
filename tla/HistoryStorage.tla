--------------------------- MODULE HistoryStorage ---------------------------
(***************************************************************************)
(* Histories of the entities of the state (historyStorage with its         *)
(* formatter, and the block numbers of stateDB, pkg/state).                *)
(*                                                                         *)
(* Balances, scripts, leases and all other entities are kept as histories: *)
(* a record per block that changed the entity, marked with the number of   *)
(* that block.  A rollback does not touch histories.  It makes the numbers *)
(* of the removed blocks invalid, and whoever reads a history afterwards   *)
(* filters records with invalid numbers off its end.  Histories are cut at *)
(* the lowest height to which a rollback is allowed.  Both, the filtered   *)
(* and the cut history, are written to the database directly, beside the   *)
(* batch, so that they stay when the addition of blocks fails.             *)
(*                                                                         *)
(* A block is identified by the contents of the blocks from the one after  *)
(* the genesis up to itself; it may be removed and added again.  That IDs  *)
(* in the block files agree with the database is shown in BlockStorage.    *)
(***************************************************************************)
EXTENDS Integers, Sequences, FiniteSets

CONSTANTS
    Keys,         \* keys of entities
    NotCut,       \* keys of a type whose histories are not cut (featureVote)
    Contents,     \* what a block may do: how often it writes to each key
    MaxRollback,  \* rollbackMaxBlocks
    MaxHeight,    \* heights explored (bound)
    MaxPack,      \* blocks of one addition explored (bound)
    MaxNum,       \* block numbers explored (bound)
    NoData        \* what a read returns if there is no record

ASSUME HistoryAssumption ==
    /\ Contents \subseteq [Keys -> Nat]
    /\ NotCut \subseteq Keys
    /\ MaxRollback \in Nat \ {0}
    /\ MaxHeight \in Nat /\ MaxPack \in Nat /\ MaxNum \in Nat

ASSUME NoDataAssumption == NoData \notin [block : Seq(Contents), nth : Nat]

VARIABLES
    \* The database.
    top,         \* the last stored block
    minHeight,   \* rollbackMinHeight
    lastNum,     \* lastBlockNum
    idToNum,     \* block IDs to block numbers
    validNums,   \* numbers of valid blocks
    hist,        \* the histories
    storedAmend, \* stateInfo.Amend
    \* The process.
    pc,
    amend,       \* historyStorage.amend
    removes,     \* whether the process removes blocks
    newest,      \* the last block that was applied
    todo,        \* writes that the block being applied has yet to make
    newNum,      \* newestBlockId2Num
    stor,        \* localHistoryStorage
    batch        \* the histories in dbBatch

numVars == <<lastNum, idToNum, validNums>>
memVars == <<newest, todo, newNum, stor, batch>>
vars == <<top, minHeight, numVars, hist, storedAmend, pc, amend, removes, memVars>>

-----------------------------------------------------------------------------
(* Blocks                                                                  *)

Genesis == <<>>
Height(b) == Len(b) + 1
Ancestor(b, h) == SubSeq(b, 1, h - 1)

\* Function f on the union of both domains, g where both are defined.
Updated(f, g) ==
    [x \in DOMAIN f \cup DOMAIN g |-> IF x \in DOMAIN g THEN g[x] ELSE f[x]]

-----------------------------------------------------------------------------
(* Histories                                                               *)

\* Number of records at the start of s with a number below n.
CountBelow(s, n) ==
    CHOOSE c \in 0..Len(s) :
        /\ \A i \in 1..c : s[i].num < n
        /\ c < Len(s) => s[c + 1].num >= n

\* filter: records of invalid blocks are erased from the end on, up to the
\* last record of a valid block.
Filter(s) ==
    LET n == CHOOSE n \in 0..Len(s) :
                /\ n > 0 => s[n].num \in validNums
                /\ \A i \in n + 1..Len(s) : s[i].num \notin validNums
    IN  SubSeq(s, 1, n)

\* calculateMinAcceptableBlockNum
MinAcceptableBlockNum == idToNum[Ancestor(top, minHeight)]

\* cut: of the records older than the window the last one stays.
Cut(s) ==
    LET old == CountBelow(s, MinAcceptableBlockNum)
    IN  IF old = 0 THEN s ELSE SubSeq(s, old, Len(s))

\* normalize
Normalized(k) ==
    LET filtered == IF amend THEN Filter(hist[k]) ELSE hist[k]
    IN  IF k \in NotCut THEN filtered ELSE Cut(filtered)

\* appendEntry: a second record of the same block replaces the first.
AppendEntry(s, r) ==
    IF s # <<>> /\ s[Len(s)].num = r.num
    THEN [s EXCEPT ![Len(s)] = r] ELSE Append(s, r)

-----------------------------------------------------------------------------
(* Reads                                                                   *)

\* data of the last record, as topEntryData returns it.
TopData(s) == IF s = <<>> THEN NoData ELSE s[Len(s)].data

\* entryDataAtHeight: the last record before the first with a larger number.
EntryDataAtHeight(k, h) ==
    LET s == Normalized(k)
    IN  TopData(SubSeq(s, 1, CountBelow(s, idToNum[Ancestor(top, h)] + 1)))

\* newestTopEntryData
NewestTopEntryData(k) ==
    IF stor[k] # <<>> THEN TopData(stor[k]) ELSE TopData(Normalized(k))

\* fullHistory
FullHistory(k) == Normalized(k) \o stor[k]

\* newestBlockNumByHeight
NewestNum(b) == IF b \in DOMAIN newNum THEN newNum[b] ELSE idToNum[b]

\* newestEntriesDataInHeightRange with blockRangeEntries
NewestEntriesDataInHeightRange(k, from, to) ==
    LET s == FullHistory(k)
        first == CountBelow(s, NewestNum(Ancestor(newest, from)) + 1)
        last == CountBelow(s, NewestNum(Ancestor(newest, to)) + 1)
    IN  {s[i].data : i \in (IF first = 0 THEN 1 ELSE first)..last}

-----------------------------------------------------------------------------
(* Starting                                                                *)

NoHistories == [k \in Keys |-> <<>>]
NoNums == [b \in {} |-> 0]
NoWrites == [k \in Keys |-> 0]

\* The genesis block is stored with number 0; it writes nothing here.
Init ==
    /\ top = Genesis
    /\ minHeight = 1
    /\ lastNum = 1
    /\ idToNum = [b \in {Genesis} |-> 0]
    /\ validNums = {0}
    /\ hist = NoHistories
    /\ storedAmend = FALSE
    /\ pc = "down"
    /\ amend = FALSE
    /\ removes = FALSE
    /\ newest = Genesis
    /\ todo = NoWrites
    /\ newNum = NoNums
    /\ stor = NoHistories
    /\ batch = NoNums

\* Mutant of HandleAmendFlag: the flag of an earlier process is forgotten.
HandleAmendFlag_Forgets(flag) == flag

\* handleAmendFlagV2
HandleAmendFlag(flag) == storedAmend \/ flag

\* A process opens the state, the node with flag amend and the importer
\* without it; only the former removes blocks.
Open(flag) ==
    /\ pc = "down"
    /\ amend' = HandleAmendFlag(flag)
    /\ storedAmend' = amend'
    /\ removes' = flag
    /\ newest' = top
    /\ pc' = "idle"
    /\ UNCHANGED <<top, minHeight, numVars, hist, todo, newNum, stor, batch>>

-----------------------------------------------------------------------------
(* Adding blocks                                                           *)

\* stateDB.reset and historyStorage.reset
Reset(b) ==
    /\ newest' = b
    /\ todo' = NoWrites
    /\ newNum' = NoNums
    /\ stor' = NoHistories
    /\ batch' = NoNums

\* The number that stateDB.addBlock gives to a block.
NewBlockNum(b) ==
    IF b \in DOMAIN idToNum THEN idToNum[b]
    ELSE lastNum + Cardinality(DOMAIN newNum)

\* stateDB.addBlock, before the transactions of the block are performed.
AddBlock(c) ==
    LET b == Append(newest, c)
        n == NewBlockNum(b)
    IN  /\ pc \in {"idle", "adding"} /\ todo = NoWrites
        /\ Cardinality(DOMAIN newNum) < MaxPack
        /\ Height(newest) < MaxHeight
        /\ lastNum + Cardinality(DOMAIN newNum) < MaxNum
        /\ newest' = b
        /\ newNum' = IF b \in DOMAIN idToNum THEN newNum
                     ELSE Updated(newNum, [x \in {b} |-> n])
        /\ todo' = c
        /\ pc' = "adding"
        /\ UNCHANGED <<top, minHeight, numVars, hist, storedAmend, amend, removes,
                       stor, batch>>

\* addNewEntry: the block writes to key k, maybe not for the first time.
AddNewEntry(k) ==
    /\ pc = "adding" /\ todo[k] > 0
    /\ LET nth == newest[Len(newest)][k] - todo[k] + 1
           entry == [data |-> [block |-> newest, nth |-> nth], num |-> NewestNum(newest)]
       IN  stor' = [stor EXCEPT ![k] = AppendEntry(@, entry)]
    /\ todo' = [todo EXCEPT ![k] = @ - 1]
    /\ UNCHANGED <<top, minHeight, numVars, hist, storedAmend, pc, amend, removes,
                   newest, newNum, batch>>

\* getHistory with update: the normalized history is put to the database
\* directly (manageDbUpdate).  The generating balance is read in this way.
UpdateHistory(k) ==
    /\ pc \in {"idle", "adding"}
    /\ hist' = [hist EXCEPT ![k] = Normalized(k)]
    /\ UNCHANGED <<top, minHeight, numVars, storedAmend, pc, amend, removes, memVars>>

\* Mutant of FlushHistory: the combined history is put beside the batch.
FlushHistory_Direct(k) ==
    /\ pc \in {"adding", "flushing"} /\ todo = NoWrites
    /\ stor[k] # <<>> /\ k \notin DOMAIN batch
    /\ hist' = [hist EXCEPT ![k] = FullHistory(k)]
    /\ batch' = Updated(batch, [x \in {k} |-> FullHistory(k)])
    /\ pc' = "flushing"
    /\ UNCHANGED <<top, minHeight, numVars, storedAmend, amend, removes,
                   newest, todo, newNum, stor>>

\* historyStorage.flush, one key: combineHistories updates the old history
\* directly and puts the combined one into the batch.
FlushHistory(k) ==
    /\ pc \in {"adding", "flushing"} /\ todo = NoWrites
    /\ stor[k] # <<>> /\ k \notin DOMAIN batch
    /\ hist' = [hist EXCEPT ![k] = Normalized(k)]
    /\ batch' = Updated(batch, [x \in {k} |-> FullHistory(k)])
    /\ pc' = "flushing"
    /\ UNCHANGED <<top, minHeight, numVars, storedAmend, amend, removes,
                   newest, todo, newNum, stor>>

\* calculateNewRollbackMinHeight
NewRollbackMinHeight(h) ==
    IF h < minHeight \/ h - minHeight < MaxRollback THEN minHeight
    ELSE h - MaxRollback

\* stateDB.flush: the batch is written in one step.
FlushDB ==
    /\ pc \in {"adding", "flushing"} /\ todo = NoWrites
    /\ \A k \in Keys : stor[k] # <<>> => k \in DOMAIN batch
    /\ top' = newest
    /\ minHeight' = NewRollbackMinHeight(Height(newest))
    /\ lastNum' = lastNum + Cardinality(DOMAIN newNum)
    /\ idToNum' = Updated(idToNum, newNum)
    /\ validNums' = validNums \cup {newNum[b] : b \in DOMAIN newNum}
    /\ hist' = Updated(hist, batch)
    /\ Reset(newest)
    /\ pc' = "idle"
    /\ UNCHANGED <<storedAmend, amend, removes>>

\* A block is refused or the flush fails: what is in memory is dropped.
AddFails ==
    /\ pc \in {"adding", "flushing"}
    /\ Reset(top)
    /\ pc' = "idle"
    /\ UNCHANGED <<top, minHeight, numVars, hist, storedAmend, amend, removes>>

-----------------------------------------------------------------------------
(* Rollback                                                                *)

\* Mutant of Rollback: the numbers of removed blocks are given out again.
Rollback_ReusesNumbers(h) ==
    /\ pc = "idle" /\ removes
    /\ h \in minHeight..Height(top)
    /\ LET edge == Ancestor(top, h)
           gone == {Ancestor(top, i) : i \in h + 1..Height(top)}
       IN  /\ top' = edge
           /\ newest' = edge
           /\ validNums' = validNums \ {idToNum[b] : b \in gone}
           /\ idToNum' = [b \in DOMAIN idToNum \ gone |-> idToNum[b]]
           /\ lastNum' = idToNum[edge] + 1
    /\ UNCHANGED <<minHeight, hist, storedAmend, pc, amend, removes,
                   todo, newNum, stor, batch>>

\* RollbackToHeight: checkRollbackHeight, stateDB.rollback with
\* rollbackBlock for each block above h.  No history is touched.
Rollback(h) ==
    /\ pc = "idle" /\ removes
    /\ h \in minHeight..Height(top)
    /\ LET edge == Ancestor(top, h)
           gone == {Ancestor(top, i) : i \in h + 1..Height(top)}
       IN  /\ top' = edge
           /\ newest' = edge
           /\ validNums' = validNums \ {idToNum[b] : b \in gone}
           /\ idToNum' = [b \in DOMAIN idToNum \ gone |-> idToNum[b]]
    /\ UNCHANGED <<minHeight, lastNum, hist, storedAmend, pc, amend, removes,
                   todo, newNum, stor, batch>>

\* The process ends, with or without Close.
Crash ==
    /\ pc # "down"
    /\ Reset(top)
    /\ pc' = "down"
    /\ UNCHANGED <<top, minHeight, numVars, hist, storedAmend, amend, removes>>

-----------------------------------------------------------------------------

Next ==
    \/ \E flag \in BOOLEAN : Open(flag)
    \/ \E c \in Contents : AddBlock(c)
    \/ \E k \in Keys : AddNewEntry(k) \/ UpdateHistory(k) \/ FlushHistory(k)
    \/ FlushDB \/ AddFails
    \/ \E h \in 1..MaxHeight : Rollback(h)
    \/ Crash

Spec == Init /\ [][Next]_vars

-----------------------------------------------------------------------------
(* Properties                                                              *)

Blocks == Seq(Contents)
Records == [data : [block : Blocks, nth : Nat], num : Nat]
Histories == Seq(Records)

\* Types of the variables.
TypeOK ==
    /\ top \in Blocks /\ newest \in Blocks
    /\ minHeight \in Nat \ {0}
    /\ lastNum \in Nat
    /\ DOMAIN idToNum \subseteq Blocks /\ DOMAIN newNum \subseteq Blocks
    /\ IsFiniteSet(DOMAIN newNum)
    /\ \A b \in DOMAIN idToNum : idToNum[b] \in Nat
    /\ \A b \in DOMAIN newNum : newNum[b] \in Nat
    /\ hist \in [Keys -> Histories] /\ stor \in [Keys -> Histories]
    /\ DOMAIN batch \subseteq Keys
    /\ \A k \in DOMAIN batch : batch[k] \in Histories
    /\ todo \in [Keys -> Nat]
    /\ storedAmend \in BOOLEAN /\ amend \in BOOLEAN /\ removes \in BOOLEAN
    /\ pc \in {"down", "idle", "adding", "flushing"}

\* The reference: what key k holds on the chain that ends with b, the last
\* write of the newest block that wrote to k.
ValueAt(b, k) ==
    LET writers == {i \in 1..Len(b) : b[i][k] > 0}
        i == CHOOSE i \in writers : \A j \in writers : j <= i
    IN  IF writers = {} THEN NoData
        ELSE [block |-> SubSeq(b, 1, i), nth |-> b[i][k]]

\* Heights at which a history can tell the value.
Window(k, b) == (IF k \in NotCut THEN 1 ELSE minHeight)..Height(b)

\* Whatever was rolled back, cut, added in part or interrupted before, a read
\* at any height to which the state could still be rolled back (at any height
\* at all for votes) returns what the blocks of the stored chain wrote.
HistoriesMatchChain ==
    pc # "down" =>
        \A k \in Keys : \A h \in Window(k, top) :
            EntryDataAtHeight(k, h) = ValueAt(Ancestor(top, h), k)

\* While blocks are added, the newest value and the values over a range of
\* heights, as the generating balance reads them, are those of the chain that
\* the new blocks make, for each key to which the last of them has written.
NewestMatchesChain ==
    pc # "down" =>
        \A k \in {k \in Keys : todo[k] = 0} :
            /\ NewestTopEntryData(k) = ValueAt(newest, k)
            /\ \A from \in Window(k, newest) : \A to \in from..Height(newest) :
                  NewestEntriesDataInHeightRange(k, from, to)
                    = {ValueAt(Ancestor(newest, h), k) : h \in from..to} \ {NoData}

\* A record of a removed block never becomes valid again, also when the same
\* block is added again: its number is given to no second block.
RemovedStaysRemoved ==
    [][\A k \in Keys : \A i \in 1..Len(hist[k]) :
          hist[k][i].num \in validNums' => hist[k][i].num \in validNums]_vars
=============================================================================
