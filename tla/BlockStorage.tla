---------------------------- MODULE BlockStorage ----------------------------
(***************************************************************************)
(* The block files of the state and the part of the database that tells    *)
(* how to read them (blockReadWriter and stateDB, pkg/state).              *)
(*                                                                         *)
(* Blocks live in three files: transactions, headers, and block IDs in the *)
(* order of heights.  The database holds the height, the offsets of every  *)
(* block (blockMeta), and from the activation of the feature BlockV5 on    *)
(* where in each file the protobuf format begins (protobufInfo).  An ID    *)
(* takes 64 bytes before the activation and 32 bytes after it, so whoever  *)
(* has a wrong protobufInfo reads IDs, headers and transactions wrongly.   *)
(*                                                                         *)
(* Adding blocks writes the files first and the database in one batch at   *)
(* the end; a rollback changes the database first and truncates the files  *)
(* after it.  The process may crash in between; opening the storage (and   *)
(* a failed addition) truncates the files to what the database knows.      *)
(*                                                                         *)
(* A block is identified by the contents of the blocks from the one after  *)
(* the genesis up to itself, as a hash identifies its ancestors.  A file   *)
(* is a sequence of cells: one cell per header, one per byte of            *)
(* transactions, two for a long ID and one for a short ID.                 *)
(***************************************************************************)
EXTENDS Integers, Sequences, SequencesExt, FiniteSets

CONSTANTS
    TxSizes,       \* sizes of a block's transactions, in cells
    Window,        \* FunctionalitySettings.ActivationWindowSize
    MaxRollback,   \* rollbackMaxBlocks
    Preactivated,  \* whether BlockV5 is one of the preactivated features
    MaxHeight,     \* heights explored (bound)
    MaxPack,       \* blocks of one addition explored (bound)
    NoBlock,       \* an ID that no block has
    ZeroCell       \* what Truncate appends to a file that is too short

ASSUME BlockStorageAssumption ==
    /\ TxSizes \subseteq Nat
    /\ Window \in Nat \ {0}
    /\ MaxRollback \in Nat \ {0}
    /\ Preactivated \in BOOLEAN
    /\ MaxHeight \in Nat
    /\ MaxPack \in Nat

VARIABLES
    file,     \* the files: blockchain, headers, blockHeight2ID
    buf,      \* their bufio writers
    rw,       \* counters and protobuf info of the blockReadWriter
    blockInfo,\* blockReadWriter.blockInfo: metas of the blocks being added
    batch,    \* dbBatch: what it says of the protobuf info
    blocksNum,\* stateDB.blocksNum
    lastBlock,\* stateManager.lastBlock, and in addBlocks the last block applied
    db,       \* the database
    pc,       \* where the state manager is
    misled    \* history: blocks were stored by a wrong protobuf info

vars == <<file, buf, rw, blockInfo, batch, blocksNum, lastBlock, db, pc, misled>>
memVars == <<buf, rw, blockInfo, batch, blocksNum, lastBlock>>

-----------------------------------------------------------------------------
(* Blocks and features                                                     *)

\* What tells a block from its siblings: the size of its transactions, and
\* whether the voting period that ends with it approves BlockV5.
Contents == [txs : TxSizes, approves : BOOLEAN]

ASSUME NoBlockAssumption == NoBlock \notin Seq(Contents)

Genesis == <<>>
Height(b) == Len(b) + 1
Ancestor(b, h) == SubSeq(b, 1, h - 1)
TxSize(b) == IF b = Genesis THEN 1 ELSE Last(b).txs

\* needToFinishVotingPeriod
NeedToFinishVotingPeriod(h) == (h + 1) % Window = 0

\* features.newestIsActivatedAtHeight for BlockV5 on the chain that ends
\* with b.  The approval is recorded at the height after the last block of
\* the period, the preactivated features at height 1 after the genesis.
IsActivatedAtHeight(b, h) ==
    \/ Preactivated /\ db.preactivated
    \/ \E i \in 1..Len(b) : b[i].approves /\ h >= i + 2 + Window

\* Validator.validBlockVersionAtHeight: the version a block must have.
IsProtobuf(b) == b # Genesis /\ IsActivatedAtHeight(Front(b), Height(b))

-----------------------------------------------------------------------------
(* Files                                                                   *)

NoProtobuf == [on |-> FALSE, tx |-> 0, hd |-> 0, after |-> 0]

\* blockID.Bytes(): 64 bytes of a signature or 32 bytes of a digest.
IdCells(b) ==
    IF IsProtobuf(b) THEN <<[block |-> b, part |-> "digest"]>>
    ELSE <<[block |-> b, part |-> "low"], [block |-> b, part |-> "high"]>>

\* heightToIDSize and heightToIDOffset; heights start from 0 here.
IdSize(p, h) == IF p.on /\ h >= p.after THEN 1 ELSE 2
IdOffset(p, h) == IF p.on /\ h > p.after THEN 2 * p.after + (h - p.after)
                  ELSE 2 * h

\* proto.NewBlockIDFromBytes of some cells of the ID file.
IdFromCells(s) ==
    IF \E b \in {s[i].block : i \in DOMAIN s} : IdCells(b) = s
    THEN s[1].block ELSE NoBlock

\* blockIDByHeightImpl: the ID at a height, with protobuf info p.  A read
\* past the end of the file is an error.
BlockIDByHeight(p, h) ==
    LET from == IdOffset(p, h - 1)
        to == from + IdSize(p, h - 1)
    IN  IF to > Len(file.id) THEN NoBlock
        ELSE IdFromCells(SubSeq(file.id, from + 1, to))

\* blockMeta and blockMetaByHeight
MetaOf(b) == CHOOSE m \in db.meta : m.block = b
HasMeta(b) == \E m \in db.meta : m.block = b

\* Truncate and Seek: a file that is too short is filled with zeroes.
CutTo(s, n) == [i \in 1..n |-> IF i <= Len(s) THEN s[i] ELSE ZeroCell]

EmptyFiles == [tx |-> <<>>, hd |-> <<>>, id |-> <<>>]

\* Files after some prefix of every buffer has been written to them.
Written(t, h, i) ==
    [tx |-> file.tx \o SubSeq(buf.tx, 1, t),
     hd |-> file.hd \o SubSeq(buf.hd, 1, h),
     id |-> file.id \o SubSeq(buf.id, 1, i)]

AllWritten == Written(Len(buf.tx), Len(buf.hd), Len(buf.id))

SomeWritten == {Written(t, h, i) : t \in 0..Len(buf.tx),
                                   h \in 0..Len(buf.hd), i \in 0..Len(buf.id)}

\* Offsets to which blockReadWriter.rollback truncates the files.
Ends ==
    IF db.height = 0 THEN [tx |-> 0, hd |-> 0, id |-> 0]
    ELSE LET m == MetaOf(BlockIDByHeight(rw.pb, db.height))
         IN  [tx |-> m.txEnd, hd |-> m.hdEnd, id |-> IdOffset(rw.pb, db.height)]

\* Files after the first n of the three have been truncated.
Truncated(n) ==
    [tx |-> IF n > 0 THEN CutTo(file.tx, Ends.tx) ELSE file.tx,
     hd |-> IF n > 1 THEN CutTo(file.hd, Ends.hd) ELSE file.hd,
     id |-> IF n > 2 THEN CutTo(file.id, Ends.id) ELSE file.id]

-----------------------------------------------------------------------------
(* Memory and the batch                                                    *)

NoChange == [changed |-> FALSE, pb |-> NoProtobuf]

ClosedRW == [height |-> 0, txLen |-> 0, hdLen |-> 0, pb |-> NoProtobuf]

\* setProtobufActivated by checkProtobufActivation(h), b the newest block;
\* r and c are the blockReadWriter and the batch before it.
ActivatedRW(r, b, h) ==
    IF ~r.pb.on /\ IsActivatedAtHeight(b, h)
    THEN [r EXCEPT !.pb = [on |-> TRUE, tx |-> r.txLen, hd |-> r.hdLen,
                           after |-> r.height]]
    ELSE r

StoredInfo(c, r, r1) ==
    IF r.pb = r1.pb THEN c ELSE [changed |-> TRUE, pb |-> r1.pb]

\* startBlock, writeBlockHeader, writeTransaction for every transaction and
\* finishBlock: the buffers, the counters and the meta of block b.
WrittenBuf(b) ==
    [tx |-> buf.tx \o [i \in 1..TxSize(b) |-> [block |-> b, pb |-> rw.pb.on]],
     hd |-> Append(buf.hd, [block |-> b, pb |-> rw.pb.on]),
     id |-> buf.id \o IdCells(b)]

WrittenRW(b) == [height |-> rw.height + 1, txLen |-> rw.txLen + TxSize(b),
                 hdLen |-> rw.hdLen + 1, pb |-> rw.pb]

MetaFor(b) ==
    [block |-> b, height |-> rw.height + 1,
     txStart |-> rw.txLen, txEnd |-> rw.txLen + TxSize(b),
     hdStart |-> rw.hdLen, hdEnd |-> rw.hdLen + 1]

\* calculateNewRollbackMinHeight
NewRollbackMinHeight(h) ==
    IF h < db.min \/ h - db.min < MaxRollback THEN db.min ELSE h - MaxRollback

\* stateDB.flush: the counters and the whole batch, in one write.
Flushed ==
    [height |-> db.height + blocksNum,
     min |-> NewRollbackMinHeight(db.height + blocksNum),
     meta |-> db.meta \cup blockInfo,
     pb |-> IF batch.changed THEN batch.pb ELSE db.pb,
     preactivated |-> db.preactivated]

-----------------------------------------------------------------------------
(* Starting                                                                *)

Init ==
    /\ file = EmptyFiles
    /\ buf = EmptyFiles
    /\ rw = ClosedRW
    /\ blockInfo = {}
    /\ batch = NoChange
    /\ blocksNum = 0
    /\ lastBlock = NoBlock
    /\ db = [height |-> 0, min |-> 1, meta |-> {}, pb |-> NoProtobuf,
             preactivated |-> FALSE]
    /\ pc = "down"
    /\ misled = FALSE

\* newStateDB and newBlockReadWriter up to syncWithDb.
Open ==
    /\ pc = "down"
    /\ rw' = [height |-> db.height, txLen |-> Len(file.tx),
              hdLen |-> Len(file.hd), pb |-> db.pb]
    /\ pc' = "opening"
    /\ UNCHANGED <<file, buf, blockInfo, batch, blocksNum, lastBlock, db, misled>>

\* initGenesis: the genesis block goes to the files ...
WriteGenesis ==
    /\ pc = "genesis"
    /\ buf' = WrittenBuf(Genesis)
    /\ rw' = WrittenRW(Genesis)
    /\ blockInfo' = {MetaFor(Genesis)}
    /\ blocksNum' = 1
    /\ lastBlock' = Genesis
    /\ pc' = "writing genesis"
    /\ UNCHANGED <<file, batch, db, misled>>

\* ... and to the database (addGenesisBlock), ...
FlushGenesis ==
    /\ pc = "writing genesis"
    /\ file' = AllWritten
    /\ buf' = EmptyFiles
    /\ db' = Flushed
    /\ blockInfo' = {}
    /\ batch' = NoChange
    /\ blocksNum' = 0
    /\ pc' = "preactivating"
    /\ UNCHANGED <<rw, lastBlock, misled>>

\* ... and the preactivated features after it, in a batch of their own.
ApplyPreActivatedFeatures ==
    /\ pc = "preactivating"
    /\ db' = [db EXCEPT !.preactivated = TRUE]
    /\ pc' = "loading"
    /\ UNCHANGED <<file, memVars, misled>>

\* The end of newStateManager: loadLastBlock and checkProtobufActivation.
FinishOpening ==
    /\ pc = "loading"
    /\ BlockIDByHeight(rw.pb, db.height) # NoBlock
    /\ lastBlock' = BlockIDByHeight(rw.pb, db.height)
    /\ rw' = ActivatedRW(rw, lastBlock', db.height + 1)
    /\ batch' = StoredInfo(batch, rw, rw')
    /\ pc' = "up"
    /\ UNCHANGED <<file, buf, blockInfo, blocksNum, db, misled>>

-----------------------------------------------------------------------------
(* Syncing with the database                                               *)

\* Mutant of RemoveProtobufInfo: the info goes also when the transactions end
\* where it begins.
RemoveProtobufInfo_AlsoAtStart == db.height = 0 \/ Ends.tx <= rw.pb.tx

\* blockReadWriter.rollback drops the protobuf info when the transactions
\* end before the first protobuf transaction.  If the last block before it is
\* empty, they end there also when that block is removed, and the info stays.
RemoveProtobufInfo == db.height = 0 \/ Ends.tx < rw.pb.tx

\* syncWithDb: rollback to the height of the database, truncate.  The files
\* are truncated one after the other, see Crash.
SyncWithDb ==
    /\ pc \in {"opening", "syncing"}
    /\ db.height = 0 \/ HasMeta(BlockIDByHeight(rw.pb, db.height))
    /\ file' = Truncated(3)
    /\ buf' = EmptyFiles
    /\ rw' = [height |-> db.height, txLen |-> Ends.tx, hdLen |-> Ends.hd,
              pb |-> IF RemoveProtobufInfo THEN NoProtobuf ELSE rw.pb]
    /\ batch' = IF RemoveProtobufInfo THEN [changed |-> TRUE, pb |-> NoProtobuf]
                ELSE batch
    /\ pc' = CASE pc = "syncing" -> "up"
               [] pc = "opening" /\ db.height = 0 -> "genesis"
               [] pc = "opening" /\ db.height > 0 -> "loading"
    /\ UNCHANGED <<blockInfo, blocksNum, lastBlock, db, misled>>

-----------------------------------------------------------------------------
(* Adding blocks                                                           *)

\* addBlocks, one turn of the loop: processBlockInPack of a block on top of
\* the last one.  The new info of an activation goes to the batch.
ProcessBlock(c) ==
    /\ pc \in {"up", "adding"}
    /\ blocksNum < MaxPack
    /\ rw.height < MaxHeight
    /\ c.approves => NeedToFinishVotingPeriod(rw.height + 1)
    /\ LET b == Append(lastBlock, c)
       IN  /\ buf' = WrittenBuf(b)
           /\ blockInfo' = blockInfo \cup {MetaFor(b)}
           /\ rw' = IF NeedToFinishVotingPeriod(Height(b))
                    THEN ActivatedRW(WrittenRW(b), b, Height(b) + 1)
                    ELSE WrittenRW(b)
           /\ lastBlock' = b
    /\ batch' = StoredInfo(batch, rw, rw')
    /\ blocksNum' = blocksNum + 1
    /\ pc' = "adding"
    /\ UNCHANGED <<file, db, misled>>

\* stateManager.flush, first part: blockReadWriter.flush empties the buffers.
FlushFiles ==
    /\ pc = "adding"
    /\ file' = AllWritten
    /\ buf' = EmptyFiles
    /\ pc' = "flushing"
    /\ UNCHANGED <<rw, blockInfo, batch, blocksNum, lastBlock, db, misled>>

\* The blocks of this addition are stored by a wrong protobuf info: one was
\* written in the format of the other side of the activation, or the storage
\* goes by an info that the next start will not find.  Both happen, see
\* RemoveProtobufInfo and StoredInfo.
StoresByWrongInfo ==
    \/ rw.pb # Flushed.pb
    \/ \E m \in blockInfo : file.hd[m.hdEnd].pb # IsProtobuf(m.block)

\* The last part: stateDB.flush writes the batch; the deferred calls of
\* addBlocks reset the memory and load the last block.
FlushDB ==
    /\ pc = "flushing"
    /\ db' = Flushed
    /\ blockInfo' = {}
    /\ batch' = NoChange
    /\ blocksNum' = 0
    /\ lastBlock' = BlockIDByHeight(rw.pb, db'.height)
    /\ pc' = "up"
    /\ misled' = (misled \/ StoresByWrongInfo)
    /\ UNCHANGED <<file, buf, rw>>

\* Mutant of AddBlocksFails: the files are not synced with the database.
AddBlocksFails_NoSync ==
    /\ pc \in {"up", "adding", "flushing"}
    /\ BlockIDByHeight(rw.pb, db.height) # NoBlock
    /\ file' \in SomeWritten
    /\ buf' = EmptyFiles
    /\ blockInfo' = {}
    /\ batch' = NoChange
    /\ blocksNum' = 0
    /\ lastBlock' = BlockIDByHeight(rw.pb, db.height)
    /\ pc' = "up"
    /\ UNCHANGED <<rw, db, misled>>

\* addBlocks fails: a block is refused, or a write fails.  Full buffers may
\* have been written before.  The memory is reset, the last block of the
\* database loaded, and AddBlocks and its kin call syncWithDb.
AddBlocksFails ==
    /\ pc \in {"up", "adding", "flushing"}
    /\ BlockIDByHeight(rw.pb, db.height) # NoBlock
    /\ file' \in SomeWritten
    /\ buf' = EmptyFiles
    /\ blockInfo' = {}
    /\ batch' = NoChange
    /\ blocksNum' = 0
    /\ lastBlock' = BlockIDByHeight(rw.pb, db.height)
    /\ pc' = "syncing"
    /\ UNCHANGED <<rw, db, misled>>

-----------------------------------------------------------------------------
(* Rollback                                                                *)

\* Mutant of Rollback: the first block above the edge keeps its meta.
Rollback_OneTooHigh(h) ==
    /\ pc = "up"
    /\ h \in db.min..db.height
    /\ \A i \in h..db.height : HasMeta(BlockIDByHeight(rw.pb, i))
    /\ LET gone == {BlockIDByHeight(rw.pb, i) : i \in h + 2..db.height}
       IN  db' = [db EXCEPT !.height = h,
                            !.meta = {m \in @ : m.block \notin gone},
                            !.pb = IF batch.changed THEN batch.pb ELSE @]
    /\ batch' = NoChange
    /\ lastBlock' = BlockIDByHeight(rw.pb, h)
    /\ pc' = "syncing"
    /\ UNCHANGED <<file, buf, rw, blockInfo, blocksNum, misled>>

\* RollbackToHeight: stateDB.rollback removes the blocks above h (their IDs
\* are read from the file) and flushes the batch, the files follow.
Rollback(h) ==
    /\ pc = "up"
    /\ h \in db.min..db.height
    /\ \A i \in h..db.height : HasMeta(BlockIDByHeight(rw.pb, i))
    /\ LET gone == {BlockIDByHeight(rw.pb, i) : i \in h + 1..db.height}
       IN  db' = [db EXCEPT !.height = h,
                            !.meta = {m \in @ : m.block \notin gone},
                            !.pb = IF batch.changed THEN batch.pb ELSE @]
    /\ batch' = NoChange
    /\ lastBlock' = BlockIDByHeight(rw.pb, h)
    /\ pc' = "syncing"
    /\ UNCHANGED <<file, buf, rw, blockInfo, blocksNum, misled>>

\* The database part of a rollback fails: stateDB.reset drops the batch.
RollbackFails ==
    /\ pc = "up"
    /\ batch' = NoChange
    /\ UNCHANGED <<file, buf, rw, blockInfo, blocksNum, lastBlock, db, pc, misled>>

-----------------------------------------------------------------------------
(* Crash                                                                   *)

\* The process ends, in the middle of truncating the files perhaps, or with
\* some of the buffers written.  (Close flushes nothing either.)
Crash ==
    /\ pc # "down"
    /\ file' \in IF pc \in {"opening", "syncing"}
                 THEN {Truncated(n) : n \in 0..3} ELSE SomeWritten
    /\ buf' = EmptyFiles
    /\ rw' = ClosedRW
    /\ blockInfo' = {}
    /\ batch' = NoChange
    /\ blocksNum' = 0
    /\ lastBlock' = NoBlock
    /\ pc' = "down"
    /\ UNCHANGED <<db, misled>>

-----------------------------------------------------------------------------

Next ==
    \/ Open \/ WriteGenesis \/ FlushGenesis \/ ApplyPreActivatedFeatures
    \/ FinishOpening \/ SyncWithDb
    \/ \E c \in Contents : ProcessBlock(c)
    \/ FlushFiles \/ FlushDB \/ AddBlocksFails
    \/ \E h \in 1..MaxHeight : Rollback(h)
    \/ RollbackFails
    \/ Crash

Spec == Init /\ [][Next]_vars

-----------------------------------------------------------------------------
(* Properties                                                              *)

\* The protobuf info that reads go by: the one in memory, or the one in the
\* database that the next start loads.
CurrentInfo == IF pc = "down" THEN db.pb ELSE rw.pb

\* The top block as it reads now.
StoredTop ==
    IF db.height = 0 THEN NoBlock ELSE BlockIDByHeight(CurrentInfo, db.height)

\* Block b, whose meta is m, can be read back with protobuf info p: the
\* header and the transactions are where the meta says, written in the
\* format in which they are read (headerByBounds, readBlock).
ReadsBack(p, b, m) ==
    /\ m.hdEnd = m.hdStart + 1 /\ m.hdEnd <= Len(file.hd)
    /\ file.hd[m.hdEnd] = [block |-> b, pb |-> p.on /\ m.hdStart >= p.hd]
    /\ m.txEnd = m.txStart + TxSize(b) /\ m.txEnd <= Len(file.tx)
    /\ \A i \in m.txStart + 1..m.txEnd :
          file.tx[i] = [block |-> b, pb |-> p.on /\ m.txStart >= p.tx]

\* At any moment, also in the middle of a rollback or of adding blocks, after
\* a crash, and with protobuf info in memory of an activation that was undone,
\* every block up to the height of the database reads back from the files: the
\* IDs form one chain and each block is found whole, in the format in which it
\* was written.  The database has no meta of any other block, although a
\* rollback finds those to delete through the file.  The one exception: blocks
\* were stored by a wrong info.
StoredChainReadsBack ==
    ~misled /\ db.height > 0 =>
        /\ StoredTop # NoBlock /\ Height(StoredTop) = db.height
        /\ \A h \in 1..db.height :
              LET b == BlockIDByHeight(CurrentInfo, h)
              IN  /\ b = Ancestor(StoredTop, h)
                  /\ HasMeta(b)
                  /\ ReadsBack(CurrentInfo, b, MetaOf(b))
        /\ Cardinality(db.meta) = db.height

\* Between two operations the counters of the block storage are the lengths
\* of the files and of the database: the next block is written where its
\* meta will say ("Block that is not present in DB should be removed after
\* sync", TestSyncWithDb).  The exception is the same.
CountersMatchFiles ==
    ~misled /\ pc = "up" =>
        /\ rw.height = db.height
        /\ rw.txLen = Len(file.tx) /\ rw.hdLen = Len(file.hd)
        /\ Len(file.id) = IdOffset(rw.pb, rw.height)
        /\ lastBlock = StoredTop

\* "Nothing found, means protobuf is not yet activated" (loadProtobufInfo):
\* without protobuf info in the database none of the stored blocks is a
\* protobuf block.  Not so: an info that was kept in memory after its batch was
\* dropped is never stored again.
NothingFoundMeansNotActivated ==
    ~db.pb.on => \A m \in db.meta : ~IsProtobuf(m.block)

\* Between two operations the storage is set to protobuf if the next block is
\* a protobuf block: whatever was refused, rolled back, lost in a crash or kept
\* by mistake before, the activation on the stored chain is not missed.  (The
\* converse does not hold, see RemoveProtobufInfo.)
ActivationIsNotForgotten ==
    ~misled /\ pc = "up" /\ IsActivatedAtHeight(lastBlock, db.height + 1)
        => rw.pb.on

\* A bound for TLC: nothing is claimed of what follows blocks that were stored
\* by a wrong info, and their successors are not explored.
NotMisled == ~misled
=============================================================================
