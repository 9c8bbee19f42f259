--------------------------- MODULE BlocksApplier ---------------------------
(***************************************************************************)
(* How blocks reach the ledger: pkg/node/blocks_applier, the handlers of   *)
(* pkg/node/fsm that call it, the part of pkg/state they write through and *)
(* its thread-safe wrapper, and the rollback calls of the node's HTTP API, *)
(* which run in goroutines of their own.                                   *)
(*                                                                         *)
(* A handler goes through several calls of the storage, so it is a process *)
(* with a program counter: a crash, a storage failure or an API rollback   *)
(* may come between any two of them.  Sync batches, NG's mined blocks and  *)
(* microblocks are applied inside storage.Map, which keeps the wrapper's   *)
(* flag for the whole operation; NG's Block, Sync's MinedBlock and the     *)
(* block completed by a snapshot take it for each call alone.  The reads   *)
(* that make one decision are one step: an API rollback between two of     *)
(* them either fails the operation, as StorageFails does, or has the       *)
(* effect of coming after them.                                            *)
(***************************************************************************)
EXTENDS Chains

CONSTANTS
    MaxRollbackDelta,   \* maxRollbackDeltaHeight (100 in the code)
    RollbackMaxBlocks,  \* rollbackMaxBlocks (2000 in the code)
    LightMode,          \* enableLightMode
    StorageMayFail,     \* may calls of the storage return an I/O error?
    MaxBatch,           \* blocks in a synchronized batch (bound)
    MaxApiCalls,        \* rollbacks ordered through the API (bound)
    MaxCrashes          \* crashes of the process (bound)

ASSUME BlocksApplierAssumption ==
    /\ MaxRollbackDelta \in Nat \ {0}
    /\ RollbackMaxBlocks \in Nat \ {0}
    /\ LightMode \in BOOLEAN
    /\ StorageMayFail \in BOOLEAN
    /\ {MaxBatch, MaxApiCalls, MaxCrashes} \subseteq Nat

VARIABLES
    chain,           \* the blocks in the storage, which survive a crash
    minHeight,       \* the lowest height a rollback may go to, persisted too
    ng,              \* is the node in the NG state (or waiting for a snapshot)?
    cache,           \* blocksCache: blocks, by ID
    cacheSnapshots,  \* blocksCache: IDs of the blocks with a snapshot
    held,            \* who holds the wrapper's flag
    pc,              \* the next step of the handler
    kind,            \* the handler
    batch,           \* the blocks it applies
    saved,           \* rollbackBlocks
    target,          \* parentHeight
    apiCalls, crashes, panicked,
    before,          \* history: the ledger when the handler started, or after
                     \* the last API rollback since then
    calm             \* history: no failure or API rollback since it started?

stored == <<chain, minHeight>>
cached == <<cache, cacheSnapshots>>
request == <<kind, batch>>
plan == <<saved, target>>
past == <<apiCalls, crashes, panicked>>
vars == <<stored, ng, cached, held, pc, request, plan, past, before, calm>>

Micro == {"micro", "minedMicro"}
Exclusive == {"sync", "mined"} \cup Micro
Kinds == Exclusive \cup {"block", "minedInSync"}
Writing == {"cachedRollback", "cachedApply", "rollback", "add", "restore"}
Steps == Writing \cup
    {"idle", "exists", "snapshot", "top", "lock", "check", "applied", "refused"}

Top == Last(chain)
HeightOf(block) == CHOOSE h \in 1 .. Len(chain) : chain[h] = block
InChain(block) == block \in Range(chain)

TypeOK ==
    /\ chain \in Seq(Blocks)
    /\ minHeight \in Nat
    /\ ng \in BOOLEAN
    /\ cache \subseteq Blocks
    /\ cacheSnapshots \subseteq Blocks
    /\ held \in {"none", "handler", "api"}
    /\ pc \in Steps
    /\ kind \in Kinds
    /\ batch \in Seq(Blocks)
    /\ saved \in Seq(Blocks)
    /\ target \in Nat
    /\ apiCalls \in 0 .. MaxApiCalls
    /\ crashes \in 0 .. MaxCrashes
    /\ panicked \in BOOLEAN
    /\ before \in Seq(Blocks)
    /\ calm \in BOOLEAN

Init ==
    /\ chain = <<Genesis>> /\ minHeight = 1
    /\ ng = FALSE
    /\ cache = {} /\ cacheSnapshots = {}
    /\ held = "none"
    /\ pc = "idle" /\ kind = "sync" /\ batch = << >>
    /\ saved = << >> /\ target = 0
    /\ apiCalls = 0 /\ crashes = 0 /\ panicked = FALSE
    /\ before = << >> /\ calm = TRUE

-----------------------------------------------------------------------------
(* The storage. *)

\* stateDB.calculateNewRollbackMinHeight
NewRollbackMinHeight(height) ==
    IF height < minHeight \/ height - minHeight < RollbackMaxBlocks
    THEN minHeight
    ELSE height - RollbackMaxBlocks

\* Mutant of CanAdd: the parent is not verified.
CanAdd_AnyParent(blocks) == Range(blocks) \subseteq Valid

\* addBlocks: every block refers to the one before it and is valid, or none
\* of them is stored.
CanAdd(blocks) == Linked(Top, blocks) /\ Range(blocks) \subseteq Valid

AddBlocks(blocks) ==
    /\ chain' = chain \o blocks
    /\ minHeight' = NewRollbackMinHeight(Len(chain'))

\* Mutant of RollbackHeights: the lower bound is forgotten.
RollbackHeights_NoMinimum == 1 .. Len(chain)

\* checkRollbackHeight
RollbackHeights == minHeight .. Len(chain)

\* RollbackToHeight, RollbackTo: the blocks above go; the window stays.
Rollback(height) == chain' = UpTo(chain, height) /\ UNCHANGED minHeight

\* ThreadSafeWriteWrapper.lock for one call, or for the whole of Map.
MayWrite == held = IF kind \in Exclusive THEN "handler" ELSE "none"
\* The wrapper's read lock.
MayRead == held # "api"

Goto(step) == pc' = step

\* The handler returns; what it worked with is forgotten.
Return ==
    /\ Goto("idle")
    /\ kind' = "sync" /\ batch' = << >>
    /\ saved' = << >> /\ target' = 0
    /\ before' = << >> /\ calm' = TRUE

-----------------------------------------------------------------------------
(* The handlers start. *)

Start(k, blocks, step) ==
    /\ pc = "idle"
    /\ kind' = k /\ batch' = blocks /\ Goto(step)
    /\ saved' = << >> /\ target' = 0
    /\ before' = chain /\ calm' = TRUE
    /\ UNCHANGED <<stored, ng, cached, held, past>>

\* SyncState.applyBlocksWithSnapshots
SyncBatch(blocks) == ~ng /\ Start("sync", blocks, "lock")

\* NGState.MinedBlock
MinedBlock(b) == ng /\ Start("mined", <<b>>, "lock")

\* SyncState.MinedBlock
MinedBlockInSync(b) == ~ng /\ Start("minedInSync", <<b>>, "check")

\* NGState.Block
Block(b) == ng /\ Start("block", <<b>>, "exists")

\* NGState.MicroBlock: a light node first waits for the snapshot.
MicroBlock(b) ==
    ng /\ Start("micro", <<b>>, IF LightMode THEN "snapshot" ELSE "top")

\* NGState.mineMicro
MineMicro(b) == ng /\ Start("minedMicro", <<b>>, "top")

\* The state machine leaves NG, or enters it anew, with an empty cache.
SwitchState ==
    /\ pc = "idle"
    /\ ng' = ~ng
    /\ cache' = {} /\ cacheSnapshots' = {}
    /\ UNCHANGED <<stored, held, pc, request, plan, past, before, calm>>

-----------------------------------------------------------------------------
(* NGState.Block before the block itself is applied.                       *)

CachedWithSnapshot(b) == b \in cache /\ (LightMode => b \in cacheSnapshots)

\* rollbackToStateFromCacheInLightNode: the block without its snapshot.
HalfCached(b) == LightMode /\ (b \in cache) # (b \in cacheSnapshots)

Exists ==
    /\ pc = "exists" /\ MayRead
    /\ LET b == batch[1]
           parent == Parent[b]
       IN Goto(CASE InChain(b) -> "refused"
                 [] ~InChain(b) /\ Top # parent /\ HalfCached(parent) -> "refused"
                 [] ~InChain(b) /\ Top # parent /\ CachedWithSnapshot(parent) ->
                       "cachedRollback"
                 [] OTHER -> IF LightMode THEN "snapshot" ELSE "check")
    /\ UNCHANGED <<stored, ng, cached, held, request, plan, past, before, calm>>

\* RollbackTo the parent of the cached block.
CachedRollback ==
    /\ pc = "cachedRollback" /\ MayWrite
    /\ LET edge == Parent[Parent[batch[1]]]
       IN IF InChain(edge) /\ HeightOf(edge) \in RollbackHeights
          THEN Rollback(HeightOf(edge)) /\ Goto("cachedApply")
          ELSE Goto("refused") /\ UNCHANGED stored
    /\ UNCHANGED <<ng, cached, held, request, plan, past, before, calm>>

\* blocksApplier.Apply of the cached block, whose parent is the top unless
\* the API removed it.
CachedApply ==
    /\ pc = "cachedApply" /\ MayWrite
    /\ LET c == Parent[batch[1]]
       IN IF CanAdd(<<c>>)
          THEN AddBlocks(<<c>>) /\ Goto(IF LightMode THEN "snapshot" ELSE "check")
          ELSE Goto("refused") /\ UNCHANGED stored
    /\ UNCHANGED <<ng, cached, held, request, plan, past, before, calm>>

\* BlockSnapshot and MicroBlockSnapshot of the wait states.
Snapshot ==
    /\ pc = "snapshot"
    /\ Goto(IF kind = "block" THEN "check" ELSE "top")
    /\ UNCHANGED <<stored, ng, cached, held, request, plan, past, before, calm>>

\* SnapshotTimeout: back to NG, with the cache.
SnapshotTimeout ==
    /\ pc = "snapshot"
    /\ Return
    /\ UNCHANGED <<stored, ng, cached, held, past>>

-----------------------------------------------------------------------------
(* innerBlocksApplier *)

\* checkAndAppendMicroBlock, and MicroMiner.Micro: the microblock refers to
\* the top block.
MicroTop ==
    /\ pc = "top"
    /\ Goto(IF Top = Base[batch[1]] THEN "lock" ELSE "refused")
    /\ UNCHANGED <<stored, ng, cached, held, request, plan, past, before, calm>>

\* ThreadSafeWriteWrapper.Map
Lock ==
    /\ pc = "lock" /\ held = "none"
    /\ held' = "handler" /\ Goto("check")
    /\ UNCHANGED <<stored, ng, cached, request, plan, past, before, calm>>

\* Mutant of HigherScore: a fork with the same score will do.
HigherScore_OrEqual ==
    LET first == batch[1]
    IN /\ ~InChain(first)
       /\ InChain(Parent[first])
       /\ Score(chain) <= Score(UpTo(chain, HeightOf(Parent[first]))) + Score(batch)

\* Mutant of HigherScore: scores are not compared.
HigherScore_Any == ~InChain(batch[1]) /\ InChain(Parent[batch[1]])

\* getParentAndCurrentHeight
HigherScore ==
    LET first == batch[1]
    IN /\ ~InChain(first)
       /\ InChain(Parent[first])
       /\ Score(chain) < Score(UpTo(chain, HeightOf(Parent[first]))) + Score(batch)

\* applyMicro, applyMicroWithSnapshot: the block to replace is the top.
ReplacesTop ==
    LET b == batch[1]
    IN /\ ~InChain(b)
       /\ InChain(Parent[b])
       /\ Len(chain) - HeightOf(Parent[b]) = 1

DeltaHeight == Len(chain) - HeightOf(Parent[batch[1]])

\* Mutant of Accepts: a fork may start anywhere.
Accepts_AnyDepth == IF kind \in Micro THEN ReplacesTop ELSE HigherScore

Accepts ==
    IF kind \in Micro
    THEN ReplacesTop
    ELSE HigherScore /\ DeltaHeight <= MaxRollbackDelta

CheckRefuses ==
    /\ pc = "check" /\ MayRead
    /\ ~Accepts
    /\ Goto("refused")
    /\ UNCHANGED <<stored, ng, cached, held, request, plan, past, before, calm>>

\* Mutant of RollbackBlocks: the loop ends one block early.
RollbackBlocks_OneShort(height) == SubSeq(chain, height + 1, Len(chain) - 1)

\* getRollbackBlocks, and applyMicro's currentBlock
RollbackBlocks(height) == SubSeq(chain, height + 1, Len(chain))

CheckAccepts ==
    /\ pc = "check" /\ MayRead
    /\ Accepts
    /\ target' = HeightOf(Parent[batch[1]])
    /\ saved' = RollbackBlocks(target')
    /\ Goto(IF target' = Len(chain) THEN "add" ELSE "rollback")
    /\ UNCHANGED <<stored, ng, cached, held, request, past, before, calm>>

RollbackToHeight ==
    /\ pc = "rollback" /\ MayWrite
    /\ IF target \in RollbackHeights
       THEN Rollback(target) /\ Goto("add")
       ELSE Goto("refused") /\ UNCHANGED stored
    /\ UNCHANGED <<ng, cached, held, request, plan, past, before, calm>>

\* Mutant of AfterFailedAdd: applyMicro does not return the block it replaced.
AfterFailedAdd_NotForMicro ==
    IF saved = << >> \/ kind \in Micro THEN "refused" ELSE "restore"

\* After a failure, saved blocks have to return.
AfterFailedAdd == IF saved = << >> THEN "refused" ELSE "restore"

AddDeserializedBlocks ==
    /\ pc = "add" /\ MayWrite
    /\ IF CanAdd(batch)
       THEN AddBlocks(batch) /\ Goto("applied")
       ELSE Goto(AfterFailedAdd) /\ UNCHANGED stored
    /\ UNCHANGED <<ng, cached, held, request, plan, past, before, calm>>

Restore ==
    /\ pc = "restore" /\ MayWrite
    /\ IF CanAdd(saved) THEN AddBlocks(saved) ELSE UNCHANGED stored
    /\ Goto("refused")
    /\ UNCHANGED <<ng, cached, held, request, plan, past, before, calm>>

-----------------------------------------------------------------------------
(* The handlers end: the flag is released and the cache updated.  NG's     *)
(* Block adds the block to a cache that newNGState then drops; a light     *)
(* node's returns to NG with its cache.                                    *)

\* Mutant of CacheAfter: the cache is not cleared for a key block.
CacheAfter_NotCleared(b) ==
    IF kind \in {"sync", "minedInSync"} THEN cache ELSE cache \cup {b}

CacheAfter(b) ==
    CASE kind = "mined" -> {b}
      [] kind = "block" -> IF LightMode THEN {b} ELSE {}
      [] kind \in Micro -> cache \cup {b}
      [] OTHER -> cache

SnapshotsAfter(b) ==
    CASE kind = "mined" -> {}
      [] kind = "block" -> IF LightMode THEN {b} ELSE {}
      [] kind = "micro" /\ LightMode -> cacheSnapshots \cup {b}
      [] OTHER -> cacheSnapshots

Release == held' = IF held = "handler" THEN "none" ELSE held

Applied ==
    /\ pc = "applied"
    /\ cache' = CacheAfter(batch[1])
    /\ cacheSnapshots' = SnapshotsAfter(batch[1])
    /\ Release /\ Return
    /\ UNCHANGED <<stored, ng, past>>

Refused ==
    /\ pc = "refused"
    /\ Release /\ Return
    /\ UNCHANGED <<stored, ng, cached, past>>

-----------------------------------------------------------------------------
(* What comes between the steps.                                           *)

\* NodeApi.RollbackToHeight, RollbackTo: another goroutine takes the flag.
\* When a handler holds it the call panics, which the HTTP server recovers
\* from.
ApiLock ==
    /\ held = "none" /\ apiCalls < MaxApiCalls
    /\ held' = "api" /\ apiCalls' = apiCalls + 1
    /\ UNCHANGED <<stored, ng, cached, pc, request, plan, crashes, panicked, before, calm>>

ApiRollback ==
    /\ held = "api"
    /\ \E height \in RollbackHeights : Rollback(height)
    /\ held' = "none"
    /\ IF pc = "idle"
       THEN UNCHANGED <<before, calm>>
       ELSE before' = chain' /\ calm' = FALSE
    /\ UNCHANGED <<ng, cached, pc, request, plan, past>>

\* A call of the storage returns an error.
StorageFails ==
    /\ StorageMayFail
    /\ \/ /\ pc \in {"exists", "check"} /\ MayRead
       \/ /\ pc \in Writing /\ MayWrite
    /\ Goto(IF pc = "add" THEN AfterFailedAdd ELSE "refused")
    /\ calm' = FALSE
    /\ UNCHANGED <<stored, ng, cached, held, request, plan, past, before>>

\* The process dies and starts again with what is stored.
Restart ==
    /\ ng' = FALSE
    /\ cache' = {} /\ cacheSnapshots' = {}
    /\ held' = "none"
    /\ Return
    /\ UNCHANGED stored

Crash ==
    /\ crashes < MaxCrashes
    /\ crashes' = crashes + 1
    /\ Restart /\ UNCHANGED <<apiCalls, panicked>>

\* lock(): "already modifying state"
LockPanics ==
    /\ held = "api"
    /\ pc = "lock" \/ (pc \in Writing /\ kind \notin Exclusive)
    /\ panicked' = TRUE
    /\ Restart /\ UNCHANGED <<apiCalls, crashes>>

Begin ==
    \/ \E n \in 1 .. MaxBatch : \E blocks \in [1 .. n -> Blocks] : SyncBatch(blocks)
    \/ \E b \in KeyBlocks : MinedBlock(b) \/ MinedBlockInSync(b) \/ Block(b)
    \/ \E b \in MicroVersions : MicroBlock(b) \/ MineMicro(b)

Next ==
    \/ Begin
    \/ SwitchState
    \/ Exists \/ CachedRollback \/ CachedApply
    \/ Snapshot \/ SnapshotTimeout
    \/ MicroTop \/ Lock
    \/ CheckRefuses \/ CheckAccepts
    \/ RollbackToHeight \/ AddDeserializedBlocks \/ Restore
    \/ Applied \/ Refused
    \/ ApiLock \/ ApiRollback
    \/ StorageFails \/ Crash \/ LockPanics

Spec == Init /\ [][Next]_vars

-----------------------------------------------------------------------------
(* Properties *)

\* Whatever is interrupted, the stored blocks form a chain of valid blocks
\* from the genesis block on: addBlocks stores a batch whole or not at all and
\* rollbacks remove from the top.
ChainIsValid == IsChain(chain)

\* history_formatter.go cuts histories at the block of rollbackMinHeight and
\* fails when that height has no block: no rollback goes below it.
RollbackWindowExists == minHeight <= Len(chain)

\* Between the rollback and the addition of new blocks (blocks_applier.go:
\* "save previously added blocks") the blocks in the storage and the saved
\* ones together are the ledger the handler started from.
SavedCompletesChain ==
    pc \in {"add", "restore"} /\ saved # << >> /\ calm => chain \o saved = before

\* A handler that refuses its blocks, however far it got, leaves the ledger as
\* it was; only NG's Block may leave a cached block that the refused one refers
\* to: another version of the last block, or the block that followed it before
\* an API rollback, of which the cache knows nothing.
RefusalRestoresChain ==
    pc = "refused" /\ calm =>
        \/ chain = before
        \/ /\ kind = "block"
           /\ Front(chain) \in {Front(before), before}
           /\ Top = Parent[batch[1]]
           /\ CachedWithSnapshot(Top)

\* NG's Block removes one block, not more, to return to a cached version of
\* the last block: blocks in the cache whose parent is in the chain compete
\* with the top block or follow it.
CachedRollbackIsShallow ==
    pc \in {"idle", "exists", "cachedRollback"} =>
        \A c \in cache :
            InChain(Parent[c]) => HeightOf(Parent[c]) >= Len(chain) - 1

\* The reference for the decisions: a chain that ends in the given blocks,
\* branches off the ledger (or, for NG's Block, the ledger ending in a cached
\* block) within the allowed depth, and has a higher score.
Fork(base, blocks) ==
    \E common \in 1 .. Len(base) :
        /\ common >= Len(base) - MaxRollbackDelta
        /\ common >= minHeight
        /\ IsChain(UpTo(base, common) \o blocks)
        /\ Score(UpTo(base, common) \o blocks) > Score(base)
CachedBases ==
    {Append(UpTo(before, height), c) :
        height \in minHeight .. Len(before) \ 1 .. (Len(before) - 2),
        c \in {c \in cache : CachedWithSnapshot(c)}}
Adoptable ==
    /\ batch[1] \notin Range(before)
    /\ IF kind \in Micro
       THEN /\ Base[batch[1]] = Last(before)
            /\ IsChain(Append(Front(before), batch[1]))
            /\ minHeight < Len(before)
       ELSE \/ Fork(before, batch)
            \/ /\ kind = "block"
               /\ \E base \in CachedBases : IsChain(base) /\ Fork(base, batch)

\* Undisturbed, the handlers apply exactly the blocks the reference adopts:
\* no better chain is refused and none is adopted without need.
DecisionsMatchReference ==
    calm => /\ pc = "applied" => Adoptable
            /\ pc = "refused" => ~Adoptable

\* A crash in the middle of a reorganization, between RollbackToHeight and
\* AddDeserializedBlocks, costs at most MaxRollbackDelta blocks.
Ledger == IF pc = "idle" THEN chain ELSE before
CrashLosesLittle ==
    [][crashes' # crashes => Len(chain') >= Len(Ledger) - MaxRollbackDelta]_vars

\* Seen from outside the handlers, the storage follows module ForkChoice.
Choice == INSTANCE ForkChoice WITH ledger <- Ledger
ImplementsForkChoice == Choice!Spec

\* threadsafe_wrapper.go, lock: "this should never happen, cause all write
\* action happens in only 1 thread".
NoLockPanic == ~panicked
=============================================================================
