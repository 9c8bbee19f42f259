------------------------------ MODULE Mining -------------------------------
(***************************************************************************)
(* Block generation: the scheduler (pkg/miner/scheduler), the miner's      *)
(* goroutine (pkg/miner/miner.go), the micro miner (micro_miner.go) and    *)
(* the handlers of the event loop that connect them.                       *)
(*                                                                         *)
(* The scheduler answers every change of the top block with new timers; a  *)
(* timer sends its emit to a channel of capacity one, the miner turns it   *)
(* into a key block and hands that to the event loop, which applies it and *)
(* then, task by task, extends it with microblocks made of transactions of *)
(* the pool.  Every hand-over may be late: emits, mined blocks and tasks   *)
(* name a block that need not be the top any more.                         *)
(*                                                                         *)
(* Node states are those of a full node; NodeFSM has their events.         *)
(***************************************************************************)
EXTENDS Naturals, Sequences, FiniteSets, SequencesExt

CONSTANTS
    Accounts,     \* accounts of the wallet, one emit each
    Txs,          \* transactions
    Early,        \* the ones in the pool before the node starts to mine
    SizeOf,       \* bytes of a transaction with its length prefix
    MaxTxsSize,   \* MiningLimits.MaxTxsSizeInBytes of a new block
    MinTxSize,    \* minTransactionSize
    MaxMicroTxs,  \* maxMicroblockTransactions
    InternalCap,  \* capacity of the channel of internal messages
    MaxBlocks,    \* bound: versions of blocks that come to be
    MaxInFlight,  \* bound: emits on their way when a timer is over
    Nothing       \* nil

ASSUME MiningAssumption ==
    /\ Early \subseteq Txs
    /\ SizeOf \in [Txs -> Nat \ {0}]
    /\ MaxTxsSize \in Nat /\ MinTxSize \in Nat /\ MaxMicroTxs \in Nat
    /\ InternalCap \in Nat \ {0} /\ MaxBlocks \in Nat \ {0} /\ MaxInFlight \in Nat \ {0}

\* A call of Micro: the limit, the transactions it popped and its counters.
MicroCalls ==
    [rest : Nat, applied : SUBSET Txs, inapplicable : SUBSET Txs, txCount : Nat, binSize : Nat]

Emits == [account : Accounts, parent : Nat]

ASSUME NothingAssumption == Nothing \notin MicroCalls \cup Emits

VARIABLES
    loop,      \* state of the node's state machine
    top,       \* the top block: its versions, one per microblock, and its parent
    created,   \* identifiers given to versions so far
    timers,    \* emits whose timer runs (Default.cancel)
    firing,    \* emits whose timer is over and that are not sent yet
    mine,      \* Default.mine
    miner,     \* the emit that the miner's goroutine works on
    internal,  \* internalCh: mined key blocks, each as its emit
    tasks,     \* MineMicro tasks, waiting or in tasksCh
    micro,     \* the call of Micro that the event loop is in
    pool,      \* UtxImpl.transactions
    refused,   \* history: the last Reschedule made no emit
    seen,      \* history: transactions that came to the pool
    left       \* history: transactions that were dropped, confirmed or abandoned

schedVars == <<timers, firing, mine, refused>>
minerVars == <<miner, internal>>
txVars == <<pool, seen, left>>
vars == <<loop, top, created, schedVars, minerVars, tasks, micro, txVars>>

Loops == {"Idle", "NG", "Sync", "Persist"}

Genesis == 0
Emit(a, id) == [account |-> a, parent |-> id]
Version(id, txs) == [id |-> id, txs |-> txs]
Task(id, rest) == [block |-> id, rest |-> rest]

TopId == Last(top.versions).id
TxsOf(versions) == UNION {versions[i].txs : i \in DOMAIN versions}
BytesOf(txs) == UNION {{t} \X (1 .. SizeOf[t]) : t \in txs}
Bytes(txs) == Cardinality(BytesOf(txs))

Init ==
    /\ loop = "Idle"
    /\ top = [own |-> FALSE, parent |-> Genesis, versions |-> <<Version(Genesis, {})>>]
    /\ created = 0
    /\ timers = {} /\ firing = {} /\ mine = <<>>
    /\ miner = Nothing /\ internal = <<>>
    /\ tasks = {} /\ micro = Nothing
    /\ pool = Early /\ seen = Early /\ left = {}
    /\ refused = TRUE

-----------------------------------------------------------------------------
(* The scheduler.                                                           *)

\* a.mine <- emit in a select with a default: a full channel drops the emit.
Offer(e) == mine' = IF mine = <<>> THEN <<e>> ELSE mine

\* Reschedule for the block id.  It returns early, and lets the timers run, with
\* too few peers, an obsolete top block or an error of the storage.  Otherwise it stops
\* the timers, though not a callback that is past the check of the flag, and every
\* account that may generate has an emit: due now, or with a timer.
Reschedule(id) ==
    /\ UNCHANGED firing
    /\ \/ UNCHANGED <<timers, mine>> /\ refused' = TRUE
       \/ \E waits \in SUBSET Accounts :
             /\ timers' = {Emit(a, id) : a \in waits}
             /\ \/ UNCHANGED mine /\ refused' = (waits = {})
                \/ \E a \in Accounts \ waits : Offer(Emit(a, id)) /\ refused' = FALSE

\* Emits between their timer and the event loop.
InFlight ==
    Cardinality(firing) + Len(mine) + Len(internal) + (IF miner = Nothing THEN 0 ELSE 1)

\* after: the timer is over and the flag not set.
TimerOver(e) ==
    /\ e \in timers \ firing
    /\ InFlight < MaxInFlight
    /\ timers' = timers \ {e}
    /\ firing' = firing \cup {e}
    /\ UNCHANGED <<loop, top, created, mine, refused, minerVars, tasks, micro, txVars>>

\* The callback of the timer.
Callback(e) ==
    /\ e \in firing
    /\ firing' = firing \ {e}
    /\ Offer(e)
    /\ UNCHANGED <<loop, top, created, timers, refused, minerVars, tasks, micro, txVars>>

-----------------------------------------------------------------------------
(* The miner's goroutine.                                                   *)

\* Run receives an emit.
TakeEmit ==
    /\ miner = Nothing
    /\ mine # <<>>
    /\ miner' = Head(mine)
    /\ mine' = <<>>
    /\ UNCHANGED <<loop, top, created, timers, firing, refused, internal, tasks, micro, txVars>>

\* MineKeyBlock, with an error or a block for the event loop.
MineKeyBlock ==
    /\ miner # Nothing
    /\ miner' = Nothing
    /\ \/ UNCHANGED internal
       \/ Len(internal) < InternalCap /\ internal' = Append(internal, miner)
    /\ UNCHANGED <<loop, top, created, schedVars, tasks, micro, txVars>>

-----------------------------------------------------------------------------
(* The event loop and mined key blocks.                                     *)

\* The loop is between two events.
Free == micro = Nothing

\* A key block on the version number n of the top block, or, for n = 0, instead of the
\* top block.  Versions after n and the transactions in them are abandoned, the others
\* confirmed; none of them comes back to the pool.
NewTop(own, n) ==
    /\ created < MaxBlocks
    /\ created' = created + 1
    /\ top' = [own |-> own,
               parent |-> IF n = 0 THEN top.parent ELSE top.versions[n].id,
               versions |-> <<Version(created', {})>>]
    /\ left' = left \cup TxsOf(top.versions)
    /\ UNCHANGED <<pool, seen>>

\* BlocksApplier.Apply of a mined block: its parent has to be the top block, or the
\* parent of a top block with a lower score.
ApplyMined(e) ==
    \/ e.parent = TopId /\ NewTop(TRUE, Len(top.versions))
    \/ e.parent = top.parent /\ e.parent # TopId /\ NewTop(TRUE, 0)

\* The task of a new key block.
MineMicroLater == tasks' = tasks \cup {Task(created', MaxTxsSize)}

Declined == UNCHANGED <<top, created, tasks, txVars>>

\* Mutant of NGMinedBlock: Reschedule is not deferred, an error skips it.
NGMinedBlock_NotDeferred ==
    /\ Free /\ loop \in {"NG", "Idle"} /\ internal # <<>>
    /\ internal' = Tail(internal)
    /\ loop' = "NG"
    /\ \/ ApplyMined(Head(internal)) /\ MineMicroLater /\ Reschedule(created')
       \/ Declined /\ UNCHANGED schedVars
    /\ UNCHANGED <<miner, micro>>

\* NGState.MinedBlock, also for a block that IdleState receives: Reschedule is
\* deferred, and so it follows an error, too.
NGMinedBlock ==
    /\ Free /\ loop \in {"NG", "Idle"} /\ internal # <<>>
    /\ internal' = Tail(internal)
    /\ loop' = "NG"
    /\ \/ ApplyMined(Head(internal)) /\ MineMicroLater /\ Reschedule(created')
       \/ Declined /\ Reschedule(TopId)
    /\ UNCHANGED <<miner, micro>>

\* SyncState.MinedBlock: a block that is not applied reschedules nothing.
SyncMinedBlock ==
    /\ Free /\ loop = "Sync" /\ internal # <<>>
    /\ internal' = Tail(internal)
    /\ \/ ApplyMined(Head(internal)) /\ MineMicroLater /\ Reschedule(created')
       \/ Declined /\ UNCHANGED schedVars
    /\ UNCHANGED <<loop, miner, micro>>

\* PersistState ignores mined blocks.
PersistMinedBlock ==
    /\ Free /\ loop = "Persist" /\ internal # <<>>
    /\ internal' = Tail(internal)
    /\ UNCHANGED <<loop, miner, micro, top, created, tasks, txVars, schedVars>>

-----------------------------------------------------------------------------
(* The micro miner.                                                         *)

\* A MineMicro task that comes in another state than NG, or (ErrStateChanged) for
\* another block than the top, ends micro mining of its block.
DropTask(t) ==
    /\ Free
    /\ loop # "NG" \/ t.block # TopId
    /\ tasks' = tasks \ {t}
    /\ UNCHANGED <<loop, top, created, schedVars, minerVars, micro, txVars>>

\* mineMicro calls Micro with the limits of the task.
StartMicro(t) ==
    /\ Free
    /\ loop = "NG" /\ t.block = TopId
    /\ tasks' = tasks \ {t}
    /\ micro' = [rest |-> t.rest, applied |-> {}, inapplicable |-> {},
                 txCount |-> 0, binSize |-> 0]
    /\ UNCHANGED <<loop, top, created, schedVars, minerVars, txVars>>

\* The loop of Micro goes on.
RoomInMicro ==
    /\ micro.txCount <= MaxMicroTxs
    /\ micro.rest >= micro.binSize + MinTxSize

Inapplicable(t) ==
    /\ micro' = [micro EXCEPT !.inapplicable = @ \cup {t}]
    /\ pool' = pool \ {t}
    /\ UNCHANGED left

Applicable(t) ==
    /\ micro' = [micro EXCEPT !.applied = @ \cup {t}, !.txCount = @ + 1, !.binSize = @ + SizeOf[t]]
    /\ pool' = pool \ {t}
    /\ UNCHANGED left

\* Mutant of CommitmentError: the list of applied transactions is kept.
CommitmentError_KeepsList(t) ==
    \E back \in SUBSET micro.applied :
        /\ micro' = [micro EXCEPT !.txCount = 0]
        /\ pool' = (pool \ {t}) \cup back
        /\ left' = left \cup {t} \cup (micro.applied \ back)

\* TxCommitmentError: the transaction is dropped, the applied ones go back to the pool
\* if it takes them, and the count, but not the size, starts again.
CommitmentError(t) ==
    \E back \in SUBSET micro.applied :
        /\ micro' = [micro EXCEPT !.applied = {}, !.txCount = 0]
        /\ pool' = (pool \ {t}) \cup back
        /\ left' = left \cup {t} \cup (micro.applied \ back)

\* One transaction from the pool.
PopTx(t) ==
    /\ micro # Nothing /\ RoomInMicro
    /\ t \in pool
    /\ \/ micro.binSize + SizeOf[t] > micro.rest /\ Inapplicable(t)
       \/ /\ micro.binSize + SizeOf[t] <= micro.rest
          /\ Inapplicable(t) \/ Applicable(t) \/ CommitmentError(t)
    /\ UNCHANGED <<loop, top, created, schedVars, minerVars, tasks, seen>>

\* The inapplicable transactions go back to the pool, which validates them again; txs
\* leave the node with the ones that it does not take.
ReturnInapplicable(txs) ==
    \E back \in SUBSET micro.inapplicable :
        /\ pool' = pool \cup back
        /\ left' = left \cup (micro.inapplicable \ back) \cup txs

\* ErrNoTransactions or ErrBlockIsFull: the same task again, later.
NothingPacked ==
    /\ micro.txCount = 0
    /\ tasks' = tasks \cup {Task(TopId, micro.rest)}
    /\ ReturnInapplicable({})
    /\ UNCHANGED <<top, created, schedVars>>

\* Mutant of Rest: every microblock may fill the whole limit.
Rest_Whole == micro.rest

\* newRest
Rest == micro.rest - micro.binSize

\* The microblock is applied and announced; the next task has the new version and
\* what is left of the limit.  An error of the announcement ends micro mining.
MicroApplied ==
    /\ micro.txCount > 0
    /\ created < MaxBlocks
    /\ created' = created + 1
    /\ top' = [top EXCEPT !.versions = Append(@, Version(created', micro.applied))]
    /\ ReturnInapplicable({})
    /\ Reschedule(created')
    /\ tasks' = tasks \cup {Task(created', Rest)} \/ UNCHANGED tasks

\* An error of Micro after its loop, or of ApplyMicro: the packed transactions are in
\* no block and not in the pool any more.
MicroFailed ==
    /\ micro.txCount > 0
    /\ ReturnInapplicable(micro.applied)
    /\ UNCHANGED <<top, created, schedVars, tasks>>

EndMicro ==
    /\ micro # Nothing
    /\ ~RoomInMicro \/ pool = {}
    /\ NothingPacked \/ MicroApplied \/ MicroFailed
    /\ micro' = Nothing
    /\ UNCHANGED <<loop, minerVars, seen>>

-----------------------------------------------------------------------------
(* What else happens: transactions, other nodes' blocks, other states.      *)

\* A transaction comes to the pool, from a peer or the API, whatever the loop does.
Submit(t) ==
    /\ t \notin seen
    /\ seen' = seen \cup {t}
    /\ pool' = pool \cup {t}
    /\ UNCHANGED <<loop, top, created, schedVars, minerVars, tasks, micro, left>>

\* NGState.Block with a block on the top, on an earlier version of it from the cache,
\* or instead of it.
NGBlock ==
    /\ Free /\ loop = "NG"
    /\ \E n \in 0 .. Len(top.versions) : NewTop(FALSE, n)
    /\ Reschedule(created')
    /\ UNCHANGED <<loop, minerVars, tasks, micro>>

\* NGState.Block that rolled the top back to a version from the cache and then could
\* not apply the block: it returns before Reschedule.
NGBlockDeclined ==
    /\ Free /\ loop = "NG"
    /\ \E n \in 1 .. Len(top.versions) - 1 :
          /\ top' = [top EXCEPT !.versions = SubSeq(@, 1, n)]
          /\ left' = left \cup (TxsOf(top.versions) \ TxsOf(SubSeq(top.versions, 1, n)))
    /\ UNCHANGED <<loop, created, schedVars, minerVars, tasks, micro, pool, seen>>

\* NGState.MicroBlock: another node extends its block.
NGMicroBlock ==
    /\ Free /\ loop = "NG"
    /\ ~top.own
    /\ created < MaxBlocks
    /\ created' = created + 1
    /\ top' = [top EXCEPT !.versions = Append(@, Version(created', {}))]
    /\ Reschedule(created')
    /\ UNCHANGED <<loop, minerVars, tasks, micro, txVars>>

\* Score: the state machine starts to synchronize; the timers run on.
Score ==
    /\ Free /\ loop \in {"NG", "Idle"}
    /\ loop' = "Sync"
    /\ UNCHANGED <<top, created, schedVars, minerVars, tasks, micro, txVars>>

\* SyncState.applyBlocksWithSnapshots
SyncApplied ==
    /\ Free /\ loop = "Sync"
    /\ \E n \in {0, Len(top.versions)} : NewTop(FALSE, n)
    /\ Reschedule(created')
    /\ loop' \in Loops
    /\ UNCHANGED <<minerVars, tasks, micro>>

\* The session ends with a timeout, an error or StopSync, which applies the blocks it
\* has and does not reschedule.
SyncEnds ==
    /\ Free /\ loop = "Sync"
    /\ loop' = "Idle"
    /\ \/ UNCHANGED <<top, created, txVars>>
       \/ \E n \in {0, Len(top.versions)} : NewTop(FALSE, n)
    /\ UNCHANGED <<schedVars, minerVars, tasks, micro>>

\* StopMining in NG and Persist, and PersistComplete: no timer is stopped.
BackToIdle ==
    /\ Free /\ loop \in {"NG", "Persist"}
    /\ loop' = "Idle"
    /\ UNCHANGED <<top, created, schedVars, minerVars, tasks, micro, txVars>>

\* IdleState.StartMining
StartMining ==
    /\ Free /\ loop = "Idle"
    /\ Reschedule(TopId)
    /\ UNCHANGED <<loop, top, created, minerVars, tasks, micro, txVars>>

-----------------------------------------------------------------------------

Scheduler == \E e \in timers \cup firing : TimerOver(e) \/ Callback(e)
Miner == TakeEmit \/ MineKeyBlock
MinedBlock == NGMinedBlock \/ SyncMinedBlock \/ PersistMinedBlock
MicroMiner ==
    \/ \E t \in tasks : DropTask(t) \/ StartMicro(t)
    \/ \E t \in pool : PopTx(t)
    \/ EndMicro
Others ==
    \/ \E t \in Txs : Submit(t)
    \/ NGBlock \/ NGBlockDeclined \/ NGMicroBlock
    \/ Score \/ SyncApplied \/ SyncEnds \/ BackToIdle \/ StartMining

Next == Scheduler \/ Miner \/ MinedBlock \/ MicroMiner \/ Others

Spec == Init /\ [][Next]_vars

-----------------------------------------------------------------------------
(* Properties.                                                              *)

Versions == [id : Nat, txs : SUBSET Txs]

\* Types of the variables.
TypeOK ==
    /\ loop \in Loops
    /\ top \in [own : BOOLEAN, parent : Nat, versions : Seq(Versions)]
    /\ Len(top.versions) > 0
    /\ created \in Nat
    /\ timers \subseteq Emits /\ firing \subseteq Emits
    /\ mine \in Seq(Emits) /\ internal \in Seq(Emits)
    /\ miner \in Emits \cup {Nothing}
    /\ tasks \subseteq [block : Nat, rest : Nat]
    /\ micro \in MicroCalls \cup {Nothing}
    /\ pool \subseteq Txs /\ seen \subseteq Txs /\ left \subseteq Txs
    /\ refused \in BOOLEAN


\* The microblocks of an own block never hold more bytes than the limit of the block,
\* although the limit reaches them through a chain of tasks that may be late, that
\* is retried and whose block may be rolled back; transactions that a commitment
\* error took back count until the next microblock.
OwnBlockFitsLimit == top.own => Bytes(TxsOf(top.versions)) <= MaxTxsSize

\* Where a transaction can be.
Places ==
    [pool |-> pool,
     top |-> TxsOf(top.versions),
     left |-> left,
     applied |-> IF micro = Nothing THEN {} ELSE micro.applied,
     inapplicable |-> IF micro = Nothing THEN {} ELSE micro.inapplicable]

\* A transaction that came to the pool is in one place: in the pool, in the hands of
\* the micro miner, in a microblock of the top or gone; none is forgotten on the way
\* through the lists of Micro, and none is packed that is also back in the pool.
TransactionsInOnePlace ==
    /\ UNION {Places[i] : i \in DOMAIN Places} = seen
    /\ \A i, j \in DOMAIN Places : i # j => Places[i] \cap Places[j] = {}

\* Something leads to the next own key block.
Scheduled ==
    timers # {} \/ firing # {} \/ mine # <<>> \/ miner # Nothing \/ internal # <<>>

MiningFailed == miner # Nothing /\ miner' = Nothing /\ internal' = internal
NotRescheduled == loop \in {"Sync", "Persist"} /\ internal' # internal

\* "Without this deferred call ... the next block would not be generated without an
\* external trigger": once scheduled, generation goes on by itself through late
\* timers, emits dropped at the full channel, mined blocks that cannot be applied and
\* rollbacks, until the scheduler itself has nothing to schedule, mining of the key
\* block fails, or the block comes in Sync or Persist, which do not reschedule.
ScheduleGoesOn ==
    [][Scheduled /\ ~Scheduled' => refused' \/ MiningFailed \/ NotRescheduled]_vars
=============================================================================
