------------------------------ MODULE NodeFSM ------------------------------
(***************************************************************************)
(* The node's event loop (pkg/node/node.go, Run) and its state machine     *)
(* (pkg/node/fsm), together with the network goroutine of module Network   *)
(* and the asynchronous tasks (pkg/node/fsm/tasks) that report back to the *)
(* loop through a bounded channel that drops what does not fit.            *)
(*                                                                         *)
(* The loop takes one event at a time, so a handler is one action.  A      *)
(* handler returns the next state and an error.  createPermitDynamic-      *)
(* Callback installs the returned state in both cases, but with an error   *)
(* the stateless library skips the entry action, which is what installs    *)
(* the state's list of messages to skip; re-entering the same state        *)
(* without an error installs it again.  Ignored events, and handlers that  *)
(* return their own state with an error, change nothing and are no steps   *)
(* unless they consume something.                                          *)
(*                                                                         *)
(* Abstractions: any peer may send any message in any state, because what  *)
(* was read before the skip list changed is still delivered.  Whether a    *)
(* score is higher than the node's, a block valid or an ID known is        *)
(* decided by the ledger and left open here; module BlocksApplier is about *)
(* the ledger.  Block IDs stand for one batch of a synchronization.        *)
(***************************************************************************)
EXTENDS Network

CONSTANTS
    BlockIDs,        \* block identifiers
    NoBlock,         \* nil
    LightMode,       \* enableLightMode
    BatchSize,       \* a batch with fewer blocks is the last one (100 in the code)
    StorageMayFail,  \* may Height, CurrentScore, ... return an error?
    TasksCap,        \* capacity of tasksCh (10 in the code)
    MaxMineTimers,   \* pending MineMicro tasks explored (bound)
    MaxPersistJobs   \* concurrent persisting jobs explored (bound)

ASSUME NodeFSMAssumption ==
    /\ NoBlock \notin BlockIDs
    /\ LightMode \in BOOLEAN
    /\ StorageMayFail \in BOOLEAN
    /\ BatchSize \in Nat \ {0}
    /\ TasksCap \in Nat \ {0}
    /\ MaxMineTimers \in Nat
    /\ MaxPersistJobs \in Nat

VARIABLES
    name,            \* StateData.Name
    skipList,        \* the state whose skip list is installed
    confPeer,        \* SyncState.conf.peerSyncWith
    stalled,         \* conf.lastReceiveTime + conf.timeout is in the past
    waiting,         \* Internal.waitingForSignatures
    requested,       \* OrderedBlocks.requested
    gotBlocks,       \* requested blocks received
    gotSnapshots,    \* requested snapshots received
    waitFor,         \* block or microblock whose snapshot is awaited
    receivedScores,  \* peers whose scores a wait state has put aside
    timer,           \* timeout task of the current wait state
    staleTimers,     \* timeout tasks of earlier wait states, marked outdated
    tasksCh,         \* results of asynchronous tasks for the loop
    mineTimers,      \* pending MineMicro tasks
    persistJobs,     \* running PersistAddressTransactions tasks
    lost             \* history: the completion this state awaits was dropped

stateVars == <<name, skipList, lost>>
session == <<confPeer, stalled, waiting, requested, gotBlocks, gotSnapshots>>
waitVars == <<waitFor, receivedScores, timer, staleTimers>>
asyncVars == <<tasksCh, mineTimers, persistJobs>>
netOnly == <<netPc, netPeer>>
vars == <<connected, syncPeer, netPc, netPeer, netCh,
          name, skipList, lost, confPeer, stalled, waiting, requested,
          gotBlocks, gotSnapshots, waitFor, receivedScores, timer, staleTimers,
          tasksCh, mineTimers, persistJobs>>

WaitStates == {"WaitSnapshot", "WaitMicroSnapshot"}
States == {"Idle", "NG", "Sync", "Persist", "Halt"} \cup WaitStates

\* The timeout task of a wait state reports with the state's kind.
Timeout(s) ==
    IF s = "WaitSnapshot" THEN "BlockSnapshotTimeout" ELSE "MicroBlockSnapshotTimeout"
Timeouts == {"BlockSnapshotTimeout", "MicroBlockSnapshotTimeout"}
TaskTypes == {"Ping", "AskPeers", "MineMicro", "PersistComplete"} \cup Timeouts

\* Messages of peers that reach the state machine.  Requests of other peers are
\* answered outside of it.
Messages == {"Score", "Signatures", "BlockIDs", "Block", "BlockSnapshot", "Transaction",
             "MicroBlockInv", "MicroBlock", "MicroBlockSnapshot"}

\* What each state is configured to handle; it ignores the other events.
IdleEvents == {"StartMining", "Transaction", "Score", "Task", "MinedBlock", "Halt"}
SyncEvents == {"ChangeSyncPeer", "StopSync", "Task", "Score", "Block", "BlockIDs",
               "MinedBlock", "Transaction", "Halt", "BlockSnapshot"}
NGEvents == {"StopMining", "Transaction", "Task", "Score", "Block", "MinedBlock",
             "MicroBlock", "MicroBlockInv", "Halt"}
PersistEvents == {"StopMining", "Task", "Score", "Halt"}
WaitSnapshotEvents == {"Task", "Score", "BlockSnapshot"}
WaitMicroSnapshotEvents == {"Task", "Score", "MicroBlockSnapshot"}

\* The messages that each state's list tells the connections to skip.
IdleSkip == Messages \ {"Score"}

\* Mutant of SyncSkip: snapshots are skipped by light nodes, too.
SyncSkip_Always == {"Transaction", "MicroBlockInv", "MicroBlock", "MicroBlockSnapshot",
                    "BlockSnapshot"}

SyncSkip ==
    {"Transaction", "MicroBlockInv", "MicroBlock", "MicroBlockSnapshot"}
        \cup (IF LightMode THEN {} ELSE {"BlockSnapshot"})
NGSkip == {"BlockSnapshot", "MicroBlockSnapshot"}
PersistSkip == Messages \ {"Score", "BlockIDs"}
WaitSnapshotSkip ==
    {"Signatures", "Block", "Transaction", "MicroBlockInv", "MicroBlock"}
WaitMicroSnapshotSkip == WaitSnapshotSkip \cup {"BlockSnapshot"}
HaltSkip == Messages \ {"BlockIDs"}

\* The list that is installed; before the first entry action there is none.
Skipped(m) ==
    \/ skipList = "Idle" /\ m \in IdleSkip
    \/ skipList = "Sync" /\ m \in SyncSkip
    \/ skipList = "NG" /\ m \in NGSkip
    \/ skipList = "Persist" /\ m \in PersistSkip
    \/ skipList = "WaitSnapshot" /\ m \in WaitSnapshotSkip
    \/ skipList = "WaitMicroSnapshot" /\ m \in WaitMicroSnapshotSkip
    \/ skipList = "Halt" /\ m \in HaltSkip

\* The current state handles the event.
Permits(e) ==
    \/ name = "Idle" /\ e \in IdleEvents
    \/ name = "Sync" /\ e \in SyncEvents
    \/ name = "NG" /\ e \in NGEvents
    \/ name = "Persist" /\ e \in PersistEvents
    \/ name = "WaitSnapshot" /\ e \in WaitSnapshotEvents
    \/ name = "WaitMicroSnapshot" /\ e \in WaitMicroSnapshotEvents

\* NewFSM: the machine is created in Idle without running the entry action.
Init ==
    /\ NetInit
    /\ name = "Idle"
    /\ skipList = "None"
    /\ confPeer = NoPeer
    /\ stalled = FALSE
    /\ waiting = FALSE
    /\ requested = {}
    /\ gotBlocks = {}
    /\ gotSnapshots = {}
    /\ waitFor = NoBlock
    /\ receivedScores = {}
    /\ timer = "None"
    /\ staleTimers = {}
    /\ tasksCh = <<>>
    /\ mineTimers = 0
    /\ persistJobs = 0
    /\ lost = FALSE

-----------------------------------------------------------------------------
(* Transitions of the state machine.                                        *)

\* Event e fires in state s.
On(s, e) == name = s /\ Permits(e)

\* createPermitDynamicCallback and the entry action of the state.
Become(s, err) ==
    /\ name' = s
    /\ skipList' = IF err THEN skipList ELSE s
    /\ lost' = (lost /\ s = name)

\* The handler returns its own state.
Keep(err) ==
    /\ Become(name, err)
    /\ UNCHANGED <<syncPeer, session>>

\* Mutant of Leave: SyncPeer is not cleared.
Leave_KeepsSyncPeer(s, err) ==
    /\ Become(s, err)
    /\ confPeer' = NoPeer
    /\ stalled' = FALSE
    /\ waiting' = FALSE
    /\ requested' = {}
    /\ gotBlocks' = {}
    /\ gotSnapshots' = {}
    /\ UNCHANGED syncPeer

\* The handler returns a new state other than Sync: newIdleState, newNGState,
\* newPersistState, newHaltState and the wait states all clear SyncPeer.
Leave(s, err) ==
    /\ Become(s, err)
    /\ syncPeer' = NoPeer
    /\ confPeer' = NoPeer
    /\ stalled' = FALSE
    /\ waiting' = FALSE
    /\ requested' = {}
    /\ gotBlocks' = {}
    /\ gotSnapshots' = {}

\* syncWithNewPeer: a new session that asks the peer for block IDs.
SyncWithNewPeer(p) ==
    /\ Become("Sync", FALSE)
    /\ syncPeer' = p
    /\ confPeer' = p
    /\ stalled' = FALSE
    /\ waiting' = TRUE
    /\ requested' = {}
    /\ gotBlocks' = {}
    /\ gotSnapshots' = {}

\* PeerManagerImpl.Disconnect, called from a handler.
Disconnect(p) == connected' = connected \ {p}

\* spawnAsync of a MineMicro task.
MineLater ==
    /\ mineTimers < MaxMineTimers
    /\ mineTimers' = mineTimers + 1

-----------------------------------------------------------------------------
(* The state Sync.                                                          *)

\* Internal.Blocks: everything requested has been received.
Complete(bs, ss) == requested \subseteq bs /\ (LightMode => requested \subseteq ss)

\* Blocks would return a batch to whoever asks.
Poppable == ~waiting /\ requested # {} /\ Complete(gotBlocks, gotSnapshots)

\* Mutant of BatchLost: the blocks stay in OrderedBlocks.
BatchLost_NotPopped ==
    /\ StorageMayFail
    /\ Become("Sync", TRUE)
    /\ gotBlocks' = requested
    /\ gotSnapshots' = requested
    /\ UNCHANGED <<syncPeer, confPeer, stalled, waiting, requested, persistJobs, connected>>

\* A storage call failed after the batch was taken out of OrderedBlocks: the
\* session goes on with nothing left to receive.
BatchLost ==
    /\ StorageMayFail
    /\ Become("Sync", TRUE)
    /\ requested' = {}
    /\ gotBlocks' = {}
    /\ gotSnapshots' = {}
    /\ UNCHANGED <<syncPeer, confPeer, stalled, waiting, persistJobs, connected>>

\* Mutant of NextBatch: waitingForSignatures is not set.
NextBatch_NotWaiting ==
    /\ Become("Sync", FALSE)
    /\ stalled' = FALSE
    /\ requested' = {}
    /\ gotBlocks' = {}
    /\ gotSnapshots' = {}
    /\ UNCHANGED <<syncPeer, confPeer, waiting>>

\* The batch is applied and it was not the last one: ask for the next batch.
NextBatch ==
    /\ Become("Sync", FALSE)
    /\ stalled' = FALSE
    /\ waiting' = TRUE
    /\ requested' = {}
    /\ gotBlocks' = {}
    /\ gotSnapshots' = {}
    /\ UNCHANGED <<syncPeer, confPeer>>

\* applyBlocksWithSnapshots, once a block or snapshot has been stored.
ApplyBlocksWithSnapshots(bs, ss) ==
    \/ /\ ~Complete(bs, ss)
       /\ Become("Sync", FALSE)
       /\ stalled' = FALSE
       /\ gotBlocks' = bs
       /\ gotSnapshots' = ss
       /\ UNCHANGED <<syncPeer, confPeer, waiting, requested, persistJobs, connected>>
    \/ /\ Complete(bs, ss)
       /\ \/ BatchLost
          \/ \* the applier refused the batch; a validation error suspends the peer
             /\ Leave("Idle", TRUE)
             /\ Disconnect(confPeer) \/ UNCHANGED connected
             /\ UNCHANGED persistJobs
          \/ \* applied, and the address transactions have to be persisted
             /\ persistJobs < MaxPersistJobs
             /\ Leave("Persist", FALSE)
             /\ persistJobs' = persistJobs + 1
             /\ UNCHANGED connected
          \/ \* applied, and it was the last batch
             /\ Cardinality(requested) < BatchSize
             /\ Leave("NG", FALSE) \/ (StorageMayFail /\ Leave("Idle", TRUE))
             /\ UNCHANGED <<persistJobs, connected>>
          \/ \* applied, go on with another peer or with the same
             /\ Cardinality(requested) >= BatchSize
             /\ NextBatch \/ \E p \in BetterPeers : SyncWithNewPeer(p)
             /\ UNCHANGED <<persistJobs, connected>>

\* BlockIDs with at least one ID, from the peer of the session: the IDs not yet
\* known are requested; if there are none the node is up to date.
SyncBlockIDs(p, ids) ==
    /\ On("Sync", "BlockIDs")
    /\ p = confPeer
    /\ waiting
    /\ \/ /\ ids # {}
          /\ Become("Sync", FALSE)
          /\ stalled' = FALSE
          /\ waiting' = FALSE
          /\ requested' = ids
          /\ UNCHANGED <<syncPeer, confPeer, gotBlocks, gotSnapshots>>
       \/ /\ ids = {}
          /\ Leave("NG", FALSE) \/ (StorageMayFail /\ Leave("Idle", TRUE))
    /\ UNCHANGED <<connected, netOnly, netCh, waitVars, asyncVars>>

\* Block from the peer of the session.
SyncBlock(p, b) ==
    /\ On("Sync", "Block")
    /\ p = confPeer
    /\ b \in requested
    /\ ApplyBlocksWithSnapshots(gotBlocks \cup {b}, gotSnapshots)
    /\ UNCHANGED <<netOnly, netCh, waitVars, tasksCh, mineTimers>>

\* BlockSnapshot from the peer of the session.
SyncBlockSnapshot(p, b) ==
    /\ On("Sync", "BlockSnapshot")
    /\ p = confPeer
    /\ b \in requested
    /\ ApplyBlocksWithSnapshots(gotBlocks, gotSnapshots \cup {b})
    /\ UNCHANGED <<netOnly, netCh, waitVars, tasksCh, mineTimers>>

\* A block, snapshot or list of IDs from another peer, or an empty list, is
\* answered with the same state: only the skip list is installed anew.
SyncIrrelevant ==
    /\ On("Sync", "BlockIDs")
    /\ Keep(FALSE)
    /\ UNCHANGED <<connected, netOnly, netCh, waitVars, asyncVars>>

\* defaultSyncTimeout passes without progress.
Stall ==
    /\ name = "Sync"
    /\ ~stalled
    /\ stalled' = TRUE
    /\ UNCHANGED <<netVars, stateVars, confPeer, waiting, requested, gotBlocks,
                   gotSnapshots, waitVars, asyncVars>>

-----------------------------------------------------------------------------
(* The state NG and the wait states.                                        *)

\* Mutant of WaitForSnapshot: the timeout task is not spawned if one is running.
WaitForSnapshot_NoTimer(s, b) ==
    /\ Leave(s, FALSE)
    /\ waitFor' = b
    /\ receivedScores' = {}
    /\ timer' = IF staleTimers = {} THEN Timeout(s) ELSE "None"
    /\ UNCHANGED staleTimers

\* newWaitSnapshotState and newWaitMicroSnapshotState.
WaitForSnapshot(s, b) ==
    /\ Leave(s, FALSE)
    /\ waitFor' = b
    /\ receivedScores' = {}
    /\ timer' = Timeout(s)
    /\ UNCHANGED staleTimers

\* NGState.Block: a full node applies the block, a light node waits for its
\* snapshot.  A block that exists or does not apply is only an error.
NGBlock(b) ==
    /\ On("NG", "Block")
    /\ \/ LightMode /\ WaitForSnapshot("WaitSnapshot", b)
       \/ ~LightMode /\ Leave("NG", FALSE) /\ UNCHANGED waitVars
    /\ UNCHANGED <<connected, netOnly, netCh, asyncVars>>

\* NGState.MicroBlock.
NGMicroBlock(b) ==
    /\ On("NG", "MicroBlock")
    /\ \/ LightMode /\ WaitForSnapshot("WaitMicroSnapshot", b)
       \/ ~LightMode /\ Keep(FALSE) /\ UNCHANGED waitVars
    /\ UNCHANGED <<connected, netOnly, netCh, asyncVars>>

\* NGState.MicroBlockInv.
NGMicroBlockInv ==
    /\ On("NG", "MicroBlockInv")
    /\ Keep(FALSE)
    /\ UNCHANGED <<connected, netOnly, netCh, waitVars, asyncVars>>

\* cleanupBeforeTransition: the running timeout task is told that it is
\* outdated.
Cleanup ==
    /\ waitFor' = NoBlock
    /\ receivedScores' = {}
    /\ timer' = "None"
    /\ staleTimers' = staleTimers \cup ({timer} \ {"None"})

\* processScoreAfterApplyingOrReturnToNG: sync with the first peer that put
\* aside a higher score and is still active, or return to NG.
ProcessScores ==
    \/ Leave("NG", FALSE)
    \/ \E p \in receivedScores \cap connected : SyncWithNewPeer(p)

\* BlockSnapshot of the awaited block, whether or not the block then applies.  An
\* error of Height leaves the state cleaned up.
WaitBlockSnapshot(b) ==
    /\ On("WaitSnapshot", "BlockSnapshot")
    /\ b = waitFor
    /\ Cleanup
    /\ ProcessScores \/ (StorageMayFail /\ Keep(TRUE))
    /\ UNCHANGED <<connected, netOnly, netCh, asyncVars>>

\* MicroBlockSnapshot of the awaited microblock, whether or not
\* checkAndAppendMicroBlock succeeds.
WaitMicroBlockSnapshot(b) ==
    /\ On("WaitMicroSnapshot", "MicroBlockSnapshot")
    /\ b = waitFor
    /\ Cleanup
    /\ ProcessScores
    /\ UNCHANGED <<connected, netOnly, netCh, asyncVars>>

-----------------------------------------------------------------------------
(* Events that several states handle.                                       *)

\* Score.  UpdateScore fails, and nothing happens, if the peer is not active.
\* Idle and NG start a synchronization if the score is higher than the node's.
IdleScore(p) ==
    /\ On("Idle", "Score")
    /\ p \in connected
    /\ SyncWithNewPeer(p) \/ Keep(FALSE)
    /\ UNCHANGED waitVars

NGScore(p) ==
    /\ On("NG", "Score")
    /\ p \in connected
    /\ SyncWithNewPeer(p) \/ Keep(FALSE)
    /\ UNCHANGED waitVars

\* Sync and Persist only update the score.
SyncScore(p) ==
    /\ On("Sync", "Score")
    /\ p \in connected
    /\ Keep(FALSE)
    /\ UNCHANGED waitVars

PersistScore(p) ==
    /\ On("Persist", "Score")
    /\ p \in connected
    /\ Keep(FALSE)
    /\ UNCHANGED waitVars

\* The wait states put scores aside until scoresSliceMaxSize is reached.
WaitScore(p) ==
    /\ name \in WaitStates /\ Permits("Score")
    /\ Keep(FALSE)
    /\ receivedScores' \in {receivedScores, receivedScores \cup {p}}
    /\ UNCHANGED <<waitFor, timer, staleTimers>>

Score(p) ==
    /\ IdleScore(p) \/ NGScore(p) \/ SyncScore(p) \/ PersistScore(p) \/ WaitScore(p)
    /\ UNCHANGED <<connected, netOnly, netCh, asyncVars>>

\* MinedBlock in Idle: the machine is in NG afterwards, also when the block was
\* not applied.
IdleMinedBlock ==
    /\ On("Idle", "MinedBlock")
    /\ \/ Leave("NG", TRUE) /\ UNCHANGED mineTimers
       \/ Leave("NG", FALSE) /\ MineLater

\* MinedBlock in NG, if the block is applied.
NGMinedBlock ==
    /\ On("NG", "MinedBlock")
    /\ Keep(FALSE)
    /\ MineLater

\* MinedBlock in Sync does not end the session, and a block that is not applied
\* is no error.
SyncMinedBlock ==
    /\ On("Sync", "MinedBlock")
    /\ Keep(FALSE)
    /\ MineLater \/ UNCHANGED mineTimers

MinedBlock ==
    /\ IdleMinedBlock \/ NGMinedBlock \/ SyncMinedBlock
    /\ UNCHANGED <<connected, netOnly, netCh, waitVars, tasksCh, persistJobs>>

\* Transaction: accepted, or invalid and its sender black-listed.
Transaction(p) ==
    /\ Permits("Transaction")
    /\ \/ Keep(FALSE) /\ UNCHANGED connected
       \/ Keep(TRUE) /\ Disconnect(p)
    /\ UNCHANGED <<netOnly, netCh, waitVars, asyncVars>>

\* Halt: newHaltState closes the connections and the storage.
Halt ==
    /\ Permits("Halt")
    /\ Leave("Halt", FALSE) \/ (StorageMayFail /\ Leave("Halt", TRUE))
    /\ UNCHANGED <<connected, netOnly, netCh, waitVars, asyncVars>>

-----------------------------------------------------------------------------
(* Notices of the network goroutine.                                        *)

\* The state ignores the event.
Ignored == UNCHANGED <<stateVars, syncPeer, session>>

\* Run receives from networkMsgCh.
Receive(type) ==
    /\ netCh # <<>>
    /\ Head(netCh).type = type
    /\ netCh' = Tail(netCh)
    /\ UNCHANGED <<connected, netOnly, waitVars, asyncVars>>

\* StartMining: Idle reschedules the miner and stays.
StartMining ==
    /\ Receive("StartMining")
    /\ IF Permits("StartMining") THEN Keep(FALSE) ELSE Ignored

\* StopMining ends NG and Persist.
StopMining ==
    /\ Receive("StopMining")
    /\ IF Permits("StopMining") THEN Leave("Idle", FALSE) ELSE Ignored

\* Mutant of StopSync: the session ignores the notice while it awaits block IDs.
StopSync_NotWhileWaiting ==
    /\ Receive("StopSync")
    /\ IF Permits("StopSync") /\ ~waiting THEN ~Poppable /\ Leave("Idle", FALSE) ELSE Ignored

\* StopSync.  Were a batch left to apply, the code would apply it and then call
\* Errorf, which panics on success; NoPoppableBatch says that there is none.
StopSync ==
    /\ Receive("StopSync")
    /\ IF Permits("StopSync") THEN ~Poppable /\ Leave("Idle", FALSE) ELSE Ignored

\* ChangeSyncPeer; LastBlockIDs may fail.
ChangeSyncPeer ==
    /\ Receive("ChangeSyncPeer")
    /\ IF Permits("ChangeSyncPeer") THEN SyncWithNewPeer(Head(netCh).peer) ELSE Ignored

ChangeSyncPeerFails ==
    /\ Receive("ChangeSyncPeer")
    /\ StorageMayFail /\ Permits("ChangeSyncPeer") /\ Ignored

-----------------------------------------------------------------------------
(* Asynchronous tasks.                                                      *)

HasRoom == Len(tasksCh) < TasksCap

\* SendAsyncTask: a full channel drops the task.
SendAsyncTask(t) == tasksCh' = IF HasRoom THEN Append(tasksCh, t) ELSE tasksCh

\* The tickers of PingTask and AskPeersTask.
Tick(t) ==
    /\ SendAsyncTask(t)
    /\ UNCHANGED <<netVars, stateVars, session, waitVars, mineTimers, persistJobs>>

\* MineMicroTask: its delay is over.
MineMicroDue ==
    /\ mineTimers > 0
    /\ mineTimers' = mineTimers - 1
    /\ SendAsyncTask("MineMicro")
    /\ UNCHANGED <<netVars, stateVars, session, waitVars, persistJobs>>

\* The function of newPersistState: PersistAddressTransactions returned.
PersistDone ==
    /\ persistJobs > 0
    /\ persistJobs' = persistJobs - 1
    /\ SendAsyncTask("PersistComplete")
    /\ lost' = (lost \/ (~HasRoom /\ name = "Persist"))
    /\ UNCHANGED <<netVars, name, skipList, session, waitVars, mineTimers>>

\* SnapshotTimeoutTask of the current wait state.
TimerFires ==
    /\ timer # "None"
    /\ timer' = "None"
    /\ SendAsyncTask(timer)
    /\ lost' = (lost \/ ~HasRoom)
    /\ UNCHANGED <<netVars, name, skipList, session, waitFor, receivedScores,
                   staleTimers, mineTimers, persistJobs>>

\* SnapshotTimeoutTask that is outdated: its select may still take the timer if
\* both channels are ready.
StaleTimerEnds(t) ==
    /\ t \in staleTimers
    /\ staleTimers' = staleTimers \ {t}
    /\ SendAsyncTask(t) \/ UNCHANGED tasksCh
    /\ UNCHANGED <<netVars, stateVars, session, waitFor, receivedScores, timer,
                   mineTimers, persistJobs>>

-----------------------------------------------------------------------------
(* Results of asynchronous tasks.                                           *)

\* Run receives from tasksCh.
ReceiveTask(t) ==
    /\ tasksCh # <<>>
    /\ Head(tasksCh) = t
    /\ tasksCh' = Tail(tasksCh)
    /\ UNCHANGED <<connected, netOnly, netCh, persistJobs>>

\* Task in Idle: nothing to do but for the entry action; the completion of an
\* abandoned job is an error.
IdleTask(t) ==
    /\ On("Idle", "Task")
    /\ IF t = "PersistComplete" THEN Ignored ELSE Keep(FALSE)
    /\ UNCHANGED <<waitVars, mineTimers>>

\* Mutant of SyncTask: the timeout is not checked while block IDs are awaited.
SyncTask_NoTimeout(t) ==
    /\ On("Sync", "Task")
    /\ \/ t = "Ping" /\ stalled /\ ~waiting /\ Leave("Idle", TRUE)
       \/ t # "PersistComplete" /\ ~(t = "Ping" /\ stalled /\ ~waiting) /\ Keep(FALSE)
       \/ t = "PersistComplete" /\ Ignored
    /\ UNCHANGED <<waitVars, mineTimers>>

\* Task in Sync: Ping gives up a stalled synchronization with an error.
SyncTask(t) ==
    /\ On("Sync", "Task")
    /\ \/ t = "Ping" /\ stalled /\ Leave("Idle", TRUE)
       \/ t # "PersistComplete" /\ ~(t = "Ping" /\ stalled) /\ Keep(FALSE)
       \/ t = "PersistComplete" /\ Ignored
    /\ UNCHANGED <<waitVars, mineTimers>>

\* mineMicro: a microblock is mined, or there is nothing to put into it, and the
\* next attempt is planned; or it fails, for one because the top block changed.
NGMineMicro ==
    \/ Keep(FALSE) /\ MineLater
    \/ Keep(TRUE) /\ UNCHANGED mineTimers

\* Mutant of NGTask: Ping is treated as an error.
NGTask_NoPing(t) ==
    /\ On("NG", "Task")
    /\ \/ t = "MineMicro" /\ NGMineMicro
       \/ t \in Timeouts \cup {"AskPeers"} /\ Keep(FALSE) /\ UNCHANGED mineTimers
       \/ t \in {"Ping", "PersistComplete"} /\ Ignored /\ UNCHANGED mineTimers
    /\ UNCHANGED waitVars

\* Task in NG.
NGTask(t) ==
    /\ On("NG", "Task")
    /\ \/ t = "MineMicro" /\ NGMineMicro
       \/ t \in Timeouts \cup {"Ping", "AskPeers"} /\ Keep(FALSE) /\ UNCHANGED mineTimers
       \/ t = "PersistComplete" /\ Ignored /\ UNCHANGED mineTimers
    /\ UNCHANGED waitVars

\* Task in Persist: a completion ends it, also one of an earlier job.
PersistTask(t) ==
    /\ On("Persist", "Task")
    /\ IF t = "PersistComplete" THEN Leave("Idle", FALSE) ELSE Keep(FALSE)
    /\ UNCHANGED <<waitVars, mineTimers>>

\* Task in a wait state: a timeout of the state's kind ends it, whichever block
\* the timeout was started for.
WaitTask(s, t) ==
    /\ On(s, "Task")
    /\ \/ t = Timeout(s) /\ Cleanup /\ ProcessScores
       \/ t \notin {Timeout(s), "PersistComplete"} /\ Keep(FALSE) /\ UNCHANGED waitVars
       \/ t = "PersistComplete" /\ Ignored /\ UNCHANGED waitVars
    /\ UNCHANGED mineTimers

WaitSnapshotTask(t) == WaitTask("WaitSnapshot", t)

\* Mutant of WaitMicroSnapshotTask: reacts to the timeout of the other wait state.
WaitMicroSnapshotTask_WrongKind(t) ==
    /\ On("WaitMicroSnapshot", "Task")
    /\ \/ t = Timeout("WaitSnapshot") /\ Cleanup /\ ProcessScores
       \/ t # Timeout("WaitSnapshot") /\ Keep(FALSE) /\ UNCHANGED waitVars
    /\ UNCHANGED mineTimers

WaitMicroSnapshotTask(t) == WaitTask("WaitMicroSnapshot", t)

\* Task in Halt.
HaltTask ==
    /\ name = "Halt"
    /\ Ignored
    /\ UNCHANGED <<waitVars, mineTimers>>

-----------------------------------------------------------------------------
(* The specification.                                                       *)

HandleMessage ==
    \/ \E p \in Peers : \/ Score(p)
                        \/ Transaction(p)
                        \/ \E ids \in SUBSET BlockIDs : SyncBlockIDs(p, ids)
                        \/ \E b \in BlockIDs : SyncBlock(p, b) \/ SyncBlockSnapshot(p, b)
    \/ \E b \in BlockIDs : \/ NGBlock(b) \/ NGMicroBlock(b)
                           \/ WaitBlockSnapshot(b) \/ WaitMicroBlockSnapshot(b)
    \/ SyncIrrelevant
    \/ NGMicroBlockInv

HandleNotice ==
    StartMining \/ StopMining \/ StopSync \/ ChangeSyncPeer \/ ChangeSyncPeerFails

HandleTask ==
    \E t \in TaskTypes :
        /\ ReceiveTask(t)
        /\ \/ IdleTask(t) \/ SyncTask(t) \/ NGTask(t) \/ PersistTask(t)
           \/ WaitSnapshotTask(t) \/ WaitMicroSnapshotTask(t) \/ HaltTask

AsyncTask ==
    \/ \E t \in {"Ping", "AskPeers"} : Tick(t)
    \/ MineMicroDue \/ PersistDone \/ TimerFires
    \/ \E t \in Timeouts : StaleTimerEnds(t)

NetworkGoroutine ==
    NetworkNext /\ UNCHANGED <<stateVars, session, waitVars, asyncVars>>

Next ==
    \/ HandleMessage \/ HandleNotice \/ HandleTask
    \/ MinedBlock \/ Halt \/ Stall
    \/ AsyncTask
    \/ NetworkGoroutine

Spec == Init /\ [][Next]_vars

\* The loop receives from every channel that has something (Go's select picks
\* among the ready ones at random), goroutines that can run do run, delays end,
\* and the periodic Ping finds room in the channel again and again.
Fairness ==
    /\ WF_vars(HandleTask)
    /\ WF_vars(HandleNotice)
    /\ WF_vars(NetworkGoroutine /\ netPc # "recv")
    /\ WF_vars(TimerFires)
    /\ WF_vars(PersistDone)
    /\ SF_vars(HasRoom /\ Tick("Ping"))

FairSpec == Spec /\ Fairness

-----------------------------------------------------------------------------
(* Properties.                                                              *)

TypeOK ==
    /\ NetworkTypeOK
    /\ name \in States
    /\ skipList \in States \cup {"None"}
    /\ lost \in BOOLEAN
    /\ confPeer \in Peers \cup {NoPeer}
    /\ stalled \in BOOLEAN
    /\ waiting \in BOOLEAN
    /\ requested \subseteq BlockIDs
    /\ gotBlocks \subseteq BlockIDs
    /\ gotSnapshots \subseteq BlockIDs
    /\ waitFor \in BlockIDs \cup {NoBlock}
    /\ receivedScores \subseteq Peers
    /\ timer \in Timeouts \cup {"None"}
    /\ staleTimers \subseteq Timeouts
    /\ tasksCh \in Seq(TaskTypes)
    /\ Len(tasksCh) <= TasksCap
    /\ mineTimers \in 0..MaxMineTimers
    /\ persistJobs \in 0..MaxPersistJobs

\* The network goroutine sees the peer of the running session, and sees none
\* outside of Sync.  It decides on it whether to stop a session, and the handlers
\* of Sync dereference it (BlockIDs, changePeerIfRequired).
SyncPeerAgrees ==
    /\ (name = "Sync") = (syncPeer # NoPeer)
    /\ syncPeer = confPeer

\* A complete batch is applied by the event that completes it, so none is left
\* for StopSync, whose way of applying one ends in a panic (Errorf of nil).
NoPoppableBatch == name = "Sync" => ~Poppable

\* The messages that a state cannot do without.
Needed(s) ==
    {"Score"}
    \cup (IF s = "Sync" THEN {"Signatures", "BlockIDs", "Block"} ELSE {})
    \cup (IF s = "Sync" /\ LightMode THEN {"BlockSnapshot"} ELSE {})
    \cup (IF s = "NG" THEN {"Block", "MicroBlockInv", "MicroBlock", "Transaction"} ELSE {})
    \cup (IF s = "WaitSnapshot" THEN {"BlockSnapshot"} ELSE {})
    \cup (IF s = "WaitMicroSnapshot" THEN {"MicroBlockSnapshot"} ELSE {})

\* The installed list skips nothing that the state needs.
Hears == \A m \in Needed(name) : ~Skipped(m)

\* Whatever errors the handlers before returned, the connections deliver what the
\* state needs.  NG, which a failed MinedBlock enters with the list of Idle, is the
\* exception that SkipListHeals is about.
SkipListServesState == name \notin {"NG", "Halt"} => Hears

\* If the storage does not fail, a session always has something to receive: block
\* IDs, or a block or snapshot that it asked for and that has not come.
SyncAwaitsSomething ==
    name = "Sync" =>
        \/ waiting
        \/ \E b \in requested :
              b \notin gotBlocks \/ (LightMode /\ b \notin gotSnapshots)

\* t is among the results that the loop has not yet received.
Reported(t) == \E i \in 1..Len(tasksCh) : tasksCh[i] = t

\* If the storage does not fail, a wait state knows its block and something will
\* end it: its timeout is running or reported, unless a full channel dropped it.
WaitIsGuarded ==
    name \in WaitStates =>
        /\ waitFor # NoBlock
        /\ timer = Timeout(name) \/ Reported(Timeout(name)) \/ lost

\* Persist is entered with a job whose completion will end it, also when earlier
\* jobs, abandoned by StopMining, report in the meantime.
PersistIsGuarded ==
    name = "Persist" => persistJobs > 0 \/ Reported("PersistComplete") \/ lost

\* A synchronization that makes no progress is given up, or progresses.
SilentPeerIsLeft == (name = "Sync" /\ stalled) ~> (name # "Sync" \/ ~stalled)

\* NG entered with an error is deaf to blocks and microblocks only until the next
\* Ping: the entry action installs its list, or the state is left.
SkipListHeals == (name = "NG" /\ ~Hears) ~> (name # "NG" \/ Hears)

\* The wait states and Persist end unless the channel dropped their completion.
WaitEnds ==
    (name \in WaitStates \cup {"Persist"}) ~>
        (name \notin WaitStates \cup {"Persist"} \/ lost)

\* Once the network goroutine, handling the error of a peer, is about to see that
\* it is the sync peer, the session with it ends.
BrokenPeerIsLeft ==
    \A p \in Peers :
        (netPc = "stopSync" /\ netPeer = p /\ confPeer = p) ~> (confPeer # p)
=============================================================================
