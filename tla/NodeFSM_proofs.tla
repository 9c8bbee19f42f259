--------------------------- MODULE NodeFSM_proofs ---------------------------
(***************************************************************************)
(* Proofs about NodeFSM for any number of peers, blocks, pending tasks and *)
(* any channel capacities.  Every step is one of seven moves of the state  *)
(* machine and its session (lemma Moves); the invariants about the machine *)
(* are shown for the moves, the ones about completions that are on the way *)
(* for the actions.                                                        *)
(***************************************************************************)
EXTENDS NodeFSM, TLAPS

\* The part of the types that the transitions of the state machine change.
MachineTypeOK ==
    /\ name \in States
    /\ skipList \in States \cup {"None"}
    /\ syncPeer \in Peers \cup {NoPeer}
    /\ confPeer \in Peers \cup {NoPeer}
    /\ requested \subseteq BlockIDs
    /\ gotBlocks \subseteq BlockIDs
    /\ gotSnapshots \subseteq BlockIDs

FlagsTypeOK == lost \in BOOLEAN /\ stalled \in BOOLEAN /\ waiting \in BOOLEAN

WaitTypeOK ==
    /\ waitFor \in BlockIDs \cup {NoBlock}
    /\ receivedScores \subseteq Peers
    /\ timer \in Timeouts \cup {"None"}
    /\ staleTimers \subseteq Timeouts

AsyncTypeOK ==
    /\ tasksCh \in Seq(TaskTypes)
    /\ Len(tasksCh) <= TasksCap
    /\ mineTimers \in 0..MaxMineTimers
    /\ persistJobs \in 0..MaxPersistJobs

NetTypeOK ==
    /\ connected \subseteq Peers
    /\ netPc \in NetSteps
    /\ netPeer \in Peers \cup {NoPeer}
    /\ netCh \in Seq(Notices)
    /\ Len(netCh) <= NetCap

\* TypeOK is the conjunction of its parts.
LEMMA TypeParts ==
    TypeOK <=> /\ MachineTypeOK /\ FlagsTypeOK /\ WaitTypeOK
               /\ AsyncTypeOK /\ NetTypeOK
  BY DEF TypeOK, NetworkTypeOK, MachineTypeOK, FlagsTypeOK, WaitTypeOK,
         AsyncTypeOK, NetTypeOK

\* The ways in which a step can change the state machine and its session.
Stays == UNCHANGED <<name, skipList, syncPeer, confPeer, waiting, requested,
                     gotBlocks, gotSnapshots>>
          /\ lost' \in BOOLEAN /\ stalled' \in BOOLEAN
Keeps == \E err \in BOOLEAN : Keep(err)
Leaves ==
    \E s \in States \ {"Sync"}, err \in BOOLEAN :
        /\ name # "Halt"
        /\ Leave(s, err)
        /\ err => s \in {"Idle", "NG", "Halt"}
Starts == \E p \in Peers : SyncWithNewPeer(p)
Requests ==
    /\ name = "Sync" /\ waiting
    /\ Become("Sync", FALSE)
    /\ stalled' = FALSE
    /\ waiting' = FALSE
    /\ requested' \subseteq BlockIDs /\ requested' # {}
    /\ UNCHANGED <<syncPeer, confPeer, gotBlocks, gotSnapshots>>
Receives ==
    /\ name = "Sync"
    /\ gotBlocks' \in SUBSET BlockIDs /\ gotSnapshots' \in SUBSET BlockIDs
    /\ requested # {}
    /\ ~Complete(gotBlocks', gotSnapshots')
    /\ Become("Sync", FALSE)
    /\ stalled' = FALSE
    /\ UNCHANGED <<syncPeer, confPeer, waiting, requested>>
Drops == name = "Sync" /\ (NextBatch \/ BatchLost)

Move == Stays \/ Keeps \/ Leaves \/ Starts \/ Requests \/ Receives \/ Drops

\* Every step of the node moves the state machine in one of these ways.
LEMMA Moves == TypeOK /\ [Next]_vars => Move
  <1> SUFFICES ASSUME TypeOK, [Next]_vars PROVE Move
    OBVIOUS
  <1> USE NodeFSMAssumption, NetworkAssumption
  <1>0. MachineTypeOK /\ FlagsTypeOK /\ WaitTypeOK /\ NetTypeOK
    BY TypeParts
  <1>1. ASSUME NEW p \in Peers, Score(p) PROVE Move
    BY <1>1 DEF Score, IdleScore, NGScore, SyncScore, PersistScore, WaitScore, Move, Keeps, Starts
  <1>2. ASSUME NEW p \in Peers, Transaction(p) PROVE Move
    BY <1>2 DEF Transaction, Move, Keeps
  <1>3. ASSUME NEW p \in Peers, NEW ids \in SUBSET BlockIDs, SyncBlockIDs(p, ids) PROVE Move
    <2>1. CASE ids # {}
      BY <1>3, <2>1 DEF SyncBlockIDs, On, Move, Requests
    <2>2. CASE Leave("NG", FALSE) \/ Leave("Idle", TRUE)
      BY <1>3, <2>2 DEF SyncBlockIDs, On, Move, Leaves, States
    <2> QED
      BY <1>3, <2>1, <2>2 DEF SyncBlockIDs
  <1>4. ASSUME name = "Sync", requested # {},
               NEW bs \in SUBSET BlockIDs, NEW ss \in SUBSET BlockIDs,
               ApplyBlocksWithSnapshots(bs, ss) PROVE Move
    <2>1. CASE ~Complete(bs, ss)
      BY <1>4, <2>1 DEF ApplyBlocksWithSnapshots, Move, Receives
    <2>2. CASE BatchLost \/ NextBatch
      BY <1>4, <2>2 DEF Move, Drops
    <2>3. CASE Leave("Idle", TRUE) \/ Leave("NG", FALSE) \/ Leave("Persist", FALSE)
      BY <1>4, <2>3 DEF Move, Leaves, States
    <2>4. CASE \E p \in BetterPeers : SyncWithNewPeer(p)
      BY <1>0, <2>4 DEF Move, Starts, BetterPeers, NetTypeOK
    <2> QED
      BY <1>4, <2>1, <2>2, <2>3, <2>4 DEF ApplyBlocksWithSnapshots
  <1>5. ASSUME NEW p \in Peers, NEW b \in BlockIDs,
               SyncBlock(p, b) \/ SyncBlockSnapshot(p, b) PROVE Move
    <2>1. gotBlocks \cup {b} \in SUBSET BlockIDs /\ gotSnapshots \cup {b} \in SUBSET BlockIDs
          /\ gotBlocks \in SUBSET BlockIDs /\ gotSnapshots \in SUBSET BlockIDs
      BY <1>0 DEF MachineTypeOK
    <2> QED
      BY <1>4, <1>5, <2>1 DEF SyncBlock, SyncBlockSnapshot, On
  <1>6. ASSUME NEW b \in BlockIDs, NGBlock(b) \/ NGMicroBlock(b) PROVE Move
    BY <1>6 DEF NGBlock, NGMicroBlock, On, WaitForSnapshot, Move, Leaves, Keeps, States, WaitStates
  <1>7. ASSUME name # "Halt", ProcessScores PROVE Move
    BY <1>0, <1>7 DEF ProcessScores, Move, Leaves, Starts, States, WaitTypeOK
  <1>8. ASSUME NEW b \in BlockIDs, WaitBlockSnapshot(b) \/ WaitMicroBlockSnapshot(b) PROVE Move
    BY <1>7, <1>8 DEF WaitBlockSnapshot, WaitMicroBlockSnapshot, On, Move, Keeps
  <1>9. ASSUME SyncIrrelevant \/ NGMicroBlockInv PROVE Move
    BY <1>9 DEF SyncIrrelevant, NGMicroBlockInv, Move, Keeps
  <1>10. ASSUME Ignored PROVE Move
    BY <1>0, <1>10 DEF Ignored, stateVars, session, Move, Stays, FlagsTypeOK
  <1>11. ASSUME HandleNotice PROVE Move
    <2>1. CASE StartMining
      BY <1>10, <2>1 DEF StartMining, Move, Keeps
    <2>2. CASE StopMining \/ StopSync
      BY <1>10, <2>2 DEF StopMining, StopSync, Permits, Move, Leaves, States
    <2>3. CASE ChangeSyncPeer
      <3>1. Permits("ChangeSyncPeer") => Head(netCh).peer \in Peers
        <4>1. Head(netCh) \in Notices /\ Head(netCh).type = "ChangeSyncPeer"
          BY <1>0, <2>3 DEF ChangeSyncPeer, Receive, NetTypeOK
        <4> QED
          BY <4>1 DEF Notices, Notice
      <3> QED
        BY <1>10, <2>3, <3>1 DEF ChangeSyncPeer, Move, Starts
    <2>4. CASE ChangeSyncPeerFails
      BY <1>10, <2>4 DEF ChangeSyncPeerFails
    <2> QED
      BY <1>11, <2>1, <2>2, <2>3, <2>4 DEF HandleNotice
  <1>12. ASSUME NEW t \in TaskTypes,
                \/ IdleTask(t) \/ SyncTask(t) \/ NGTask(t) \/ PersistTask(t)
                \/ WaitSnapshotTask(t) \/ WaitMicroSnapshotTask(t) \/ HaltTask PROVE Move
    BY <1>7, <1>10, <1>12 DEF On, IdleTask, SyncTask, NGTask, NGMineMicro, PersistTask,
       WaitSnapshotTask, WaitMicroSnapshotTask, WaitTask, HaltTask, Move, Keeps, Leaves, States
  <1>13. ASSUME MinedBlock PROVE Move
    BY <1>13 DEF On, MinedBlock, IdleMinedBlock, NGMinedBlock, SyncMinedBlock, Move, Keeps, Leaves, States
  <1>14. ASSUME Halt PROVE Move
    BY <1>14 DEF Halt, Permits, Move, Leaves, States
  <1>15. ASSUME Stall \/ AsyncTask PROVE Move
    BY <1>0, <1>15 DEF Stall, AsyncTask, Tick, MineMicroDue, PersistDone, TimerFires, StaleTimerEnds,
       netVars, stateVars, session, Move, Stays, FlagsTypeOK
  <1>16. ASSUME NetworkGoroutine PROVE Move
    BY <1>0, <1>16 DEF NetworkGoroutine, NetworkNext, NetworkStep, HandleConnected, HandleInternalErr,
       StartMiningNotice, SwitchToNewPeerIfRequired, StopMiningNotice, StopSyncNotice,
       stateVars, session, Move, Stays, FlagsTypeOK
  <1>17. CASE UNCHANGED vars
    BY <1>0, <1>17 DEF vars, Move, Stays, FlagsTypeOK
  <1> QED
    BY <1>1, <1>2, <1>3, <1>5, <1>6, <1>8, <1>9, <1>11, <1>12, <1>13, <1>14, <1>15, <1>16, <1>17
    DEF Next, HandleMessage, HandleTask

\* A move keeps the types of what it changes.
LEMMA MoveTypes == MachineTypeOK /\ FlagsTypeOK /\ Move => MachineTypeOK' /\ FlagsTypeOK'
  <1> SUFFICES ASSUME MachineTypeOK, FlagsTypeOK, Move
               PROVE  MachineTypeOK' /\ FlagsTypeOK'
    OBVIOUS
  <1> USE DEF MachineTypeOK, FlagsTypeOK, session, States
  <1>1. CASE Stays
    BY <1>1 DEF Stays
  <1>2. CASE Keeps
    BY <1>2 DEF Keeps, Keep, Become
  <1>3. CASE Leaves
    BY <1>3 DEF Leaves, Leave, Become
  <1>4. CASE Starts
    BY <1>4 DEF Starts, SyncWithNewPeer, Become
  <1>5. CASE Requests
    BY <1>5 DEF Requests, Become
  <1>6. CASE Receives
    BY <1>6 DEF Receives, Become
  <1>7. CASE Drops
    BY <1>7 DEF Drops, NextBatch, BatchLost, Become
  <1> QED
    BY <1>1, <1>2, <1>3, <1>4, <1>5, <1>6, <1>7 DEF Move

\* A session that awaits block IDs holds nothing of an earlier batch.
NothingLeftOver ==
    waiting => requested = {} /\ gotBlocks = {} /\ gotSnapshots = {}

\* The list that is installed: the states that are only entered without an error
\* have their own, and no other state has the list of Halt.
ListFits ==
    /\ name \in {"Sync", "Persist"} \cup WaitStates => skipList = name
    /\ name # "Halt" => skipList # "Halt"

MachineInv == SyncPeerAgrees /\ NothingLeftOver /\ NoPoppableBatch /\ ListFits

\* A move keeps the invariant of the state machine.
LEMMA MoveInv == TypeOK /\ MachineInv /\ Move => MachineInv'
  <1> SUFFICES ASSUME TypeOK, MachineInv, Move PROVE MachineInv'
    OBVIOUS
  <1>0. MachineTypeOK
    BY TypeParts
  <1> USE NetworkAssumption
      DEF SyncPeerAgrees, NothingLeftOver, NoPoppableBatch, ListFits, Poppable,
          Complete, WaitStates
  <1>1. CASE Stays
    BY <1>1 DEF Stays, MachineInv
  <1>2. CASE Keeps
    BY <1>2 DEF Keeps, Keep, Become, session, MachineInv
  <1>3. CASE Leaves
    BY <1>3 DEF Leaves, Leave, Become, MachineInv, States
  <1>4. CASE Starts
    BY <1>4 DEF Starts, SyncWithNewPeer, Become, MachineInv
  <1>5. CASE Requests
    BY <1>5 DEF Requests, Become, MachineInv
  <1>6. CASE Receives
    BY <1>6 DEF Receives, Become, MachineInv
  <1>7. CASE Drops
    BY <1>7 DEF Drops, NextBatch, BatchLost, Become, MachineInv
  <1> QED
    BY <1>1, <1>2, <1>3, <1>4, <1>5, <1>6, <1>7 DEF Move

\* No list but that of Halt skips what its own state, or Idle, needs.
LEMMA OwnListServes == TypeOK /\ ListFits => SkipListServesState
  BY DEF TypeOK, ListFits, SkipListServesState, Hears, Needed, Skipped, States, WaitStates,
         Messages, IdleSkip, SyncSkip, NGSkip, PersistSkip, WaitSnapshotSkip, WaitMicroSnapshotSkip

\* What sending does to a sequence.
LEMMA AppendFacts ==
    ASSUME NEW S, NEW q \in Seq(S), NEW x \in S
    PROVE  /\ Append(q, x) \in Seq(S)
           /\ Len(Append(q, x)) = Len(q) + 1
           /\ Append(q, x)[Len(q) + 1] = x
           /\ \A i \in 1..Len(q) : Append(q, x)[i] = q[i]
  OBVIOUS

\* What receiving does to a sequence.
LEMMA TailFacts ==
    ASSUME NEW S, NEW q \in Seq(S), q # <<>>
    PROVE  /\ Tail(q) \in Seq(S)
           /\ Head(q) \in S
           /\ Len(Tail(q)) = Len(q) - 1
           /\ Len(q) \in Nat \ {0}
           /\ Head(q) = q[1]
           /\ \A i \in 1..Len(Tail(q)) : Tail(q)[i] = q[i + 1]
  OBVIOUS

\* Sending a task keeps the channel within its capacity, and what was reported
\* stays reported; the task itself is, if there was room.
LEMMA SendFacts ==
    ASSUME AsyncTypeOK, NEW t \in TaskTypes, SendAsyncTask(t)
    PROVE  /\ tasksCh' \in Seq(TaskTypes)
           /\ Len(tasksCh') <= TasksCap
           /\ \A u : Reported(u) => Reported(u)'
           /\ HasRoom => Reported(t)'
  <1> USE NodeFSMAssumption DEF AsyncTypeOK, SendAsyncTask, HasRoom, Reported
  <1>1. CASE HasRoom
    <2>1. /\ Append(tasksCh, t) \in Seq(TaskTypes)
          /\ Len(Append(tasksCh, t)) = Len(tasksCh) + 1
          /\ Append(tasksCh, t)[Len(tasksCh) + 1] = t
          /\ \A i \in 1..Len(tasksCh) : Append(tasksCh, t)[i] = tasksCh[i]
      BY AppendFacts
    <2>2. tasksCh' = Append(tasksCh, t) /\ Len(tasksCh) \in Nat
      BY <1>1
    <2>3. ASSUME NEW u, Reported(u) PROVE Reported(u)'
      <3>1. PICK i \in 1..Len(tasksCh) : tasksCh[i] = u
        BY <2>3
      <3> QED
        BY <2>1, <2>2, <3>1
    <2>4. Reported(t)'
      BY <2>1, <2>2
    <2> QED
      BY <1>1, <2>1, <2>2, <2>3, <2>4
  <1>2. CASE ~HasRoom
    BY <1>2
  <1> QED
    BY <1>1, <1>2

\* Receiving a task only takes that task away.
LEMMA ReceiveFacts ==
    ASSUME AsyncTypeOK, NEW t \in TaskTypes, ReceiveTask(t)
    PROVE  /\ tasksCh' \in Seq(TaskTypes)
           /\ Len(tasksCh') <= TasksCap
           /\ \A u : Reported(u) /\ u # t => Reported(u)'
  <1> USE NodeFSMAssumption DEF AsyncTypeOK, ReceiveTask, Reported
  <1>1. /\ Tail(tasksCh) \in Seq(TaskTypes)
        /\ Len(Tail(tasksCh)) = Len(tasksCh) - 1
        /\ Len(tasksCh) \in Nat \ {0}
        /\ Head(tasksCh) = tasksCh[1]
        /\ \A i \in 1..Len(Tail(tasksCh)) : Tail(tasksCh)[i] = tasksCh[i + 1]
    BY TailFacts
  <1>2. ASSUME NEW u, Reported(u), u # t PROVE Reported(u)'
    <2>1. PICK i \in 1..Len(tasksCh) : tasksCh[i] = u
      BY <1>2
    <2>2. i # 1
      BY <1>1, <1>2, <2>1
    <2>3. i - 1 \in 1..Len(Tail(tasksCh)) /\ Tail(tasksCh)[i - 1] = u
      BY <1>1, <2>1, <2>2
    <2> QED
      BY <2>3
  <1> QED
    BY <1>1, <1>2

\* NewFSM and NewNetwork start with values of the right types.
LEMMA InitTypes == Init => TypeOK
  <1> SUFFICES ASSUME Init PROVE TypeOK
    OBVIOUS
  <1> USE NodeFSMAssumption, NetworkAssumption DEF Init, NetInit
  <1>1. MachineTypeOK
    BY DEF MachineTypeOK, States
  <1>2. FlagsTypeOK
    BY DEF FlagsTypeOK
  <1>3. WaitTypeOK
    BY DEF WaitTypeOK
  <1>4. AsyncTypeOK
    BY DEF AsyncTypeOK
  <1>5. NetTypeOK
    BY DEF NetTypeOK, NetSteps
  <1> QED
    BY <1>1, <1>2, <1>3, <1>4, <1>5, TypeParts

\* What a wait state keeps has the right type after every step.
LEMMA WaitTypes == TypeOK /\ [Next]_vars => WaitTypeOK'
  <1> SUFFICES ASSUME TypeOK, [Next]_vars PROVE WaitTypeOK'
    OBVIOUS
  <1>0. WaitTypeOK
    BY TypeParts
  <1> USE <1>0 DEF WaitTypeOK, waitVars
  <1>1. ASSUME UNCHANGED waitVars PROVE WaitTypeOK'
    BY <1>1
  <1>2. ASSUME Cleanup PROVE WaitTypeOK'
    BY <1>2 DEF Cleanup
  <1>3. ASSUME NEW p \in Peers, Score(p) PROVE WaitTypeOK'
    BY <1>3 DEF Score, IdleScore, NGScore, SyncScore, PersistScore, WaitScore
  <1>4. ASSUME NEW b \in BlockIDs, NGBlock(b) \/ NGMicroBlock(b) PROVE WaitTypeOK'
    BY <1>4 DEF NGBlock, NGMicroBlock, WaitForSnapshot, Timeout, Timeouts
  <1>5. ASSUME HandleTask PROVE WaitTypeOK'
    BY <1>1, <1>2, <1>5
    DEF HandleTask, IdleTask, SyncTask, NGTask, PersistTask, WaitSnapshotTask,
        WaitMicroSnapshotTask, WaitTask, HaltTask
  <1>6. ASSUME AsyncTask PROVE WaitTypeOK'
    BY <1>6 DEF AsyncTask, Tick, MineMicroDue, PersistDone, TimerFires, StaleTimerEnds
  <1>7. ASSUME NEW p \in Peers, NEW b \in BlockIDs,
               SyncBlock(p, b) \/ SyncBlockSnapshot(p, b)
        PROVE  WaitTypeOK'
    BY <1>1, <1>7 DEF SyncBlock, SyncBlockSnapshot
  <1>8. ASSUME NEW b \in BlockIDs, WaitBlockSnapshot(b) \/ WaitMicroBlockSnapshot(b)
        PROVE  WaitTypeOK'
    BY <1>2, <1>8 DEF WaitBlockSnapshot, WaitMicroBlockSnapshot
  <1> QED
    BY <1>1, <1>3, <1>4, <1>5, <1>6, <1>7, <1>8
    DEF Next, HandleMessage, Transaction, SyncBlockIDs, SyncIrrelevant, NGMicroBlockInv,
        HandleNotice, StartMining, StopMining, StopSync, ChangeSyncPeer,
        ChangeSyncPeerFails, Receive, MinedBlock, Halt, Stall, NetworkGoroutine, vars

\* The counters and the channel of the asynchronous tasks stay within bounds.
LEMMA AsyncTypes == TypeOK /\ [Next]_vars => AsyncTypeOK'
  <1> SUFFICES ASSUME TypeOK, [Next]_vars PROVE AsyncTypeOK'
    OBVIOUS
  <1>0. AsyncTypeOK /\ WaitTypeOK
    BY TypeParts
  <1> USE NodeFSMAssumption DEF asyncVars
  <1>1. ASSUME UNCHANGED asyncVars PROVE AsyncTypeOK'
    BY <1>0, <1>1 DEF AsyncTypeOK
  <1>2. ASSUME NEW p \in Peers, NEW b \in BlockIDs,
               SyncBlock(p, b) \/ SyncBlockSnapshot(p, b) PROVE AsyncTypeOK'
    <2>1. UNCHANGED <<tasksCh, mineTimers>>
      BY <1>2 DEF SyncBlock, SyncBlockSnapshot
    <2>2. \/ persistJobs' = persistJobs
          \/ persistJobs < MaxPersistJobs /\ persistJobs' = persistJobs + 1
      BY <1>2 DEF SyncBlock, SyncBlockSnapshot, ApplyBlocksWithSnapshots, BatchLost
    <2> QED
      BY <1>0, <2>1, <2>2 DEF AsyncTypeOK
  <1>3. ASSUME MinedBlock PROVE AsyncTypeOK'
    <2>1. UNCHANGED <<tasksCh, persistJobs>> /\ (mineTimers' = mineTimers \/ MineLater)
      BY <1>3 DEF MinedBlock, IdleMinedBlock, NGMinedBlock, SyncMinedBlock
    <2> QED
      BY <1>0, <2>1 DEF MineLater, AsyncTypeOK
  <1>4. ASSUME HandleTask PROVE AsyncTypeOK'
    <2>1. PICK t \in TaskTypes :
            /\ ReceiveTask(t)
            /\ \/ IdleTask(t) \/ SyncTask(t) \/ NGTask(t) \/ PersistTask(t)
               \/ WaitSnapshotTask(t) \/ WaitMicroSnapshotTask(t) \/ HaltTask
      BY <1>4 DEF HandleTask
    <2>2. tasksCh' \in Seq(TaskTypes) /\ Len(tasksCh') <= TasksCap /\ persistJobs' = persistJobs
      BY <1>0, <2>1, ReceiveFacts DEF ReceiveTask
    <2>3. mineTimers' = mineTimers \/ MineLater
      BY <2>1 DEF IdleTask, SyncTask, NGTask, NGMineMicro, PersistTask, WaitSnapshotTask,
                  WaitMicroSnapshotTask, WaitTask, HaltTask
    <2> QED
      BY <1>0, <2>2, <2>3 DEF AsyncTypeOK, MineLater
  <1>5. ASSUME AsyncTask PROVE AsyncTypeOK'
    <2>1. ASSUME NEW t \in TaskTypes, SendAsyncTask(t)
          PROVE  tasksCh' \in Seq(TaskTypes) /\ Len(tasksCh') <= TasksCap
      BY <1>0, <2>1, SendFacts
    <2>2. (\E t \in TaskTypes : SendAsyncTask(t)) \/ UNCHANGED tasksCh
      BY <1>0, <1>5 DEF AsyncTask, Tick, MineMicroDue, PersistDone, TimerFires,
                        StaleTimerEnds, TaskTypes, WaitTypeOK
    <2>3. tasksCh' \in Seq(TaskTypes) /\ Len(tasksCh') <= TasksCap
      BY <1>0, <2>1, <2>2 DEF AsyncTypeOK
    <2>4. mineTimers' \in 0..MaxMineTimers /\ persistJobs' \in 0..MaxPersistJobs
      BY <1>0, <1>5 DEF AsyncTask, Tick, MineMicroDue, PersistDone, TimerFires,
                        StaleTimerEnds, AsyncTypeOK
    <2> QED
      BY <2>3, <2>4 DEF AsyncTypeOK
  <1> QED
    BY <1>1, <1>2, <1>3, <1>4, <1>5
    DEF Next, HandleMessage, Score, Transaction, SyncBlockIDs, NGBlock, NGMicroBlock,
        WaitBlockSnapshot, WaitMicroBlockSnapshot, SyncIrrelevant, NGMicroBlockInv,
        HandleNotice, StartMining, StopMining, StopSync, ChangeSyncPeer,
        ChangeSyncPeerFails, Receive, Halt, Stall, NetworkGoroutine, vars

\* The network goroutine and its channel.
LEMMA NetTypes == TypeOK /\ [Next]_vars => NetTypeOK'
  <1> SUFFICES ASSUME TypeOK, [Next]_vars PROVE NetTypeOK'
    OBVIOUS
  <1>0. NetTypeOK
    BY TypeParts
  <1> USE NetworkAssumption DEF netVars, netOnly
  <1>1. ASSUME connected' \subseteq Peers, UNCHANGED <<netOnly, netCh>> PROVE NetTypeOK'
    BY <1>0, <1>1 DEF NetTypeOK
  <1>2. ASSUME HandleNotice PROVE NetTypeOK'
    <2>1. netCh # <<>> /\ netCh' = Tail(netCh) /\ UNCHANGED <<connected, netOnly>>
      BY <1>2 DEF HandleNotice, StartMining, StopMining, StopSync, ChangeSyncPeer,
                  ChangeSyncPeerFails, Receive
    <2>2. Tail(netCh) \in Seq(Notices) /\ Len(Tail(netCh)) = Len(netCh) - 1 /\ Len(netCh) \in Nat
      BY <1>0, <2>1, TailFacts DEF NetTypeOK
    <2> QED
      BY <1>0, <2>1, <2>2 DEF NetTypeOK
  <1>3. ASSUME NetworkNext PROVE NetTypeOK'
    <2>1. ASSUME NEW m \in Notices, Send(m) PROVE netCh' \in Seq(Notices) /\ Len(netCh') <= NetCap
      BY <1>0, <2>1, AppendFacts DEF Send, NetTypeOK
    <2>2. (\E m \in Notices : Send(m)) \/ UNCHANGED netCh
      BY <1>0, <1>3 DEF NetworkNext, NetworkStep, HandleConnected, HandleInternalErr,
         StartMiningNotice, SwitchToNewPeerIfRequired, StopMiningNotice, StopSyncNotice,
         Notices, BetterPeers, NetTypeOK
    <2>3. connected' \subseteq Peers /\ netPc' \in NetSteps /\ netPeer' \in Peers \cup {NoPeer}
      BY <1>0, <1>3 DEF NetworkNext, NetworkStep, HandleConnected, HandleInternalErr,
         StartMiningNotice, SwitchToNewPeerIfRequired, StopMiningNotice, StopSyncNotice,
         NetSteps, NetTypeOK
    <2> QED
      BY <1>0, <2>1, <2>2, <2>3 DEF NetTypeOK
  <1>4. ASSUME HandleMessage PROVE NetTypeOK'
    <2>1. UNCHANGED <<netOnly, netCh>>
      BY <1>4 DEF HandleMessage, Score, Transaction, SyncBlockIDs, SyncBlock, SyncBlockSnapshot,
         NGBlock, NGMicroBlock, WaitBlockSnapshot, WaitMicroBlockSnapshot, SyncIrrelevant,
         NGMicroBlockInv
    <2>2. connected' \subseteq connected
      BY <1>4 DEF HandleMessage, Score, Transaction, SyncBlockIDs, SyncBlock, SyncBlockSnapshot,
         NGBlock, NGMicroBlock, WaitBlockSnapshot, WaitMicroBlockSnapshot, SyncIrrelevant,
         NGMicroBlockInv, ApplyBlocksWithSnapshots, BatchLost, Disconnect
    <2> QED
      BY <1>0, <1>1, <2>1, <2>2 DEF NetTypeOK
  <1>5. ASSUME UNCHANGED <<connected, netOnly, netCh>> PROVE NetTypeOK'
    BY <1>0, <1>1, <1>5 DEF NetTypeOK
  <1>6. ASSUME HandleTask \/ AsyncTask \/ MinedBlock \/ Halt \/ Stall \/ UNCHANGED vars
        PROVE NetTypeOK'
    <2>1. UNCHANGED <<connected, netOnly, netCh>>
      BY <1>6 DEF HandleTask, ReceiveTask, AsyncTask, Tick, MineMicroDue, PersistDone, TimerFires,
         StaleTimerEnds, MinedBlock, Halt, Stall, vars
    <2> QED
      BY <1>5, <2>1
  <1> QED
    BY <1>2, <1>3, <1>4, <1>6 DEF Next, NetworkGoroutine

\* Every step keeps the types.
LEMMA TypeStep == TypeOK /\ [Next]_vars => TypeOK'
  <1> SUFFICES ASSUME TypeOK, [Next]_vars PROVE TypeOK'
    OBVIOUS
  <1>1. MachineTypeOK' /\ FlagsTypeOK'
    BY Moves, MoveTypes, TypeParts
  <1>2. WaitTypeOK' /\ AsyncTypeOK' /\ NetTypeOK'
    BY WaitTypes, AsyncTypes, NetTypes
  <1> QED
    BY <1>1, <1>2, TypeParts
    DEF TypeOK, NetworkTypeOK, MachineTypeOK, FlagsTypeOK, WaitTypeOK, AsyncTypeOK, NetTypeOK

\* A session that does not await block IDs has asked for something.
AskedForSomething == name = "Sync" /\ ~waiting => requested # {}

\* A move keeps it, if the storage does not fail.
LEMMA MoveAsks ==
    TypeOK /\ ~StorageMayFail /\ AskedForSomething /\ Move => AskedForSomething'
  <1> SUFFICES ASSUME TypeOK, ~StorageMayFail, AskedForSomething, Move
               PROVE  AskedForSomething'
    OBVIOUS
  <1> USE DEF AskedForSomething
  <1>1. CASE Stays
    BY <1>1 DEF Stays
  <1>2. CASE Keeps
    BY <1>2 DEF Keeps, Keep, Become, session
  <1>3. CASE Leaves
    BY <1>3 DEF Leaves, Leave, Become
  <1>4. CASE Starts
    BY <1>4 DEF Starts, SyncWithNewPeer
  <1>5. CASE Requests
    BY <1>5 DEF Requests
  <1>6. CASE Receives
    BY <1>6 DEF Receives
  <1>7. CASE Drops
    BY <1>7 DEF Drops, NextBatch, BatchLost
  <1> QED
    BY <1>1, <1>2, <1>3, <1>4, <1>5, <1>6, <1>7 DEF Move

\* The states that only a completion ends.
Awaiting == WaitStates \cup {"Persist"}

\* A state that is not left keeps its guard if nothing that guards it goes away.
LEMMA GuardKept ==
    ASSUME WaitIsGuarded, PersistIsGuarded,
           name' = name, lost => lost', waitFor' = waitFor,
           timer' = timer, persistJobs' = persistJobs,
           \A u : /\ \/ name \in WaitStates /\ u = Timeout(name)
                     \/ name = "Persist" /\ u = "PersistComplete"
                  /\ Reported(u)
                  => Reported(u)'
    PROVE  WaitIsGuarded' /\ PersistIsGuarded'
  BY DEF WaitIsGuarded, PersistIsGuarded, Timeout, Awaiting

\* Other states need no guard.
LEMMA GuardNotNeeded ==
    ASSUME name' \notin Awaiting PROVE WaitIsGuarded' /\ PersistIsGuarded'
  BY DEF WaitIsGuarded, PersistIsGuarded, Awaiting

\* A channel that does not change keeps what was reported.
LEMMA QueueKept ==
    ASSUME UNCHANGED tasksCh PROVE \A u : Reported(u) => Reported(u)'
  BY DEF Reported

\* Every handler of a message keeps the states that wait guarded.
LEMMA MessageGuards ==
    ASSUME TypeOK, ~StorageMayFail, WaitIsGuarded, PersistIsGuarded, HandleMessage
    PROVE  WaitIsGuarded' /\ PersistIsGuarded'
  <1> DEFINE Guarded == WaitIsGuarded /\ PersistIsGuarded
  <1> USE NodeFSMAssumption DEF Awaiting, WaitStates, waitVars, asyncVars
  <1>1. ASSUME NEW err, Keep(err), waitFor' = waitFor, timer' = timer,
               UNCHANGED <<tasksCh, persistJobs>>
        PROVE  Guarded'
    <2>1. name' = name /\ (lost => lost')
      BY <1>1 DEF Keep, Become
    <2> QED
      BY <1>1, <2>1, GuardKept, QueueKept
  <1>2. ASSUME NEW s \in {"Idle", "NG", "Halt"}, NEW err, Leave(s, err) PROVE Guarded'
    BY <1>2, GuardNotNeeded DEF Leave, Become
  <1>3. ASSUME NEW p, SyncWithNewPeer(p) PROVE Guarded'
    BY <1>3, GuardNotNeeded DEF SyncWithNewPeer, Become
  <1>4. ASSUME NEW b \in BlockIDs, NEW s \in WaitStates, WaitForSnapshot(s, b) PROVE Guarded'
    BY <1>4 DEF WaitForSnapshot, Leave, Become, WaitIsGuarded, PersistIsGuarded
  <1>5. ASSUME NEW p \in Peers, Score(p) PROVE Guarded'
    BY <1>1, <1>3, <1>5
    DEF Score, IdleScore, NGScore, SyncScore, PersistScore, WaitScore
  <1>6. ASSUME NEW p \in Peers, Transaction(p) PROVE Guarded'
    BY <1>1, <1>6 DEF Transaction
  <1>7. ASSUME NEW p \in Peers, NEW ids \in SUBSET BlockIDs, SyncBlockIDs(p, ids) PROVE Guarded'
    <2>1. CASE Become("Sync", FALSE)
      BY <2>1, GuardNotNeeded DEF Become
    <2> QED
      BY <1>2, <1>7, <2>1 DEF SyncBlockIDs
  <1>8. ASSUME NEW bs, NEW ss, ApplyBlocksWithSnapshots(bs, ss) PROVE Guarded'
    <2>1. CASE Become("Sync", FALSE)
      BY <2>1, GuardNotNeeded DEF Become
    <2>2. CASE persistJobs' = persistJobs + 1 /\ Leave("Persist", FALSE)
      <3>1. persistJobs \in Nat
        BY DEF TypeOK
      <3> QED
        BY <2>2, <3>1 DEF Leave, Become, WaitIsGuarded, PersistIsGuarded
    <2> QED
      BY <1>2, <1>3, <1>8, <2>1, <2>2 DEF ApplyBlocksWithSnapshots, BatchLost, NextBatch
  <1>9. ASSUME NEW p \in Peers, NEW b \in BlockIDs, SyncBlock(p, b) \/ SyncBlockSnapshot(p, b)
        PROVE  Guarded'
    BY <1>8, <1>9 DEF SyncBlock, SyncBlockSnapshot
  <1>10. ASSUME NEW b \in BlockIDs, NGBlock(b) \/ NGMicroBlock(b) PROVE Guarded'
    BY <1>1, <1>2, <1>4, <1>10 DEF NGBlock, NGMicroBlock
  <1>11. ASSUME NEW b \in BlockIDs, WaitBlockSnapshot(b) \/ WaitMicroBlockSnapshot(b)
         PROVE  Guarded'
    BY <1>2, <1>3, <1>11 DEF WaitBlockSnapshot, WaitMicroBlockSnapshot, ProcessScores
  <1>12. ASSUME SyncIrrelevant \/ NGMicroBlockInv PROVE Guarded'
    BY <1>1, <1>12 DEF SyncIrrelevant, NGMicroBlockInv
  <1> QED
    BY <1>5, <1>6, <1>7, <1>9, <1>10, <1>11, <1>12 DEF HandleMessage

\* So does every result of an asynchronous task: the one that takes the guard
\* away ends the state.
LEMMA TaskGuards ==
    ASSUME TypeOK, WaitIsGuarded, PersistIsGuarded, HandleTask
    PROVE  WaitIsGuarded' /\ PersistIsGuarded'
  <1> DEFINE Guarded == WaitIsGuarded /\ PersistIsGuarded
  <1>0. AsyncTypeOK
    BY TypeParts
  <1>1. PICK t \in TaskTypes :
          /\ ReceiveTask(t)
          /\ \/ IdleTask(t) \/ SyncTask(t) \/ NGTask(t) \/ PersistTask(t)
             \/ WaitSnapshotTask(t) \/ WaitMicroSnapshotTask(t) \/ HaltTask
    BY DEF HandleTask
  <1>2. \A u : Reported(u) /\ u # t => Reported(u)'
    BY <1>0, <1>1, ReceiveFacts
  <1>3. persistJobs' = persistJobs
    BY <1>1 DEF ReceiveTask
  <1> USE DEF Awaiting, WaitStates, waitVars
  <1>4. ASSUME \/ \E err : Keep(err)
               \/ Ignored,
               UNCHANGED waitVars,
               name \in WaitStates => t # Timeout(name),
               name = "Persist" => t # "PersistComplete"
        PROVE  Guarded'
    <2>1. name' = name /\ (lost => lost')
      <3>1. ASSUME NEW err, Keep(err) PROVE name' = name /\ (lost => lost')
        BY <3>1 DEF Keep, Become
      <3>2. ASSUME Ignored PROVE name' = name /\ (lost => lost')
        BY <3>2 DEF Ignored, stateVars
      <3> QED
        BY <1>4, <3>1, <3>2
    <2>2. \A u : /\ \/ name \in WaitStates /\ u = Timeout(name)
                    \/ name = "Persist" /\ u = "PersistComplete"
                 /\ Reported(u)
                 => Reported(u)'
      BY <1>2, <1>4
    <2> QED
      BY <1>3, <1>4, <2>1, <2>2, GuardKept
  <1>5. ASSUME NEW s \in {"Idle", "NG"}, NEW err, Leave(s, err) PROVE Guarded'
    BY <1>5, GuardNotNeeded DEF Leave, Become
  <1>6. ASSUME ProcessScores PROVE Guarded'
    BY <1>5, <1>6, GuardNotNeeded DEF ProcessScores, SyncWithNewPeer, Become
  <1>7. CASE IdleTask(t) \/ SyncTask(t) \/ NGTask(t) \/ HaltTask
    BY <1>4, <1>5, <1>7 DEF IdleTask, SyncTask, NGTask, NGMineMicro, HaltTask, On
  <1>8. CASE PersistTask(t)
    BY <1>4, <1>5, <1>8 DEF PersistTask, On
  <1>9. CASE WaitSnapshotTask(t) \/ WaitMicroSnapshotTask(t)
    BY <1>4, <1>6, <1>9 DEF WaitSnapshotTask, WaitMicroSnapshotTask, WaitTask, On, Timeout
  <1> QED
    BY <1>1, <1>7, <1>8, <1>9

\* A task that ends reports, or is counted as lost by the state that awaits it.
LEMMA AsyncGuards ==
    ASSUME TypeOK, WaitIsGuarded, PersistIsGuarded, AsyncTask
    PROVE  WaitIsGuarded' /\ PersistIsGuarded'
  <1> DEFINE Guarded == WaitIsGuarded /\ PersistIsGuarded
  <1>0. AsyncTypeOK /\ WaitTypeOK
    BY TypeParts
  <1> USE DEF Awaiting, WaitStates, waitVars, stateVars
  <1>1. ASSUME NEW t \in TaskTypes, SendAsyncTask(t) \/ UNCHANGED tasksCh
        PROVE  \A u : Reported(u) => Reported(u)'
    BY <1>0, <1>1, SendFacts, QueueKept
  <1>2. ASSUME NEW t \in {"Ping", "AskPeers"}, Tick(t) PROVE Guarded'
    BY <1>1, <1>2, GuardKept DEF Tick, TaskTypes
  <1>3. ASSUME MineMicroDue PROVE Guarded'
    BY <1>1, <1>3, GuardKept DEF MineMicroDue, TaskTypes
  <1>4. ASSUME NEW t \in Timeouts, StaleTimerEnds(t) PROVE Guarded'
    BY <1>1, <1>4, GuardKept DEF StaleTimerEnds, TaskTypes
  <1>5. ASSUME PersistDone PROVE Guarded'
    <2>1. \A u : Reported(u) => Reported(u)'
      BY <1>1, <1>5 DEF PersistDone, TaskTypes
    <2>2. HasRoom => Reported("PersistComplete")'
      BY <1>0, <1>5, SendFacts DEF PersistDone, TaskTypes
    <2> QED
      BY <1>5, <2>1, <2>2 DEF PersistDone, WaitIsGuarded, PersistIsGuarded
  <1>6. ASSUME TimerFires PROVE Guarded'
    <2>1. PICK t \in TaskTypes : t = timer /\ SendAsyncTask(t)
      BY <1>0, <1>6 DEF TimerFires, WaitTypeOK, TaskTypes
    <2>2. \A u : Reported(u) => Reported(u)'
      BY <1>1, <2>1
    <2>3. HasRoom => Reported(t)'
      BY <1>0, <2>1, SendFacts
    <2> QED
      BY <1>6, <2>1, <2>2, <2>3 DEF TimerFires, WaitIsGuarded, PersistIsGuarded, Timeout
  <1> QED
    BY <1>2, <1>3, <1>4, <1>5, <1>6 DEF AsyncTask

\* Every step of the node keeps the states that wait guarded.
LEMMA GuardStep ==
    ASSUME TypeOK, ~StorageMayFail, WaitIsGuarded, PersistIsGuarded, [Next]_vars
    PROVE  WaitIsGuarded' /\ PersistIsGuarded'
  <1> DEFINE Guarded == WaitIsGuarded /\ PersistIsGuarded
  <1> USE DEF Awaiting, WaitStates, waitVars, asyncVars, stateVars
  <1>1. ASSUME UNCHANGED <<name, lost, waitFor, timer, tasksCh, persistJobs>> PROVE Guarded'
    BY <1>1, GuardKept, QueueKept
  <1>2. ASSUME NEW err, Keep(err), UNCHANGED <<waitFor, timer, tasksCh, persistJobs>>
        PROVE  Guarded'
    <2>1. name' = name /\ (lost => lost')
      BY <1>2 DEF Keep, Become
    <2> QED
      BY <1>2, <2>1, GuardKept, QueueKept
  <1>3. ASSUME NEW s \in {"Idle", "NG", "Halt"}, NEW err, Leave(s, err) PROVE Guarded'
    BY <1>3, GuardNotNeeded DEF Leave, Become
  <1>4. ASSUME NEW p, SyncWithNewPeer(p) PROVE Guarded'
    BY <1>4, GuardNotNeeded DEF SyncWithNewPeer, Become
  <1>5. CASE HandleNotice
    BY <1>1, <1>2, <1>3, <1>4, <1>5
    DEF HandleNotice, StartMining, StopMining, StopSync, ChangeSyncPeer, ChangeSyncPeerFails,
        Receive, Ignored
  <1>6. CASE MinedBlock \/ Halt
    BY <1>2, <1>3, <1>6 DEF MinedBlock, IdleMinedBlock, NGMinedBlock, SyncMinedBlock, Halt
  <1>7. CASE Stall \/ NetworkGoroutine \/ UNCHANGED vars
    BY <1>1, <1>7 DEF Stall, NetworkGoroutine, vars
  <1> QED
    BY <1>5, <1>6, <1>7, MessageGuards, TaskGuards, AsyncGuards DEF Next

-----------------------------------------------------------------------------

\* Every variable keeps its type, every channel its capacity, for any number of
\* peers, blocks and pending tasks.
THEOREM TypeCorrect == Spec => []TypeOK
  BY InitTypes, TypeStep, PTL DEF Spec

\* The rest of the inductive invariant, and what it implies.
LEMMA MachineCorrect == Spec => []MachineInv
  <1>1. Init => MachineInv
    BY NetworkAssumption
    DEF Init, NetInit, MachineInv, SyncPeerAgrees, NothingLeftOver, NoPoppableBatch, ListFits,
        WaitStates
  <1>2. TypeOK /\ MachineInv /\ [Next]_vars => MachineInv'
    BY Moves, MoveInv
  <1> QED
    BY <1>1, <1>2, TypeCorrect, PTL DEF Spec

\* The network goroutine always sees the peer of the running session: whatever
\* the order of messages, notices and errors, SyncPeer and SyncState agree.
THEOREM SyncPeerIsTheSessions == Spec => []SyncPeerAgrees
  BY MachineCorrect, PTL DEF MachineInv

\* StopSync never finds a complete batch, so it never reaches its panic.
THEOREM NoBatchLeftForStopSync == Spec => []NoPoppableBatch
  BY MachineCorrect, PTL DEF MachineInv

\* Outside of NG and Halt the installed list lets through what the state needs,
\* although a transition with an error keeps the list of the state before.
THEOREM SkipListIsServing == Spec => []SkipListServesState
  <1>1. TypeOK /\ MachineInv => SkipListServesState
    BY OwnListServes DEF MachineInv
  <1> QED
    BY <1>1, TypeCorrect, MachineCorrect, PTL

\* With a storage that does not fail, a session never waits for nothing.
THEOREM SessionAwaitsSomething == ~StorageMayFail => (Spec => []SyncAwaitsSomething)
  <1> SUFFICES ASSUME ~StorageMayFail PROVE Spec => []SyncAwaitsSomething
    OBVIOUS
  <1>1. Init => AskedForSomething
    BY DEF Init, AskedForSomething
  <1>2. TypeOK /\ AskedForSomething /\ [Next]_vars => AskedForSomething'
    BY Moves, MoveAsks
  <1>3. AskedForSomething /\ MachineInv => SyncAwaitsSomething
    BY NodeFSMAssumption
    DEF AskedForSomething, MachineInv, NoPoppableBatch, Poppable, Complete, SyncAwaitsSomething
  <1> QED
    BY <1>1, <1>2, <1>3, TypeCorrect, MachineCorrect, PTL DEF Spec

\* With a storage that does not fail, every state that only a completion ends has
\* its completion on the way, unless the full channel of the tasks dropped it.
THEOREM WaitsAreGuarded ==
    ~StorageMayFail => (Spec => [](WaitIsGuarded /\ PersistIsGuarded))
  <1> SUFFICES ASSUME ~StorageMayFail
               PROVE  Spec => [](WaitIsGuarded /\ PersistIsGuarded)
    OBVIOUS
  <1>1. Init => WaitIsGuarded /\ PersistIsGuarded
    BY DEF Init, WaitIsGuarded, PersistIsGuarded, WaitStates
  <1>2. TypeOK /\ WaitIsGuarded /\ PersistIsGuarded /\ [Next]_vars
        => WaitIsGuarded' /\ PersistIsGuarded'
    BY GuardStep
  <1> QED
    BY <1>1, <1>2, TypeCorrect, PTL DEF Spec
=============================================================================
