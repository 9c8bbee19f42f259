--------------------------- MODULE Mining_proofs ---------------------------
(***************************************************************************)
(* Proofs about block generation: scheduling goes on for any number of     *)
(* accounts and blocks, transactions are in one place and own blocks stay  *)
(* within their limit whatever the number and sizes of transactions and    *)
(* the limits.                                                             *)
(***************************************************************************)
EXTENDS Mining, FiniteSetTheorems, TLAPS

-----------------------------------------------------------------------------
(* Types.                                                                   *)

\* The transactions that Micro has packed fit into the limit of its task.
MicroFits == micro # Nothing => micro.binSize <= micro.rest

Typed == TypeOK /\ MicroFits

LEMMA EmitTyped == \A a \in Accounts, id \in Nat : Emit(a, id) \in Emits
BY DEF Emit, Emits

LEMMA VersionOfTop ==
    ASSUME TypeOK, NEW n \in 1 .. Len(top.versions)
    PROVE top.versions[n].id \in Nat
<1>1. top.versions \in Seq(Versions)
    BY DEF TypeOK
<1>2. top.versions[n] \in Versions
    BY <1>1
<1> QED BY <1>2 DEF Versions

LEMMA TopIdTyped == TypeOK => TopId \in Nat
<1> SUFFICES ASSUME TypeOK PROVE TopId \in Nat
    OBVIOUS
<1>1. Len(top.versions) \in 1 .. Len(top.versions)
    <2>1. top.versions \in Seq(Versions) /\ Len(top.versions) > 0
        BY DEF TypeOK
    <2> QED BY <2>1
<1>2. TopId = top.versions[Len(top.versions)].id
    BY DEF TopId, Last
<1> QED BY <1>1, <1>2, VersionOfTop

\* Reschedule keeps the types of what it changes.
LEMMA RescheduleTyped ==
    ASSUME TypeOK, NEW id \in Nat, Reschedule(id)
    PROVE /\ timers' \subseteq Emits /\ firing' \subseteq Emits
          /\ mine' \in Seq(Emits) /\ refused' \in BOOLEAN
<1>1. CASE UNCHANGED <<timers, mine>> /\ refused' = TRUE
    BY <1>1 DEF TypeOK, Reschedule
<1>2. CASE ~(UNCHANGED <<timers, mine>> /\ refused' = TRUE)
    <2>1. PICK waits \in SUBSET Accounts :
            /\ timers' = {Emit(a, id) : a \in waits}
            /\ \/ UNCHANGED mine /\ refused' = (waits = {})
               \/ \E a \in Accounts \ waits : Offer(Emit(a, id)) /\ refused' = FALSE
        BY <1>2 DEF Reschedule
    <2>2. timers' \subseteq Emits
        BY <2>1, EmitTyped
    <2>3. CASE UNCHANGED mine /\ refused' = (waits = {})
        BY <2>2, <2>3 DEF TypeOK, Reschedule
    <2>4. CASE \E a \in Accounts \ waits : Offer(Emit(a, id)) /\ refused' = FALSE
        <3>1. PICK a \in Accounts : Offer(Emit(a, id)) /\ refused' = FALSE
            BY <2>4
        <3>2. Emit(a, id) \in Emits
            BY EmitTyped
        <3>3. mine' \in Seq(Emits)
            BY <3>1, <3>2 DEF Offer, TypeOK
        <3> QED BY <2>2, <3>1, <3>3 DEF TypeOK, Reschedule
    <2> QED BY <2>1, <2>3, <2>4
<1> QED BY <1>1, <1>2

LEMMA VersionTyped == \A id \in Nat, txs \in SUBSET Txs : Version(id, txs) \in Versions
BY DEF Version, Versions

LEMMA TxsOfTyped ==
    ASSUME NEW vs \in Seq(Versions)
    PROVE TxsOf(vs) \subseteq Txs
<1>1. \A i \in DOMAIN vs : vs[i] \in Versions
    OBVIOUS
<1>2. \A i \in DOMAIN vs : vs[i].txs \subseteq Txs
    BY <1>1 DEF Versions
<1> QED BY <1>2 DEF TxsOf

LEMMA NewTopTyped ==
    ASSUME TypeOK, NEW own \in BOOLEAN, NEW n \in 0 .. Len(top.versions), NewTop(own, n)
    PROVE /\ created' \in Nat
          /\ top' \in [own : BOOLEAN, parent : Nat, versions : Seq(Versions)]
          /\ Len(top'.versions) > 0
          /\ left' \subseteq Txs /\ pool' \subseteq Txs /\ seen' \subseteq Txs
<1>1. created' \in Nat
    BY DEF NewTop, TypeOK
<1>2. Version(created', {}) \in Versions
    BY <1>1, VersionTyped
<1>3. (IF n = 0 THEN top.parent ELSE top.versions[n].id) \in Nat
    <2>1. CASE n = 0
        BY <2>1 DEF TypeOK
    <2>2. CASE n # 0
        <3>1. n \in 1 .. Len(top.versions)
            BY <2>2 DEF TypeOK
        <3> QED BY <2>2, <3>1, VersionOfTop
    <2> QED BY <2>1, <2>2
<1>4. top' = [own |-> own,
              parent |-> IF n = 0 THEN top.parent ELSE top.versions[n].id,
              versions |-> <<Version(created', {})>>]
    BY DEF NewTop
<1>5. /\ <<Version(created', {})>> \in Seq(Versions)
      /\ Len(<<Version(created', {})>>) = 1
    BY <1>2
<1>6. top.versions \in Seq(Versions)
    BY DEF TypeOK
<1>7. TxsOf(top.versions) \subseteq Txs
    BY <1>6, TxsOfTyped
<1>8. left' \subseteq Txs /\ pool' \subseteq Txs /\ seen' \subseteq Txs
    BY <1>7 DEF NewTop, TypeOK
<1> QED BY <1>1, <1>3, <1>4, <1>5, <1>8

LEMMA ApplyMinedTyped ==
    ASSUME TypeOK, NEW e, ApplyMined(e)
    PROVE \E n \in 0 .. Len(top.versions) : NewTop(TRUE, n)
<1>1. Len(top.versions) \in 0 .. Len(top.versions) /\ 0 \in 0 .. Len(top.versions)
    BY DEF TypeOK
<1> QED BY <1>1 DEF ApplyMined

LEMMA InitTyped == Init => Typed
<1> SUFFICES ASSUME Init PROVE Typed
    OBVIOUS
<1>1. Version(Genesis, {}) \in Versions
    BY VersionTyped DEF Genesis
<1>2. /\ <<Version(Genesis, {})>> \in Seq(Versions)
      /\ Len(<<Version(Genesis, {})>>) = 1
    BY <1>1
<1>3. top \in [own : BOOLEAN, parent : Nat, versions : Seq(Versions)] /\ Len(top.versions) > 0
    BY <1>2 DEF Init, Genesis
<1> QED BY <1>3, MiningAssumption DEF Init, Typed, TypeOK, MicroFits, Loops

\* Scheduler and miner.
LEMMA EmitsTyped ==
    ASSUME Typed, Scheduler \/ Miner
    PROVE Typed'
<1> USE DEF Typed, TypeOK, MicroFits, minerVars, txVars
<1>1. ASSUME NEW e \in timers \cup firing, TimerOver(e) PROVE Typed'
    BY <1>1 DEF TimerOver
<1>2. ASSUME NEW e \in timers \cup firing, Callback(e) PROVE Typed'
    <2>1. mine' \in Seq(Emits)
        BY <1>2 DEF Callback, Offer
    <2> QED BY <1>2, <2>1 DEF Callback
<1>3. CASE TakeEmit
    <2>1. miner' \in Emits /\ mine' \in Seq(Emits)
        BY <1>3 DEF TakeEmit
    <2> QED BY <1>3, <2>1 DEF TakeEmit
<1>4. CASE MineKeyBlock
    <2>1. internal' \in Seq(Emits)
        BY <1>4 DEF MineKeyBlock
    <2> QED BY <1>4, <2>1 DEF MineKeyBlock, schedVars
<1> QED BY <1>1, <1>2, <1>3, <1>4 DEF Scheduler, Miner

\* Mined key blocks.
LEMMA MinedTyped ==
    ASSUME Typed, MinedBlock
    PROVE Typed'
<1> DEFINE Applied == ApplyMined(Head(internal)) /\ MineMicroLater /\ Reschedule(created')
<1>1. internal' \in Seq(Emits) /\ loop' \in Loops /\ UNCHANGED <<miner, micro>>
    <2>1. /\ internal # <<>> /\ internal' = Tail(internal)
          /\ loop' = loop \/ loop' = "NG"
          /\ UNCHANGED <<miner, micro>>
        BY DEF MinedBlock, NGMinedBlock, SyncMinedBlock, PersistMinedBlock
    <2>2. internal \in Seq(Emits) /\ loop \in Loops /\ "NG" \in Loops
        BY DEF Typed, TypeOK, Loops
    <2>3. Tail(internal) \in Seq(Emits)
        BY <2>1, <2>2
    <2> QED BY <2>1, <2>2, <2>3
<1>2. CASE Applied
    <2>1. PICK n \in 0 .. Len(top.versions) : NewTop(TRUE, n)
        BY <1>2, ApplyMinedTyped DEF Typed
    <2>2. /\ created' \in Nat
          /\ top' \in [own : BOOLEAN, parent : Nat, versions : Seq(Versions)]
          /\ Len(top'.versions) > 0
          /\ left' \subseteq Txs /\ pool' \subseteq Txs /\ seen' \subseteq Txs
        BY <2>1, NewTopTyped DEF Typed
    <2>3. tasks' \subseteq [block : Nat, rest : Nat]
        BY <1>2, <2>2, MiningAssumption DEF MineMicroLater, Task, Typed, TypeOK
    <2>4. /\ timers' \subseteq Emits /\ firing' \subseteq Emits
          /\ mine' \in Seq(Emits) /\ refused' \in BOOLEAN
        BY <1>2, <2>2, RescheduleTyped DEF Typed
    <2> QED BY <1>1, <2>2, <2>3, <2>4 DEF Typed, TypeOK, MicroFits
<1>3. CASE Declined /\ (Reschedule(TopId) \/ UNCHANGED schedVars)
    <2>1. /\ timers' \subseteq Emits /\ firing' \subseteq Emits
          /\ mine' \in Seq(Emits) /\ refused' \in BOOLEAN
        BY <1>3, TopIdTyped, RescheduleTyped DEF Typed, schedVars, TypeOK
    <2> QED BY <1>1, <1>3, <2>1 DEF Declined, txVars, Typed, TypeOK, MicroFits
<1> QED
    BY <1>2, <1>3
    DEF MinedBlock, NGMinedBlock, SyncMinedBlock, PersistMinedBlock, Declined

\* The micro miner.
LEMMA MicroTyped ==
    ASSUME Typed, MicroMiner
    PROVE Typed'
<1>1. ASSUME NEW t \in tasks, DropTask(t) PROVE Typed'
    BY <1>1 DEF DropTask, Typed, TypeOK, MicroFits, schedVars, minerVars, txVars
<1>2. ASSUME NEW t \in tasks, StartMicro(t) PROVE Typed'
    <2>1. t.rest \in Nat
        BY DEF Typed, TypeOK
    <2>2. micro' \in MicroCalls /\ micro'.binSize <= micro'.rest
        BY <1>2, <2>1 DEF StartMicro, MicroCalls
    <2> QED
        BY <1>2, <2>2
        DEF StartMicro, Typed, TypeOK, MicroFits, schedVars, minerVars, txVars
<1>3. ASSUME NEW t \in pool, PopTx(t) PROVE Typed'
    <2>1. micro \in MicroCalls /\ micro.binSize <= micro.rest /\ t \in Txs /\ SizeOf[t] \in Nat
        BY <1>3, MiningAssumption DEF PopTx, Typed, TypeOK, MicroFits
    <2>2. micro' \in MicroCalls /\ micro'.binSize <= micro'.rest
          /\ pool' \subseteq Txs /\ left' \subseteq Txs
        <3>1. CASE Inapplicable(t)
            BY <2>1, <3>1 DEF Inapplicable, MicroCalls, Typed, TypeOK
        <3>2. CASE Applicable(t) /\ micro.binSize + SizeOf[t] <= micro.rest
            <4>1. /\ micro.rest \in Nat /\ micro.applied \subseteq Txs
                  /\ micro.inapplicable \subseteq Txs
                  /\ micro.txCount + 1 \in Nat /\ micro.binSize + SizeOf[t] \in Nat
                BY <2>1 DEF MicroCalls
            <4>2. micro' = [rest |-> micro.rest, applied |-> micro.applied \cup {t},
                            inapplicable |-> micro.inapplicable,
                            txCount |-> micro.txCount + 1, binSize |-> micro.binSize + SizeOf[t]]
                BY <2>1, <3>2 DEF Applicable, MicroCalls
            <4>3. micro' \in MicroCalls
                BY <2>1, <4>1, <4>2 DEF MicroCalls
            <4>4. micro'.binSize <= micro'.rest
                BY <3>2, <4>2
            <4> QED BY <3>2, <4>3, <4>4 DEF Applicable, Typed, TypeOK
        <3>3. CASE CommitmentError(t)
            <4>1. PICK back \in SUBSET micro.applied :
                    /\ micro' = [micro EXCEPT !.applied = {}, !.txCount = 0]
                    /\ pool' = (pool \ {t}) \cup back
                    /\ left' = left \cup {t} \cup (micro.applied \ back)
                BY <3>3 DEF CommitmentError
            <4>2. micro.applied \subseteq Txs
                BY <2>1 DEF MicroCalls
            <4> QED BY <2>1, <4>1, <4>2 DEF MicroCalls, Typed, TypeOK
        <3> QED BY <1>3, <3>1, <3>2, <3>3 DEF PopTx
    <2> QED BY <1>3, <2>2 DEF PopTx, Typed, TypeOK, MicroFits, schedVars, minerVars
<1>4. CASE EndMicro
    <2>1. micro \in MicroCalls /\ micro.binSize <= micro.rest
        BY <1>4 DEF EndMicro, Typed, TypeOK, MicroFits
    <2>2. micro.rest \in Nat /\ Rest \in Nat /\ micro.applied \subseteq Txs /\ micro.inapplicable \subseteq Txs
        BY <2>1 DEF MicroCalls, Rest
    <2>3. ASSUME NEW txs \in SUBSET Txs, ReturnInapplicable(txs)
          PROVE pool' \subseteq Txs /\ left' \subseteq Txs
        BY <2>2, <2>3 DEF ReturnInapplicable, Typed, TypeOK
    <2>4. pool' \subseteq Txs /\ left' \subseteq Txs
        BY <1>4, <2>2, <2>3 DEF EndMicro, NothingPacked, MicroApplied, MicroFailed
    <2>5. CASE NothingPacked
        <3>1. tasks' \subseteq [block : Nat, rest : Nat]
            BY <2>2, <2>5, TopIdTyped DEF NothingPacked, Task, Typed, TypeOK
        <3> QED
            BY <1>4, <2>4, <2>5, <3>1
            DEF EndMicro, NothingPacked, Typed, TypeOK, MicroFits, schedVars, minerVars
    <2>6. CASE MicroApplied
        <3>1. created' \in Nat
            BY <2>6 DEF MicroApplied, Typed, TypeOK
        <3>2. Version(created', micro.applied) \in Versions
            BY <2>2, <3>1, VersionTyped
        <3>3. top.versions \in Seq(Versions)
            BY DEF Typed, TypeOK
        <3>4. /\ Append(top.versions, Version(created', micro.applied)) \in Seq(Versions)
              /\ Len(Append(top.versions, Version(created', micro.applied))) > 0
            BY <3>2, <3>3
        <3>5. /\ top' \in [own : BOOLEAN, parent : Nat, versions : Seq(Versions)]
              /\ Len(top'.versions) > 0
            BY <2>6, <3>4 DEF MicroApplied, Typed, TypeOK
        <3>6. tasks' \subseteq [block : Nat, rest : Nat]
            BY <2>2, <2>6, <3>1 DEF MicroApplied, Task, Typed, TypeOK
        <3>7. /\ timers' \subseteq Emits /\ firing' \subseteq Emits
              /\ mine' \in Seq(Emits) /\ refused' \in BOOLEAN
            BY <2>6, <3>1, RescheduleTyped DEF MicroApplied, Typed
        <3> QED
            BY <1>4, <2>4, <3>1, <3>5, <3>6, <3>7
            DEF EndMicro, Typed, TypeOK, MicroFits, minerVars
    <2>7. CASE MicroFailed
        BY <1>4, <2>4, <2>7
        DEF EndMicro, MicroFailed, Typed, TypeOK, MicroFits, schedVars, minerVars
    <2> QED BY <1>4, <2>5, <2>6, <2>7 DEF EndMicro
<1> QED BY <1>1, <1>2, <1>3, <1>4 DEF MicroMiner

\* Everything else that happens to the node.
LEMMA OthersTyped ==
    ASSUME Typed, Others
    PROVE Typed'
<1> DEFINE Sched == /\ timers' \subseteq Emits /\ firing' \subseteq Emits
                    /\ mine' \in Seq(Emits) /\ refused' \in BOOLEAN
           Chain == /\ created' \in Nat
                    /\ top' \in [own : BOOLEAN, parent : Nat, versions : Seq(Versions)]
                    /\ Len(top'.versions) > 0
           Pool == left' \subseteq Txs /\ pool' \subseteq Txs /\ seen' \subseteq Txs
           Kept == loop' \in Loops /\ UNCHANGED <<minerVars, tasks, micro>>
<1>1. ASSUME Sched, Chain, Pool, Kept PROVE Typed'
    BY <1>1 DEF Typed, TypeOK, MicroFits, minerVars
<1>2. UNCHANGED schedVars => Sched
    BY DEF Typed, TypeOK, schedVars
<1>3. UNCHANGED <<top, created>> => Chain
    BY DEF Typed, TypeOK
<1>4. UNCHANGED txVars => Pool
    BY DEF Typed, TypeOK, txVars
<1>5. \A n \in 0 .. Len(top.versions) : NewTop(FALSE, n) => Chain /\ Pool
    BY NewTopTyped DEF Typed
<1>6. ASSUME NEW id \in Nat, Reschedule(id) PROVE Sched
    BY <1>6, RescheduleTyped DEF Typed
<1>7. 0 \in 0 .. Len(top.versions) /\ Len(top.versions) \in 0 .. Len(top.versions)
    BY DEF Typed, TypeOK
<1>8. loop \in Loops /\ Loops = {"Idle", "NG", "Sync", "Persist"}
    BY DEF Typed, TypeOK, Loops
<1>9. ASSUME NEW t \in Txs, Submit(t) PROVE Typed'
    <2>1. Pool
        BY <1>9 DEF Submit, Typed, TypeOK
    <2> QED BY <1>1, <1>2, <1>3, <1>8, <1>9, <2>1 DEF Submit
<1>10. CASE NGBlock
    <2>1. Chain /\ Pool
        BY <1>5, <1>10 DEF NGBlock
    <2>2. Sched
        BY <1>6, <1>10, <2>1 DEF NGBlock
    <2> QED BY <1>1, <1>8, <1>10, <2>1, <2>2 DEF NGBlock
<1>11. CASE NGBlockDeclined
    <2>1. PICK n \in 1 .. Len(top.versions) - 1 :
            /\ top' = [top EXCEPT !.versions = SubSeq(@, 1, n)]
            /\ left' = left \cup (TxsOf(top.versions) \ TxsOf(SubSeq(top.versions, 1, n)))
        BY <1>11 DEF NGBlockDeclined
    <2>2. top.versions \in Seq(Versions)
        BY DEF Typed, TypeOK
    <2>3. SubSeq(top.versions, 1, n) \in Seq(Versions) /\ Len(SubSeq(top.versions, 1, n)) > 0
        BY <2>2
    <2>4. Chain
        BY <1>11, <2>1, <2>3 DEF NGBlockDeclined, Typed, TypeOK
    <2>5. TxsOf(top.versions) \subseteq Txs
        BY <2>2, TxsOfTyped
    <2>6. Pool
        BY <1>11, <2>1, <2>5 DEF NGBlockDeclined, Typed, TypeOK
    <2> QED BY <1>1, <1>2, <1>8, <1>11, <2>4, <2>6 DEF NGBlockDeclined
<1>12. CASE NGMicroBlock
    <2>1. created' \in Nat
        BY <1>12 DEF NGMicroBlock, Typed, TypeOK
    <2>2. Version(created', {}) \in Versions
        BY <2>1, VersionTyped
    <2>3. top.versions \in Seq(Versions)
        BY DEF Typed, TypeOK
    <2>4. /\ Append(top.versions, Version(created', {})) \in Seq(Versions)
          /\ Len(Append(top.versions, Version(created', {}))) > 0
        BY <2>2, <2>3
    <2>5. Chain
        BY <1>12, <2>1, <2>4 DEF NGMicroBlock, Typed, TypeOK
    <2>6. Sched
        BY <1>6, <1>12, <2>1 DEF NGMicroBlock
    <2> QED BY <1>1, <1>4, <1>8, <1>12, <2>5, <2>6 DEF NGMicroBlock
<1>13. CASE Score \/ BackToIdle
    BY <1>1, <1>2, <1>3, <1>4, <1>8, <1>13 DEF Score, BackToIdle
<1>14. CASE SyncApplied
    <2>1. Chain /\ Pool
        BY <1>5, <1>7, <1>14 DEF SyncApplied
    <2>2. Sched
        BY <1>6, <1>14, <2>1 DEF SyncApplied
    <2> QED BY <1>1, <1>14, <2>1, <2>2 DEF SyncApplied
<1>15. CASE SyncEnds
    <2>1. Chain /\ Pool
        BY <1>3, <1>4, <1>5, <1>7, <1>15 DEF SyncEnds
    <2> QED BY <1>1, <1>2, <1>8, <1>15, <2>1 DEF SyncEnds
<1>16. CASE StartMining
    <2>1. Sched
        BY <1>6, <1>16, TopIdTyped DEF StartMining, Typed
    <2> QED BY <1>1, <1>3, <1>4, <1>8, <1>16, <2>1 DEF StartMining
<1> QED BY <1>9, <1>10, <1>11, <1>12, <1>13, <1>14, <1>15, <1>16 DEF Others

LEMMA NextTyped ==
    ASSUME Typed, [Next]_vars
    PROVE Typed'
<1>1. CASE UNCHANGED vars
    BY <1>1 DEF vars, schedVars, minerVars, txVars, Typed, TypeOK, MicroFits
<1> QED BY <1>1, EmitsTyped, MinedTyped, MicroTyped, OthersTyped DEF Next

\* The variables keep their types, and Micro never packs more than its task allows.
THEOREM TypeCorrect == Spec => []Typed
BY InitTyped, NextTyped, PTL DEF Spec

-----------------------------------------------------------------------------
(* The schedule.                                                            *)

\* A Reschedule that is not refused leaves an emit on its way.
LEMMA RescheduleSchedules ==
    ASSUME NEW id, Reschedule(id), ~refused'
    PROVE Scheduled'
<1>1. PICK waits \in SUBSET Accounts :
        /\ timers' = {Emit(a, id) : a \in waits}
        /\ \/ UNCHANGED mine /\ refused' = (waits = {})
           \/ \E a \in Accounts \ waits : Offer(Emit(a, id)) /\ refused' = FALSE
    BY DEF Reschedule
<1>2. CASE waits # {}
    BY <1>1, <1>2 DEF Scheduled
<1>3. CASE waits = {}
    <2>1. PICK a \in Accounts : Offer(Emit(a, id))
        BY <1>1, <1>3
    <2>2. mine' # <<>>
        BY <2>1 DEF Offer
    <2> QED BY <2>2 DEF Scheduled
<1> QED BY <1>2, <1>3

\* Block generation, once scheduled, goes on until the scheduler has nothing to
\* schedule, mining of a key block fails, or a mined block comes in a state that does
\* not reschedule.
THEOREM GenerationGoesOn == Spec => ScheduleGoesOn
<1> DEFINE Goes == Scheduled /\ ~Scheduled' => refused' \/ MiningFailed \/ NotRescheduled
<1>1. ASSUME Typed, [Next]_vars PROVE Goes
    <2> SUFFICES ASSUME Scheduled, ~Scheduled', ~refused'
                 PROVE MiningFailed \/ NotRescheduled
        OBVIOUS
    <2>1. \A id : ~Reschedule(id)
        BY RescheduleSchedules
    <2>2. ASSUME UNCHANGED <<schedVars, minerVars>> PROVE FALSE
        BY <2>2 DEF Scheduled, schedVars, minerVars
    <2>3. CASE UNCHANGED vars
        BY <2>2, <2>3 DEF vars
    <2>4. CASE Scheduler
        <3>1. PICK e \in timers \cup firing : TimerOver(e) \/ Callback(e)
            BY <2>4 DEF Scheduler
        <3>2. CASE TimerOver(e)
            BY <3>2 DEF TimerOver, Scheduled
        <3>3. CASE Callback(e)
            <4>1. mine' # <<>>
                BY <3>3 DEF Callback, Offer
            <4> QED BY <4>1 DEF Scheduled
        <3> QED BY <3>1, <3>2, <3>3
    <2>5. CASE TakeEmit
        <3>1. Head(mine) \in Emits
            BY <1>1, <2>5 DEF TakeEmit, Typed, TypeOK
        <3>2. miner' # Nothing
            BY <2>5, <3>1, NothingAssumption DEF TakeEmit
        <3> QED BY <3>2 DEF Scheduled
    <2>6. CASE MineKeyBlock
        <3>1. CASE internal' = internal
            BY <2>6, <3>1 DEF MineKeyBlock, MiningFailed
        <3>2. CASE internal' = Append(internal, miner)
            BY <2>6, <3>2 DEF Scheduled, MineKeyBlock
        <3> QED BY <2>6, <3>1, <3>2 DEF MineKeyBlock
    <2>7. CASE NGMinedBlock
        BY <2>1, <2>7 DEF NGMinedBlock
    <2>8. CASE SyncMinedBlock \/ PersistMinedBlock
        BY <2>8 DEF SyncMinedBlock, PersistMinedBlock, NotRescheduled
    <2>9. CASE MicroMiner
        BY <2>1, <2>2, <2>9
        DEF MicroMiner, DropTask, StartMicro, PopTx, EndMicro, NothingPacked, MicroApplied, MicroFailed
    <2>10. CASE Others
        BY <2>1, <2>2, <2>10
        DEF Others, Submit, NGBlock, NGBlockDeclined, NGMicroBlock, Score, SyncApplied, SyncEnds,
            BackToIdle, StartMining
    <2> QED
        BY <1>1, <2>3, <2>4, <2>5, <2>6, <2>7, <2>8, <2>9, <2>10 DEF Next, Miner, MinedBlock
<1> QED BY <1>1, TypeCorrect, PTL DEF Spec, ScheduleGoesOn

-----------------------------------------------------------------------------
(* Transactions.                                                            *)

\* The lists of Micro.
AppliedTxs == IF micro = Nothing THEN {} ELSE micro.applied
InapplicableTxs == IF micro = Nothing THEN {} ELSE micro.inapplicable

\* TransactionsInOnePlace with the places spelled out.
OnePlace ==
    /\ pool \cup TxsOf(top.versions) \cup left \cup AppliedTxs \cup InapplicableTxs = seen
    /\ pool \cap TxsOf(top.versions) = {}
    /\ pool \cap left = {}
    /\ pool \cap AppliedTxs = {}
    /\ pool \cap InapplicableTxs = {}
    /\ TxsOf(top.versions) \cap left = {}
    /\ TxsOf(top.versions) \cap AppliedTxs = {}
    /\ TxsOf(top.versions) \cap InapplicableTxs = {}
    /\ left \cap AppliedTxs = {}
    /\ left \cap InapplicableTxs = {}
    /\ AppliedTxs \cap InapplicableTxs = {}

LEMMA OnePlaceSpelledOut == OnePlace => TransactionsInOnePlace
<1> SUFFICES ASSUME OnePlace PROVE TransactionsInOnePlace
    OBVIOUS
<1>1. /\ DOMAIN Places = {"pool", "top", "left", "applied", "inapplicable"}
      /\ Places["pool"] = pool
      /\ Places["top"] = TxsOf(top.versions)
      /\ Places["left"] = left
      /\ Places["applied"] = AppliedTxs
      /\ Places["inapplicable"] = InapplicableTxs
    BY DEF Places, AppliedTxs, InapplicableTxs
<1>2. UNION {Places[i] : i \in DOMAIN Places} = seen
    BY <1>1 DEF OnePlace
<1>3. \A i, j \in DOMAIN Places : i # j => Places[i] \cap Places[j] = {}
    BY <1>1 DEF OnePlace
<1> QED BY <1>2, <1>3 DEF TransactionsInOnePlace

LEMMA TxsOfNew == \A id : TxsOf(<<Version(id, {})>>) = {}
BY DEF TxsOf, Version

LEMMA TxsOfAppend ==
    ASSUME NEW vs \in Seq(Versions), NEW v \in Versions
    PROVE TxsOf(Append(vs, v)) = TxsOf(vs) \cup v.txs
<1>1. DOMAIN Append(vs, v) = DOMAIN vs \cup {Len(vs) + 1}
    OBVIOUS
<1>2. /\ \A i \in DOMAIN vs : Append(vs, v)[i] = vs[i]
      /\ Append(vs, v)[Len(vs) + 1] = v
    OBVIOUS
<1> QED BY <1>1, <1>2 DEF TxsOf

LEMMA TxsOfSubSeq ==
    ASSUME NEW vs \in Seq(Versions), NEW n \in 1 .. Len(vs)
    PROVE TxsOf(SubSeq(vs, 1, n)) \subseteq TxsOf(vs)
<1>1. \A i \in DOMAIN SubSeq(vs, 1, n) : i \in DOMAIN vs /\ SubSeq(vs, 1, n)[i] = vs[i]
    OBVIOUS
<1> QED BY <1>1 DEF TxsOf

\* A new top block takes the transactions of the old one out of the node's hands.
LEMMA NewTopOnePlace ==
    ASSUME OnePlace, NEW own, NEW n, NewTop(own, n), UNCHANGED micro
    PROVE OnePlace'
<1>1. TxsOf(top'.versions) = {}
    BY TxsOfNew DEF NewTop
<1>2. left' = left \cup TxsOf(top.versions) /\ UNCHANGED <<pool, seen>>
    BY DEF NewTop
<1> QED BY <1>1, <1>2 DEF OnePlace, AppliedTxs, InapplicableTxs

LEMMA SameOnePlace ==
    ASSUME OnePlace, UNCHANGED <<top, micro, txVars>>
    PROVE OnePlace'
BY DEF OnePlace, AppliedTxs, InapplicableTxs, txVars

\* A version without transactions.
LEMMA EmptyVersionOnePlace ==
    ASSUME TypeOK, OnePlace, NEW id \in Nat,
           top' = [top EXCEPT !.versions = Append(@, Version(id, {}))], UNCHANGED <<micro, txVars>>
    PROVE OnePlace'
<1>1. top.versions \in Seq(Versions) /\ Version(id, {}) \in Versions
    BY VersionTyped DEF TypeOK
<1>2. TxsOf(Append(top.versions, Version(id, {}))) = TxsOf(top.versions) \cup {}
    BY <1>1, TxsOfAppend DEF Version
<1>3. TxsOf(top'.versions) = TxsOf(top.versions)
    BY <1>2 DEF TypeOK
<1> QED BY <1>3 DEF OnePlace, AppliedTxs, InapplicableTxs, txVars

LEMMA PopOnePlace ==
    ASSUME Typed, Typed', OnePlace, NEW t \in pool, PopTx(t)
    PROVE OnePlace'
<1>1. micro # Nothing /\ micro \in MicroCalls /\ UNCHANGED <<top, seen>>
    BY DEF PopTx, Typed, TypeOK
<1>2. /\ AppliedTxs = micro.applied /\ InapplicableTxs = micro.inapplicable
    BY <1>1 DEF AppliedTxs, InapplicableTxs
<1>3. CASE Inapplicable(t)
    <2>1. micro' = [micro EXCEPT !.inapplicable = @ \cup {t}]
        BY <1>3 DEF Inapplicable
    <2>2. micro' \in MicroCalls /\ micro'.applied = micro.applied
          /\ micro'.inapplicable = micro.inapplicable \cup {t}
        BY <1>1, <2>1 DEF MicroCalls, Typed, TypeOK
    <2>3. AppliedTxs' = AppliedTxs /\ InapplicableTxs' = InapplicableTxs \cup {t}
        BY <1>2, <2>2, NothingAssumption DEF AppliedTxs, InapplicableTxs
    <2> QED BY <1>1, <1>3, <2>3 DEF Inapplicable, OnePlace
<1>4. CASE Applicable(t)
    <2>1. /\ micro'.applied = micro.applied \cup {t}
          /\ micro'.inapplicable = micro.inapplicable
        BY <1>1, <1>4 DEF Applicable, MicroCalls
    <2>2. micro' # Nothing
        <3>1. micro' = [rest |-> micro.rest, applied |-> micro.applied \cup {t},
                        inapplicable |-> micro.inapplicable,
                        txCount |-> micro.txCount + 1, binSize |-> micro.binSize + SizeOf[t]]
            BY <1>1, <1>4 DEF Applicable, MicroCalls
        <3>2. t \in Txs /\ SizeOf[t] \in Nat
            BY MiningAssumption DEF Typed, TypeOK
        <3>3. micro.txCount + 1 \in Nat /\ micro.binSize + SizeOf[t] \in Nat
            BY <1>1, <3>2 DEF MicroCalls
        <3>4. micro' \in MicroCalls
            BY <1>1, <3>1, <3>2, <3>3 DEF MicroCalls
        <3> QED BY <3>4, NothingAssumption
    <2>3. AppliedTxs' = AppliedTxs \cup {t} /\ InapplicableTxs' = InapplicableTxs
        BY <1>2, <2>1, <2>2 DEF AppliedTxs, InapplicableTxs
    <2> QED BY <1>1, <1>4, <2>3 DEF Applicable, OnePlace
<1>5. CASE CommitmentError(t)
    <2>1. PICK back \in SUBSET micro.applied :
            /\ micro' = [micro EXCEPT !.applied = {}, !.txCount = 0]
            /\ pool' = (pool \ {t}) \cup back
            /\ left' = left \cup {t} \cup (micro.applied \ back)
        BY <1>5 DEF CommitmentError
    <2>2. /\ micro' \in MicroCalls /\ micro'.applied = {}
          /\ micro'.inapplicable = micro.inapplicable
        BY <1>1, <2>1 DEF MicroCalls
    <2>3. AppliedTxs' = {} /\ InapplicableTxs' = InapplicableTxs
        BY <1>2, <2>2, NothingAssumption DEF AppliedTxs, InapplicableTxs
    <2> QED BY <1>1, <1>2, <2>1, <2>3 DEF OnePlace
<1> QED BY <1>3, <1>4, <1>5 DEF PopTx

\* Without a counted transaction the list of applied ones is empty.
Counted == micro # Nothing /\ micro.txCount = 0 => micro.applied = {}

LEMMA PopCounted ==
    ASSUME Typed, Counted, NEW t \in pool, PopTx(t)
    PROVE Counted'
<1>1. micro # Nothing /\ micro \in MicroCalls
    BY DEF PopTx, Typed, TypeOK
<1>2. CASE Inapplicable(t)
    BY <1>1, <1>2 DEF Inapplicable, Counted, MicroCalls
<1>3. CASE Applicable(t)
    <2>1. micro'.txCount = micro.txCount + 1 /\ micro.txCount \in Nat
        BY <1>1, <1>3 DEF Applicable, MicroCalls
    <2> QED BY <2>1 DEF Counted
<1>4. CASE CommitmentError(t)
    BY <1>1, <1>4 DEF CommitmentError, Counted, MicroCalls
<1> QED BY <1>2, <1>3, <1>4 DEF PopTx

LEMMA EndOnePlace ==
    ASSUME Typed, OnePlace, Counted, EndMicro
    PROVE OnePlace'
<1>1. micro # Nothing /\ micro \in MicroCalls /\ UNCHANGED seen /\ micro' = Nothing
    BY DEF EndMicro, Typed, TypeOK
<1>2. /\ AppliedTxs = micro.applied /\ InapplicableTxs = micro.inapplicable
      /\ AppliedTxs' = {} /\ InapplicableTxs' = {}
    BY <1>1 DEF AppliedTxs, InapplicableTxs
<1>3. CASE NothingPacked
    <2>1. micro.applied = {}
        BY <1>1, <1>3 DEF NothingPacked, Counted
    <2> QED BY <1>1, <1>2, <1>3, <2>1 DEF NothingPacked, ReturnInapplicable, OnePlace
<1>4. CASE MicroFailed
    BY <1>1, <1>2, <1>4 DEF MicroFailed, ReturnInapplicable, OnePlace
<1>5. CASE MicroApplied
    <2>1. created' \in Nat /\ top.versions \in Seq(Versions) /\ micro.applied \in SUBSET Txs
        BY <1>1, <1>5 DEF MicroApplied, Typed, TypeOK, MicroCalls
    <2>2. Version(created', micro.applied) \in Versions
        BY <2>1, VersionTyped
    <2>3. TxsOf(Append(top.versions, Version(created', micro.applied)))
            = TxsOf(top.versions) \cup micro.applied
        BY <2>1, <2>2, TxsOfAppend DEF Version
    <2>4. TxsOf(top'.versions) = TxsOf(top.versions) \cup micro.applied
        BY <1>5, <2>3 DEF MicroApplied, Typed, TypeOK
    <2> QED BY <1>1, <1>2, <1>5, <2>4 DEF MicroApplied, ReturnInapplicable, OnePlace
<1> QED BY <1>3, <1>4, <1>5 DEF EndMicro

\* The inductive invariant.
Conserved == Typed /\ Counted /\ OnePlace

LEMMA InitConserved == Init => Conserved
<1> SUFFICES ASSUME Init PROVE Counted /\ OnePlace
    BY InitTyped DEF Conserved
<1>1. TxsOf(top.versions) = {}
    BY TxsOfNew DEF Init
<1> QED BY <1>1 DEF Init, Counted, OnePlace, AppliedTxs, InapplicableTxs

LEMMA NextConserved ==
    ASSUME Conserved, [Next]_vars
    PROVE Conserved'
<1>1. Typed /\ Counted /\ OnePlace /\ Typed'
    BY NextTyped DEF Conserved
<1>2. ASSUME UNCHANGED <<top, micro, txVars>> PROVE Conserved'
    BY <1>1, <1>2, SameOnePlace DEF Conserved, Counted
<1>3. ASSUME NEW own, NEW n, NewTop(own, n), UNCHANGED micro PROVE Conserved'
    BY <1>1, <1>3, NewTopOnePlace DEF Conserved, Counted
<1>4. CASE UNCHANGED vars
    BY <1>2, <1>4 DEF vars
<1>5. CASE Scheduler \/ Miner
    BY <1>2, <1>5 DEF Scheduler, TimerOver, Callback, Miner, TakeEmit, MineKeyBlock
<1>6. CASE MinedBlock
    BY <1>2, <1>3, <1>6
    DEF MinedBlock, NGMinedBlock, SyncMinedBlock, PersistMinedBlock, ApplyMined, Declined
<1>7. CASE MicroMiner
    <2>1. ASSUME NEW t \in tasks, DropTask(t) PROVE Conserved'
        BY <1>2, <2>1 DEF DropTask
    <2>2. ASSUME NEW t \in tasks, StartMicro(t) PROVE Conserved'
        <3>1. /\ micro = Nothing /\ UNCHANGED <<top, txVars>>
              /\ micro'.applied = {} /\ micro'.inapplicable = {}
            BY <2>2 DEF StartMicro, Free
        <3>2. /\ AppliedTxs = {} /\ InapplicableTxs = {}
              /\ AppliedTxs' = {} /\ InapplicableTxs' = {}
            BY <3>1 DEF AppliedTxs, InapplicableTxs
        <3> QED BY <1>1, <3>1, <3>2 DEF Conserved, Counted, OnePlace, txVars
    <2>3. ASSUME NEW t \in pool, PopTx(t) PROVE Conserved'
        BY <1>1, <2>3, PopOnePlace, PopCounted DEF Conserved
    <2>4. CASE EndMicro
        <3>1. Counted'
            BY <2>4 DEF EndMicro, Counted
        <3> QED BY <1>1, <2>4, <3>1, EndOnePlace DEF Conserved
    <2> QED BY <1>7, <2>1, <2>2, <2>3, <2>4 DEF MicroMiner
<1>8. ASSUME NEW t \in Txs, Submit(t) PROVE Conserved'
    <2>1. /\ t \notin seen /\ seen' = seen \cup {t} /\ pool' = pool \cup {t}
          /\ UNCHANGED <<top, micro, left>>
        BY <1>8 DEF Submit
    <2>2. AppliedTxs' = AppliedTxs /\ InapplicableTxs' = InapplicableTxs
        BY <2>1 DEF AppliedTxs, InapplicableTxs
    <2>3. OnePlace'
        BY <1>1, <2>1, <2>2 DEF OnePlace
    <2> QED BY <1>1, <2>1, <2>3 DEF Conserved, Counted
<1>9. CASE NGBlockDeclined
    <2>1. PICK n \in 1 .. Len(top.versions) - 1 :
            /\ top' = [top EXCEPT !.versions = SubSeq(@, 1, n)]
            /\ left' = left \cup (TxsOf(top.versions) \ TxsOf(SubSeq(top.versions, 1, n)))
        BY <1>9 DEF NGBlockDeclined
    <2>2. top.versions \in Seq(Versions) /\ n \in 1 .. Len(top.versions)
        BY <1>1 DEF Typed, TypeOK
    <2>3. TxsOf(SubSeq(top.versions, 1, n)) \subseteq TxsOf(top.versions)
        BY <2>2, TxsOfSubSeq
    <2>4. TxsOf(top'.versions) = TxsOf(SubSeq(top.versions, 1, n))
        BY <1>1, <2>1 DEF Typed, TypeOK
    <2>5. AppliedTxs' = AppliedTxs /\ InapplicableTxs' = InapplicableTxs
        BY <1>9 DEF NGBlockDeclined, AppliedTxs, InapplicableTxs
    <2>6. OnePlace'
        BY <1>1, <1>9, <2>1, <2>3, <2>4, <2>5 DEF NGBlockDeclined, OnePlace
    <2> QED BY <1>1, <1>9, <2>6 DEF NGBlockDeclined, Conserved, Counted
<1>10. CASE NGMicroBlock
    <2>1. created' \in Nat
        BY <1>1, <1>10 DEF NGMicroBlock, Typed, TypeOK
    <2>2. OnePlace'
        BY <1>1, <1>10, <2>1, EmptyVersionOnePlace DEF NGMicroBlock, Typed
    <2> QED BY <1>1, <1>10, <2>2 DEF NGMicroBlock, Conserved, Counted
<1>11. CASE NGBlock \/ Score \/ SyncApplied \/ SyncEnds \/ BackToIdle \/ StartMining
    BY <1>2, <1>3, <1>11 DEF NGBlock, Score, SyncApplied, SyncEnds, BackToIdle, StartMining
<1> QED
    BY <1>4, <1>5, <1>6, <1>7, <1>8, <1>9, <1>10, <1>11 DEF Next, Others

\* Whatever their number and sizes and the limits, the transactions that came to the
\* pool are each in one place: a commitment error returns what it un-applies, nothing
\* is packed and in the pool, nothing is forgotten.
THEOREM TransactionsAreConserved == Spec => []TransactionsInOnePlace
<1>1. Conserved => TransactionsInOnePlace
    BY OnePlaceSpelledOut DEF Conserved
<1> QED BY <1>1, InitConserved, NextConserved, PTL DEF Spec

-----------------------------------------------------------------------------
(* Bytes.                                                                   *)

\* A transaction has as many bytes as its size says.
LEMMA BytesOfOne ==
    ASSUME NEW t \in Txs
    PROVE IsFiniteSet(BytesOf({t})) /\ Bytes({t}) = SizeOf[t]
<1> DEFINE n == SizeOf[t]
           S == 1 .. n
           T == {t} \X S
           f == [i \in S |-> <<t, i>>]
<1>1. n \in Nat /\ n \in Int /\ 1 \in Int
    BY MiningAssumption
<1>2. IsFiniteSet(S) /\ Cardinality(S) = n
    <2> HIDE DEF n
    <2> QED BY <1>1, FS_Interval
<1>3. f \in Bijection(S, T)
    <2>1. f \in [S -> T]
        OBVIOUS
    <2>2. \A i, j \in S : f[i] = f[j] => i = j
        OBVIOUS
    <2>3. \A p \in T : \E i \in S : f[i] = p
        OBVIOUS
    <2> QED BY <2>1, <2>2, <2>3 DEF Bijection, Injection, Surjection, IsInjective
<1>4. IsFiniteSet(T) /\ Cardinality(T) = n
    BY <1>2, <1>3, FS_Bijection DEF ExistsBijection
<1>5. BytesOf({t}) = T
    BY DEF BytesOf
<1> QED BY <1>4, <1>5 DEF Bytes

\* Two sets of transactions have together at most the bytes of both.
LEMMA BytesOfUnion ==
    ASSUME NEW S, NEW T, IsFiniteSet(BytesOf(S)), IsFiniteSet(BytesOf(T))
    PROVE /\ IsFiniteSet(BytesOf(S \cup T))
          /\ Bytes(S \cup T) \in Nat /\ Bytes(S) \in Nat /\ Bytes(T) \in Nat
          /\ Bytes(S \cup T) <= Bytes(S) + Bytes(T)
<1> DEFINE A == BytesOf(S)
           B == BytesOf(T)
<1>1. BytesOf(S \cup T) = A \cup B
    BY DEF BytesOf
<1> HIDE DEF A, B
<1>2. IsFiniteSet(A) /\ IsFiniteSet(B)
    BY DEF A, B
<1>3. /\ IsFiniteSet(A \cup B) /\ IsFiniteSet(A \cap B)
      /\ Cardinality(A \cup B) = Cardinality(A) + Cardinality(B) - Cardinality(A \cap B)
    BY <1>2, FS_Union, FS_Intersection
<1>4. /\ Cardinality(A) \in Nat /\ Cardinality(B) \in Nat
      /\ Cardinality(A \cup B) \in Nat /\ Cardinality(A \cap B) \in Nat
    BY <1>2, <1>3, FS_CardinalityType
<1>5. \A a, b, c \in Nat : a + b - c <= a + b
    OBVIOUS
<1>6. Cardinality(A \cup B) <= Cardinality(A) + Cardinality(B)
    BY <1>3, <1>4, <1>5
<1> QED BY <1>1, <1>3, <1>4, <1>6 DEF A, B, Bytes

\* Fewer transactions have fewer bytes.
LEMMA BytesOfLess ==
    ASSUME NEW S, NEW T \in SUBSET S, IsFiniteSet(BytesOf(S))
    PROVE /\ IsFiniteSet(BytesOf(T))
          /\ Bytes(T) \in Nat /\ Bytes(S) \in Nat /\ Bytes(T) <= Bytes(S)
<1>1. BytesOf(T) \in SUBSET BytesOf(S)
    BY DEF BytesOf
<1> QED BY <1>1, FS_Subset, FS_CardinalityType DEF Bytes

LEMMA BytesOfNone == IsFiniteSet(BytesOf({})) /\ Bytes({}) = 0
<1>1. BytesOf({}) = {}
    BY DEF BytesOf
<1> QED BY <1>1, FS_EmptySet DEF Bytes

-----------------------------------------------------------------------------
(* The limit of an own block.                                               *)

\* Versions of the top block have ascending identifiers; none is newer than the last one
\* given out, and no task is for a version that is still to come.
IdsOrdered ==
    /\ \A i, j \in 1 .. Len(top.versions) : i < j => top.versions[i].id < top.versions[j].id
    /\ \A i \in 1 .. Len(top.versions) : top.versions[i].id <= created
    /\ \A t \in tasks : t.block <= created

\* The transactions of the first n versions of the top block.
TxsUpTo(n) == TxsOf(SubSeq(top.versions, 1, n))

\* What a task may still pack fits after the version that the task is for, be that
\* the top or a version to which the top may yet be rolled back.
TasksFit ==
    top.own =>
        \A t \in tasks : \A n \in 1 .. Len(top.versions) :
            top.versions[n].id = t.block => Bytes(TxsUpTo(n)) + t.rest <= MaxTxsSize

\* What the running call of Micro may pack fits, and binSize counts what it has packed.
MicroWithinLimit ==
    micro # Nothing =>
        /\ IsFiniteSet(BytesOf(micro.applied))
        /\ Bytes(micro.applied) <= micro.binSize
        /\ top.own => Bytes(TxsOf(top.versions)) + micro.rest <= MaxTxsSize

TopFits == IsFiniteSet(BytesOf(TxsOf(top.versions))) /\ OwnBlockFitsLimit

\* The inductive invariant.
Limited == Typed /\ IdsOrdered /\ TopFits /\ TasksFit /\ MicroWithinLimit

LEMMA TxsUpToAll == TypeOK => TxsUpTo(Len(top.versions)) = TxsOf(top.versions)
<1> SUFFICES ASSUME TypeOK PROVE TxsUpTo(Len(top.versions)) = TxsOf(top.versions)
    OBVIOUS
<1>1. top.versions \in Seq(Versions)
    BY DEF TypeOK
<1>2. SubSeq(top.versions, 1, Len(top.versions)) = top.versions
    BY <1>1
<1> QED BY <1>2 DEF TxsUpTo

LEMMA InitLimited == Init => Limited
<1> SUFFICES ASSUME Init PROVE IdsOrdered /\ TopFits /\ TasksFit /\ MicroWithinLimit
    BY InitTyped DEF Limited
<1>1. TxsOf(top.versions) = {} /\ top.own = FALSE
    BY TxsOfNew DEF Init
<1>2. TopFits /\ TasksFit /\ MicroWithinLimit
    BY <1>1, BytesOfNone DEF Init, TopFits, TasksFit, MicroWithinLimit, OwnBlockFitsLimit
<1>3. IdsOrdered
    BY DEF Init, IdsOrdered, Version, Genesis
<1> QED BY <1>2, <1>3

\* A step that leaves the top block alone and takes tasks away at most.
LEMMA SameTopLimited ==
    ASSUME Limited, Typed', UNCHANGED <<top, micro>>, created' >= created, tasks' \subseteq tasks
    PROVE Limited'
<1>1. IdsOrdered'
    <2>1. \A i \in 1 .. Len(top.versions) : top.versions[i].id \in Nat
        BY VersionOfTop DEF Limited, Typed
    <2>2. \A t \in tasks : t.block \in Nat
        BY DEF Limited, Typed, TypeOK
    <2>3. created \in Nat /\ created' \in Nat
        BY DEF Limited, Typed, TypeOK
    <2> QED BY <2>1, <2>2, <2>3 DEF Limited, IdsOrdered
<1>2. TopFits' /\ MicroWithinLimit'
    BY DEF Limited, TopFits, OwnBlockFitsLimit, MicroWithinLimit
<1>3. TasksFit'
    BY DEF Limited, TasksFit, TxsUpTo
<1> QED BY <1>1, <1>2, <1>3 DEF Limited

\* A new top block is empty and no task but its own is for it.
LEMMA NewTopLimited ==
    ASSUME Limited, Typed', NEW own, NEW n, NewTop(own, n), micro = Nothing, UNCHANGED micro,
           tasks' \subseteq tasks \cup {Task(created', MaxTxsSize)}
    PROVE Limited'
<1>1. /\ created \in Nat /\ created' = created + 1
      /\ \A t \in tasks : t.block \in Nat /\ t.block <= created
    BY DEF Limited, Typed, TypeOK, NewTop, IdsOrdered
<1>2. top'.versions = <<Version(created', {})>>
    BY DEF NewTop
<1>3. Len(top'.versions) = 1 /\ top'.versions[1] = Version(created', {})
    BY <1>2
<1>4. TxsOf(top'.versions) = {}
    BY <1>2, TxsOfNew
<1>5. TopFits' /\ MicroWithinLimit'
    BY <1>4, BytesOfNone, MiningAssumption DEF TopFits, OwnBlockFitsLimit, MicroWithinLimit
<1>6. \A t \in tasks' : t.block <= created'
    BY <1>1 DEF Task
<1>7. IdsOrdered'
    BY <1>1, <1>3, <1>6 DEF IdsOrdered, Version
<1>8. TasksFit'
    <2> SUFFICES ASSUME NEW t \in tasks', top'.versions[1].id = t.block
                 PROVE Bytes(TxsUpTo(1)') + t.rest <= MaxTxsSize
        BY <1>3 DEF TasksFit
    <2>1. t.block = created'
        BY <1>3 DEF Version
    <2>2. t = Task(created', MaxTxsSize)
        BY <1>1, <2>1
    <2>3. TxsUpTo(1)' = {}
        <3>1. top'.versions \in Seq(Versions) /\ 1 \in 1 .. Len(top'.versions)
            BY <1>3 DEF Typed, TypeOK
        <3>2. TxsOf(SubSeq(top'.versions, 1, 1)) \subseteq TxsOf(top'.versions)
            BY <3>1, TxsOfSubSeq
        <3> QED BY <1>4, <3>2 DEF TxsUpTo
    <2>4. Bytes(TxsUpTo(1)') = 0
        BY <2>3, BytesOfNone
    <2> QED BY <2>2, <2>4, MiningAssumption DEF Task
<1> QED BY <1>5, <1>7, <1>8 DEF Limited

\* StartMicro hands the limit of the task to Micro.
LEMMA StartLimited ==
    ASSUME Limited, Typed', NEW t \in tasks, StartMicro(t)
    PROVE Limited'
<1>1. /\ UNCHANGED <<top, created>> /\ tasks' \subseteq tasks
      /\ t.block = TopId
      /\ micro'.rest = t.rest /\ micro'.applied = {} /\ micro'.binSize = 0
    BY DEF StartMicro
<1>2. IdsOrdered' /\ TopFits' /\ TasksFit'
    BY <1>1 DEF Limited, IdsOrdered, TopFits, OwnBlockFitsLimit, TasksFit, TxsUpTo
<1>3. top.own => Bytes(TxsOf(top.versions)) + t.rest <= MaxTxsSize
    <2>1. TypeOK
        BY DEF Limited, Typed
    <2>2. Len(top.versions) \in 1 .. Len(top.versions)
        BY <2>1 DEF TypeOK
    <2>3. top.versions[Len(top.versions)].id = t.block
        BY <1>1 DEF TopId, Last
    <2>4. top.own => Bytes(TxsUpTo(Len(top.versions))) + t.rest <= MaxTxsSize
        BY <2>2, <2>3 DEF Limited, TasksFit
    <2> QED BY <2>1, <2>4, TxsUpToAll
<1>4. MicroWithinLimit'
    BY <1>1, <1>3, BytesOfNone DEF MicroWithinLimit
<1> QED BY <1>2, <1>4 DEF Limited

\* A transaction from the pool is counted with its size when Micro packs it.
LEMMA PopLimited ==
    ASSUME Limited, Typed', NEW t \in pool, PopTx(t)
    PROVE Limited'
<1>1. /\ micro # Nothing /\ micro \in MicroCalls /\ t \in Txs
      /\ UNCHANGED <<top, created, tasks>>
    BY DEF PopTx, Limited, Typed, TypeOK
<1>2. IdsOrdered' /\ TopFits' /\ TasksFit'
    BY <1>1 DEF Limited, IdsOrdered, TopFits, OwnBlockFitsLimit, TasksFit, TxsUpTo
<1>3. /\ IsFiniteSet(BytesOf(micro.applied)) /\ Bytes(micro.applied) <= micro.binSize
      /\ top.own => Bytes(TxsOf(top.versions)) + micro.rest <= MaxTxsSize
    BY <1>1 DEF Limited, MicroWithinLimit
<1>4. CASE Inapplicable(t)
    <2>1. /\ micro'.applied = micro.applied /\ micro'.binSize = micro.binSize
          /\ micro'.rest = micro.rest
        BY <1>1, <1>4 DEF Inapplicable, MicroCalls
    <2> QED BY <1>1, <1>2, <1>3, <2>1 DEF Limited, MicroWithinLimit
<1>5. CASE Applicable(t)
    <2>1. /\ micro'.applied = micro.applied \cup {t} /\ micro'.binSize = micro.binSize + SizeOf[t]
          /\ micro'.rest = micro.rest
        BY <1>1, <1>5 DEF Applicable, MicroCalls
    <2>2. IsFiniteSet(BytesOf({t})) /\ Bytes({t}) = SizeOf[t]
        BY <1>1, BytesOfOne
    <2>3. /\ IsFiniteSet(BytesOf(micro.applied \cup {t}))
          /\ Bytes(micro.applied \cup {t}) \in Nat /\ Bytes(micro.applied) \in Nat
          /\ Bytes({t}) \in Nat
          /\ Bytes(micro.applied \cup {t}) <= Bytes(micro.applied) + Bytes({t})
        BY <1>3, <2>2, BytesOfUnion
    <2>4. micro.binSize \in Nat
        BY <1>1 DEF MicroCalls
    <2>5. Bytes(micro.applied \cup {t}) <= micro.binSize + SizeOf[t]
        BY <1>3, <2>2, <2>3, <2>4
    <2> QED BY <1>1, <1>2, <1>3, <2>1, <2>3, <2>5 DEF Limited, MicroWithinLimit
<1>6. CASE CommitmentError(t)
    <2>1. /\ micro'.applied = {} /\ micro'.binSize = micro.binSize /\ micro'.rest = micro.rest
        BY <1>1, <1>6 DEF CommitmentError, MicroCalls
    <2>2. micro.binSize \in Nat
        BY <1>1 DEF MicroCalls
    <2> QED BY <1>1, <1>2, <1>3, <2>1, <2>2, BytesOfNone DEF Limited, MicroWithinLimit
<1> QED BY <1>4, <1>5, <1>6 DEF PopTx

\* The prefixes of a list of versions do not change when a version is appended.
LEMMA UpToAppended ==
    ASSUME NEW vs \in Seq(Versions), NEW v \in Versions
    PROVE /\ \A n \in 1 .. Len(vs) : /\ Append(vs, v)[n] = vs[n]
                                     /\ SubSeq(Append(vs, v), 1, n) = SubSeq(vs, 1, n)
          /\ Append(vs, v) \in Seq(Versions)
          /\ Len(Append(vs, v)) = Len(vs) + 1
          /\ Append(vs, v)[Len(vs) + 1] = v
OBVIOUS

\* A version with new transactions on the top block: older tasks are not for it, and a
\* task with what is left of the limit may be.
LEMMA AppendLimited ==
    ASSUME Limited, Typed', NEW txs \in SUBSET Txs, NEW rest \in Nat,
           created' = created + 1,
           top' = [top EXCEPT !.versions = Append(@, Version(created', txs))],
           IsFiniteSet(BytesOf(txs)),
           top.own => Bytes(TxsOf(top.versions)) + Bytes(txs) + rest <= MaxTxsSize,
           tasks' \subseteq tasks \cup {Task(created', rest)},
           micro' = Nothing
    PROVE Limited'
<1> DEFINE vs == top.versions
           v == Version(created', txs)
<1>1. TypeOK /\ vs \in Seq(Versions) /\ created \in Nat
    BY DEF Limited, Typed, TypeOK
<1>2. v \in Versions
    BY <1>1, VersionTyped
<1>3. top'.versions = Append(vs, v) /\ top'.own = top.own
    BY DEF Limited, Typed, TypeOK
<1>4. v.id = created' /\ v.txs = txs
    BY DEF Version
<1>5. TxsOf(top'.versions) = TxsOf(vs) \cup txs
    BY <1>1, <1>2, <1>3, <1>4, TxsOfAppend
<1>6. \A i \in 1 .. Len(vs) : vs[i].id \in Nat /\ vs[i].id <= created
    BY <1>1, VersionOfTop DEF Limited, IdsOrdered
<1>7. \A t \in tasks : t.block \in Nat /\ t.block <= created
    BY DEF Limited, Typed, TypeOK, IdsOrdered
<1>8. \A i, j \in 1 .. Len(vs) : i < j => vs[i].id < vs[j].id
    BY DEF Limited, IdsOrdered
<1>9. IsFiniteSet(BytesOf(TxsOf(vs)))
    BY DEF Limited, TopFits
<1>10. /\ IsFiniteSet(BytesOf(TxsOf(vs) \cup txs))
       /\ Bytes(TxsOf(vs) \cup txs) \in Nat /\ Bytes(TxsOf(vs)) \in Nat /\ Bytes(txs) \in Nat
       /\ Bytes(TxsOf(vs) \cup txs) <= Bytes(TxsOf(vs)) + Bytes(txs)
    BY <1>9, BytesOfUnion
<1>11. top.own => Bytes(TxsOf(vs)) + Bytes(txs) + rest <= MaxTxsSize
    OBVIOUS
<1>12. \A t \in tasks, n \in 1 .. Len(vs) :
            top.own /\ vs[n].id = t.block => Bytes(TxsOf(SubSeq(vs, 1, n))) + t.rest <= MaxTxsSize
    BY DEF Limited, TasksFit, TxsUpTo
<1> HIDE DEF vs, v
<1>13. /\ \A n \in 1 .. Len(vs) : /\ Append(vs, v)[n] = vs[n]
                                  /\ SubSeq(Append(vs, v), 1, n) = SubSeq(vs, 1, n)
       /\ Append(vs, v) \in Seq(Versions)
       /\ Len(Append(vs, v)) = Len(vs) + 1
       /\ Append(vs, v)[Len(vs) + 1] = v
       /\ Len(vs) \in Nat
    BY <1>1, <1>2, UpToAppended
<1>14. top.own => Bytes(TxsOf(top'.versions)) + rest <= MaxTxsSize
    <2>1. \A a, b, c, r, m \in Nat : c <= a + b /\ a + b + r <= m => c + r <= m
        OBVIOUS
    <2>2. MaxTxsSize \in Nat
        BY MiningAssumption
    <2>3. top.own => Bytes(TxsOf(vs) \cup txs) + rest <= MaxTxsSize
        BY <1>10, <1>11, <2>1, <2>2
    <2> QED BY <1>5, <2>3
<1>15. TopFits'
    <2>1. \A c, r, m \in Nat : c + r <= m => c <= m
        OBVIOUS
    <2>2. MaxTxsSize \in Nat
        BY MiningAssumption
    <2>3. /\ IsFiniteSet(BytesOf(TxsOf(top'.versions)))
          /\ Bytes(TxsOf(top'.versions)) \in Nat
        BY <1>5, <1>10
    <2>4. top.own => Bytes(TxsOf(top'.versions)) <= MaxTxsSize
        BY <1>14, <2>1, <2>2, <2>3
    <2>5. OwnBlockFitsLimit'
        BY <1>3, <2>4 DEF OwnBlockFitsLimit, Bytes, BytesOf, TxsOf
    <2>6. IsFiniteSet(BytesOf(TxsOf(top.versions)))'
        BY <2>3 DEF BytesOf, TxsOf
    <2> QED BY <2>5, <2>6 DEF TopFits
<1>16. IdsOrdered'
    <2>1. \A i \in 1 .. Len(vs) + 1 :
             Append(vs, v)[i].id = IF i = Len(vs) + 1 THEN created' ELSE vs[i].id
        BY <1>4, <1>13
    <2>2. \A i \in 1 .. Len(vs) + 1 : i = Len(vs) + 1 \/ i \in 1 .. Len(vs)
        BY <1>13
    <2>3. \A i, j \in 1 .. Len(vs) + 1 : i < j => i \in 1 .. Len(vs)
        BY <1>13
    <2>4. \A i, j \in 1 .. Len(vs) + 1 : i < j => Append(vs, v)[i].id < Append(vs, v)[j].id
        BY <1>1, <1>6, <1>8, <2>1, <2>2, <2>3
    <2>5. \A i \in 1 .. Len(vs) + 1 : Append(vs, v)[i].id <= created'
        BY <1>1, <1>6, <2>1, <2>2
    <2>6. \A t \in tasks' : t.block <= created'
        BY <1>1, <1>7 DEF Task
    <2> QED BY <1>3, <1>13, <2>4, <2>5, <2>6 DEF IdsOrdered
<1>17. TasksFit'
    <2> SUFFICES ASSUME top.own, NEW t \in tasks', NEW n \in 1 .. Len(vs) + 1,
                        Append(vs, v)[n].id = t.block
                 PROVE Bytes(TxsOf(SubSeq(Append(vs, v), 1, n))) + t.rest <= MaxTxsSize
        BY <1>3, <1>13 DEF TasksFit, TxsUpTo
    <2>1. CASE n \in 1 .. Len(vs)
        <3>1. t \in tasks
            BY <1>1, <1>6, <1>13, <2>1 DEF Task
        <3> QED BY <1>12, <1>13, <2>1, <3>1
    <2>2. CASE n = Len(vs) + 1
        <3>1. t = Task(created', rest)
            BY <1>1, <1>4, <1>7, <1>13, <2>2
        <3>2. SubSeq(Append(vs, v), 1, n) = top'.versions
            <4>1. \A s \in Seq(Versions) : SubSeq(s, 1, Len(s)) = s
                OBVIOUS
            <4> QED BY <1>3, <1>13, <2>2, <4>1
        <3> QED BY <1>14, <3>1, <3>2 DEF Task
    <2>3. n \in 1 .. Len(vs) \/ n = Len(vs) + 1
        BY <1>13
    <2> QED BY <2>1, <2>2, <2>3
<1>18. MicroWithinLimit'
    BY DEF MicroWithinLimit
<1> QED BY <1>15, <1>16, <1>17, <1>18 DEF Limited

\* The end of Micro: the task again, a microblock with the packed transactions and a task
\* for the rest, or an error.
LEMMA EndLimited ==
    ASSUME Limited, Typed', EndMicro
    PROVE Limited'
<1>1. /\ micro # Nothing /\ micro \in MicroCalls /\ micro' = Nothing
      /\ TypeOK /\ micro.binSize <= micro.rest
    BY DEF EndMicro, Limited, Typed, TypeOK, MicroFits
<1>2. /\ IsFiniteSet(BytesOf(micro.applied)) /\ Bytes(micro.applied) <= micro.binSize
      /\ top.own => Bytes(TxsOf(top.versions)) + micro.rest <= MaxTxsSize
    BY <1>1 DEF Limited, MicroWithinLimit
<1>3. micro.rest \in Nat /\ micro.binSize \in Nat /\ micro.applied \in SUBSET Txs
    BY <1>1 DEF MicroCalls
<1>4. MicroWithinLimit'
    BY <1>1 DEF MicroWithinLimit
<1>5. CASE NothingPacked
    <2>1. UNCHANGED <<top, created>> /\ tasks' = tasks \cup {Task(TopId, micro.rest)}
        BY <1>5 DEF NothingPacked
    <2>2. Len(top.versions) \in Nat \ {0}
        BY <1>1 DEF TypeOK
    <2>3. TopId = top.versions[Len(top.versions)].id
        BY DEF TopId, Last
    <2>4. TopId <= created
        BY <2>2, <2>3 DEF Limited, IdsOrdered
    <2>5. IdsOrdered' /\ TopFits'
        BY <2>1, <2>4 DEF Limited, IdsOrdered, TopFits, OwnBlockFitsLimit, Task
    <2>6. TasksFit'
        <3> SUFFICES ASSUME top.own, NEW t \in tasks', NEW n \in 1 .. Len(top.versions),
                            top.versions[n].id = t.block
                     PROVE Bytes(TxsUpTo(n)) + t.rest <= MaxTxsSize
            BY <2>1 DEF TasksFit, TxsUpTo
        <3>1. CASE t \in tasks
            BY <3>1 DEF Limited, TasksFit
        <3>2. CASE t = Task(TopId, micro.rest)
            <4>1. t.block = TopId /\ t.rest = micro.rest
                BY <3>2 DEF Task
            <4>2. \A i \in 1 .. Len(top.versions) : top.versions[i].id \in Nat
                BY <1>1, VersionOfTop
            <4>3. \A i, j \in 1 .. Len(top.versions) : i < j => top.versions[i].id < top.versions[j].id
                BY DEF Limited, IdsOrdered
            <4>4. n = Len(top.versions)
                BY <2>2, <2>3, <4>1, <4>2, <4>3
            <4> QED BY <1>1, <1>2, <4>1, <4>4, TxsUpToAll
        <3> QED BY <2>1, <3>1, <3>2
    <2> QED BY <1>4, <2>5, <2>6 DEF Limited
<1>6. CASE MicroFailed
    <2>1. UNCHANGED <<top, created, tasks>>
        BY <1>6 DEF MicroFailed
    <2> QED BY <1>4, <2>1 DEF Limited, IdsOrdered, TopFits, OwnBlockFitsLimit, TasksFit, TxsUpTo
<1>7. CASE MicroApplied
    <2>1. Rest \in Nat /\ Rest = micro.rest - micro.binSize
        BY <1>1, <1>3 DEF Rest
    <2>2. Bytes(TxsOf(top.versions)) \in Nat /\ Bytes(micro.applied) \in Nat
        BY <1>2, FS_CardinalityType DEF Limited, TopFits, Bytes
    <2>3. top.own => Bytes(TxsOf(top.versions)) + Bytes(micro.applied) + Rest <= MaxTxsSize
        <3>1. \A a, b, s, r, m \in Nat : a + r <= m /\ b <= s /\ s <= r => a + b + (r - s) <= m
            OBVIOUS
        <3>2. MaxTxsSize \in Nat
            BY MiningAssumption
        <3> QED BY <1>1, <1>2, <1>3, <2>1, <2>2, <3>1, <3>2
    <2>4. /\ created' = created + 1
          /\ top' = [top EXCEPT !.versions = Append(@, Version(created', micro.applied))]
          /\ tasks' \subseteq tasks \cup {Task(created', Rest)}
        BY <1>7 DEF MicroApplied
    <2> QED BY <1>1, <1>2, <1>3, <2>1, <2>3, <2>4, AppendLimited
<1> QED BY <1>5, <1>6, <1>7 DEF EndMicro

\* A rollback to an earlier version: what is left fits, for it and for its task.
LEMMA DeclinedLimited ==
    ASSUME Limited, Typed', NGBlockDeclined
    PROVE Limited'
<1> DEFINE vs == top.versions
<1>1. PICK n \in 1 .. Len(vs) - 1 : top' = [top EXCEPT !.versions = SubSeq(@, 1, n)]
    BY DEF NGBlockDeclined
<1>2. UNCHANGED <<created, tasks, micro>> /\ micro = Nothing
    BY DEF NGBlockDeclined, Free
<1>3. vs \in Seq(Versions) /\ top'.versions = SubSeq(vs, 1, n) /\ top'.own = top.own
    BY <1>1 DEF Limited, Typed, TypeOK
<1>4. n \in 1 .. Len(vs)
    BY <1>3
<1>5. /\ Len(SubSeq(vs, 1, n)) = n
      /\ \A i \in 1 .. n : /\ SubSeq(vs, 1, n)[i] = vs[i] /\ i \in 1 .. Len(vs)
                           /\ SubSeq(SubSeq(vs, 1, n), 1, i) = SubSeq(vs, 1, i)
    <2> HIDE DEF vs
    <2> QED BY <1>3, <1>4
<1>6. TxsOf(SubSeq(vs, 1, n)) \in SUBSET TxsOf(vs)
    BY <1>3, <1>4, TxsOfSubSeq
<1>7. /\ IsFiniteSet(BytesOf(TxsOf(SubSeq(vs, 1, n))))
      /\ Bytes(TxsOf(SubSeq(vs, 1, n))) \in Nat /\ Bytes(TxsOf(vs)) \in Nat
      /\ Bytes(TxsOf(SubSeq(vs, 1, n))) <= Bytes(TxsOf(vs))
    BY <1>6, BytesOfLess DEF Limited, TopFits
<1>8. top.own => Bytes(TxsOf(SubSeq(vs, 1, n))) <= MaxTxsSize
    <2>1. top.own => Bytes(TxsOf(vs)) <= MaxTxsSize
        BY DEF Limited, TopFits, OwnBlockFitsLimit
    <2>2. \A a, b, m \in Nat : a <= b /\ b <= m => a <= m
        OBVIOUS
    <2>3. MaxTxsSize \in Nat
        BY MiningAssumption
    <2> QED BY <1>7, <2>1, <2>2, <2>3
<1>9. IdsOrdered'
    BY <1>2, <1>3, <1>4, <1>5 DEF Limited, IdsOrdered
<1>10. TopFits'
    BY <1>3, <1>7, <1>8 DEF TopFits, OwnBlockFitsLimit
<1>11. TasksFit'
    BY <1>2, <1>3, <1>4, <1>5 DEF Limited, TasksFit, TxsUpTo
<1>12. MicroWithinLimit'
    BY <1>2 DEF MicroWithinLimit
<1> QED BY <1>9, <1>10, <1>11, <1>12 DEF Limited

LEMMA NextLimited ==
    ASSUME Limited, [Next]_vars
    PROVE Limited'
<1>1. Typed /\ Typed' /\ created \in Nat
    BY NextTyped DEF Limited, Typed, TypeOK
<1>2. ASSUME UNCHANGED <<top, micro, created>>, tasks' \subseteq tasks PROVE Limited'
    BY <1>1, <1>2, SameTopLimited
<1>3. ASSUME NEW own, NEW n, NewTop(own, n), Free, UNCHANGED micro,
             tasks' \subseteq tasks \cup {Task(created', MaxTxsSize)}
      PROVE Limited'
    BY <1>1, <1>3, NewTopLimited DEF Free
<1>4. CASE UNCHANGED vars
    BY <1>2, <1>4 DEF vars
<1>5. CASE Scheduler \/ Miner
    BY <1>2, <1>5 DEF Scheduler, TimerOver, Callback, Miner, TakeEmit, MineKeyBlock
<1>6. CASE MinedBlock
    BY <1>2, <1>3, <1>6
    DEF MinedBlock, NGMinedBlock, SyncMinedBlock, PersistMinedBlock, ApplyMined, Declined,
        MineMicroLater
<1>7. CASE MicroMiner
    <2>1. ASSUME NEW t \in tasks, DropTask(t) PROVE Limited'
        BY <1>2, <2>1 DEF DropTask
    <2> QED
        BY <1>1, <1>7, <2>1, StartLimited, PopLimited, EndLimited DEF MicroMiner
<1>8. ASSUME NEW t \in Txs, Submit(t) PROVE Limited'
    BY <1>2, <1>8 DEF Submit
<1>9. CASE NGBlockDeclined
    BY <1>1, <1>9, DeclinedLimited
<1>10. CASE NGMicroBlock
    <2>1. /\ ~top.own /\ created' = created + 1 /\ UNCHANGED <<tasks, micro>> /\ micro = Nothing
          /\ top' = [top EXCEPT !.versions = Append(@, Version(created', {}))]
        BY <1>10 DEF NGMicroBlock, Free
    <2>2. {} \in SUBSET Txs /\ 0 \in Nat /\ IsFiniteSet(BytesOf({}))
        BY BytesOfNone
    <2>3. tasks' \subseteq tasks \cup {Task(created', 0)} /\ micro' = Nothing
        BY <2>1
    <2> QED BY <1>1, <2>1, <2>2, <2>3, AppendLimited
<1>11. CASE NGBlock \/ Score \/ SyncApplied \/ SyncEnds \/ BackToIdle \/ StartMining
    BY <1>2, <1>3, <1>11 DEF NGBlock, Score, SyncApplied, SyncEnds, BackToIdle, StartMining
<1> QED
    BY <1>4, <1>5, <1>6, <1>7, <1>8, <1>9, <1>10, <1>11 DEF Next, Others

\* Whatever their sizes and the limit, the transactions of an own block fit into it:
\* late tasks, retried tasks, rollbacks to an earlier microblock and commitment errors
\* never let the micro miner spend the same bytes twice.
THEOREM OwnBlocksFit == Spec => []OwnBlockFitsLimit
<1>1. Limited => OwnBlockFitsLimit
    BY DEF Limited, TopFits
<1> QED BY <1>1, InitLimited, NextLimited, PTL DEF Spec
=============================================================================
