--------------------------- MODULE UtxPool_proofs ---------------------------
(***************************************************************************)
(* Proofs about UtxPool for any number of transactions, cleanings and      *)
(* additions: the pool never holds a transaction twice nor more bytes than *)
(* it accounts for, a set flag can always be cancelled, and a cleaning     *)
(* removes nothing that was added after its snapshot.                      *)
(***************************************************************************)
EXTENDS UtxPool, FiniteSetTheorems, TLAPS

-----------------------------------------------------------------------------
(* Bytes.                                                                   *)

\* An item has as many bytes as its transaction is long.
LEMMA BytesOfOne ==
    ASSUME NEW it, Size[it.tx] \in Nat
    PROVE /\ IsFiniteSet({it} \X (1..Size[it.tx]))
          /\ Cardinality({it} \X (1..Size[it.tx])) = Size[it.tx]
  <1> DEFINE n == Size[it.tx]
             S == 1..n
             T == {it} \X S
             f == [i \in S |-> <<it, i>>]
  <1>1. IsFiniteSet(S) /\ Cardinality(S) = n
    <2>1. n \in Nat /\ n \in Int /\ 1 \in Int
      OBVIOUS
    <2> HIDE DEF n
    <2> QED
      BY <2>1, FS_Interval
  <1>2. f \in Bijection(S, T)
    <2>1. f \in [S -> T]
      OBVIOUS
    <2>2. \A i, j \in S : f[i] = f[j] => i = j
      OBVIOUS
    <2>3. \A p \in T : \E i \in S : f[i] = p
      OBVIOUS
    <2> QED
      BY <2>1, <2>2, <2>3 DEF Bijection, Injection, Surjection, IsInjective
  <1>3. ExistsBijection(S, T)
    BY <1>2 DEF ExistsBijection
  <1> QED
    BY <1>1, <1>3, FS_Bijection

\* One more item adds its size.
LEMMA BytesOfMore ==
    ASSUME NEW S, NEW it, it \notin S, Size[it.tx] \in Nat, IsFiniteSet(BytesOf(S))
    PROVE /\ IsFiniteSet(BytesOf(S \cup {it}))
          /\ Cardinality(BytesOf(S \cup {it})) = Cardinality(BytesOf(S)) + Size[it.tx]
  <1> DEFINE T == {it} \X (1..Size[it.tx])
  <1>1. BytesOf(S \cup {it}) = BytesOf(S) \cup T
    BY DEF BytesOf
  <1>2. BytesOf(S) \cap T = {}
    BY DEF BytesOf
  <1>3. IsFiniteSet(T) /\ Cardinality(T) = Size[it.tx]
    BY BytesOfOne
  <1> HIDE DEF T
  <1>4. /\ IsFiniteSet(BytesOf(S) \cup T)
        /\ Cardinality(BytesOf(S) \cup T)
             = Cardinality(BytesOf(S)) + Cardinality(T) - Cardinality(BytesOf(S) \cap T)
    BY <1>3, FS_Union
  <1>5. Cardinality(BytesOf(S)) \in Nat
    BY FS_CardinalityType
  <1>6. Cardinality(BytesOf(S) \cap T) = 0
    BY <1>2, FS_EmptySet
  <1>7. \A a, b \in Nat : (a + b) - 0 = a + b /\ a + (b - 0) = a + b
    OBVIOUS
  <1> QED
    BY <1>1, <1>3, <1>4, <1>5, <1>6, <1>7

\* Fewer items have fewer bytes.
LEMMA BytesOfLess ==
    ASSUME NEW S, NEW T \in SUBSET S, IsFiniteSet(BytesOf(S))
    PROVE /\ IsFiniteSet(BytesOf(T))
          /\ Cardinality(BytesOf(T)) <= Cardinality(BytesOf(S))
  <1>1. BytesOf(T) \in SUBSET BytesOf(S)
    BY DEF BytesOf
  <1> QED
    BY <1>1, FS_Subset

-----------------------------------------------------------------------------
(* The inductive invariant.                                                 *)

\* What a cleaning holds was in the heap at its snapshot.
SnapshotIsOld ==
    \A c \in Cleaners :
        pc[c] \in {"check", "remove"} =>
            \A it \in unchecked[c] \cup drop[c] : it.n <= since[c]

\* Serial numbers of items in the heap have been handed out.
SerialsHandedOut == \A it \in transactions : it.n <= added

\* There are finitely many bytes in the heap, and curSize accounts for them.
BytesAccounted == IsFiniteSet(BytesOf(transactions)) /\ NoPopPanic

\* The inductive invariant: types, the facts about the pool, the one about
\* the flag and the ones about what cleanings hold.
IInv ==
    /\ TypeOK
    /\ BytesAccounted
    /\ NoDuplicates
    /\ CancelIsPossible
    /\ SerialsHandedOut
    /\ SnapshotIsOld

LEMMA InitInv == Init => IInv
  <1> SUFFICES ASSUME Init PROVE IInv
    OBVIOUS
  <1> USE UtxAssumption DEF Init
  <1>1. TypeOK
    <2>1. curSize \in 0..SizeLimit /\ added \in 0..MaxAdds
      OBVIOUS
    <2>2. since \in [Cleaners -> 0..MaxAdds]
      OBVIOUS
    <2>3. /\ cleanUtxRunning \in BOOLEAN
          /\ cancelled \in [Cleaners -> BOOLEAN]
          /\ pc \in [Cleaners -> Steps]
      BY DEF Steps
    <2> QED
      BY <2>1, <2>2, <2>3 DEF TypeOK
  <1>2. NoDuplicates /\ CancelIsPossible /\ SerialsHandedOut /\ SnapshotIsOld
    BY DEF NoDuplicates, CancelIsPossible, SerialsHandedOut, SnapshotIsOld
  <1>3. BytesAccounted
    <2>1. BytesOf(transactions) = {}
      BY DEF BytesOf
    <2>2. IsFiniteSet({}) /\ Cardinality({}) = 0
      BY FS_EmptySet
    <2> QED
      BY <2>1, <2>2 DEF BytesAccounted, NoPopPanic, HeapSize
  <1> QED
    BY <1>1, <1>2, <1>3 DEF IInv

LEMMA TypeStep == TypeOK /\ [Next]_vars => TypeOK'
  <1> SUFFICES ASSUME TypeOK, [Next]_vars PROVE TypeOK'
    OBVIOUS
  <1> USE UtxAssumption DEF TypeOK, poolVars, flagVars, cleanerVars
  <1>1. ASSUME NEW t \in Txs, Add(t) PROVE TypeOK'
    <2>1. added + 1 \in 1..MaxAdds
      BY <1>1 DEF Add
    <2>2. [tx |-> t, n |-> added + 1] \in Items
      BY <2>1 DEF Items
    <2>3. curSize + Size[t] \in 0..SizeLimit
      BY <1>1 DEF Add, Addable
    <2> QED
      BY <1>1, <2>1, <2>2, <2>3 DEF Add
  <1>2. ASSUME Pop PROVE TypeOK'
    <2>1. PICK it \in transactions :
            /\ Size[it.tx] <= curSize
            /\ transactions' = transactions \ {it}
            /\ transactionIds' = transactionIds \ {it.tx}
            /\ curSize' = curSize - Size[it.tx]
            /\ UNCHANGED <<added, flagVars, cleanerVars>>
      BY <1>2 DEF Pop
    <2>2. it.tx \in Txs
      BY <2>1 DEF Items
    <2>3. curSize' \in 0..SizeLimit
      BY <2>1, <2>2
    <2> QED
      BY <2>1, <2>3
  <1>3. ASSUME CancelCleanUTX PROVE TypeOK'
    BY <1>3 DEF CancelCleanUTX
  <1>4. ASSUME NEW c \in Cleaners, CleanUtx(c) PROVE TypeOK'
    BY <1>4 DEF CleanUtx, Steps
  <1>5. ASSUME NEW c \in Cleaners, Validate(c) PROVE TypeOK'
    BY <1>5 DEF Validate, Steps
  <1>6. ASSUME NEW c \in Cleaners, TakeSnapshot(c) PROVE TypeOK'
    BY <1>6 DEF TakeSnapshot, Steps
  <1>7. ASSUME NEW c \in Cleaners, Check(c) PROVE TypeOK'
    BY <1>7 DEF Check, Steps
  <1>8. ASSUME NEW c \in Cleaners, EndCheck(c) PROVE TypeOK'
    BY <1>8 DEF EndCheck, Steps
  <1>9. ASSUME NEW c \in Cleaners, RemoveDropped(c) PROVE TypeOK'
    BY <1>9 DEF RemoveDropped, Steps
  <1>10. ASSUME NEW c \in Cleaners, Defer(c) PROVE TypeOK'
    BY <1>10 DEF Defer, Steps
  <1>11. ASSUME NEW c \in Cleaners, Store(c) PROVE TypeOK'
    BY <1>11 DEF Store, Steps
  <1>12. CASE UNCHANGED vars
    BY <1>12 DEF vars
  <1> QED
    BY <1>1, <1>2, <1>3, <1>4, <1>5, <1>6, <1>7, <1>8, <1>9, <1>10, <1>11, <1>12
    DEF Next, Cleaning

\* An item that comes and one that goes are accounted for with their size;
\* what a cleaning removes is not, and stays accounted for.
LEMMA BytesStep == TypeOK /\ SerialsHandedOut /\ BytesAccounted /\ [Next]_vars => BytesAccounted'
  <1> SUFFICES ASSUME TypeOK, SerialsHandedOut, BytesAccounted, [Next]_vars
               PROVE BytesAccounted'
    OBVIOUS
  <1>0. /\ IsFiniteSet(BytesOf(transactions))
        /\ Cardinality(BytesOf(transactions)) \in Nat
        /\ Cardinality(BytesOf(transactions)) <= curSize
        /\ curSize \in Nat
    BY FS_CardinalityType DEF BytesAccounted, NoPopPanic, HeapSize, TypeOK
  <1>a. SUFFICES /\ IsFiniteSet(BytesOf(transactions'))
                 /\ Cardinality(BytesOf(transactions')) <= curSize'
    BY DEF BytesAccounted, NoPopPanic, HeapSize, BytesOf
  <1>b. \A it \in transactions : Size[it.tx] \in Nat
    BY UtxAssumption DEF TypeOK, Items
  <1>c. \A it \in transactions : it.n \in Nat /\ it.n <= added
    BY DEF TypeOK, Items, SerialsHandedOut
  <1>1. ASSUME NEW t \in Txs, Add(t)
        PROVE  /\ IsFiniteSet(BytesOf(transactions'))
               /\ Cardinality(BytesOf(transactions')) <= curSize'
    <2> DEFINE it == [tx |-> t, n |-> added + 1]
    <2>1. Size[it.tx] \in Nat /\ it.tx = t /\ it.n = added + 1
      BY UtxAssumption
    <2>2. it \notin transactions
      BY <1>c, <2>1 DEF TypeOK
    <2>3. transactions' = transactions \cup {it} /\ curSize' = curSize + Size[it.tx]
      BY <1>1 DEF Add
    <2> HIDE DEF it
    <2>4. /\ IsFiniteSet(BytesOf(transactions \cup {it}))
          /\ Cardinality(BytesOf(transactions \cup {it}))
               = Cardinality(BytesOf(transactions)) + Size[it.tx]
      BY <1>0, <2>1, <2>2, BytesOfMore
    <2> QED
      BY <1>0, <2>1, <2>3, <2>4
  <1>2. ASSUME Pop
        PROVE  /\ IsFiniteSet(BytesOf(transactions'))
               /\ Cardinality(BytesOf(transactions')) <= curSize'
    <2>1. PICK it \in transactions :
            /\ Size[it.tx] <= curSize
            /\ transactions' = transactions \ {it}
            /\ curSize' = curSize - Size[it.tx]
      BY <1>2 DEF Pop
    <2> DEFINE S == transactions \ {it}
    <2>2. S \in SUBSET transactions /\ it \notin S /\ transactions = S \cup {it}
      OBVIOUS
    <2>3. transactions' = S
      BY <2>1
    <2> HIDE DEF S
    <2>4. IsFiniteSet(BytesOf(S))
      BY <1>0, <2>2, BytesOfLess
    <2>5. Size[it.tx] \in Nat
      BY <1>b
    <2>6. Cardinality(BytesOf(S \cup {it})) = Cardinality(BytesOf(S)) + Size[it.tx]
      BY <2>2, <2>4, <2>5, BytesOfMore
    <2>7. Cardinality(BytesOf(S)) \in Nat
      BY <2>4, FS_CardinalityType
    <2>8. Cardinality(BytesOf(transactions)) = Cardinality(BytesOf(S)) + Size[it.tx]
      BY <2>2, <2>6
    <2>9. \A a, b, d \in Nat : b + d <= a => b <= a - d
      OBVIOUS
    <2>10. Cardinality(BytesOf(S)) <= curSize - Size[it.tx]
      BY <1>0, <2>5, <2>7, <2>8, <2>9
    <2> QED
      BY <2>1, <2>3, <2>4, <2>10
  <1>3. ASSUME NEW c \in Cleaners, RemoveDropped(c)
        PROVE  /\ IsFiniteSet(BytesOf(transactions'))
               /\ Cardinality(BytesOf(transactions')) <= curSize'
    <2>1. transactions' \in SUBSET transactions /\ curSize' = curSize
      BY <1>3 DEF RemoveDropped
    <2>2. /\ IsFiniteSet(BytesOf(transactions'))
          /\ Cardinality(BytesOf(transactions')) <= Cardinality(BytesOf(transactions))
      BY <1>0, <2>1, BytesOfLess
    <2>3. Cardinality(BytesOf(transactions')) \in Nat
      BY <2>2, FS_CardinalityType
    <2> QED
      BY <1>0, <2>1, <2>2, <2>3
  <1>4. ASSUME UNCHANGED <<transactions, curSize>>
        PROVE  /\ IsFiniteSet(BytesOf(transactions'))
               /\ Cardinality(BytesOf(transactions')) <= curSize'
    BY <1>0, <1>4
  <1>5. \/ \E t \in Txs : Add(t)
        \/ Pop
        \/ \E c \in Cleaners : RemoveDropped(c)
        \/ UNCHANGED <<transactions, curSize>>
    BY DEF Next, Cleaning, CancelCleanUTX, CleanUtx, Validate, TakeSnapshot, Check,
           EndCheck, Defer, Store, vars, poolVars
  <1> QED
    BY <1>1, <1>2, <1>3, <1>4, <1>5

\* Every step keeps the rest of the invariant: the actions of the pool can
\* disturb NoDuplicates, the ones of a cleaning SnapshotIsOld.
LEMMA InvStep == IInv /\ [Next]_vars => IInv'
  <1> SUFFICES ASSUME IInv, [Next]_vars PROVE IInv'
    OBVIOUS
  <1> DEFINE Rest == NoDuplicates /\ CancelIsPossible /\ SerialsHandedOut
                       /\ SnapshotIsOld
  <1>0. TypeOK' /\ BytesAccounted'
    BY TypeStep, BytesStep DEF IInv
  <1> USE UtxAssumption DEF poolVars, flagVars, cleanerVars
  <1>1. ASSUME NEW t \in Txs, Add(t) PROVE Rest'
    <2>1. NoDuplicates'
      BY <1>1 DEF Add, Addable, NoDuplicates, IInv
    <2>2. SerialsHandedOut'
      BY <1>1 DEF Add, SerialsHandedOut, IInv, TypeOK, Items
    <2> QED
      BY <1>1, <2>1, <2>2 DEF Add, CancelIsPossible, SnapshotIsOld, IInv
  <1>2. ASSUME Pop PROVE Rest'
    BY <1>2 DEF Pop, NoDuplicates, CancelIsPossible, SnapshotIsOld,
                SerialsHandedOut, IInv
  <1>3. ASSUME CancelCleanUTX PROVE Rest'
    BY <1>3 DEF CancelCleanUTX, NoDuplicates, CancelIsPossible, SnapshotIsOld,
                SerialsHandedOut, IInv
  <1>4. ASSUME NEW c \in Cleaners, CleanUtx(c) PROVE Rest'
    BY <1>4 DEF CleanUtx, NoDuplicates, CancelIsPossible, SnapshotIsOld,
                SerialsHandedOut, IInv, TypeOK
  <1>5. ASSUME NEW c \in Cleaners, Validate(c) PROVE Rest'
    BY <1>5 DEF Validate, NoDuplicates, CancelIsPossible, SnapshotIsOld,
                SerialsHandedOut, IInv, TypeOK
  <1>6. ASSUME NEW c \in Cleaners, TakeSnapshot(c) PROVE Rest'
    <2>1. SnapshotIsOld'
      BY <1>6 DEF TakeSnapshot, SnapshotIsOld, SerialsHandedOut, IInv, TypeOK
    <2> QED
      BY <1>6, <2>1 DEF TakeSnapshot, NoDuplicates, CancelIsPossible,
                        SerialsHandedOut, IInv
  <1>7. ASSUME NEW c \in Cleaners, Check(c) PROVE Rest'
    <2>1. PICK it \in unchecked[c] :
            /\ unchecked' = [unchecked EXCEPT ![c] = @ \ {it}]
            /\ \/ drop' = [drop EXCEPT ![c] = @ \cup {it}]
               \/ UNCHANGED drop
      BY <1>7 DEF Check
    <2>2. SnapshotIsOld'
      BY <1>7, <2>1 DEF Check, SnapshotIsOld, IInv, TypeOK
    <2> QED
      BY <1>7, <2>2 DEF Check, NoDuplicates, CancelIsPossible,
                        SerialsHandedOut, IInv
  <1>8. ASSUME NEW c \in Cleaners, EndCheck(c) PROVE Rest'
    BY <1>8 DEF EndCheck, NoDuplicates, CancelIsPossible, SnapshotIsOld,
                SerialsHandedOut, IInv, TypeOK
  <1>9. ASSUME NEW c \in Cleaners, RemoveDropped(c) PROVE Rest'
    BY <1>9 DEF RemoveDropped, NoDuplicates, CancelIsPossible, SnapshotIsOld,
                SerialsHandedOut, IInv, TypeOK
  <1>10. ASSUME NEW c \in Cleaners, Defer(c) PROVE Rest'
    BY <1>10 DEF Defer, NoDuplicates, CancelIsPossible, SnapshotIsOld,
                SerialsHandedOut, IInv, TypeOK
  <1>11. ASSUME NEW c \in Cleaners, Store(c) PROVE Rest'
    BY <1>11 DEF Store, NoDuplicates, CancelIsPossible, SnapshotIsOld,
                SerialsHandedOut, IInv, TypeOK
  <1>12. ASSUME UNCHANGED vars PROVE Rest'
    BY <1>12 DEF vars, NoDuplicates, CancelIsPossible, SnapshotIsOld,
                SerialsHandedOut, IInv
  <1> QED
    BY <1>0, <1>1, <1>2, <1>3, <1>4, <1>5, <1>6, <1>7, <1>8, <1>9, <1>10, <1>11,
       <1>12
    DEF Next, Cleaning, IInv

\* The inductive invariant holds in every reachable state.
LEMMA Invariance == Spec => []IInv
  BY InitInv, InvStep, PTL DEF Spec

\* The variables of the pool and of its cleanings keep their types, in
\* particular curSize stays within sizeLimit (addWithBytesOptValidation, Pop).
THEOREM TypeCorrect == Spec => []TypeOK
  BY Invariance, PTL DEF IInv

\* The heap never holds more bytes than curSize says, so that Pop does not
\* panic and sizeLimit bounds the heap (UtxImpl.Pop, UtxImpl.Clean).
THEOREM PopDoesNotPanic == Spec => []NoPopPanic
  BY Invariance, PTL DEF IInv, BytesAccounted

\* No transaction is in the heap twice and transactionIds covers the heap,
\* whatever additions, pops and cleanings interleave (UtxImpl).
THEOREM PoolHasNoDuplicates == Spec => []NoDuplicates
  BY Invariance, PTL DEF IInv

\* CancelCleanUTX never finds a set flag without a cancel function.
THEOREM FlagCanBeCancelled == Spec => []CancelIsPossible
  BY Invariance, PTL DEF IInv

\* The second critical section of UtxImpl.Clean removes nothing that was added
\* after the first.
THEOREM CleaningRemovesOldItems == Spec => CleanRemovesOldItemsOnly
  <1>1. IInv /\ [Next]_vars =>
          [\A c \in Cleaners : RemoveDropped(c) =>
             \A it \in transactions \ transactions' : it.n <= since[c]]_vars
    BY DEF IInv, SnapshotIsOld, RemoveDropped, Removed
  <1> QED
    BY <1>1, Invariance, PTL DEF Spec, CleanRemovesOldItemsOnly
=============================================================================
