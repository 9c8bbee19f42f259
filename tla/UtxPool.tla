------------------------------ MODULE UtxPool ------------------------------
(***************************************************************************)
(* The pool of unconfirmed transactions (pkg/miner/utxpool) and the        *)
(* background cleaning that the node's state machine starts and cancels    *)
(* (BaseInfo.CleanUtx and BaseInfo.CancelCleanUTX, pkg/node/fsm/fsm.go).   *)
(*                                                                         *)
(* Two kinds of actors meet here.  The event loop adds transactions,       *)
(* pops them for a microblock and starts or cancels a cleaning; it is one  *)
(* goroutine, so its operations are atomic with respect to each other.     *)
(* Every cleaning is a goroutine of its own that copies the heap under the *)
(* pool's mutex, validates the copied items without the mutex and then     *)
(* takes the mutex again to remove what it judged invalid.                 *)
(*                                                                         *)
(* A heap item is a pointer in the code: the same transaction added twice  *)
(* is two items.  Items carry a serial number for that identity.           *)
(***************************************************************************)
EXTENDS Naturals, FiniteSets

CONSTANTS
    Txs,        \* transactions, identified by their ID
    Size,       \* Size[t]: length of the serialised transaction
    Fee,        \* Fee[t]: fee of the transaction
    SizeLimit,  \* UtxImpl.sizeLimit
    Cleaners,   \* slots for cleaning goroutines (bound)
    MaxAdds,    \* number of successful additions explored (bound)
    NoCleaner   \* cleanCancel = nil

ASSUME UtxAssumption ==
    /\ Size \in [Txs -> Nat \ {0}]
    /\ Fee \in [Txs -> Nat]
    /\ SizeLimit \in Nat
    /\ MaxAdds \in Nat
    /\ NoCleaner \notin Cleaners

VARIABLES
    transactions,     \* UtxImpl.transactions: the items in the heap
    transactionIds,   \* UtxImpl.transactionIds
    curSize,          \* UtxImpl.curSize
    added,            \* serial number of the last item pushed
    cleanUtxRunning,  \* BaseInfo.cleanUtxRunning (atomic)
    cleanCancel,      \* BaseInfo.cleanCancel: the cleaning it cancels
    pc,               \* pc[c]: where the cleaning goroutine is
    cancelled,        \* cancelled[c]: its context is done
    unchecked,        \* unchecked[c]: items of the snapshot still to check
    drop,             \* drop[c]: items judged invalid
    since             \* since[c]: history, value of added at the snapshot

poolVars == <<transactions, transactionIds, curSize, added>>
flagVars == <<cleanUtxRunning, cleanCancel>>
cleanerVars == <<pc, cancelled, unchecked, drop, since>>
vars == <<transactions, transactionIds, curSize, added, cleanUtxRunning,
          cleanCancel, pc, cancelled, unchecked, drop, since>>

Items == [tx : Txs, n : 1..MaxAdds]

Steps == {"idle", "validate", "snapshot", "check", "remove", "defer", "store"}

Init ==
    /\ transactions = {}
    /\ transactionIds = {}
    /\ curSize = 0
    /\ added = 0
    /\ cleanUtxRunning = FALSE
    /\ cleanCancel = NoCleaner
    /\ pc = [c \in Cleaners |-> "idle"]
    /\ cancelled = [c \in Cleaners |-> FALSE]
    /\ unchecked = [c \in Cleaners |-> {}]
    /\ drop = [c \in Cleaners |-> {}]
    /\ since = [c \in Cleaners |-> 0]

-----------------------------------------------------------------------------
(* The pool, operations of the event loop.                                  *)

\* transactionsHeap.Less: fee per byte, by integer division.
Priority(it) == Fee[it.tx] \div Size[it.tx]

\* An item heap.Pop may return: none is before it.
Best(it) == \A other \in transactions : Priority(other) <= Priority(it)

\* Mutant of Addable: the size limit is not checked.
Addable_NoLimit(t) == t \notin transactionIds

\* Mutant of Addable: the lookup in transactionIds is forgotten.
Addable_NoLookup(t) == curSize + Size[t] <= SizeLimit

\* Add, AddWithBytes and AddWithBytesRaw up to the push: the pool has room
\* and does not know the transaction.  A refusal by the validator changes
\* nothing and is not a step.
Addable(t) ==
    /\ curSize + Size[t] <= SizeLimit
    /\ t \notin transactionIds

\* Mutant of Add: the bytes are not accounted for.
Add_NoSize(t) ==
    /\ added < MaxAdds
    /\ Addable(t)
    /\ added' = added + 1
    /\ transactions' = transactions \cup {[tx |-> t, n |-> added + 1]}
    /\ transactionIds' = transactionIds \cup {t}
    /\ UNCHANGED <<curSize, flagVars, cleanerVars>>

\* A successful addition.  Reinsertion of popped transactions by the
\* microblock miner is the same operation.
Add(t) ==
    /\ added < MaxAdds
    /\ Addable(t)
    /\ added' = added + 1
    /\ transactions' = transactions \cup {[tx |-> t, n |-> added + 1]}
    /\ transactionIds' = transactionIds \cup {t}
    /\ curSize' = curSize + Size[t]
    /\ UNCHANGED <<flagVars, cleanerVars>>

\* Pop for the next microblock.  The code panics if the item is larger than
\* curSize; the guard keeps the subtraction in Nat and NoPopPanic says that it
\* never bites.
Pop ==
    \E it \in transactions :
        /\ Best(it)
        /\ Size[it.tx] <= curSize
        /\ transactions' = transactions \ {it}
        /\ transactionIds' = transactionIds \ {it.tx}
        /\ curSize' = curSize - Size[it.tx]
        /\ UNCHANGED <<added, flagVars, cleanerVars>>

-----------------------------------------------------------------------------
(* Starting and cancelling a cleaning, operations of the event loop.        *)

\* Mutant of CleanUtx: the cancel function is not kept.
CleanUtx_NoCancel(c) ==
    /\ pc[c] = "idle"
    /\ ~cleanUtxRunning
    /\ cleanUtxRunning' = TRUE
    /\ pc' = [pc EXCEPT ![c] = "validate"]
    /\ cancelled' = [cancelled EXCEPT ![c] = FALSE]
    /\ UNCHANGED <<poolVars, cleanCancel, unchecked, drop, since>>

\* CleanUtx: the compare-and-swap of the flag guards the start of a goroutine
\* with a context of its own.
CleanUtx(c) ==
    /\ pc[c] = "idle"
    /\ ~cleanUtxRunning
    /\ cleanUtxRunning' = TRUE
    /\ cleanCancel' = c
    /\ pc' = [pc EXCEPT ![c] = "validate"]
    /\ cancelled' = [cancelled EXCEPT ![c] = FALSE]
    /\ UNCHANGED <<poolVars, unchecked, drop, since>>

\* CancelCleanUTX: compare-and-swap the flag back, cancel the context that
\* cleanCancel refers to and forget it.
CancelCleanUTX ==
    /\ cleanUtxRunning
    /\ cleanUtxRunning' = FALSE
    /\ cleanCancel' = NoCleaner
    /\ cancelled' = [c \in Cleaners |-> cancelled[c] \/ c = cleanCancel]
    /\ UNCHANGED <<poolVars, pc, unchecked, drop, since>>

-----------------------------------------------------------------------------
(* The cleaning goroutine.                                                  *)

\* Mutant of Validate: the early return leaves the goroutine without resetting
\* the flag.
Validate_NoReset(c) ==
    /\ pc[c] = "validate"
    /\ pc' = [pc EXCEPT ![c] = IF transactions = {} THEN "idle" ELSE "snapshot"]
    /\ UNCHANGED <<poolVars, flagVars, cancelled, unchecked, drop, since>>

\* bulkValidator.Validate returns at once when the pool is empty.
Validate(c) ==
    /\ pc[c] = "validate"
    /\ pc' = [pc EXCEPT ![c] = IF transactions = {} THEN "defer" ELSE "snapshot"]
    /\ UNCHANGED <<poolVars, flagVars, cancelled, unchecked, drop, since>>

\* UtxImpl.Clean, first critical section: copy the heap.
TakeSnapshot(c) ==
    /\ pc[c] = "snapshot"
    /\ pc' = [pc EXCEPT ![c] = "check"]
    /\ unchecked' = [unchecked EXCEPT ![c] = transactions]
    /\ drop' = [drop EXCEPT ![c] = {}]
    /\ since' = [since EXCEPT ![c] = added]
    /\ UNCHANGED <<poolVars, flagVars, cancelled>>

\* UtxImpl.Clean, one turn of the loop without the mutex: whether the item is
\* still valid depends on the ledger, so either answer is possible.
Check(c) ==
    /\ pc[c] = "check"
    /\ ~cancelled[c]
    /\ \E it \in unchecked[c] :
        /\ unchecked' = [unchecked EXCEPT ![c] = @ \ {it}]
        /\ \/ drop' = [drop EXCEPT ![c] = @ \cup {it}]
           \/ UNCHANGED drop
    /\ UNCHANGED <<poolVars, flagVars, pc, cancelled, since>>

\* The loop ends: nothing is left, or the context is done.
EndCheck(c) ==
    /\ pc[c] = "check"
    /\ cancelled[c] \/ unchecked[c] = {}
    /\ pc' = [pc EXCEPT ![c] = "remove"]
    /\ unchecked' = [unchecked EXCEPT ![c] = {}]
    /\ UNCHANGED <<poolVars, flagVars, cancelled, drop, since>>

\* Mutant of Removed: items are matched by transaction instead of by pointer.
Removed_ByID(c) == {it \in transactions : \E d \in drop[c] : d.tx = it.tx}

\* What heap.Remove takes out of the heap: the dropped items with index >= 0,
\* that is the ones that are still in the heap.
Removed(c) == drop[c] \cap transactions

\* UtxImpl.Clean, second critical section.  Neither transactionIds nor curSize
\* is updated.
RemoveDropped(c) ==
    /\ pc[c] = "remove"
    /\ pc' = [pc EXCEPT ![c] = "defer"]
    /\ transactions' = transactions \ Removed(c)
    /\ drop' = [drop EXCEPT ![c] = {}]
    /\ since' = [since EXCEPT ![c] = 0]
    /\ UNCHANGED <<transactionIds, curSize, added, flagVars, cancelled, unchecked>>

\* The deferred function of CleanUtx, up to the check of the context.
Defer(c) ==
    /\ pc[c] = "defer"
    /\ pc' = [pc EXCEPT ![c] = IF cancelled[c] THEN "idle" ELSE "store"]
    /\ UNCHANGED <<poolVars, flagVars, cancelled, unchecked, drop, since>>

\* cleanUtxRunning.Store(false), not atomic with the check before it.
Store(c) ==
    /\ pc[c] = "store"
    /\ pc' = [pc EXCEPT ![c] = "idle"]
    /\ cleanUtxRunning' = FALSE
    /\ UNCHANGED <<poolVars, cleanCancel, cancelled, unchecked, drop, since>>

Cleaning(c) ==
    Validate(c) \/ TakeSnapshot(c) \/ Check(c) \/ EndCheck(c)
        \/ RemoveDropped(c) \/ Defer(c) \/ Store(c)

Next ==
    \/ \E t \in Txs : Add(t)
    \/ Pop
    \/ CancelCleanUTX
    \/ \E c \in Cleaners : CleanUtx(c) \/ Cleaning(c)

Spec == Init /\ [][Next]_vars

\* The Go scheduler runs every goroutine that is not blocked.
FairSpec == Spec /\ \A c \in Cleaners : WF_vars(Cleaning(c))

-----------------------------------------------------------------------------
(* Properties.                                                              *)

TypeOK ==
    /\ transactions \subseteq Items
    /\ transactionIds \subseteq Txs
    /\ curSize \in 0..SizeLimit
    /\ added \in 0..MaxAdds
    /\ cleanUtxRunning \in BOOLEAN
    /\ cleanCancel \in Cleaners \cup {NoCleaner}
    /\ pc \in [Cleaners -> Steps]
    /\ cancelled \in [Cleaners -> BOOLEAN]
    /\ unchecked \in [Cleaners -> SUBSET Items]
    /\ drop \in [Cleaners -> SUBSET Items]
    /\ since \in [Cleaners -> 0..MaxAdds]

\* The bytes of some items, as pairs of an item and a position in it.
BytesOf(items) == UNION {{it} \X (1..Size[it.tx]) : it \in items}

\* Number of bytes of the items that are in the heap.
HeapSize == Cardinality(BytesOf(transactions))

\* The pool never holds more bytes than it accounts for, so that the check
\* against sizeLimit bounds the heap and the panic in Pop ("size of transaction
\* > than current size") is out of reach, whatever the cleanings removed.
NoPopPanic == HeapSize <= curSize

\* transactionIds covers the heap and no transaction is in the heap twice, also
\* when a transaction is popped, cleaned or reinserted while cleanings hold
\* items of it: a microblock never gets the same transaction twice.
NoDuplicates ==
    /\ \A it \in transactions : it.tx \in transactionIds
    /\ \A it, other \in transactions : it.tx = other.tx => it = other

\* A cleaning removes only items that were in the heap when it took its
\* snapshot: a transaction that was popped and added again in the meantime was
\* validated by that addition and stays.
CleanRemovesOldItemsOnly ==
    [][\A c \in Cleaners : RemoveDropped(c) =>
          \A it \in transactions \ transactions' : it.n <= since[c]]_vars

\* CancelCleanUTX never meets a set flag without a cancel function, the branch
\* the code comments with "This should not happen".
CancelIsPossible == cleanUtxRunning => cleanCancel # NoCleaner

\* The flag never sticks: a cleaning that was started ends or is cancelled, and
\* the next CleanUtx is not ignored for ever.
CleaningEnds == cleanUtxRunning ~> ~cleanUtxRunning

=============================================================================
