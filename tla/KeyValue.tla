------------------------------ MODULE KeyValue ------------------------------
(***************************************************************************)
(* What the rest of the node may expect of the key-value storage           *)
(* (interface keyvalue.KeyValue): a map that survives restarts, changed by *)
(* single writes and by a batch that is applied as a whole or not at all,  *)
(* and read by Get and Has.  A read answers with the present content of    *)
(* the map or fails with an error, unless the key is doubtful: then it may *)
(* answer anything.  A key becomes doubtful only when a read of it has     *)
(* failed, or by a start that comes after a faulty one; writing the key    *)
(* ends the doubt.                                                         *)
(***************************************************************************)
CONSTANTS
    Keys,
    Vals,
    NotFound,  \* ErrNotFound
    Failed,    \* any other error
    NoChange,  \* the batch does not mention the key
    NoReply    \* nothing has been read yet

VARIABLES
    content,   \* the value of every key, NotFound where there is none
    batch,     \* the last change of every key in the Batch
    doubtful,  \* the keys that may be read wrongly
    risk,      \* whether a start was faulty, so that the next may raise doubt
    reply      \* the answer of the last read

storeVars == <<content, batch, doubtful, risk, reply>>

\* What a batch may hold for a key; NotFound marks a deletion.
Changes == Vals \cup {NotFound, NoChange}

NoChanges == [k \in Keys |-> NoChange]

\* The map c after the changes of batch b.
Apply(c, b) == [k \in Keys |-> IF b[k] = NoChange THEN c[k] ELSE b[k]]

StoreInit ==
    /\ content = [k \in Keys |-> NotFound]
    /\ batch = NoChanges
    /\ doubtful = {}
    /\ risk = FALSE
    /\ reply = NoReply

StoreGet(k) ==
    /\ \/ reply' = <<"get", k, content[k]>>
       \/ k \in doubtful /\ \E v \in Vals \cup {NotFound} : reply' = <<"get", k, v>>
    /\ UNCHANGED <<content, batch, doubtful, risk>>

StoreHas(k) ==
    /\ \/ reply' = <<"has", k, content[k] # NotFound>>
       \/ k \in doubtful /\ \E b \in BOOLEAN : reply' = <<"has", k, b>>
    /\ UNCHANGED <<content, batch, doubtful, risk>>

StoreReadFails(k) ==
    /\ reply' \in {<<"get", k, Failed>>, <<"has", k, Failed>>}
    /\ doubtful' \in {doubtful, doubtful \cup {k}}
    /\ UNCHANGED <<content, batch, risk>>

StorePut(k, v) ==
    /\ content' = [content EXCEPT ![k] = v]
    /\ doubtful' = doubtful \ {k}
    /\ UNCHANGED <<batch, risk, reply>>

\* A change is added to the batch, or the batch is dropped.
StoreBatch ==
    /\ \/ \E k \in Keys, v \in Vals \cup {NotFound} :
             batch' = [batch EXCEPT ![k] = v]
       \/ batch' = NoChanges
    /\ UNCHANGED <<content, doubtful, risk, reply>>

StoreFlush ==
    /\ content' = Apply(content, batch)
    /\ batch' = NoChanges
    /\ doubtful' = {k \in doubtful : batch[k] = NoChange}
    /\ UNCHANGED <<risk, reply>>

\* What was read wrongly is read again.
StoreForget ==
    /\ doubtful' \in SUBSET doubtful
    /\ UNCHANGED <<content, batch, risk, reply>>

\* The storage is closed, or its process dies.
StoreStop ==
    /\ batch' = NoChanges
    /\ doubtful' = {}
    /\ risk' => risk
    /\ UNCHANGED <<content, reply>>

\* A start without a fault: nothing is doubtful unless there is a risk from
\* an earlier one.
StoreStart ==
    /\ doubtful' \in SUBSET IF risk THEN Keys ELSE {}
    /\ risk' => risk
    /\ UNCHANGED <<content, batch, reply>>

\* A start with an error of the file system.
StoreFaultyStart ==
    /\ doubtful' = {}
    /\ risk' = TRUE
    /\ UNCHANGED <<content, batch, reply>>

StoreNext ==
    \/ \E k \in Keys : StoreGet(k) \/ StoreHas(k) \/ StoreReadFails(k)
    \/ \E k \in Keys, v \in Vals \cup {NotFound} : StorePut(k, v)
    \/ StoreBatch \/ StoreFlush \/ StoreForget
    \/ StoreStop \/ StoreStart \/ StoreFaultyStart

\* The promise of the storage to its users.
StoreSpec == StoreInit /\ [][StoreNext]_storeVars
=============================================================================
