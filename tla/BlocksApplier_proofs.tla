------------------------ MODULE BlocksApplier_proofs ------------------------
(***************************************************************************)
(* The ledger is a valid chain and the rollback window lies on it, for     *)
(* every tree of blocks and every value of the limits, with crashes, API   *)
(* rollbacks and storage failures.  While a handler works the blocks it    *)
(* saved complete the chain, a refusal brings the ledger back, a crash     *)
(* costs no more than the allowed depth, and the cache of block versions   *)
(* never leads more than one block back.  Seen from outside, the ledger    *)
(* follows ForkChoice, and an undisturbed handler decides as the reference *)
(* does.                                                                   *)
(***************************************************************************)
EXTENDS BlocksApplier, WellFoundedInduction, NaturalsInduction, TLAPS

-----------------------------------------------------------------------------
(* Chains.                                                                 *)

\* IsChain, height by height.
LEMMA ChainByHeight ==
    ASSUME NEW c \in Seq(Blocks)
    PROVE  IsChain(c) <=>
              /\ Len(c) >= 1 /\ c[1] = Genesis
              /\ \A i \in 1 .. Len(c) :
                    /\ c[i] \in Valid
                    /\ i = 1 => Parent[c[i]] = NoBlock
                    /\ i # 1 => Parent[c[i]] = c[i - 1]
<1>1. Range(c) \subseteq Valid <=> \A i \in 1 .. Len(c) : c[i] \in Valid
  BY DEF Range
<1>2. c # << >> <=> Len(c) >= 1
  OBVIOUS
<1>3. Linked(NoBlock, c) <=>
        \A i \in 1 .. Len(c) : /\ i = 1 => Parent[c[i]] = NoBlock
                               /\ i # 1 => Parent[c[i]] = c[i - 1]
  BY DEF Linked
<1> QED
  BY <1>1, <1>2, <1>3, Zenon DEF IsChain

\* A nonempty prefix of a chain is a chain: rollbacks keep the ledger valid.
LEMMA PrefixIsChain ==
    ASSUME NEW c \in Seq(Blocks), IsChain(c), NEW h \in 1 .. Len(c)
    PROVE  /\ UpTo(c, h) \in Seq(Blocks)
           /\ Len(UpTo(c, h)) = h
           /\ IsChain(UpTo(c, h))
<1> DEFINE p == UpTo(c, h)
<1>1. /\ p \in Seq(Blocks)
      /\ Len(p) = h
      /\ \A i \in 1 .. h : p[i] = c[i]
  BY DEF UpTo
<1>2. h \in Nat /\ h >= 1 /\ h <= Len(c) /\ Len(c) \in Nat
  OBVIOUS
<1> HIDE DEF p
<1>3. \A i \in 1 .. Len(p) : /\ p[i] \in Valid
                             /\ i = 1 => Parent[p[i]] = NoBlock
                             /\ i # 1 => Parent[p[i]] = p[i - 1]
  <2> SUFFICES ASSUME NEW i \in 1 .. h
               PROVE  /\ p[i] \in Valid
                      /\ i = 1 => Parent[p[i]] = NoBlock
                      /\ i # 1 => Parent[p[i]] = p[i - 1]
    BY <1>1
  <2>1. i \in 1 .. Len(c) /\ p[i] = c[i] /\ (i # 1 => p[i - 1] = c[i - 1])
    BY <1>1, <1>2
  <2> QED
    BY <2>1, ChainByHeight
<1>4. p[1] = Genesis
  BY <1>1, <1>2, ChainByHeight
<1>5. IsChain(p)
  BY <1>1, <1>2, <1>3, <1>4, ChainByHeight
<1> QED
  BY <1>1, <1>5 DEF p

\* Blocks that addBlocks accepts on top of a chain extend it to a chain.
LEMMA ExtensionIsChain ==
    ASSUME NEW c \in Seq(Blocks), IsChain(c),
           NEW bs \in Seq(Blocks), Linked(Last(c), bs), Range(bs) \subseteq Valid
    PROVE  /\ c \o bs \in Seq(Blocks)
           /\ Len(c \o bs) = Len(c) + Len(bs)
           /\ IsChain(c \o bs)
<1> DEFINE n == Len(c)
           d == c \o bs
<1>1. /\ d \in Seq(Blocks)
      /\ Len(d) = n + Len(bs)
      /\ n \in Nat /\ Len(bs) \in Nat
      /\ \A i \in 1 .. n : d[i] = c[i]
      /\ \A j \in 1 .. Len(bs) : d[n + j] = bs[j]
  OBVIOUS
<1>2. n >= 1 /\ c[1] = Genesis
  BY ChainByHeight
<1>3. \A j \in 1 .. Len(bs) : /\ bs[j] \in Valid
                              /\ j = 1 => Parent[bs[j]] = c[n]
                              /\ j # 1 => Parent[bs[j]] = bs[j - 1]
  BY DEF Linked, Last, Range
<1> HIDE DEF d
<1>4. \A i \in 1 .. Len(d) : /\ d[i] \in Valid
                             /\ i = 1 => Parent[d[i]] = NoBlock
                             /\ i # 1 => Parent[d[i]] = d[i - 1]
  <2> SUFFICES ASSUME NEW i \in 1 .. Len(d)
               PROVE  /\ d[i] \in Valid
                      /\ i = 1 => Parent[d[i]] = NoBlock
                      /\ i # 1 => Parent[d[i]] = d[i - 1]
    OBVIOUS
  <2>1. CASE i <= n
    <3>1. i \in 1 .. n /\ d[i] = c[i] /\ (i # 1 => d[i - 1] = c[i - 1])
      BY <1>1, <2>1
    <3> QED
      BY <3>1, ChainByHeight
  <2>2. CASE i > n
    <3> DEFINE j == i - n
    <3>1. j \in 1 .. Len(bs) /\ i # 1 /\ i = n + j /\ i - 1 = n + (j - 1)
      BY <1>1, <1>2, <2>2
    <3>2. d[i] = bs[j]
      BY <1>1, <3>1
    <3>3. j = 1 => d[i - 1] = c[n]
      BY <1>1, <1>2, <3>1
    <3>4. j # 1 => d[i - 1] = bs[j - 1]
      <4> SUFFICES ASSUME j # 1 PROVE d[i - 1] = bs[j - 1]
        OBVIOUS
      <4>1. j - 1 \in 1 .. Len(bs)
        BY <1>1, <3>1
      <4> QED
        BY <1>1, <3>1, <4>1
    <3> HIDE DEF j
    <3> QED
      BY <1>3, <3>1, <3>2, <3>3, <3>4
  <2> QED
    BY <1>1, <2>1, <2>2
<1>5. d[1] = Genesis /\ Len(d) >= 1
  BY <1>1, <1>2
<1>6. IsChain(d)
  BY <1>1, <1>4, <1>5, ChainByHeight
<1> QED
  BY <1>1, <1>6 DEF d
-----------------------------------------------------------------------------
(* The storage.                                                            *)

\* The three things a step can do to what is stored.
Cuts == \E h \in RollbackHeights : Rollback(h)
Extends == \E bs \in Seq(Blocks) : CanAdd(bs) /\ AddBlocks(bs)

\* What is stored: a chain, and a window that begins on it.
StoredInv ==
    /\ chain \in Seq(Blocks) /\ IsChain(chain)
    /\ minHeight \in Nat /\ 1 <= minHeight /\ minHeight <= Len(chain)

LEMMA CutKeepsStored ==
    ASSUME StoredInv, Cuts
    PROVE  StoredInv'
<1>1. PICK h \in RollbackHeights : Rollback(h)
  BY DEF Cuts
<1>2. h \in 1 .. Len(chain) /\ h >= minHeight /\ h \in Nat
  BY DEF StoredInv, RollbackHeights
<1>3. chain' = UpTo(chain, h) /\ minHeight' = minHeight
  BY <1>1 DEF Rollback
<1>4. chain' \in Seq(Blocks) /\ Len(chain') = h /\ IsChain(chain')
  BY <1>2, <1>3, PrefixIsChain DEF StoredInv
<1> QED
  BY <1>2, <1>3, <1>4 DEF StoredInv, IsChain, Linked

LEMMA ExtensionKeepsStored ==
    ASSUME StoredInv, Extends
    PROVE  StoredInv'
<1>1. PICK bs \in Seq(Blocks) : CanAdd(bs) /\ AddBlocks(bs)
  BY DEF Extends
<1>2. chain' = chain \o bs
  BY <1>1 DEF AddBlocks
<1>3. Linked(Last(chain), bs) /\ Range(bs) \subseteq Valid
  BY <1>1 DEF CanAdd, Top
<1>4. chain' \in Seq(Blocks) /\ Len(chain') = Len(chain) + Len(bs) /\ IsChain(chain')
  BY <1>2, <1>3, ExtensionIsChain DEF StoredInv
<1>5. Len(chain) \in Nat /\ Len(bs) \in Nat /\ Len(chain') \in Nat
  BY <1>4 DEF StoredInv
<1>6. minHeight' \in Nat /\ 1 <= minHeight' /\ minHeight' <= Len(chain')
  BY <1>1, <1>4, <1>5, BlocksApplierAssumption
     DEF StoredInv, AddBlocks, NewRollbackMinHeight
<1> QED
  BY <1>4, <1>6 DEF StoredInv, IsChain, Linked

\* Every step leaves the storage alone, cuts the chain inside the window or
\* extends it by blocks that fit.
LEMMA StorageSteps ==
    ASSUME TypeOK, Next
    PROVE  UNCHANGED stored \/ Cuts \/ Extends
<1>1. ASSUME Begin PROVE UNCHANGED stored
  BY <1>1 DEF Begin, SyncBatch, MinedBlock, MinedBlockInSync, Block, MicroBlock,
              MineMicro, Start
<1>2. ASSUME SwitchState \/ Exists \/ Snapshot \/ SnapshotTimeout \/ MicroTop \/ Lock
      PROVE  UNCHANGED stored
  BY <1>2 DEF SwitchState, Exists, Snapshot, SnapshotTimeout, MicroTop, Lock
<1>3. ASSUME CheckRefuses \/ CheckAccepts \/ Applied \/ Refused
      PROVE  UNCHANGED stored
  BY <1>3 DEF CheckRefuses, CheckAccepts, Applied, Refused
<1>4. ASSUME ApiLock \/ StorageFails \/ Crash \/ LockPanics
      PROVE  UNCHANGED stored
  BY <1>4 DEF ApiLock, StorageFails, Crash, LockPanics, Restart
<1>5. ASSUME CachedRollback PROVE UNCHANGED stored \/ Cuts
  BY <1>5 DEF CachedRollback, Cuts
<1>6. ASSUME RollbackToHeight PROVE UNCHANGED stored \/ Cuts
  BY <1>6 DEF RollbackToHeight, Cuts
<1>7. ASSUME ApiRollback PROVE Cuts
  BY <1>7 DEF ApiRollback, Cuts
<1>8. ASSUME CachedApply PROVE UNCHANGED stored \/ Extends
  <2> DEFINE c == Parent[batch[1]]
  <2>1. CASE CanAdd(<<c>>)
    <3>1. c \in Valid
      BY <2>1 DEF CanAdd, Range
    <3>2. <<c>> \in Seq(Blocks)
      BY <3>1, ChainsAssumption
    <3> QED
      BY <1>8, <2>1, <3>2 DEF CachedApply, Extends
  <2>2. CASE ~CanAdd(<<c>>)
    BY <1>8, <2>2 DEF CachedApply
  <2> QED
    BY <2>1, <2>2
<1>9. ASSUME AddDeserializedBlocks PROVE UNCHANGED stored \/ Extends
  BY <1>9 DEF AddDeserializedBlocks, Extends, TypeOK
<1>10. ASSUME Restore PROVE UNCHANGED stored \/ Extends
  BY <1>10 DEF Restore, Extends, TypeOK
<1> QED
  BY <1>1, <1>2, <1>3, <1>4, <1>5, <1>6, <1>7, <1>8, <1>9, <1>10 DEF Next

LEMMA StoredStep ==
    ASSUME TypeOK, StoredInv, [Next]_vars
    PROVE  StoredInv'
<1>1. ASSUME UNCHANGED stored PROVE StoredInv'
  BY <1>1 DEF StoredInv, stored, IsChain, Linked
<1>2. CASE Next
  BY <1>1, <1>2, StorageSteps, CutKeepsStored, ExtensionKeepsStored
<1>3. CASE UNCHANGED vars
  BY <1>1, <1>3 DEF vars
<1> QED
  BY <1>2, <1>3
-----------------------------------------------------------------------------
(* Types.                                                                  *)

\* A handler in progress has a block to apply.
Busy == pc # "idle" => batch # << >>

\* A height the chain gives a block of its own.
LEMMA HeightIsOnChain ==
    ASSUME chain \in Seq(Blocks), NEW b, InChain(b)
    PROVE  HeightOf(b) \in 1 .. Len(chain)
BY DEF InChain, HeightOf, Range

\* The first block of a request.
LEMMA FirstBlock ==
    ASSUME batch \in Seq(Blocks), batch # << >>
    PROVE  batch[1] \in Blocks
OBVIOUS

\* A handler returns to a clean slate.
LEMMA ReturnTypes ==
    ASSUME Return
    PROVE  /\ pc' \in Steps /\ kind' \in Kinds
           /\ batch' \in Seq(Blocks) /\ saved' \in Seq(Blocks) /\ target' \in Nat
           /\ before' \in Seq(Blocks) /\ calm' \in BOOLEAN
           /\ Busy'
BY DEF Return, Goto, Steps, Writing, Kinds, Exclusive, Busy

\* What the types of the variables that are not stored amount to.
RequestOK ==
    /\ kind \in Kinds /\ batch \in Seq(Blocks)
    /\ saved \in Seq(Blocks) /\ target \in Nat
    /\ before \in Seq(Blocks) /\ calm \in BOOLEAN
PastOK ==
    /\ apiCalls \in 0 .. MaxApiCalls /\ crashes \in 0 .. MaxCrashes
    /\ panicked \in BOOLEAN
CacheOK == ng \in BOOLEAN /\ cache \subseteq Blocks /\ cacheSnapshots \subseteq Blocks
FlagOK == held \in {"none", "handler", "api"}
VolatileInv == RequestOK /\ PastOK /\ CacheOK /\ FlagOK /\ pc \in Steps /\ Busy

LEMMA TypeParts == TypeOK <=> /\ chain \in Seq(Blocks) /\ minHeight \in Nat
                              /\ RequestOK /\ PastOK /\ CacheOK /\ FlagOK /\ pc \in Steps
BY DEF TypeOK, RequestOK, PastOK, CacheOK, FlagOK

\* Steps inside a handler that keep its request, plan and history.
LEMMA InnerStep ==
    ASSUME VolatileInv, NEW step \in Steps, Goto(step), pc # "idle",
           UNCHANGED <<ng, cached, held, request, plan, past, before>>,
           calm' \in BOOLEAN
    PROVE  VolatileInv'
BY DEF VolatileInv, RequestOK, PastOK, CacheOK, FlagOK, Busy, Goto,
       cached, request, plan, past

LEMMA StepNames ==
    /\ {"idle", "exists", "snapshot", "top", "lock", "check", "applied", "refused",
        "cachedRollback", "cachedApply", "rollback", "add", "restore"} = Steps
    /\ {"sync", "mined", "micro", "minedMicro", "block", "minedInSync"} = Kinds
BY DEF Steps, Writing, Kinds, Exclusive, Micro

LEMMA BeginTypes ==
    ASSUME VolatileInv, StoredInv, Begin
    PROVE  VolatileInv'
<1>1. ASSUME NEW k \in Kinds, NEW bs \in Seq(Blocks), bs # << >>, NEW s \in Steps,
             Start(k, bs, s)
      PROVE  VolatileInv'
  BY <1>1 DEF Start, VolatileInv, RequestOK, PastOK, CacheOK, FlagOK, Busy, Goto,
              cached, past, StoredInv
<1>2. ASSUME NEW b \in Blocks PROVE <<b>> \in Seq(Blocks) /\ <<b>> # << >>
  BY <1>2
<1>3. ASSUME NEW n \in 1 .. MaxBatch, NEW bs \in [1 .. n -> Blocks], SyncBatch(bs)
      PROVE  VolatileInv'
  <2>1. bs \in Seq(Blocks) /\ Len(bs) = n /\ bs # << >>
    BY <1>3, BlocksApplierAssumption
  <2> QED
    BY <1>1, <1>3, <2>1, StepNames DEF SyncBatch
<1>4. ASSUME NEW b \in KeyBlocks, MinedBlock(b) \/ MinedBlockInSync(b) \/ Block(b)
      PROVE  VolatileInv'
  <2>1. b \in Blocks
    BY DEF KeyBlocks
  <2> QED
    BY <1>1, <1>2, <1>4, <2>1, StepNames DEF MinedBlock, MinedBlockInSync, Block
<1>5. ASSUME NEW b \in MicroVersions, MicroBlock(b) \/ MineMicro(b)
      PROVE  VolatileInv'
  <2>1. b \in Blocks
    BY DEF MicroVersions
  <2>2. "micro" \in Kinds /\ "minedMicro" \in Kinds
        /\ (IF LightMode THEN "snapshot" ELSE "top") \in Steps /\ "top" \in Steps
    BY StepNames
  <2> QED
    BY <1>1, <1>2, <1>5, <2>1, <2>2 DEF MicroBlock, MineMicro
<1> QED
  BY <1>3, <1>4, <1>5 DEF Begin

LEMMA InnerTypes ==
    ASSUME VolatileInv, StoredInv,
           \/ Exists \/ CachedRollback \/ CachedApply \/ Snapshot \/ MicroTop
           \/ CheckRefuses \/ RollbackToHeight \/ AddDeserializedBlocks \/ Restore
           \/ StorageFails
    PROVE  VolatileInv'
<1> DEFINE Keeps == /\ UNCHANGED <<ng, cached, held, request, plan, past, before>>
                    /\ pc # "idle" /\ calm' \in BOOLEAN
<1>0. calm \in BOOLEAN
  BY DEF VolatileInv, RequestOK
<1>1. ASSUME Exists PROVE Keeps /\ \E s \in Steps : Goto(s)
  <2>1. Keeps
    BY <1>0, <1>1 DEF Exists
  <2>2. pc' \in Steps
    BY <1>1, StepNames DEF Exists, Goto
  <2> QED
    BY <2>1, <2>2 DEF Goto
<1>2. ASSUME CachedRollback PROVE Keeps /\ \E s \in Steps : Goto(s)
  BY <1>0, <1>2, StepNames DEF CachedRollback
<1>3. ASSUME CachedApply PROVE Keeps /\ \E s \in Steps : Goto(s)
  <2>1. Keeps
    BY <1>0, <1>3 DEF CachedApply
  <2>2. pc' \in Steps
    BY <1>3, StepNames DEF CachedApply, Goto
  <2> QED
    BY <2>1, <2>2 DEF Goto
<1>4. ASSUME Snapshot \/ MicroTop \/ CheckRefuses PROVE Keeps /\ \E s \in Steps : Goto(s)
  <2>1. Keeps
    BY <1>0, <1>4 DEF Snapshot, MicroTop, CheckRefuses
  <2>2. pc' \in Steps
    BY <1>4, StepNames DEF Snapshot, MicroTop, CheckRefuses, Goto
  <2> QED
    BY <2>1, <2>2 DEF Goto
<1>5. ASSUME RollbackToHeight \/ Restore PROVE Keeps /\ \E s \in Steps : Goto(s)
  BY <1>0, <1>5, StepNames DEF RollbackToHeight, Restore
<1>6. ASSUME AddDeserializedBlocks PROVE Keeps /\ \E s \in Steps : Goto(s)
  <2>1. Keeps
    BY <1>0, <1>6 DEF AddDeserializedBlocks
  <2>2. pc' \in Steps
    BY <1>6, StepNames DEF AddDeserializedBlocks, AfterFailedAdd, Goto
  <2> QED
    BY <2>1, <2>2 DEF Goto
<1>7. ASSUME StorageFails PROVE Keeps /\ \E s \in Steps : Goto(s)
  <2>1. Keeps
    BY <1>7 DEF StorageFails, Writing
  <2>2. pc' \in Steps
    BY <1>7, StepNames DEF StorageFails, AfterFailedAdd, Goto
  <2> QED
    BY <2>1, <2>2 DEF Goto
<1>8. Keeps /\ \E s \in Steps : Goto(s)
  BY <1>1, <1>2, <1>3, <1>4, <1>5, <1>6, <1>7
<1> QED
  BY <1>8, InnerStep

LEMMA OuterTypes ==
    ASSUME VolatileInv, StoredInv, Next, ~Begin
    PROVE  VolatileInv'
<1> USE DEF VolatileInv, PastOK, CacheOK, FlagOK
<1>1. ASSUME SwitchState PROVE VolatileInv'
  BY <1>1 DEF SwitchState, request, plan, past, RequestOK, Busy
<1>2. ASSUME Lock PROVE VolatileInv'
  BY <1>2, StepNames DEF Lock, request, plan, past, cached, RequestOK, Busy, Goto
<1>3. ASSUME CheckAccepts PROVE VolatileInv'
  <2>1. InChain(Parent[batch[1]])
    BY <1>3 DEF CheckAccepts, Accepts, ReplacesTop, HigherScore
  <2>2. target' \in 1 .. Len(chain)
    BY <1>3, <2>1, HeightIsOnChain DEF CheckAccepts, StoredInv
  <2>3. saved' \in Seq(Blocks) /\ target' \in Nat
    BY <1>3, <2>2 DEF CheckAccepts, RollbackBlocks, StoredInv
  <2>4. pc' \in Steps /\ pc # "idle"
    BY <1>3, StepNames DEF CheckAccepts, Goto
  <2> QED
    BY <1>3, <2>3, <2>4 DEF CheckAccepts, cached, request, past, RequestOK, Busy
<1>4. ASSUME Applied PROVE VolatileInv'
  <2>1. batch[1] \in Blocks
    BY <1>4, FirstBlock DEF Applied, RequestOK, Busy
  <2>2. cache' \subseteq Blocks
    BY <1>4, <2>1 DEF Applied, CacheAfter
  <2>3. cacheSnapshots' \subseteq Blocks
    BY <1>4, <2>1 DEF Applied, SnapshotsAfter
  <2>4. held' \in {"none", "handler", "api"}
    BY <1>4 DEF Applied, Release
  <2> QED
    BY <1>4, <2>2, <2>3, <2>4, ReturnTypes DEF Applied, past, RequestOK
<1>5. ASSUME Refused PROVE VolatileInv'
  <2>1. held' \in {"none", "handler", "api"}
    BY <1>5 DEF Refused, Release
  <2> QED
    BY <1>5, <2>1, ReturnTypes DEF Refused, cached, past, RequestOK
<1>6. ASSUME SnapshotTimeout PROVE VolatileInv'
  BY <1>6, ReturnTypes DEF SnapshotTimeout, cached, past, RequestOK
<1>7. ASSUME ApiLock PROVE VolatileInv'
  <2>1. apiCalls' \in 0 .. MaxApiCalls
    BY <1>7, BlocksApplierAssumption DEF ApiLock
  <2> QED
    BY <1>7, <2>1 DEF ApiLock, cached, request, plan, RequestOK, Busy
<1>8. ASSUME ApiRollback PROVE VolatileInv'
  <2>1. chain' \in Seq(Blocks)
    BY <1>8, CutKeepsStored DEF ApiRollback, Cuts, StoredInv
  <2>2. before' \in Seq(Blocks) /\ calm' \in BOOLEAN
    BY <1>8, <2>1 DEF ApiRollback, RequestOK
  <2> QED
    BY <1>8, <2>2 DEF ApiRollback, cached, request, plan, past, RequestOK, Busy
<1>9. ASSUME Crash PROVE VolatileInv'
  <2>1. crashes' \in 0 .. MaxCrashes
    BY <1>9, BlocksApplierAssumption DEF Crash
  <2> QED
    BY <1>9, <2>1, ReturnTypes DEF Crash, Restart, RequestOK
<1>10. ASSUME LockPanics PROVE VolatileInv'
  BY <1>10, ReturnTypes DEF LockPanics, Restart, RequestOK
<1> QED
  BY <1>1, <1>2, <1>3, <1>4, <1>5, <1>6, <1>7, <1>8, <1>9, <1>10, InnerTypes DEF Next

-----------------------------------------------------------------------------
(* Theorems.                                                               *)

LedgerInv == StoredInv /\ VolatileInv

LEMMA LedgerInvariant == Spec => []LedgerInv
<1>1. Init => LedgerInv
  <2> SUFFICES ASSUME Init PROVE LedgerInv
    OBVIOUS
  <2>1. chain \in Seq(Blocks) /\ Len(chain) = 1 /\ chain[1] = Genesis
    BY ChainsAssumption DEF Init
  <2>2. IsChain(chain)
    <3>1. \A i \in 1 .. Len(chain) : i = 1 /\ chain[i] = Genesis
      BY <2>1
    <3> QED
      BY <2>1, <3>1, ChainByHeight, ChainsAssumption
  <2>3. StoredInv
    BY <2>1, <2>2 DEF Init, StoredInv
  <2>4. VolatileInv
    <3>1. PastOK
      <4>1. MaxApiCalls \in Nat /\ MaxCrashes \in Nat
        BY BlocksApplierAssumption
      <4>2. apiCalls = 0 /\ crashes = 0 /\ panicked \in BOOLEAN
        BY DEF Init
      <4> QED
        BY <4>1, <4>2 DEF PastOK
    <3>2. RequestOK /\ pc \in Steps /\ Busy
      BY StepNames DEF Init, RequestOK, Busy
    <3>3. CacheOK /\ FlagOK
      BY DEF Init, CacheOK, FlagOK
    <3> QED
      BY <3>1, <3>2, <3>3 DEF VolatileInv
  <2> QED
    BY <2>3, <2>4 DEF LedgerInv
<1>2. LedgerInv /\ [Next]_vars => LedgerInv'
  <2> SUFFICES ASSUME LedgerInv, [Next]_vars PROVE LedgerInv'
    OBVIOUS
  <2>1. StoredInv /\ VolatileInv
    BY DEF LedgerInv
  <2>2. TypeOK
    BY <2>1, TypeParts DEF StoredInv, VolatileInv
  <2>3. StoredInv'
    BY <2>1, <2>2, StoredStep
  <2>4. VolatileInv'
    <3>1. CASE Begin
      BY <2>1, <3>1, BeginTypes
    <3>2. CASE Next /\ ~Begin
      BY <2>1, <3>2, OuterTypes
    <3>3. CASE UNCHANGED vars
      BY <2>1, <3>3 DEF vars, VolatileInv, RequestOK, PastOK, CacheOK, FlagOK, Busy,
                        cached, request, plan, past
    <3> QED
      BY <3>1, <3>2, <3>3
  <2> QED
    BY <2>3, <2>4 DEF LedgerInv
<1> QED
  BY <1>1, <1>2, PTL DEF Spec

\* The variables keep their types; in particular rollbackMinHeight, an unsigned
\* number in the code, never underflows.
THEOREM TypeCorrect == Spec => []TypeOK
<1>1. LedgerInv => TypeOK
  BY TypeParts DEF LedgerInv, StoredInv, VolatileInv
<1> QED
  BY <1>1, LedgerInvariant, PTL

\* For every tree of blocks, whatever is interrupted by crashes, storage failures
\* and API rollbacks: the stored blocks form a chain of valid blocks that refer
\* to one another from genesis on (addBlocks, RollbackToHeight, RollbackTo).
THEOREM LedgerIsValid == Spec => []ChainIsValid
<1>1. LedgerInv => ChainIsValid
  BY DEF LedgerInv, StoredInv, ChainIsValid
<1> QED
  BY <1>1, LedgerInvariant, PTL

\* The height rollbackMinHeight, at which the history formatter cuts, always has
\* a block (calculateNewRollbackMinHeight, checkRollbackHeight).
THEOREM WindowIsOnChain == Spec => []RollbackWindowExists
<1>1. LedgerInv => RollbackWindowExists
  BY DEF LedgerInv, StoredInv, RollbackWindowExists
<1> QED
  BY <1>1, LedgerInvariant, PTL

-----------------------------------------------------------------------------
(* No block is in a chain twice.                                           *)

\* A nonempty set of natural numbers has a least element.
LEMMA LeastNumber ==
    ASSUME NEW T, T \subseteq Nat, T # {}
    PROVE  \E x \in T : \A y \in T : x <= y
<1>1. PICK x \in T : \A y \in T : ~(<<y, x>> \in OpToRel(<, Nat))
  BY WFMin, NatLessThanWellFounded, Zenon
<1>2. \A y \in T : ~(y < x)
  BY <1>1 DEF OpToRel
<1> QED
  BY <1>2

\* The first block that came again would refer to one that came again before it.
LEMMA NoBlockTwice ==
    ASSUME NEW c \in Seq(Blocks), IsChain(c),
           NEW i \in 1 .. Len(c), NEW j \in 1 .. Len(c), c[i] = c[j]
    PROVE  i = j
<1> DEFINE T == {n \in 1 .. Len(c) : \E m \in 1 .. Len(c) : n < m /\ c[n] = c[m]}
<1>1. SUFFICES ASSUME T # {} PROVE FALSE
  BY DEF T
<1>2. T \subseteq Nat
  OBVIOUS
<1>3. PICK n \in T : \A y \in T : n <= y
  BY <1>1, <1>2, LeastNumber
<1>4. PICK m \in 1 .. Len(c) : n < m /\ c[n] = c[m]
  BY <1>3
<1>5. n \in 1 .. Len(c) /\ m # 1 /\ m - 1 \in 1 .. Len(c) /\ n \in Nat /\ m \in Nat
  BY <1>3, <1>4
<1>6. Parent[c[m]] = c[m - 1] /\ c[m - 1] \in Blocks
  BY <1>5, ChainByHeight
<1>7. CASE n = 1
  <2>1. Parent[c[m]] = NoBlock
    BY <1>4, <1>5, <1>7, ChainByHeight
  <2> QED
    BY <1>6, <2>1, ChainsAssumption
<1>8. CASE n # 1
  <2>1. Parent[c[n]] = c[n - 1] /\ n - 1 \in 1 .. Len(c)
    BY <1>5, <1>8, ChainByHeight
  <2>2. n - 1 < m - 1 /\ c[n - 1] = c[m - 1]
    BY <1>4, <1>5, <1>6, <2>1
  <2>3. n - 1 \in T
    BY <1>5, <2>1, <2>2
  <2> QED
    BY <1>3, <1>5, <2>3
<1> QED
  BY <1>7, <1>8

\* Blocks of a chain, by height.
LEMMA ChainFacts ==
    ASSUME NEW c \in Seq(Blocks), IsChain(c)
    PROVE  /\ Len(c) \in Nat /\ Len(c) >= 1
           /\ \A i \in 1 .. Len(c) : c[i] \in Valid /\ c[i] \in Blocks
           /\ Parent[c[1]] = NoBlock
           /\ \A i \in 2 .. Len(c) : Parent[c[i]] = c[i - 1]
           /\ \A b : b \in Range(c) <=> \E i \in 1 .. Len(c) : c[i] = b
           /\ Last(c) = c[Len(c)]
<1>1. Len(c) \in Nat /\ Len(c) >= 1 /\ \A i \in 1 .. Len(c) : c[i] \in Blocks
  BY ChainByHeight
<1>2. \A i \in 1 .. Len(c) : c[i] \in Valid
  BY ChainByHeight
<1>3. Parent[c[1]] = NoBlock
  BY <1>1, ChainByHeight
<1>4. \A i \in 2 .. Len(c) : Parent[c[i]] = c[i - 1]
  <2> TAKE i \in 2 .. Len(c)
  <2>1. i \in 1 .. Len(c) /\ i # 1
    BY <1>1
  <2> QED
    BY <2>1, ChainByHeight
<1>5. \A b : b \in Range(c) <=> \E i \in 1 .. Len(c) : c[i] = b
  BY DEF Range
<1> QED
  BY <1>1, <1>2, <1>3, <1>4, <1>5 DEF Last

\* Two blocks of a chain with the same parent are one.
LEMMA OneChild ==
    ASSUME NEW c \in Seq(Blocks), IsChain(c),
           NEW i \in 1 .. Len(c), NEW j \in 1 .. Len(c), Parent[c[i]] = Parent[c[j]]
    PROVE  i = j
<1> USE ChainFacts
<1>1. CASE i = 1 /\ j = 1
  BY <1>1
<1>2. CASE i = 1 /\ j # 1
  <2>1. j \in 2 .. Len(c) /\ j - 1 \in 1 .. Len(c)
    BY <1>2
  <2>2. Parent[c[j]] \in Blocks /\ Parent[c[i]] = NoBlock
    BY <1>2, <2>1
  <2> QED
    BY <2>2, ChainsAssumption
<1>3. CASE i # 1 /\ j = 1
  <2>1. i \in 2 .. Len(c) /\ i - 1 \in 1 .. Len(c)
    BY <1>3
  <2>2. Parent[c[i]] \in Blocks /\ Parent[c[j]] = NoBlock
    BY <1>3, <2>1
  <2> QED
    BY <2>2, ChainsAssumption
<1>4. CASE i # 1 /\ j # 1
  <2>1. /\ i \in 2 .. Len(c) /\ i - 1 \in 1 .. Len(c)
        /\ j \in 2 .. Len(c) /\ j - 1 \in 1 .. Len(c)
    BY <1>4
  <2>2. c[i - 1] = c[j - 1]
    BY <2>1
  <2>3. i - 1 = j - 1
    BY <2>1, <2>2, NoBlockTwice
  <2> QED
    BY <2>1, <2>3
<1> QED
  BY <1>1, <1>2, <1>3, <1>4

-----------------------------------------------------------------------------
(* Versions of a block.                                                    *)

\* The versions that come after b, by one microblock or more: what is in every set that
\* holds the next versions of b and of its members.
Closed(b, S) == \A z \in Blocks : Base[z] = b \/ Base[z] \in S => z \in S
Newer(b) == {y \in Blocks : \A S \in SUBSET Blocks : Closed(b, S) => y \in S}

LEMMA NextIsNewer ==
    ASSUME NEW b, NEW x \in Blocks, Base[x] = b \/ Base[x] \in Newer(b)
    PROVE  x \in Newer(b)
BY DEF Newer, Closed

LEMMA NotNewerThanItself ==
    ASSUME NEW b
    PROVE  b \notin Newer(b)
<1> SUFFICES ASSUME b \in Newer(b) PROVE FALSE
  OBVIOUS
<1>1. PICK z \in Newer(b) : Base[z] \notin Newer(b)
  <2>1. Newer(b) \in SUBSET Blocks
    BY DEF Newer
  <2> QED
    BY <2>1, VersionsAssumption
<1>2. Base[z] # b
  BY <1>1
<1> DEFINE S == Newer(b) \ {z}
<1>3. Closed(b, S)
  <2> SUFFICES ASSUME NEW w \in Blocks, Base[w] = b \/ Base[w] \in S PROVE w \in S
    BY DEF Closed
  <2>1. w \in Newer(b)
    BY NextIsNewer
  <2>2. w # z
    BY <1>1, <1>2
  <2> QED
    BY <2>1, <2>2
<1>4. S \in SUBSET Blocks
  BY DEF Newer
<1>5. z \in S
  BY <1>1, <1>3, <1>4 DEF Newer
<1> QED
  BY <1>5

-----------------------------------------------------------------------------
(* How the cache fits the ledger.                                          *)

On(b, C) == \E i \in 1 .. Len(C) : C[i] = b

\* The parents of cached blocks that are on the chain are one block, the top or the one
\* below it; the parent of any other cached block is an outdated version of a block of
\* which the chain and the cache hold newer versions only, so it cannot come back.
Shallow(C, S) == \A c \in S : \A i \in 1 .. Len(C) : C[i] = Parent[c] => i >= Len(C) - 1
OneParent(C, S) ==
    \A c, d \in S : On(Parent[c], C) /\ On(Parent[d], C) => Parent[d] = Parent[c]
Outdated(C, S) ==
    \A c \in S : ~On(Parent[c], C) =>
        \A y \in Blocks : /\ y \in S \/ On(y, C)
                          /\ Parent[y] = Parent[Parent[c]]
                          => y \in Newer(Parent[c])
\* Cached blocks with one parent, and the block of the chain that they compete with, are
\* versions of one key block: they add the same score.
SameWeight(C, S) ==
    /\ \A c \in S : \A i \in 1 .. Len(C) - 1 :
          C[i] = Parent[c] => Weight[C[i + 1]] = Weight[c]
    /\ \A c, d \in S : Parent[c] = Parent[d] => Weight[c] = Weight[d]
CacheFits(C, S) ==
    Shallow(C, S) /\ OneParent(C, S) /\ Outdated(C, S) /\ SameWeight(C, S)

\* The blocks that can be in the cache.
Cachable == Valid \ {Genesis}

LEMMA CachableFacts ==
    ASSUME NEW b \in Cachable
    PROVE  b \in Blocks /\ b \in Valid /\ Parent[b] \in Blocks
BY ChainsAssumption DEF Cachable

LEMMA FitsNothing == \A C : CacheFits(C, {})
BY DEF CacheFits, Shallow, OneParent, Outdated, SameWeight

\* A rollback keeps the cache fitting.
LEMMA FitsAfterCut ==
    ASSUME NEW C \in Seq(Blocks), IsChain(C), NEW S \in SUBSET Cachable,
           CacheFits(C, S), NEW h \in 1 .. Len(C)
    PROVE  CacheFits(UpTo(C, h), S)
<1> DEFINE D == UpTo(C, h)
<1>1. /\ Len(D) = h /\ \A i \in 1 .. h : D[i] = C[i]
      /\ Len(C) \in Nat /\ h \in Nat /\ 1 <= h /\ h <= Len(C)
  BY DEF UpTo
<1> HIDE DEF D
<1>2. \A i \in 1 .. h : i \in 1 .. Len(C)
  BY <1>1
<1>3. \A b : On(b, D) => On(b, C)
  BY <1>1, <1>2 DEF On
<1>4. Shallow(D, S)
  BY <1>1, <1>2 DEF CacheFits, Shallow
<1>5. OneParent(D, S)
  BY <1>3 DEF CacheFits, OneParent
<1>6. Outdated(D, S)
  <2> SUFFICES ASSUME NEW c \in S, ~On(Parent[c], D), NEW y \in Blocks,
                      y \in S \/ On(y, D), Parent[y] = Parent[Parent[c]]
               PROVE  y \in Newer(Parent[c])
    BY DEF Outdated
  <2>1. CASE ~On(Parent[c], C)
    BY <1>3, <2>1 DEF CacheFits, Outdated
  <2>2. CASE On(Parent[c], C)
    <3>1. PICK i \in 1 .. Len(C) : C[i] = Parent[c]
      BY <2>2 DEF On
    <3>2. i > h
      BY <1>1, <3>1 DEF On
    <3>3. i \in 2 .. Len(C) /\ i - 1 \in 1 .. Len(C)
      BY <1>1, <3>2
    <3>4. Parent[Parent[c]] = C[i - 1]
      BY <3>1, <3>3, ChainFacts
    <3>5. CASE y \in S
      <4>1. On(Parent[y], C)
        BY <3>3, <3>4 DEF On
      <4>2. Parent[y] = Parent[c]
        BY <2>2, <3>5, <4>1 DEF CacheFits, OneParent
      <4>3. C[i - 1] = C[i]
        BY <3>1, <3>4, <4>2
      <4> QED
        BY <3>3, <4>3, NoBlockTwice
    <3>6. CASE On(y, D)
      <4>1. PICK j \in 1 .. h : C[j] = y
        BY <1>1, <3>6 DEF On
      <4>2. j \in 1 .. Len(C) /\ Parent[C[j]] = Parent[C[i]]
        BY <1>2, <3>1, <4>1
      <4>3. j = i
        BY <4>2, OneChild
      <4> QED
        BY <1>1, <3>2, <4>1, <4>3
    <3> QED
      BY <3>5, <3>6
  <2> QED
    BY <2>1, <2>2
<1>7. SameWeight(D, S)
  <2>1. \A i \in 1 .. Len(D) - 1 : /\ i \in 1 .. Len(C) - 1
                                   /\ D[i] = C[i] /\ D[i + 1] = C[i + 1]
    BY <1>1
  <2> QED
    BY <2>1 DEF CacheFits, SameWeight
<1> QED
  BY <1>4, <1>5, <1>6, <1>7 DEF CacheFits, D

\* A block on top of a chain.
LEMMA Appended ==
    ASSUME NEW C \in Seq(Blocks), IsChain(C), NEW b \in Valid, Parent[b] = Last(C)
    PROVE  /\ C \o <<b>> \in Seq(Blocks) /\ IsChain(C \o <<b>>)
           /\ Len(C \o <<b>>) = Len(C) + 1
           /\ (C \o <<b>>)[Len(C) + 1] = b
           /\ \A i \in 1 .. Len(C) : (C \o <<b>>)[i] = C[i]
           /\ \A x : On(x, C \o <<b>>) <=> On(x, C) \/ x = b
           /\ Linked(Last(C), <<b>>) /\ Range(<<b>>) \subseteq Valid
<1> DEFINE D == C \o <<b>>
<1>1. b \in Blocks /\ <<b>> \in Seq(Blocks)
  BY ChainsAssumption
<1>2. Linked(Last(C), <<b>>)
  BY DEF Linked
<1>3. Range(<<b>>) \subseteq Valid
  BY DEF Range
<1>4. D \in Seq(Blocks) /\ Len(D) = Len(C) + 1 /\ IsChain(D)
  BY <1>1, <1>2, <1>3, ExtensionIsChain
<1>5. D[Len(C) + 1] = b /\ \A i \in 1 .. Len(C) : D[i] = C[i]
  BY <1>1
<1>6. Len(C) \in Nat
  OBVIOUS
<1> HIDE DEF D
<1>7. \A x : On(x, D) <=> On(x, C) \/ x = b
  <2>1. ASSUME NEW x, On(x, D) PROVE On(x, C) \/ x = b
    <3>1. PICK i \in 1 .. Len(D) : D[i] = x
      BY <2>1 DEF On
    <3>2. i = Len(C) + 1 \/ i \in 1 .. Len(C)
      BY <1>4, <1>6, <3>1
    <3> QED
      BY <1>5, <3>1, <3>2 DEF On
  <2>2. ASSUME NEW x, On(x, C) PROVE On(x, D)
    <3>1. PICK i \in 1 .. Len(C) : C[i] = x
      BY <2>2 DEF On
    <3>2. i \in 1 .. Len(D)
      BY <1>4, <1>6
    <3> QED
      BY <1>5, <3>1, <3>2 DEF On
  <2>3. On(b, D)
    <3>1. Len(C) + 1 \in 1 .. Len(D)
      BY <1>4, <1>6
    <3> QED
      BY <1>5, <3>1 DEF On
  <2> QED
    BY <2>1, <2>2, <2>3
<1> QED
  BY <1>2, <1>3, <1>4, <1>5, <1>7 DEF D

\* On top of a chain only its last block and the new one are near the top.
LEMMA ParentIsBelow ==
    ASSUME NEW C \in Seq(Blocks), IsChain(C), NEW b \in Valid, Parent[b] = Last(C)
    PROVE  /\ On(Last(C), C) /\ ~On(b, C) /\ Last(C) # b
           /\ \A i \in 1 .. Len(C) + 1 :
                 (C \o <<b>>)[i] = Last(C) => i >= Len(C \o <<b>>) - 1
<1> DEFINE D == C \o <<b>>
<1>1. /\ D \in Seq(Blocks) /\ IsChain(D) /\ Len(D) = Len(C) + 1 /\ D[Len(C) + 1] = b
      /\ \A i \in 1 .. Len(C) : D[i] = C[i]
  BY Appended
<1>2. Len(C) \in Nat /\ Len(C) \in 1 .. Len(C) /\ Last(C) = C[Len(C)]
  BY ChainFacts
<1> HIDE DEF D
<1>3. On(Last(C), C)
  BY <1>2 DEF On
<1>4. \A i \in 1 .. Len(C) : C[i] # b
  <2> SUFFICES ASSUME NEW i \in 1 .. Len(C), C[i] = b PROVE FALSE
    OBVIOUS
  <2>1. i \in 1 .. Len(D) /\ Len(C) + 1 \in 1 .. Len(D) /\ D[i] = D[Len(C) + 1]
    BY <1>1, <1>2
  <2>2. i = Len(C) + 1
    BY <1>1, <2>1, NoBlockTwice
  <2> QED
    BY <1>2, <2>2
<1>5. \A i \in 1 .. Len(C) + 1 : D[i] = Last(C) => i >= Len(D) - 1
  <2> SUFFICES ASSUME NEW i \in 1 .. Len(C) + 1, D[i] = Last(C) PROVE i >= Len(D) - 1
    OBVIOUS
  <2>1. i \in 1 .. Len(D) /\ Len(C) \in 1 .. Len(D) /\ D[i] = D[Len(C)]
    BY <1>1, <1>2
  <2>2. i = Len(C)
    BY <1>1, <2>1, NoBlockTwice
  <2> QED
    BY <1>1, <1>2, <2>2
<1> QED
  BY <1>2, <1>3, <1>4, <1>5 DEF On, D

\* The cache that holds a new top alone fits.
LEMMA FitsNewTop ==
    ASSUME NEW C \in Seq(Blocks), IsChain(C), NEW b \in Valid, Parent[b] = Last(C)
    PROVE  CacheFits(C \o <<b>>, {b})
<1> DEFINE D == C \o <<b>>
<1>1. Len(D) = Len(C) + 1 /\ On(Last(C), D)
  BY Appended, ParentIsBelow
<1>2. \A i \in 1 .. Len(C) + 1 : D[i] = Last(C) => i >= Len(D) - 1
  BY ParentIsBelow
<1> HIDE DEF D
<1>3. Shallow(D, {b}) /\ OneParent(D, {b}) /\ Outdated(D, {b})
  BY <1>1, <1>2 DEF Shallow, OneParent, Outdated
<1>4. SameWeight(D, {b})
  <2>1. D[Len(C) + 1] = b /\ Len(C) \in Nat
    BY Appended DEF D
  <2>2. ASSUME NEW i \in 1 .. Len(D) - 1, D[i] = Last(C) PROVE D[i + 1] = b
    <3>1. i = Len(C)
      BY <1>1, <1>2, <2>1, <2>2
    <3> QED
      BY <2>1, <3>1
  <2> QED
    BY <2>2 DEF SameWeight
<1> QED
  BY <1>3, <1>4 DEF CacheFits, D

\* NG's Block puts a cached block back on top of its parent.
LEMMA FitsCached ==
    ASSUME NEW C \in Seq(Blocks), IsChain(C), NEW S \in SUBSET Cachable,
           CacheFits(C, S), NEW c \in S, Parent[c] = Last(C)
    PROVE  CacheFits(C \o <<c>>, S)
<1> DEFINE D == C \o <<c>>
<1>0. c \in Valid /\ c \in Blocks
  BY CachableFacts
<1>1. Len(D) = Len(C) + 1 /\ \A x : On(x, D) <=> On(x, C) \/ x = c
  BY <1>0, Appended
<1>2. /\ On(Last(C), C)
      /\ \A i \in 1 .. Len(C) + 1 : D[i] = Last(C) => i >= Len(D) - 1
  BY <1>0, ParentIsBelow
<1>3. ~On(c, C)
  BY <1>0, ParentIsBelow
<1> HIDE DEF D
<1>4. ASSUME NEW d \in S, On(Parent[d], D)
      PROVE  Parent[d] = Last(C)
  <2>1. CASE On(Parent[d], C)
    BY <1>2, <2>1 DEF CacheFits, OneParent
  <2>2. CASE ~On(Parent[d], C)
    <3>1. Parent[d] = c
      BY <1>1, <1>4, <2>2
    <3>2. c \in Newer(c)
      BY <1>0, <2>2, <3>1 DEF CacheFits, Outdated
    <3> QED
      BY <3>2, NotNewerThanItself
  <2> QED
    BY <2>1, <2>2
<1>5. Shallow(D, S)
  <2> SUFFICES ASSUME NEW d \in S, NEW i \in 1 .. Len(D), D[i] = Parent[d]
               PROVE  i >= Len(D) - 1
    BY DEF Shallow
  <2>1. Parent[d] = Last(C)
    BY <1>4 DEF On
  <2> QED
    BY <1>1, <1>2, <2>1
<1>6. OneParent(D, S)
  BY <1>4 DEF OneParent
<1>7. Outdated(D, S)
  BY <1>1 DEF CacheFits, Outdated
<1>8. SameWeight(D, S)
  <2>1. D[Len(C) + 1] = c /\ Len(C) \in Nat
    BY <1>0, Appended DEF D
  <2>2. ASSUME NEW d \in S, NEW i \in 1 .. Len(D) - 1, D[i] = Parent[d]
        PROVE  Weight[D[i + 1]] = Weight[d]
    <3>1. i \in 1 .. Len(D) /\ i \in 1 .. Len(C) + 1
      BY <1>1, <2>1
    <3>2. Parent[d] = Last(C)
      BY <1>4, <2>2, <3>1 DEF On
    <3>3. i = Len(C)
      BY <1>1, <1>2, <2>1, <2>2, <3>1, <3>2
    <3> QED
      BY <2>1, <3>2, <3>3 DEF CacheFits, SameWeight
  <2> QED
    BY <2>2 DEF CacheFits, SameWeight
<1> QED
  BY <1>5, <1>6, <1>7, <1>8 DEF CacheFits, D

\* A microblock replaces the top by its next version, which joins the cache.
LEMMA FitsNextVersion ==
    ASSUME NEW C \in Seq(Blocks), IsChain(C), NEW S \in SUBSET Cachable,
           NEW b \in Valid, NEW x \in Valid, Base[x] = b,
           Parent[b] = Last(C), Parent[x] = Last(C), CacheFits(C \o <<b>>, S)
    PROVE  CacheFits(C \o <<x>>, S \cup {x})
<1> DEFINE A == C \o <<b>>
           D == C \o <<x>>
           R == S \cup {x}
<1>0. b \in Blocks /\ x \in Blocks
  BY ChainsAssumption
<1>1. /\ Len(D) = Len(C) + 1
      /\ \A y : On(y, D) <=> On(y, C) \/ y = x
      /\ \A y : On(y, A) <=> On(y, C) \/ y = b
  BY Appended
<1>2. /\ On(Last(C), C) /\ ~On(b, C) /\ ~On(x, C) /\ Last(C) # b
      /\ \A i \in 1 .. Len(C) + 1 : D[i] = Last(C) => i >= Len(D) - 1
  BY ParentIsBelow
<1>3. A \in Seq(Blocks) /\ IsChain(A) /\ CacheFits(A, S)
  BY Appended
<1>3a. \A y : On(y, A) /\ Parent[y] = Last(C) => y = b
  <2>1. /\ Len(C) + 1 \in 1 .. Len(A) /\ A[Len(C) + 1] = b
    BY Appended, ChainFacts
  <2> HIDE DEF A
  <2>2. ASSUME NEW i \in 1 .. Len(A), Parent[A[i]] = Last(C) PROVE A[i] = b
    BY <1>3, <2>1, <2>2, OneChild
  <2> QED
    BY <2>2 DEF On
<1>4. x \in Newer(b) /\ x # b
  BY <1>0, NextIsNewer, NotNewerThanItself
<1>5. \A v : b \in Newer(v) => x \in Newer(v)
  BY <1>0, NextIsNewer
<1> HIDE DEF A, D
<1>6. ASSUME NEW c \in S, On(Parent[c], D)
      PROVE  Parent[c] = Last(C)
  <2>1. CASE On(Parent[c], C)
    <3>1. On(Parent[c], A)
      BY <1>1, <2>1
    <3>2. PICK i \in 1 .. Len(C) : C[i] = Parent[c]
      BY <2>1 DEF On
    <3>3. i \in 1 .. Len(A) /\ A[i] = Parent[c] /\ Len(A) = Len(C) + 1 /\ Len(C) \in Nat
      BY <3>2, Appended, ChainFacts DEF A
    <3>4. i >= Len(A) - 1
      BY <1>3, <3>3 DEF CacheFits, Shallow
    <3>5. i = Len(C)
      BY <3>2, <3>3, <3>4
    <3> QED
      BY <3>2, <3>5, ChainFacts
  <2>2. CASE ~On(Parent[c], C)
    <3>1. Parent[c] = x
      BY <1>1, <1>6, <2>2
    <3>2. ~On(Parent[c], A)
      BY <1>1, <1>4, <2>2, <3>1
    <3>3. On(b, A) /\ Parent[b] = Parent[x]
      BY <1>1
    <3>4. b \in Newer(x)
      BY <1>0, <1>3, <3>1, <3>2, <3>3 DEF CacheFits, Outdated
    <3>5. x \in Newer(x)
      BY <1>5, <3>4
    <3> QED
      BY <3>5, NotNewerThanItself
  <2> QED
    BY <2>1, <2>2
<1>7. \A c \in R : On(Parent[c], D) => Parent[c] = Last(C)
  BY <1>6
<1>8. Shallow(D, R)
  <2> SUFFICES ASSUME NEW c \in R, NEW i \in 1 .. Len(D), D[i] = Parent[c]
               PROVE  i >= Len(D) - 1
    BY DEF Shallow
  <2>1. Parent[c] = Last(C)
    BY <1>7 DEF On
  <2> QED
    BY <1>1, <1>2, <2>1
<1>9. OneParent(D, R)
  BY <1>7 DEF OneParent
<1>10. Outdated(D, R)
  <2> SUFFICES ASSUME NEW c \in R, ~On(Parent[c], D), NEW y \in Blocks,
                      y \in R \/ On(y, D), Parent[y] = Parent[Parent[c]]
               PROVE  y \in Newer(Parent[c])
    BY DEF Outdated
  <2>1. c \in S
    BY <1>1, <1>2
  <2>2. CASE Parent[c] = b
    <3>1. Parent[y] = Last(C) /\ On(Last(C), A) /\ On(b, A)
      BY <1>1, <1>2, <2>2
    <3>2. CASE y \in S
      BY <1>2, <1>3, <2>1, <2>2, <3>1, <3>2 DEF CacheFits, OneParent
    <3>3. CASE y = x
      BY <1>4, <2>2, <3>3
    <3>4. CASE On(y, C)
      BY <1>1, <1>2, <1>3a, <3>1, <3>4
    <3> QED
      BY <1>1, <3>2, <3>3, <3>4
  <2>3. CASE Parent[c] # b
    <3>1. ~On(Parent[c], A)
      BY <1>1, <2>3
    <3>2. CASE y = x
      <4>1. On(b, A) /\ Parent[b] = Parent[Parent[c]]
        BY <1>1, <3>2
      <4>2. b \in Newer(Parent[c])
        BY <1>0, <1>3, <2>1, <3>1, <4>1 DEF CacheFits, Outdated
      <4> QED
        BY <1>5, <3>2, <4>2
    <3>3. CASE y # x
      <4>1. y \in S \/ On(y, A)
        BY <1>1, <3>3
      <4> QED
        BY <1>3, <2>1, <3>1, <4>1 DEF CacheFits, Outdated
    <3> QED
      BY <3>2, <3>3
  <2> QED
    BY <2>2, <2>3
<1>11. SameWeight(D, R)
  <2>0. Len(C) \in Nat /\ Len(A) = Len(C) + 1 /\ D[Len(C) + 1] = x /\ A[Len(C) + 1] = b
        /\ Len(C) \in 1 .. Len(C) /\ A[Len(C)] = Last(C)
    BY Appended, ChainFacts DEF A, D
  <2>1. Weight[x] = Weight[b]
    BY <1>0, ChainsAssumption
  <2>2. ASSUME NEW c \in R, Parent[c] = Last(C) PROVE Weight[c] = Weight[x]
    <3>1. CASE c \in S
      <4>1. Len(C) \in 1 .. Len(A) - 1 /\ A[Len(C)] = Parent[c]
        BY <2>0, <2>2
      <4> QED
        BY <1>3, <2>0, <2>1, <3>1, <4>1 DEF CacheFits, SameWeight
    <3> QED
      BY <3>1
  <2>3. ASSUME NEW c \in R, NEW i \in 1 .. Len(D) - 1, D[i] = Parent[c]
        PROVE  Weight[D[i + 1]] = Weight[c]
    <3>1. i \in 1 .. Len(D) /\ i \in 1 .. Len(C) + 1
      BY <1>1, <2>0
    <3>2. Parent[c] = Last(C)
      BY <1>7, <2>3, <3>1 DEF On
    <3>3. i = Len(C)
      BY <1>1, <1>2, <2>0, <2>3, <3>1, <3>2
    <3> QED
      BY <2>0, <2>2, <3>2, <3>3
  <2>4. ASSUME NEW c \in R, NEW d \in R, Parent[c] = Parent[d]
        PROVE  Weight[c] = Weight[d]
    <3>1. CASE c \in S /\ d \in S
      BY <1>3, <2>4, <3>1 DEF CacheFits, SameWeight
    <3>2. CASE c = x \/ d = x
      BY <2>2, <2>4, <3>2
    <3> QED
      BY <3>1, <3>2
  <2> QED
    BY <2>3, <2>4 DEF SameWeight
<1> QED
  BY <1>8, <1>9, <1>10, <1>11 DEF CacheFits, D

-----------------------------------------------------------------------------
(* The inductive invariant.                                                *)

First == batch[1]

\* Requests, and the cache that they meet.
HandlerInv ==
    /\ cache \in SUBSET Cachable
    /\ ~ng => cache = {}
    /\ pc # "idle" => /\ kind \in {"sync", "minedInSync"} <=> ~ng
                      /\ kind # "sync" => Len(batch) = 1
    /\ pc \in {"exists", "cachedRollback", "cachedApply"} => kind = "block"
    /\ pc \in {"cachedRollback", "cachedApply"} => CachedWithSnapshot(Parent[First])
    /\ pc = "applied" => First \in Cachable

\* A microblock was compared with the top before the flag was taken.  An API rollback
\* since then leaves the top or takes the parent's child away.
OnlyOnTop(b, C) == \A i \in 1 .. Len(C) : C[i] = b => i = Len(C)
MicroInv ==
    kind \in Micro =>
        /\ pc \in {"lock", "check"} =>
              \A i \in 1 .. Len(chain) : chain[i] = Parent[First] =>
                  i = Len(chain) \/ (i = Len(chain) - 1 /\ Top = Base[First])
        /\ pc \in {"rollback", "add", "restore"} => saved = <<Base[First]>>
        /\ pc # "idle" => First \in Blocks /\ Parent[Base[First]] = Parent[First]

\* The plan of a handler: what it will cut, and the blocks that it saved.
PlanInv ==
    /\ pc \in {"rollback", "add", "restore"} => Range(saved) \subseteq Valid
    /\ pc \in {"rollback", "restore"} => saved # << >>
    /\ pc = "rollback" =>
          /\ target >= 1 /\ Len(chain) <= target + MaxRollbackDelta
          /\ target <= Len(chain) => /\ IsChain(UpTo(chain, target) \o saved)
                                     /\ CacheFits(UpTo(chain, target) \o saved, cache)
    /\ pc \in {"add", "restore"} /\ saved # << >> =>
          /\ OnlyOnTop(Parent[saved[1]], chain)
          /\ Linked(Last(chain), saved) => CacheFits(chain \o saved, cache)

CacheInv ==
    /\ pc # "applied" => CacheFits(chain, cache)
    /\ pc = "applied" => CacheFits(chain, CacheAfter(First))

\* NG's Block has put a cached block on top.
Replaced ==
    /\ kind = "block"
    /\ Front(chain) \in {Front(before), before}
    /\ Last(chain) = Parent[First]
    /\ CachedWithSnapshot(Parent[First])

\* The ledger and what it was before.
HistoryInv ==
    pc # "idle" =>
        /\ IsChain(before)
        /\ Len(before) <= Len(chain) + MaxRollbackDelta
        /\ pc \in {"exists", "cachedRollback", "top", "lock", "rollback"} => chain = before
        /\ pc \in {"snapshot", "check"} => chain = before \/ Replaced
        /\ pc = "cachedApply" => chain = before \/ chain = Front(before)
        /\ pc = "cachedApply" /\ calm => Last(chain) = Parent[Parent[First]]
        /\ pc = "rollback" /\ calm =>
              target <= Len(chain) /\ UpTo(chain, target) \o saved = chain
        /\ pc \in {"add", "restore"} /\ calm =>
              \/ saved = << >> /\ (chain = before \/ Replaced)
              \/ saved # << >> /\ chain \o saved = before
        /\ pc = "refused" /\ calm => chain = before \/ Replaced

WorkInv == HandlerInv /\ MicroInv /\ PlanInv /\ CacheInv /\ HistoryInv

\* Between two handlers only the cache matters.
LEMMA Returns ==
    ASSUME pc' = "idle", cache' \in SUBSET Cachable, ng' \/ cache' = {},
           CacheFits(chain', cache')
    PROVE  WorkInv'
BY DEF WorkInv, HandlerInv, MicroInv, PlanInv, CacheInv, HistoryInv

\* The next step of a handler that goes on with what it has.
Moves ==
    \/ pc = "exists" /\ pc' \in {"refused", "snapshot", "check"}
    \/ pc = "exists" /\ pc' = "cachedRollback" /\ CachedWithSnapshot(Parent[First])
    \/ pc = "snapshot" /\ pc' = "check" /\ kind = "block"
    \/ pc = "snapshot" /\ pc' = "top" /\ kind # "block"
    \/ pc = "top" /\ pc' = "refused"
    \/ pc = "top" /\ pc' = "lock" /\ Top = Base[First]
    \/ pc = "lock" /\ pc' = "check"
    \/ pc = "check" /\ pc' = "refused"
    \/ pc \in {"exists", "check"} \cup Writing /\ pc' = "refused" /\ ~calm'
    \/ pc = "add" /\ pc' = "restore" /\ saved # << >> /\ ~calm'

LEMMA QuietSteps ==
    ASSUME LedgerInv, WorkInv,
           Exists \/ Snapshot \/ MicroTop \/ Lock \/ CheckRefuses \/ StorageFails
    PROVE  WorkInv'
<1>1. UNCHANGED <<chain, ng, cache, cacheSnapshots, kind, batch, saved, target, before>>
  BY DEF Exists, Snapshot, MicroTop, Lock, CheckRefuses, StorageFails, stored, cached,
         request, plan
<1>2. First' = First /\ Top' = Top /\ (Replaced' <=> Replaced)
      /\ CacheAfter(First)' = CacheAfter(First)
      /\ (CachedWithSnapshot(Parent[First])' <=> CachedWithSnapshot(Parent[First]))
  BY <1>1 DEF First, Replaced, Top, CacheAfter, CachedWithSnapshot
<1>3. Moves /\ (calm' => calm)
  <2>1. ASSUME Exists PROVE Moves /\ (calm' => calm)
    BY <2>1 DEF Exists, Moves, Goto, First
  <2>2. ASSUME Snapshot PROVE Moves /\ (calm' => calm)
    BY <2>2 DEF Snapshot, Moves, Goto
  <2>3. ASSUME MicroTop PROVE Moves /\ (calm' => calm)
    BY <2>3 DEF MicroTop, Moves, Goto, First
  <2>4. ASSUME Lock PROVE Moves /\ (calm' => calm)
    BY <2>4 DEF Lock, Moves, Goto
  <2>5. ASSUME CheckRefuses PROVE Moves /\ (calm' => calm)
    BY <2>5 DEF CheckRefuses, Moves, Goto
  <2>6. ASSUME StorageFails PROVE Moves /\ (calm' => calm)
    BY <2>6 DEF StorageFails, Moves, Goto, AfterFailedAdd, Writing
  <2> QED
    BY <2>1, <2>2, <2>3, <2>4, <2>5, <2>6
<1>4. HandlerInv'
  BY <1>1, <1>2, <1>3 DEF WorkInv, HandlerInv, Moves, Writing
<1>5. MicroInv'
  <2>1. ASSUME kind \in Micro, Top = Base[First], pc = "top",
               NEW i \in 1 .. Len(chain), chain[i] = Parent[First]
        PROVE  i = Len(chain) - 1
    <3>1. Parent[chain[Len(chain)]] = Parent[First]
      BY <2>1, ChainFacts DEF WorkInv, MicroInv, Top, LedgerInv, StoredInv
    <3>2. Parent[First] \in Blocks
      BY <2>1, ChainFacts DEF LedgerInv, StoredInv
    <3>3. Len(chain) # 1
      BY <3>1, <3>2, ChainFacts, ChainsAssumption DEF LedgerInv, StoredInv
    <3>3a. Len(chain) \in Nat /\ Len(chain) >= 1
      BY ChainFacts DEF LedgerInv, StoredInv
    <3>4. Len(chain) \in 2 .. Len(chain) /\ Len(chain) - 1 \in 1 .. Len(chain)
      <4> DEFINE n == Len(chain)
      <4>1. n \in Nat /\ n >= 1 /\ n # 1
        BY <3>3, <3>3a
      <4> HIDE DEF n
      <4>2. n \in 2 .. n /\ n - 1 \in 1 .. n
        BY <4>1
      <4> QED
        BY <4>2 DEF n
    <3>5. chain[Len(chain) - 1] = chain[i]
      BY <2>1, <3>1, <3>4, ChainFacts DEF LedgerInv, StoredInv
    <3> QED
      BY <2>1, <3>4, <3>5, NoBlockTwice DEF LedgerInv, StoredInv
  <2> SUFFICES ASSUME kind \in Micro PROVE MicroInv'
    BY <1>1 DEF MicroInv
  <2>2. kind # "block" /\ pc # "idle" /\ pc' # "idle"
    BY <1>3 DEF Micro, Moves, Writing
  <2>3. First \in Blocks /\ Parent[Base[First]] = Parent[First]
    BY <2>2 DEF WorkInv, MicroInv
  <2>4. pc' \in {"rollback", "add", "restore"} => saved = <<Base[First]>>
    BY <1>3 DEF WorkInv, MicroInv, Moves, Writing
  <2>5. ASSUME pc' \in {"lock", "check"}, NEW i \in 1 .. Len(chain), chain[i] = Parent[First]
        PROVE  i = Len(chain) \/ (i = Len(chain) - 1 /\ Top = Base[First])
    <3>1. \/ pc = "top" /\ Top = Base[First]
          \/ pc = "lock"
      BY <1>3, <2>2, <2>5 DEF WorkInv, HandlerInv, Moves, Writing
    <3> QED
      BY <2>1, <2>5, <3>1 DEF WorkInv, MicroInv
  <2> QED
    BY <1>1, <1>2, <2>3, <2>4, <2>5 DEF MicroInv
<1>6. PlanInv'
  BY <1>1, <1>2, <1>3 DEF WorkInv, PlanInv, Moves, Writing
<1>7. CacheInv'
  BY <1>1, <1>2, <1>3 DEF WorkInv, CacheInv, Moves, Writing
<1>8. HistoryInv'
  BY <1>1, <1>2, <1>3 DEF WorkInv, HandlerInv, HistoryInv, Moves, Writing, Replaced
<1> QED
  BY <1>4, <1>5, <1>6, <1>7, <1>8 DEF WorkInv

\* A handler starts.
LEMMA Starts ==
    ASSUME LedgerInv, WorkInv,
           NEW k \in Kinds, NEW bs \in Seq(Blocks),
           NEW step \in {"lock", "check", "exists", "snapshot", "top"},
           Start(k, bs, step),
           k \in {"sync", "minedInSync"} <=> ~ng,
           k # "sync" => Len(bs) = 1,
           step = "exists" => k = "block",
           k \in Micro => /\ step \in {"snapshot", "top"}
                          /\ bs[1] \in Blocks /\ Parent[Base[bs[1]]] = Parent[bs[1]]
    PROVE  WorkInv'
<1>1. /\ pc = "idle" /\ pc' = step /\ kind' = k /\ batch' = bs
      /\ before' = chain /\ UNCHANGED <<chain, ng, cache, cacheSnapshots>>
  BY DEF Start, Goto, stored, cached
<1>2. HandlerInv'
  BY <1>1 DEF WorkInv, HandlerInv
<1>3. MicroInv'
  BY <1>1 DEF MicroInv, First
<1>4. PlanInv'
  BY <1>1 DEF PlanInv
<1>5. CacheInv'
  BY <1>1 DEF WorkInv, CacheInv
<1>6. HistoryInv'
  <2>1. IsChain(chain) /\ Len(chain) \in Nat /\ MaxRollbackDelta \in Nat
    BY BlocksApplierAssumption DEF LedgerInv, StoredInv
  <2>2. Len(chain) <= Len(chain) + MaxRollbackDelta
    BY <2>1
  <2> QED
    BY <1>1, <2>1, <2>2 DEF HistoryInv
<1> QED
  BY <1>2, <1>3, <1>4, <1>5, <1>6 DEF WorkInv

LEMMA BeginSteps ==
    ASSUME LedgerInv, WorkInv, Begin
    PROVE  WorkInv'
<1>1. ASSUME NEW n \in 1 .. MaxBatch, NEW bs \in [1 .. n -> Blocks], SyncBatch(bs)
      PROVE  WorkInv'
  <2>1. bs \in Seq(Blocks)
    BY <1>1, BlocksApplierAssumption
  <2>2. "sync" \in Kinds /\ "sync" \notin Micro
    BY DEF Kinds, Exclusive, Micro
  <2>3. ~ng /\ Start("sync", bs, "lock")
    BY <1>1 DEF SyncBatch
  <2> QED
    BY <2>1, <2>2, <2>3, Starts
<1>2. ASSUME NEW b \in Blocks PROVE <<b>> \in Seq(Blocks) /\ Len(<<b>>) = 1 /\ <<b>>[1] = b
  OBVIOUS
<1>3. ASSUME NEW b \in KeyBlocks, MinedBlock(b) \/ MinedBlockInSync(b) \/ Block(b)
      PROVE  WorkInv'
  <2>1. b \in Blocks
    BY DEF KeyBlocks
  <2>2. /\ {"mined", "minedInSync", "block"} \subseteq Kinds
        /\ {"mined", "minedInSync", "block"} \cap Micro = {}
    BY DEF Kinds, Exclusive, Micro
  <2>3. CASE MinedBlock(b)
    BY <1>2, <2>1, <2>2, <2>3, Starts DEF MinedBlock
  <2>4. CASE MinedBlockInSync(b)
    BY <1>2, <2>1, <2>2, <2>4, Starts DEF MinedBlockInSync
  <2>5. CASE Block(b)
    BY <1>2, <2>1, <2>2, <2>5, Starts DEF Block
  <2> QED
    BY <1>3, <2>3, <2>4, <2>5
<1>4. ASSUME NEW b \in MicroVersions, MicroBlock(b) \/ MineMicro(b)
      PROVE  WorkInv'
  <2>1. b \in Blocks /\ Parent[Base[b]] = Parent[b]
    BY ChainsAssumption DEF MicroVersions
  <2>2. {"micro", "minedMicro"} \subseteq Kinds
    BY DEF Kinds, Exclusive, Micro
  <2>3. CASE MicroBlock(b)
    BY <1>2, <2>1, <2>2, <2>3, Starts DEF MicroBlock
  <2>4. CASE MineMicro(b)
    BY <1>2, <2>1, <2>2, <2>4, Starts DEF MineMicro
  <2> QED
    BY <1>4, <2>3, <2>4
<1> QED
  BY <1>1, <1>3, <1>4 DEF Begin

\* A handler ends, or the process does.
LEMMA EndSteps ==
    ASSUME LedgerInv, WorkInv,
           SwitchState \/ SnapshotTimeout \/ Applied \/ Refused \/ Crash \/ LockPanics
    PROVE  WorkInv'
<1>1. CASE SwitchState \/ Crash \/ LockPanics
  <2>1. pc' = "idle" /\ cache' = {}
    BY <1>1 DEF SwitchState, Crash, LockPanics, Restart, Return, Goto
  <2> QED
    BY <2>1, FitsNothing, Returns
<1>2. CASE SnapshotTimeout \/ Refused
  <2>1. pc' = "idle" /\ pc # "applied" /\ UNCHANGED <<chain, ng, cache>>
    BY <1>2 DEF SnapshotTimeout, Refused, Return, Goto, stored, cached
  <2> QED
    BY <2>1, Returns DEF WorkInv, HandlerInv, CacheInv
<1>3. CASE Applied
  <2>1. /\ pc' = "idle" /\ pc = "applied" /\ UNCHANGED <<chain, ng>>
        /\ cache' = CacheAfter(First)
    BY <1>3 DEF Applied, Return, Goto, stored, First
  <2>2. CacheFits(chain', cache')
    BY <2>1 DEF WorkInv, CacheInv
  <2>3. First \in Cachable /\ cache \in SUBSET Cachable
    BY <2>1 DEF WorkInv, HandlerInv
  <2>4. cache' \in SUBSET Cachable
    BY <2>1, <2>3 DEF CacheAfter
  <2>5. ng' \/ cache' = {}
    <3>1. CASE ng
      BY <2>1, <3>1
    <3>2. CASE ~ng /\ kind \in {"sync", "minedInSync"}
      BY <2>1, <3>2 DEF CacheAfter, WorkInv, HandlerInv, Micro
    <3>3. CASE ~ng /\ kind \notin {"sync", "minedInSync"}
      BY <2>1, <3>3 DEF WorkInv, HandlerInv
    <3> QED
      BY <3>1, <3>2, <3>3
  <2> QED
    BY <2>1, <2>2, <2>4, <2>5, Returns
<1> QED
  BY <1>1, <1>2, <1>3

\* Prefixes.
LEMMA CutFacts ==
    ASSUME NEW C \in Seq(Blocks), NEW h \in 1 .. Len(C)
    PROVE  /\ UpTo(C, h) \in Seq(Blocks) /\ Len(UpTo(C, h)) = h
           /\ \A i \in 1 .. h : UpTo(C, h)[i] = C[i]
           /\ Last(UpTo(C, h)) = C[h]
           /\ h = Len(C) => UpTo(C, h) = C
           /\ \A t \in 1 .. h : UpTo(UpTo(C, h), t) = UpTo(C, t)
<1> DEFINE D == UpTo(C, h)
<1>1. D \in Seq(Blocks) /\ Len(D) = h /\ \A i \in 1 .. h : D[i] = C[i]
  BY DEF UpTo
<1>2. h \in Nat /\ h >= 1
  OBVIOUS
<1>3. Last(D) = C[h]
  BY <1>1, <1>2 DEF Last
<1>4. h = Len(C) => D = C
  BY DEF UpTo
<1>5. ASSUME NEW t \in 1 .. h PROVE UpTo(D, t) = UpTo(C, t)
  <2>1. t \in 1 .. Len(C) /\ t \in Nat /\ \A i \in 1 .. t : i \in 1 .. h
    BY <1>2
  <2>2. UpTo(C, t) \in Seq(Blocks) /\ Len(UpTo(C, t)) = t
        /\ \A i \in 1 .. t : UpTo(C, t)[i] = C[i]
    BY <2>1 DEF UpTo
  <2> HIDE DEF D
  <2>3. UpTo(D, t) \in Seq(Blocks) /\ Len(UpTo(D, t)) = t
        /\ \A i \in 1 .. t : UpTo(D, t)[i] = D[i]
    BY <1>1, <2>1 DEF UpTo
  <2> QED
    BY <1>1, <2>1, <2>2, <2>3
<1> QED
  BY <1>1, <1>3, <1>4, <1>5

\* Nothing that the invariant speaks of changes.
LEMMA SameWork ==
    ASSUME WorkInv, UNCHANGED <<chain, ng, cache, cacheSnapshots, pc, kind, batch, saved,
                                target, before, calm>>
    PROVE  WorkInv'
<1>1. First' = First /\ Top' = Top /\ (Replaced' <=> Replaced)
      /\ CacheAfter(First)' = CacheAfter(First)
      /\ (CachedWithSnapshot(Parent[First])' <=> CachedWithSnapshot(Parent[First]))
  BY DEF First, Replaced, Top, CacheAfter, CachedWithSnapshot
<1>2. HandlerInv' /\ CacheInv'
  BY <1>1 DEF WorkInv, HandlerInv, CacheInv
<1>3. MicroInv' /\ PlanInv'
  BY <1>1 DEF WorkInv, MicroInv, PlanInv
<1>4. HistoryInv'
  BY <1>1 DEF WorkInv, HistoryInv
<1> QED
  BY <1>2, <1>3, <1>4 DEF WorkInv

\* The API removes blocks between two steps of a handler.
LEMMA ApiSteps ==
    ASSUME LedgerInv, LedgerInv', WorkInv, ApiRollback
    PROVE  WorkInv'
<1>1. PICK h \in RollbackHeights : Rollback(h)
  BY DEF ApiRollback
<1>2. h \in 1 .. Len(chain) /\ h \in Nat /\ Len(chain) \in Nat /\ chain \in Seq(Blocks)
  BY DEF LedgerInv, StoredInv, RollbackHeights
<1>3. /\ chain' = UpTo(chain, h)
      /\ UNCHANGED <<ng, cache, cacheSnapshots, pc, kind, batch, saved, target>>
      /\ pc # "idle" => before' = chain' /\ ~calm'
  BY <1>1 DEF ApiRollback, Rollback, cached, request, plan
<1>4. /\ First' = First /\ CacheAfter(First)' = CacheAfter(First)
      /\ (CachedWithSnapshot(Parent[First])' <=> CachedWithSnapshot(Parent[First]))
  BY <1>3 DEF First, CacheAfter, CachedWithSnapshot
<1>5. /\ Len(chain') = h /\ Last(chain') = chain[h]
      /\ \A i \in 1 .. h : chain'[i] = chain[i]
      /\ h = Len(chain) => chain' = chain
      /\ \A t \in 1 .. h : UpTo(chain', t) = UpTo(chain, t)
  BY <1>2, <1>3, CutFacts
<1>6. IsChain(chain)
  BY DEF LedgerInv, StoredInv
<1>7. HandlerInv'
  BY <1>3, <1>4 DEF WorkInv, HandlerInv
<1>8. MicroInv'
  <2> SUFFICES ASSUME kind \in Micro PROVE MicroInv'
    BY <1>3 DEF MicroInv
  <2>1. ASSUME pc \in {"lock", "check"}, NEW i \in 1 .. h, chain'[i] = Parent[First]
        PROVE  i = h \/ (i = h - 1 /\ Top' = Base[First])
    <3>1. i \in 1 .. Len(chain) /\ chain[i] = Parent[First]
      BY <1>2, <1>5, <2>1
    <3>2. i = Len(chain) \/ (i = Len(chain) - 1 /\ Top = Base[First])
      BY <2>1, <3>1 DEF WorkInv, MicroInv
    <3>3. CASE h = Len(chain)
      BY <1>5, <3>2, <3>3 DEF Top
    <3>4. CASE h # Len(chain)
      BY <1>2, <3>2, <3>4
    <3> QED
      BY <3>3, <3>4
  <2> QED
    BY <1>3, <1>4, <1>5, <2>1 DEF WorkInv, MicroInv
<1>9. PlanInv'
  <2>1. ASSUME pc = "rollback"
        PROVE  /\ Len(chain') <= target + MaxRollbackDelta
               /\ target <= Len(chain') => /\ IsChain(UpTo(chain', target) \o saved)
                                           /\ CacheFits(UpTo(chain', target) \o saved, cache)
    <3>1. target \in Nat /\ target >= 1 /\ Len(chain) <= target + MaxRollbackDelta
          /\ MaxRollbackDelta \in Nat
      BY <2>1, BlocksApplierAssumption DEF WorkInv, PlanInv, LedgerInv, VolatileInv, RequestOK
    <3>2. h <= target + MaxRollbackDelta
      BY <1>2, <3>1
    <3>3. ASSUME target <= h
          PROVE  UpTo(chain', target) = UpTo(chain, target) /\ target <= Len(chain)
      BY <1>2, <1>5, <3>1, <3>3
    <3> QED
      BY <1>5, <2>1, <3>2, <3>3 DEF WorkInv, PlanInv
  <2>2. ASSUME pc \in {"add", "restore"}, saved # << >>
        PROVE  /\ OnlyOnTop(Parent[saved[1]], chain')
               /\ Linked(Last(chain'), saved) => CacheFits(chain' \o saved, cache)
    <3>1. OnlyOnTop(Parent[saved[1]], chain)
      BY <2>2 DEF WorkInv, PlanInv
    <3>2. \A i \in 1 .. h : chain[i] = Parent[saved[1]] => i = Len(chain) /\ h = Len(chain)
      BY <1>2, <3>1 DEF OnlyOnTop
    <3>3. OnlyOnTop(Parent[saved[1]], chain')
      BY <1>5, <3>2 DEF OnlyOnTop
    <3>4. ASSUME Linked(Last(chain'), saved) PROVE chain' = chain
      <4>1. saved \in Seq(Blocks)
        BY DEF LedgerInv, VolatileInv, RequestOK
      <4>2. 1 \in 1 .. Len(saved)
        BY <2>2, <4>1
      <4>3. Parent[saved[1]] = Last(chain')
        BY <3>4, <4>2 DEF Linked
      <4> QED
        BY <1>2, <1>5, <3>2, <4>3
    <3> QED
      BY <2>2, <3>3, <3>4 DEF WorkInv, PlanInv
  <2> QED
    BY <1>3, <2>1, <2>2 DEF WorkInv, PlanInv
<1>10. CacheInv'
  <2>1. cache \in SUBSET Cachable
    BY DEF WorkInv, HandlerInv
  <2>2. CASE pc # "applied"
    BY <1>2, <1>3, <1>6, <2>1, <2>2, FitsAfterCut DEF WorkInv, CacheInv
  <2>3. CASE pc = "applied"
    <3>1. First \in Cachable
      BY <2>3 DEF WorkInv, HandlerInv
    <3>2. CacheAfter(First) \in SUBSET Cachable
      BY <2>1, <3>1 DEF CacheAfter
    <3> QED
      BY <1>2, <1>3, <1>4, <1>6, <2>3, <3>2, FitsAfterCut DEF WorkInv, CacheInv
  <2> QED
    BY <2>2, <2>3
<1>11. HistoryInv'
  <2> SUFFICES ASSUME pc # "idle" PROVE HistoryInv'
    BY <1>3 DEF HistoryInv
  <2>1. IsChain(chain')
    BY DEF LedgerInv, StoredInv
  <2>2. Len(chain') <= Len(chain') + MaxRollbackDelta
    BY <1>2, <1>5, BlocksApplierAssumption
  <2>3. pc = "rollback" /\ calm' => FALSE
    BY <1>3
  <2> QED
    BY <1>3, <2>1, <2>2 DEF HistoryInv
<1> QED
  BY <1>7, <1>8, <1>9, <1>10, <1>11 DEF WorkInv

-----------------------------------------------------------------------------
(* The steps that decide and write.                                        *)

\* A block of the ledger has one height.
LEMMA HeightFacts ==
    ASSUME LedgerInv, NEW b, InChain(b)
    PROVE  /\ HeightOf(b) \in 1 .. Len(chain) /\ chain[HeightOf(b)] = b
           /\ \A i \in 1 .. Len(chain) : chain[i] = b => i = HeightOf(b)
<1>1. chain \in Seq(Blocks) /\ IsChain(chain)
  BY DEF LedgerInv, StoredInv
<1>2. HeightOf(b) \in 1 .. Len(chain) /\ chain[HeightOf(b)] = b
  BY <1>1, ChainFacts DEF InChain, HeightOf
<1> QED
  BY <1>1, <1>2, NoBlockTwice

\* Sequences of blocks.
LEMMA Concatenated ==
    ASSUME NEW A \in Seq(Blocks), NEW B \in Seq(Blocks)
    PROVE  /\ A \o B \in Seq(Blocks) /\ Len(A \o B) = Len(A) + Len(B)
           /\ Len(A) \in Nat /\ Len(B) \in Nat
           /\ \A i \in 1 .. Len(A) : (A \o B)[i] = A[i]
           /\ \A i \in 1 .. Len(B) : (A \o B)[Len(A) + i] = B[i]
OBVIOUS

LEMMA SameBlocks ==
    ASSUME NEW A \in Seq(Blocks), NEW B \in Seq(Blocks), Len(A) = Len(B),
           \A i \in 1 .. Len(B) : A[i] = B[i]
    PROVE  A = B
OBVIOUS

LEMMA OneBlock ==
    ASSUME NEW A \in Seq(Blocks), Len(A) = 1
    PROVE  A[1] \in Blocks /\ A = <<A[1]>>
<1>1. A[1] \in Blocks /\ <<A[1]>> \in Seq(Blocks) /\ Len(<<A[1]>>) = 1
  OBVIOUS
<1> QED
  BY <1>1, SameBlocks

LEMMA AllValid ==
    ASSUME NEW A \in Seq(Blocks)
    PROVE  Range(A) \subseteq Valid <=> \A i \in 1 .. Len(A) : A[i] \in Valid
BY DEF Range

\* What getRollbackBlocks returns completes what is left below it.
LEMMA Splits ==
    ASSUME NEW C \in Seq(Blocks), NEW h \in 1 .. Len(C)
    PROVE  LET S == SubSeq(C, h + 1, Len(C))
           IN /\ S \in Seq(Blocks) /\ UpTo(C, h) \o S = C
              /\ h = Len(C) => S = << >>
              /\ h # Len(C) => S # << >>
              /\ \A i \in 1 .. Len(S) : \E j \in 1 .. Len(C) : S[i] = C[j]
              /\ h = Len(C) - 1 => S = <<C[Len(C)]>>
<1> DEFINE S == SubSeq(C, h + 1, Len(C))
           n == Len(C)
           L == UpTo(C, h)
<1>1. n \in Nat /\ h \in Nat /\ 1 <= h /\ h <= n
  OBVIOUS
<1>2. S \in Seq(Blocks) /\ Len(S) = n - h /\ \A i \in 1 .. n - h : S[i] = C[h + i]
  <2>1. h + 1 \in 1 .. n + 1
    BY <1>1
  <2>2. \A i \in h + 1 .. n : C[i] \in Blocks
    BY <1>1
  <2> QED
    BY <1>1, <2>1, <2>2
<1>3. L \in Seq(Blocks) /\ Len(L) = h /\ \A i \in 1 .. h : L[i] = C[i]
  BY CutFacts
<1> HIDE DEF S, n, L
<1>4. L \o S = C
  <2>1. /\ L \o S \in Seq(Blocks) /\ Len(L \o S) = Len(L) + Len(S)
        /\ \A i \in 1 .. Len(L) : (L \o S)[i] = L[i]
        /\ \A i \in 1 .. Len(S) : (L \o S)[Len(L) + i] = S[i]
    BY <1>2, <1>3, Concatenated
  <2> DEFINE W == L \o S
  <2> HIDE DEF W
  <2>2. Len(W) = n
    BY <1>1, <1>2, <1>3, <2>1 DEF W
  <2>3. ASSUME NEW i \in 1 .. n PROVE W[i] = C[i]
    <3>1. CASE i \in 1 .. h
      BY <1>3, <2>1, <3>1 DEF W
    <3>2. CASE i \notin 1 .. h
      <4>1. i - h \in 1 .. n - h /\ h + (i - h) = i
        BY <1>1, <3>2
      <4> QED
        BY <1>2, <1>3, <2>1, <4>1 DEF W
    <3> QED
      BY <3>1, <3>2
  <2>4. W \in Seq(Blocks) /\ C \in Seq(Blocks)
    BY <2>1 DEF W
  <2>5. W = C
    BY <2>2, <2>3, <2>4, SameBlocks DEF n
  <2> QED
    BY <2>5 DEF W
<1>5. h = n => S = << >>
  BY <1>1, <1>2
<1>6. h # n => S # << >>
  BY <1>1, <1>2
<1>7. \A i \in 1 .. Len(S) : \E j \in 1 .. n : S[i] = C[j]
  <2> TAKE i \in 1 .. Len(S)
  <2>1. h + i \in 1 .. n
    BY <1>1, <1>2
  <2> QED
    BY <1>2, <2>1
<1>8. h = n - 1 => S = <<C[n]>>
  <2> SUFFICES ASSUME h = n - 1 PROVE S = <<C[n]>>
    OBVIOUS
  <2>0. n - h = 1 /\ h + 1 = n
    BY <1>1
  <2>1. Len(S) = 1 /\ S[1] = C[h + 1]
    <3>1. 1 \in 1 .. n - h
      BY <2>0
    <3> QED
      BY <1>2, <2>0, <3>1
  <2>2. S[1] = C[n]
    BY <2>0, <2>1
  <2> QED
    BY <1>2, <2>1, <2>2, OneBlock
<1> QED
  BY <1>2, <1>4, <1>5, <1>6, <1>7, <1>8 DEF S, n, L

\* The upper part of a chain fits on its lower part, whose top comes once.
LEMMA UpperFits ==
    ASSUME NEW C \in Seq(Blocks), C # << >>, NEW S \in Seq(Blocks), IsChain(C \o S)
    PROVE  /\ Linked(Last(C), S)
           /\ S # << >> => OnlyOnTop(Parent[S[1]], C)
<1> DEFINE W == C \o S
           n == Len(C)
<1>1. /\ W \in Seq(Blocks) /\ Len(W) = n + Len(S)
      /\ \A i \in 1 .. n : W[i] = C[i]
      /\ \A i \in 1 .. Len(S) : W[n + i] = S[i]
      /\ n \in Nat /\ n >= 1 /\ Len(S) \in Nat /\ Last(C) = C[n]
  BY Concatenated DEF Last
<1>1a. \A k \in 2 .. Len(W) : Parent[W[k]] = W[k - 1]
  BY <1>1, ChainFacts
<1> HIDE DEF W, n
<1>2. ASSUME NEW i \in 1 .. Len(S)
      PROVE  Parent[S[i]] = IF i = 1 THEN Last(C) ELSE S[i - 1]
  <2>1. n + i \in 2 .. Len(W)
    BY <1>1
  <2>2. Parent[S[i]] = W[(n + i) - 1]
    BY <1>1, <1>1a, <2>1
  <2>3. CASE i = 1
    BY <1>1, <2>2, <2>3
  <2>4. CASE i # 1
    <3>1. i - 1 \in 1 .. Len(S) /\ (n + i) - 1 = n + (i - 1)
      BY <1>1, <2>4
    <3> QED
      BY <1>1, <2>2, <2>4, <3>1
  <2> QED
    BY <2>3, <2>4
<1>3. Linked(Last(C), S)
  BY <1>2 DEF Linked
<1>4. ASSUME S # << >> PROVE OnlyOnTop(Parent[S[1]], C)
  <2>1. 1 \in 1 .. Len(S)
    BY <1>1, <1>4
  <2>2. Parent[S[1]] = W[n]
    BY <1>1, <1>2, <2>1
  <2>3. ASSUME NEW i \in 1 .. n, C[i] = W[n] PROVE i = n
    <3>1. i \in 1 .. Len(W) /\ n \in 1 .. Len(W) /\ W[i] = W[n]
      BY <1>1, <2>3
    <3> QED
      BY <1>1, <3>1, NoBlockTwice DEF W
  <2> QED
    BY <2>2, <2>3 DEF OnlyOnTop, n
<1> QED
  BY <1>3, <1>4

\* The blocks are accepted: the rollback is planned.
LEMMA CheckSteps ==
    ASSUME LedgerInv, WorkInv, CheckAccepts
    PROVE  WorkInv'
<1> DEFINE n == Len(chain)
           h == HeightOf(Parent[First])
<1>1. /\ pc = "check" /\ Accepts /\ target' = h
      /\ saved' = SubSeq(chain, h + 1, n)
      /\ pc' = IF h = n THEN "add" ELSE "rollback"
      /\ UNCHANGED <<chain, ng, cache, cacheSnapshots, kind, batch, before, calm>>
  BY DEF CheckAccepts, RollbackBlocks, Goto, First, stored, cached, request
<1>2. First' = First /\ Top' = Top /\ (Replaced' <=> Replaced)
      /\ (CachedWithSnapshot(Parent[First])' <=> CachedWithSnapshot(Parent[First]))
  BY <1>1 DEF First, Replaced, Top, CachedWithSnapshot
<1>3. chain \in Seq(Blocks) /\ IsChain(chain) /\ n \in Nat /\ n >= 1
  BY ChainFacts DEF LedgerInv, StoredInv
<1>4. InChain(Parent[First]) /\ (kind \in Micro => n - h = 1)
      /\ (kind \notin Micro => n - h <= MaxRollbackDelta)
  BY <1>1 DEF Accepts, ReplacesTop, HigherScore, DeltaHeight, First
<1>5. /\ h \in 1 .. n /\ chain[h] = Parent[First]
      /\ \A i \in 1 .. n : chain[i] = Parent[First] => i = h
  BY <1>4, HeightFacts
<1>6. /\ saved' \in Seq(Blocks) /\ UpTo(chain, h) \o saved' = chain
      /\ h = n => saved' = << >>
      /\ h # n => saved' # << >>
      /\ \A i \in 1 .. Len(saved') : \E j \in 1 .. n : saved'[i] = chain[j]
      /\ h = n - 1 => saved' = <<chain[n]>>
  BY <1>1, <1>3, <1>5, Splits
<1> HIDE DEF n, h
<1>7. HandlerInv'
  BY <1>1, <1>2 DEF WorkInv, HandlerInv
<1>8. MicroInv'
  <2> SUFFICES ASSUME kind \in Micro PROVE MicroInv'
    BY <1>1 DEF MicroInv
  <2>1. h = n - 1 /\ h # n
    BY <1>3, <1>4, <1>5
  <2>2. Top = Base[First]
    BY <1>1, <1>5, <2>1 DEF WorkInv, MicroInv, n
  <2>3. saved' = <<Base[First]>>
    BY <1>3, <1>6, <2>1, <2>2, ChainFacts DEF Top, n
  <2>4. pc' = "rollback"
    BY <1>1, <2>1
  <2> QED
    BY <1>1, <1>2, <2>3, <2>4 DEF WorkInv, MicroInv
<1>9. PlanInv'
  <2>1. Range(saved') \subseteq Valid
    <3>1. \A i \in 1 .. Len(saved') : saved'[i] \in Valid
      BY <1>3, <1>6, ChainFacts DEF n
    <3> QED
      BY <1>6, <3>1, AllValid
  <2>2. h >= 1 /\ n <= h + MaxRollbackDelta
    BY <1>3, <1>4, <1>5, BlocksApplierAssumption
  <2>3. CacheFits(chain, cache)
    BY <1>1 DEF WorkInv, CacheInv
  <2> QED
    BY <1>1, <1>3, <1>6, <2>1, <2>2, <2>3 DEF PlanInv, n
<1>10. CacheInv'
  BY <1>1 DEF WorkInv, CacheInv
<1>11. HistoryInv'
  <2>1. /\ IsChain(before) /\ n <= n + MaxRollbackDelta
        /\ Len(before) <= n + MaxRollbackDelta
        /\ chain = before \/ Replaced
    BY <1>1, <1>3, BlocksApplierAssumption DEF WorkInv, HistoryInv, n
  <2>2. CASE h = n
    BY <1>1, <1>2, <1>6, <2>1, <2>2 DEF HistoryInv, n
  <2>3. CASE h # n
    <3>1. ~Replaced
      <4>1. Last(chain) = chain[n] /\ n \in 1 .. n
        BY <1>3, ChainFacts DEF n
      <4> QED
        BY <1>5, <2>3, <4>1 DEF Replaced
    <3>2. h <= n
      BY <1>3, <1>5
    <3> QED
      BY <1>1, <1>6, <2>1, <2>3, <3>1, <3>2 DEF HistoryInv, n
  <2> QED
    BY <2>2, <2>3
<1> QED
  BY <1>7, <1>8, <1>9, <1>10, <1>11 DEF WorkInv

\* The last block but one remains.
LEMMA CutByOne ==
    ASSUME NEW C \in Seq(Blocks), NEW h \in 1 .. Len(C), h >= Len(C) - 1
    PROVE  UpTo(C, h) \in {C, Front(C)} /\ Len(C) <= h + 1
<1>1. h = Len(C) \/ h = Len(C) - 1
  OBVIOUS
<1>2. CASE h = Len(C)
  BY <1>2, CutFacts
<1>3. CASE h = Len(C) - 1
  BY <1>3 DEF UpTo, Front
<1> QED
  BY <1>1, <1>2, <1>3

\* NG's Block goes back to the parent of a cached block.
LEMMA CachedRollbackSteps ==
    ASSUME LedgerInv, WorkInv, CachedRollback
    PROVE  WorkInv'
<1> DEFINE c == Parent[First]
           edge == Parent[c]
           h == HeightOf(edge)
<1>1. /\ pc = "cachedRollback" /\ kind = "block" /\ "block" \notin Micro
      /\ UNCHANGED <<ng, cache, cacheSnapshots, kind, batch, saved, target, before, calm>>
  BY DEF CachedRollback, cached, request, plan, WorkInv, HandlerInv, Micro
<1>2. First' = First /\ CachedWithSnapshot(c) /\ CachedWithSnapshot(c)'
  BY <1>1 DEF First, CachedWithSnapshot, WorkInv, HandlerInv
<1>3. chain \in Seq(Blocks) /\ IsChain(chain) /\ Len(chain) \in Nat
  BY DEF LedgerInv, StoredInv
<1>4. /\ IsChain(before) /\ chain = before /\ CacheFits(chain, cache)
      /\ cache \in SUBSET Cachable /\ MaxRollbackDelta \in Nat /\ MaxRollbackDelta >= 1
  BY <1>1, BlocksApplierAssumption DEF WorkInv, HistoryInv, CacheInv, HandlerInv
<1>5. \/ /\ InChain(edge) /\ h \in RollbackHeights
         /\ chain' = UpTo(chain, h) /\ pc' = "cachedApply"
      \/ pc' = "refused" /\ chain' = chain
  BY DEF CachedRollback, Rollback, Goto, First, stored
<1>6. HandlerInv' /\ MicroInv' /\ PlanInv'
  BY <1>1, <1>2, <1>5 DEF WorkInv, HandlerInv, MicroInv, PlanInv
<1>7. CASE pc' = "refused" /\ chain' = chain
  <2>1. CacheInv'
    BY <1>1, <1>4, <1>7 DEF CacheInv
  <2>2. HistoryInv'
    BY <1>1, <1>3, <1>4, <1>7 DEF HistoryInv
  <2> QED
    BY <1>6, <2>1, <2>2 DEF WorkInv
<1>8. CASE InChain(edge) /\ chain' = UpTo(chain, h) /\ pc' = "cachedApply"
  <2>1. h \in 1 .. Len(chain) /\ chain[h] = edge
    BY <1>8, HeightFacts
  <2>2. c \in cache
    BY <1>2 DEF CachedWithSnapshot
  <2>3. h >= Len(chain) - 1
    BY <1>4, <2>1, <2>2 DEF CacheFits, Shallow
  <2>4. /\ chain' \in {before, Front(before)} /\ Len(chain) <= h + 1
        /\ Len(chain') = h /\ Last(chain') = edge
    BY <1>3, <1>4, <1>8, <2>1, <2>3, CutByOne, CutFacts
  <2>5. CacheInv'
    BY <1>1, <1>3, <1>4, <1>8, <2>1, FitsAfterCut DEF CacheInv
  <2>6. Len(before) <= Len(chain') + MaxRollbackDelta
    BY <1>3, <1>4, <2>1, <2>4
  <2>7. Last(chain') = Parent[Parent[First']]
    BY <1>2, <2>4
  <2>8. HistoryInv'
    BY <1>1, <1>4, <1>8, <2>4, <2>6, <2>7 DEF HistoryInv
  <2> QED
    BY <1>6, <2>5, <2>8 DEF WorkInv
<1> QED
  BY <1>5, <1>7, <1>8

\* One block less, one block more.
LEMMA FrontAfter ==
    ASSUME NEW C \in Seq(Blocks), NEW b \in Blocks
    PROVE  Front(C \o <<b>>) = C /\ Last(C \o <<b>>) = b
<1> DEFINE D == C \o <<b>>
<1>1. <<b>> \in Seq(Blocks) /\ Len(<<b>>) = 1 /\ <<b>>[1] = b
  OBVIOUS
<1>2. /\ D \in Seq(Blocks) /\ Len(D) = Len(C) + 1 /\ Len(C) \in Nat
      /\ \A i \in 1 .. Len(C) : D[i] = C[i]
      /\ D[Len(C) + 1] = b
  BY <1>1, Concatenated
<1> HIDE DEF D
<1>3. Len(D) - 1 = Len(C)
  BY <1>2
<1>4. Front(D) \in Seq(Blocks) /\ Len(Front(D)) = Len(C)
      /\ \A i \in 1 .. Len(C) : Front(D)[i] = C[i]
  BY <1>2, <1>3 DEF Front
<1>5. Front(D) = C
  BY <1>4, SameBlocks
<1> QED
  BY <1>2, <1>5 DEF D, Last

\* NG's Block puts the cached block back.
LEMMA CachedApplySteps ==
    ASSUME LedgerInv, WorkInv, CachedApply
    PROVE  WorkInv'
<1> DEFINE c == Parent[First]
<1>1. /\ pc = "cachedApply" /\ kind = "block" /\ "block" \notin Micro
      /\ UNCHANGED <<ng, cache, cacheSnapshots, kind, batch, saved, target, before, calm>>
  BY DEF CachedApply, cached, request, plan, WorkInv, HandlerInv, Micro
<1>2. First' = First /\ CachedWithSnapshot(c) /\ CachedWithSnapshot(c)'
  BY <1>1 DEF First, CachedWithSnapshot, WorkInv, HandlerInv
<1>3. chain \in Seq(Blocks) /\ IsChain(chain) /\ Len(chain) \in Nat
  BY DEF LedgerInv, StoredInv
<1>4. /\ IsChain(before) /\ chain \in {before, Front(before)}
      /\ Len(before) <= Len(chain) + MaxRollbackDelta
      /\ calm => Last(chain) = Parent[c]
      /\ CacheFits(chain, cache) /\ cache \in SUBSET Cachable
      /\ MaxRollbackDelta \in Nat /\ Len(before) \in Nat
  BY <1>1, BlocksApplierAssumption
     DEF WorkInv, HistoryInv, CacheInv, HandlerInv, LedgerInv, VolatileInv, RequestOK
<1>5. c \in cache /\ c \in Valid /\ c \in Blocks
  BY <1>2, <1>4, CachableFacts DEF CachedWithSnapshot
<1>6. \/ /\ CanAdd(<<c>>) /\ chain' = chain \o <<c>>
         /\ pc' \in {"snapshot", "check"}
      \/ ~CanAdd(<<c>>) /\ pc' = "refused" /\ chain' = chain
  BY DEF CachedApply, AddBlocks, Goto, First, stored
<1>7. HandlerInv' /\ MicroInv' /\ PlanInv'
  BY <1>1, <1>2, <1>6 DEF WorkInv, HandlerInv, MicroInv, PlanInv
<1>8. CASE CanAdd(<<c>>) /\ chain' = chain \o <<c>> /\ pc' \in {"snapshot", "check"}
  <2>1. Parent[c] = Last(chain)
    BY <1>8 DEF CanAdd, Linked, Top
  <2>2. CacheFits(chain', cache')
    BY <1>1, <1>3, <1>4, <1>5, <1>8, <2>1, FitsCached
  <2>3. Len(chain') = Len(chain) + 1
    BY <1>3, <1>5, <1>8, <2>1, Appended
  <2>4. Front(chain') = chain /\ Last(chain') = c
    BY <1>3, <1>5, <1>8, FrontAfter
  <2>5. Replaced'
    BY <1>1, <1>2, <1>4, <2>4 DEF Replaced
  <2>6. Len(before) <= Len(chain') + MaxRollbackDelta
    BY <1>3, <1>4, <2>3
  <2>7. HistoryInv' /\ CacheInv'
    BY <1>1, <1>4, <1>8, <2>2, <2>5, <2>6 DEF HistoryInv, CacheInv
  <2> QED
    BY <1>7, <2>7 DEF WorkInv
<1>9. CASE ~CanAdd(<<c>>) /\ pc' = "refused" /\ chain' = chain
  <2>1. ASSUME calm PROVE FALSE
    <3>1. Linked(Last(chain), <<c>>) /\ Range(<<c>>) \subseteq Valid
      BY <1>3, <1>4, <1>5, <2>1, Appended
    <3> QED
      BY <1>9, <3>1 DEF CanAdd, Top
  <2>2. HistoryInv' /\ CacheInv'
    BY <1>1, <1>4, <1>9, <2>1 DEF HistoryInv, CacheInv
  <2> QED
    BY <1>7, <2>2 DEF WorkInv
<1> QED
  BY <1>6, <1>8, <1>9

\* The rollback of innerBlocksApplier.
LEMMA RollbackSteps ==
    ASSUME LedgerInv, WorkInv, RollbackToHeight
    PROVE  WorkInv'
<1>1. /\ pc = "rollback"
      /\ UNCHANGED <<ng, cache, cacheSnapshots, kind, batch, saved, target, before, calm>>
  BY DEF RollbackToHeight, cached, request, plan
<1>2. First' = First
  BY <1>1 DEF First
<1>3. /\ chain \in Seq(Blocks) /\ IsChain(chain) /\ Len(chain) \in Nat
      /\ saved \in Seq(Blocks) /\ target \in Nat /\ saved # << >>
      /\ target >= 1 /\ Len(chain) <= target + MaxRollbackDelta
      /\ MaxRollbackDelta \in Nat
  BY <1>1, BlocksApplierAssumption
     DEF LedgerInv, StoredInv, VolatileInv, RequestOK, WorkInv, PlanInv
<1>4. /\ IsChain(before) /\ chain = before /\ CacheFits(chain, cache)
      /\ cache \in SUBSET Cachable
      /\ calm => UpTo(chain, target) \o saved = chain
  BY <1>1 DEF WorkInv, HistoryInv, CacheInv, HandlerInv
<1>5. \/ target \in RollbackHeights /\ chain' = UpTo(chain, target) /\ pc' = "add"
      \/ pc' = "refused" /\ chain' = chain
  BY DEF RollbackToHeight, Rollback, Goto, stored
<1>6. HandlerInv'
  BY <1>1, <1>2, <1>5 DEF WorkInv, HandlerInv
<1>7. MicroInv'
  BY <1>1, <1>2, <1>5 DEF WorkInv, MicroInv
<1>8. CASE pc' = "refused" /\ chain' = chain
  <2>1. PlanInv'
    BY <1>8 DEF PlanInv
  <2>2. Len(chain) <= Len(chain) + MaxRollbackDelta
    BY <1>3
  <2>3. HistoryInv' /\ CacheInv'
    BY <1>1, <1>4, <1>8, <2>2 DEF HistoryInv, CacheInv
  <2> QED
    BY <1>6, <1>7, <2>1, <2>3 DEF WorkInv
<1>9. CASE target \in RollbackHeights /\ chain' = UpTo(chain, target) /\ pc' = "add"
  <2>1. target \in 1 .. Len(chain) /\ target <= Len(chain)
    BY <1>3, <1>9 DEF RollbackHeights, LedgerInv, StoredInv
  <2>2. chain' \in Seq(Blocks) /\ Len(chain') = target /\ chain' # << >>
    BY <1>3, <1>9, <2>1, CutFacts
  <2>3. IsChain(chain' \o saved) /\ CacheFits(chain' \o saved, cache)
    BY <1>1, <1>9, <2>1 DEF WorkInv, PlanInv
  <2>4. OnlyOnTop(Parent[saved[1]], chain')
    BY <1>3, <2>2, <2>3, UpperFits
  <2>5. Range(saved) \subseteq Valid
    BY <1>1 DEF WorkInv, PlanInv
  <2>6. PlanInv'
    BY <1>1, <1>9, <2>3, <2>4, <2>5 DEF PlanInv
  <2>7. CacheInv'
    BY <1>1, <1>3, <1>4, <1>9, <2>1, FitsAfterCut DEF CacheInv
  <2>8. Len(before) <= Len(chain') + MaxRollbackDelta
    BY <1>3, <1>4, <2>2
  <2>9. HistoryInv'
    BY <1>1, <1>3, <1>4, <1>9, <2>8 DEF HistoryInv
  <2> QED
    BY <1>6, <1>7, <2>6, <2>7, <2>9 DEF WorkInv
<1> QED
  BY <1>5, <1>8, <1>9

\* The new blocks are added on top of what is left.
LEMMA AddSteps ==
    ASSUME LedgerInv, WorkInv, AddDeserializedBlocks
    PROVE  WorkInv'
<1>1. /\ pc = "add"
      /\ UNCHANGED <<ng, cache, cacheSnapshots, kind, batch, saved, target, before, calm>>
  BY DEF AddDeserializedBlocks, cached, request, plan
<1>2. First' = First /\ CacheAfter(First)' = CacheAfter(First)
      /\ (CachedWithSnapshot(Parent[First])' <=> CachedWithSnapshot(Parent[First]))
  BY <1>1 DEF First, CacheAfter, CachedWithSnapshot
<1>3. /\ chain \in Seq(Blocks) /\ IsChain(chain) /\ Len(chain) \in Nat
      /\ batch \in Seq(Blocks) /\ batch # << >> /\ kind \in Kinds
      /\ MaxRollbackDelta \in Nat /\ Len(before) \in Nat
  BY <1>1, BlocksApplierAssumption
     DEF LedgerInv, StoredInv, VolatileInv, RequestOK, Busy
<1>4. /\ IsChain(before) /\ Len(before) <= Len(chain) + MaxRollbackDelta
      /\ cache \in SUBSET Cachable
  BY <1>1 DEF WorkInv, HistoryInv, HandlerInv
<1>5. \/ CanAdd(batch) /\ chain' = chain \o batch /\ pc' = "applied"
      \/ chain' = chain /\ pc' = IF saved = << >> THEN "refused" ELSE "restore"
  BY DEF AddDeserializedBlocks, AddBlocks, AfterFailedAdd, Goto, stored
<1>6. CASE CanAdd(batch) /\ chain' = chain \o batch /\ pc' = "applied"
  <2>1. 1 \in 1 .. Len(batch) /\ Len(batch) \in Nat
    BY <1>3
  <2>2. Parent[First] = Last(chain) /\ First \in Valid /\ First \in Blocks
    BY <1>3, <1>6, <2>1, AllValid DEF CanAdd, Linked, Top, First
  <2>3. First \in Cachable
    <3>1. Last(chain) \in Blocks
      BY <1>3, ChainFacts
    <3> QED
      BY <2>2, <3>1, ChainsAssumption DEF Cachable
  <2>4. HandlerInv' /\ PlanInv' /\ MicroInv'
    BY <1>1, <1>2, <1>6, <2>3 DEF WorkInv, HandlerInv, PlanInv, MicroInv
  <2>5. HistoryInv'
    <3>1. Len(chain') = Len(chain) + Len(batch)
      BY <1>3, <1>6, Concatenated
    <3>2. Len(before) <= Len(chain') + MaxRollbackDelta
      BY <1>3, <1>4, <2>1, <3>1
    <3> QED
      BY <1>1, <1>4, <1>6, <3>2 DEF HistoryInv
  <2>6. ASSUME kind # "sync" PROVE chain' = chain \o <<First>>
    <3>1. Len(batch) = 1
      BY <1>1, <2>6 DEF WorkInv, HandlerInv
    <3> QED
      BY <1>3, <1>6, <3>1, OneBlock DEF First
  <2>7. CacheFits(chain', CacheAfter(First))
    <3>1. CASE kind \in {"mined", "block"}
      <4>1. CacheAfter(First) \in {{First}, {}}
        BY <3>1 DEF CacheAfter, Micro
      <4>2. CacheFits(chain', {First})
        BY <1>3, <2>2, <2>6, <3>1, FitsNewTop
      <4> QED
        BY <4>1, <4>2, FitsNothing
    <3>2. CASE kind \in Micro
      <4> DEFINE b == Base[First]
      <4>1. CacheAfter(First) = cache \cup {First} /\ kind # "sync"
        BY <3>2 DEF CacheAfter, Micro
      <4>2. saved = <<b>> /\ Parent[b] = Parent[First] /\ Range(saved) \subseteq Valid
        BY <1>1, <3>2 DEF WorkInv, MicroInv, PlanInv
      <4> HIDE DEF b
      <4>3. b \in Valid
        BY <4>2 DEF Range
      <4>4. Linked(Last(chain), <<b>>)
        BY <1>3, <2>2, <4>2, <4>3, Appended
      <4>5. CacheFits(chain \o <<b>>, cache)
        BY <1>1, <4>2, <4>4 DEF WorkInv, PlanInv
      <4>6. CacheFits(chain \o <<First>>, cache \cup {First})
        <5>1. Base[First] = b /\ Parent[b] = Last(chain)
          BY <2>2, <4>2 DEF b
        <5> QED
          BY <1>3, <1>4, <2>2, <4>3, <4>5, <5>1, FitsNextVersion
      <4> QED
        BY <2>6, <4>1, <4>6
    <3>3. CASE kind \in {"sync", "minedInSync"}
      <4>1. cache = {}
        BY <1>1, <3>3 DEF WorkInv, HandlerInv
      <4>2. CacheAfter(First) = {}
        BY <3>3, <4>1 DEF CacheAfter, Micro
      <4> QED
        BY <4>2, FitsNothing
    <3> QED
      BY <1>3, <3>1, <3>2, <3>3 DEF Kinds, Exclusive
  <2>8. CacheInv'
    BY <1>2, <1>6, <2>7 DEF CacheInv
  <2> QED
    BY <2>4, <2>5, <2>8 DEF WorkInv
<1>7. CASE chain' = chain /\ pc' = IF saved = << >> THEN "refused" ELSE "restore"
  <2>1. Replaced' <=> Replaced
    BY <1>1, <1>2, <1>7 DEF Replaced
  <2>2. HandlerInv' /\ MicroInv' /\ CacheInv'
    BY <1>1, <1>2, <1>7 DEF WorkInv, HandlerInv, MicroInv, CacheInv
  <2>3. PlanInv'
    BY <1>1, <1>7 DEF WorkInv, PlanInv
  <2>4. HistoryInv'
    BY <1>1, <1>7, <2>1 DEF WorkInv, HistoryInv
  <2> QED
    BY <2>2, <2>3, <2>4 DEF WorkInv
<1> QED
  BY <1>5, <1>6, <1>7

\* The saved blocks return.
LEMMA RestoreSteps ==
    ASSUME LedgerInv, WorkInv, Restore
    PROVE  WorkInv'
<1>1. /\ pc = "restore" /\ pc' = "refused"
      /\ UNCHANGED <<ng, cache, cacheSnapshots, kind, batch, saved, target, before, calm>>
  BY DEF Restore, Goto, cached, request, plan
<1>2. /\ chain \in Seq(Blocks) /\ IsChain(chain) /\ Len(chain) \in Nat
      /\ saved \in Seq(Blocks) /\ saved # << >> /\ Range(saved) \subseteq Valid
      /\ MaxRollbackDelta \in Nat /\ Len(before) \in Nat
  BY <1>1, BlocksApplierAssumption
     DEF LedgerInv, StoredInv, VolatileInv, RequestOK, WorkInv, PlanInv
<1>3. /\ IsChain(before) /\ Len(before) <= Len(chain) + MaxRollbackDelta
      /\ calm => chain \o saved = before
      /\ CacheFits(chain, cache)
  BY <1>1, <1>2 DEF WorkInv, HistoryInv, CacheInv
<1>4. HandlerInv' /\ PlanInv' /\ MicroInv'
  BY <1>1 DEF WorkInv, HandlerInv, PlanInv, MicroInv, First
<1>5. CASE CanAdd(saved)
  <2>1. chain' = chain \o saved
    BY <1>5 DEF Restore, AddBlocks
  <2>2. CacheFits(chain', cache)
    BY <1>1, <1>2, <1>5, <2>1 DEF WorkInv, PlanInv, CanAdd, Top
  <2>3. Len(chain') = Len(chain) + Len(saved) /\ Len(saved) \in Nat
    BY <1>2, <2>1, Concatenated
  <2>4. Len(before) <= Len(chain') + MaxRollbackDelta
    BY <1>2, <1>3, <2>3
  <2>5. HistoryInv' /\ CacheInv'
    BY <1>1, <1>3, <2>1, <2>2, <2>4 DEF HistoryInv, CacheInv
  <2> QED
    BY <1>4, <2>5 DEF WorkInv
<1>6. CASE ~CanAdd(saved)
  <2>1. chain' = chain
    BY <1>6 DEF Restore, stored
  <2>2. ASSUME calm PROVE FALSE
    <3>1. chain # << >>
      BY <1>2, ChainFacts
    <3>2. Linked(Last(chain), saved)
      BY <1>2, <1>3, <2>2, <3>1, UpperFits
    <3> QED
      BY <1>2, <1>6, <3>2 DEF CanAdd, Top
  <2>3. HistoryInv' /\ CacheInv'
    BY <1>1, <1>3, <2>1, <2>2 DEF HistoryInv, CacheInv
  <2> QED
    BY <1>4, <2>3 DEF WorkInv
<1> QED
  BY <1>5, <1>6

-----------------------------------------------------------------------------
(* Theorems.                                                               *)

LEMMA WorkStep ==
    ASSUME LedgerInv, LedgerInv', WorkInv, [Next]_vars
    PROVE  WorkInv'
<1>1. ASSUME ApiLock \/ UNCHANGED vars PROVE WorkInv'
  <2>1. UNCHANGED <<chain, ng, cache, cacheSnapshots, pc, kind, batch, saved, target,
                    before, calm>>
    BY <1>1 DEF ApiLock, vars, stored, cached, request, plan
  <2> QED
    BY <2>1, SameWork
<1>2. CASE Exists \/ Snapshot \/ MicroTop \/ Lock \/ CheckRefuses \/ StorageFails
  BY <1>2, QuietSteps
<1>3. CASE SwitchState \/ SnapshotTimeout \/ Applied \/ Refused \/ Crash \/ LockPanics
  BY <1>3, EndSteps
<1>4. CASE CachedRollback \/ CachedApply \/ CheckAccepts
  BY <1>4, CachedRollbackSteps, CachedApplySteps, CheckSteps
<1>5. CASE RollbackToHeight \/ AddDeserializedBlocks \/ Restore
  BY <1>5, RollbackSteps, AddSteps, RestoreSteps
<1>6. CASE Begin \/ ApiRollback
  BY <1>6, BeginSteps, ApiSteps
<1> QED
  BY <1>1, <1>2, <1>3, <1>4, <1>5, <1>6 DEF Next

LEMMA WorkInvariant == Spec => []WorkInv
<1>1. Init => WorkInv
  BY FitsNothing DEF Init, WorkInv, HandlerInv, MicroInv, PlanInv, CacheInv, HistoryInv
<1>2. LedgerInv /\ LedgerInv' /\ WorkInv /\ [Next]_vars => WorkInv'
  BY WorkStep
<1> QED
  BY <1>1, <1>2, LedgerInvariant, PTL DEF Spec

\* For every tree of blocks and every order of the steps: a cached version whose parent is
\* on the ledger competes with the top block or follows it, so that NG's Block, which goes
\* back to that parent, never removes more than one block.
THEOREM CachedRollbacksAreShallow == Spec => []CachedRollbackIsShallow
<1>1. LedgerInv /\ WorkInv => CachedRollbackIsShallow
  <2> SUFFICES ASSUME LedgerInv, WorkInv, pc \in {"idle", "exists", "cachedRollback"},
                      NEW c \in cache, InChain(Parent[c])
               PROVE  HeightOf(Parent[c]) >= Len(chain) - 1
    BY DEF CachedRollbackIsShallow
  <2>1. /\ HeightOf(Parent[c]) \in 1 .. Len(chain)
        /\ chain[HeightOf(Parent[c])] = Parent[c]
    BY HeightFacts
  <2>2. Shallow(chain, cache)
    BY DEF WorkInv, CacheInv, CacheFits
  <2> QED
    BY <2>1, <2>2 DEF Shallow
<1> QED
  BY <1>1, LedgerInvariant, WorkInvariant, PTL

\* In a reorganization that nothing disturbs, what is stored and what applyBlocks (or
\* applyMicro) saved make up the ledger it started from, at every point where the new
\* blocks may still fail.
THEOREM SavedBlocksComplete == Spec => []SavedCompletesChain
<1>1. WorkInv => SavedCompletesChain
  BY DEF WorkInv, HistoryInv, SavedCompletesChain
<1> QED
  BY <1>1, WorkInvariant, PTL

\* Undisturbed, a refused batch, block or microblock leaves the ledger as it was; only NG's
\* Block may have put a cached version in the place of the last block, or on top of it.
THEOREM RefusalsRestore == Spec => []RefusalRestoresChain
<1>1. WorkInv => RefusalRestoresChain
  <2> SUFFICES ASSUME WorkInv, pc = "refused", calm, chain # before
               PROVE  /\ kind = "block"
                      /\ Front(chain) \in {Front(before), before}
                      /\ Top = Parent[batch[1]]
                      /\ CachedWithSnapshot(Top)
    BY DEF RefusalRestoresChain
  <2>1. Replaced
    BY DEF WorkInv, HistoryInv
  <2> QED
    BY <2>1 DEF Replaced, Top, First
<1> QED
  BY <1>1, WorkInvariant, PTL

\* Wherever the process dies, the stored chain is at most maxRollbackDeltaHeight blocks
\* shorter than the ledger was when the handler started (or after the last API rollback).
THEOREM CrashesLoseLittle == Spec => CrashLosesLittle
<1>1. LedgerInv /\ WorkInv /\ [Next]_vars =>
         [crashes' # crashes => Len(chain') >= Len(Ledger) - MaxRollbackDelta]_vars
  <2> SUFFICES ASSUME LedgerInv, WorkInv, [Next]_vars, crashes' # crashes
               PROVE  Len(chain') >= Len(Ledger) - MaxRollbackDelta
    OBVIOUS
  <2>1. Crash
    <3>1. ASSUME Begin \/ SwitchState \/ Exists \/ CachedRollback \/ CachedApply
                 \/ Snapshot \/ SnapshotTimeout \/ MicroTop \/ Lock
          PROVE  crashes' = crashes
      BY <3>1 DEF Begin, SyncBatch, MinedBlock, MinedBlockInSync, Block, MicroBlock,
                  MineMicro, Start, SwitchState, Exists, CachedRollback, CachedApply,
                  Snapshot, SnapshotTimeout, MicroTop, Lock, past
    <3>2. ASSUME CheckRefuses \/ CheckAccepts \/ RollbackToHeight \/ AddDeserializedBlocks
                 \/ Restore \/ Applied \/ Refused
          PROVE  crashes' = crashes
      BY <3>2 DEF CheckRefuses, CheckAccepts, RollbackToHeight, AddDeserializedBlocks,
                  Restore, Applied, Refused, past
    <3>3. ASSUME ApiLock \/ ApiRollback \/ StorageFails \/ LockPanics \/ UNCHANGED vars
          PROVE  crashes' = crashes
      BY <3>3 DEF ApiLock, ApiRollback, StorageFails, LockPanics, past, vars
    <3> QED
      BY <3>1, <3>2, <3>3 DEF Next
  <2>2. chain' = chain
    BY <2>1 DEF Crash, Restart, stored
  <2>3. /\ Len(chain) \in Nat /\ Len(before) \in Nat
        /\ MaxRollbackDelta \in Nat
    BY BlocksApplierAssumption DEF LedgerInv, StoredInv, VolatileInv, RequestOK
  <2>4. CASE pc = "idle"
    BY <2>2, <2>3, <2>4 DEF Ledger
  <2>5. CASE pc # "idle"
    <3>1. Len(before) <= Len(chain) + MaxRollbackDelta
      BY <2>5 DEF WorkInv, HistoryInv
    <3>2. Ledger = before
      BY <2>5 DEF Ledger
    <3> QED
      BY <2>2, <2>3, <3>1, <3>2
  <2> QED
    BY <2>4, <2>5
<1> QED
  BY <1>1, LedgerInvariant, WorkInvariant, PTL DEF Spec, CrashLosesLittle
-----------------------------------------------------------------------------
(* Scores.                                                                 *)

\* f adds up the weights of the first m blocks of B.
Sums(B, m, f) ==
    f = [n \in 0 .. m |-> IF n = 0 THEN 0 ELSE f[n - 1] + Weight[B[n]]]

\* The recursion of calcMultipleScore has a solution, which is a number for every prefix.
LEMMA SumsExist ==
    ASSUME NEW B \in Seq(Blocks), NEW m \in 0 .. Len(B)
    PROVE  \E f : Sums(B, m, f) /\ f \in [0 .. m -> Nat]
<1> DEFINE P(k) == \E f : Sums(B, k, f) /\ f \in [0 .. k -> Nat]
           T == {k \in 0 .. Len(B) : ~P(k)}
<1>1. SUFFICES ASSUME T # {} PROVE FALSE
  OBVIOUS
<1>2. PICK k \in T : \A y \in T : k <= y
  <2>1. T \subseteq Nat
    OBVIOUS
  <2> HIDE DEF T
  <2> QED
    BY <1>1, <2>1, LeastNumber
<1>3. CASE k = 0
  <2>1. Sums(B, 0, [n \in 0 .. 0 |-> 0]) /\ [n \in 0 .. 0 |-> 0] \in [0 .. 0 -> Nat]
    BY DEF Sums
  <2>2. P(0)
    BY <2>1
  <2> QED
    BY <1>2, <1>3, <2>2
<1>4. CASE k # 0
  <2>1. k \in Nat /\ k - 1 \in 0 .. Len(B) /\ k - 1 \notin T /\ k \in 1 .. Len(B)
    BY <1>2, <1>4
  <2>2. PICK g : Sums(B, k - 1, g) /\ g \in [0 .. k - 1 -> Nat]
    BY <2>1
  <2> DEFINE f == [n \in 0 .. k |-> IF n = k THEN g[k - 1] + Weight[B[k]] ELSE g[n]]
  <2>3. g[k - 1] + Weight[B[k]] \in Nat
    BY <2>1, <2>2, ChainsAssumption
  <2>4. f \in [0 .. k -> Nat]
    BY <2>1, <2>2, <2>3
  <2>5. ASSUME NEW n \in 0 .. k
        PROVE  f[n] = IF n = 0 THEN 0 ELSE f[n - 1] + Weight[B[n]]
    <3>1. CASE n = k
      BY <2>1, <3>1, <1>4
    <3>2. CASE n # k
      <4>1. n \in 0 .. k - 1 /\ (n # 0 => n - 1 \in 0 .. k - 1)
        BY <2>1, <3>2
      <4>2. g[n] = IF n = 0 THEN 0 ELSE g[n - 1] + Weight[B[n]]
        BY <2>2, <4>1 DEF Sums
      <4>3. f[n] = g[n] /\ (n # 0 => f[n - 1] = g[n - 1])
        BY <2>1, <3>2, <4>1
      <4> QED
        BY <4>2, <4>3
    <3> QED
      BY <3>1, <3>2
  <2>6. f = [n \in 0 .. k |-> f[n]]
    BY <2>4
  <2>7. Sums(B, k, f)
    <3> HIDE DEF f
    <3> QED
      BY <2>5, <2>6 DEF Sums
  <2>8. P(k)
    BY <2>4, <2>7
  <2> QED
    BY <1>2, <2>8
<1> QED
  BY <1>3, <1>4

\* A score is the last of such sums.
LEMMA ScoreSums ==
    ASSUME NEW B \in Seq(Blocks)
    PROVE  \E f \in [0 .. Len(B) -> Nat] :
              /\ f[0] = 0
              /\ \A n \in 1 .. Len(B) : f[n] = f[n - 1] + Weight[B[n]]
              /\ Score(B) = f[Len(B)]
<1> DEFINE m == Len(B)
           f == CHOOSE f : Sums(B, m, f)
<1>1. m \in Nat /\ m \in 0 .. m
  OBVIOUS
<1>2. Score(B) = f[m]
  BY DEF Score, Sums
<1>3. \E g : Sums(B, m, g)
  BY <1>1, SumsExist
<1>4. Sums(B, m, f)
  BY <1>3
<1> HIDE DEF f
<1>5. f = [n \in 0 .. m |-> IF n = 0 THEN 0 ELSE f[n - 1] + Weight[B[n]]]
  BY <1>4 DEF Sums
<1>6. f[0] = 0 /\ \A n \in 1 .. m : f[n] = f[n - 1] + Weight[B[n]]
  BY <1>1, <1>5
<1>7. \A n \in 0 .. m : f[n] \in Nat
  <2> DEFINE T == {n \in 0 .. m : f[n] \notin Nat}
  <2>1. SUFFICES ASSUME T # {} PROVE FALSE
    OBVIOUS
  <2>2. PICK n \in T : \A y \in T : n <= y
    <3>1. T \subseteq Nat
      OBVIOUS
    <3> HIDE DEF T
    <3> QED
      BY <2>1, <3>1, LeastNumber
  <2>3. n # 0 /\ n \in 1 .. m /\ n - 1 \in 0 .. m
    BY <1>1, <1>6, <2>2
  <2>4. f[n - 1] \in Nat
    BY <2>2, <2>3
  <2>5. Weight[B[n]] \in Nat
    BY <2>3, ChainsAssumption
  <2> QED
    BY <1>6, <2>2, <2>3, <2>4, <2>5
<1>8. f \in [0 .. m -> Nat]
  <2>1. f = [n \in 0 .. m |-> f[n]]
    BY <1>5
  <2> QED
    BY <1>7, <2>1
<1> QED
  BY <1>2, <1>6, <1>8

\* Scores add up.
LEMMA ScoreOfBoth ==
    ASSUME NEW A \in Seq(Blocks), NEW B \in Seq(Blocks)
    PROVE  Score(A \o B) = Score(A) + Score(B) /\ Score(A) \in Nat /\ Score(B) \in Nat
<1> DEFINE C == A \o B
           a == Len(A)
           b == Len(B)
<1>1. /\ C \in Seq(Blocks) /\ Len(C) = a + b /\ a \in Nat /\ b \in Nat
      /\ \A n \in 1 .. a : C[n] = A[n]
      /\ \A n \in 1 .. b : C[a + n] = B[n]
  OBVIOUS
<1>2. PICK f \in [0 .. a -> Nat] : /\ f[0] = 0
                                   /\ \A n \in 1 .. a : f[n] = f[n - 1] + Weight[A[n]]
                                   /\ Score(A) = f[a]
  BY ScoreSums
<1>3. PICK g \in [0 .. b -> Nat] : /\ g[0] = 0
                                   /\ \A n \in 1 .. b : g[n] = g[n - 1] + Weight[B[n]]
                                   /\ Score(B) = g[b]
  BY ScoreSums
<1> HIDE DEF C, a, b
<1>4. PICK h \in [0 .. a + b -> Nat] :
          /\ h[0] = 0
          /\ \A n \in 1 .. a + b : h[n] = h[n - 1] + Weight[C[n]]
          /\ Score(C) = h[a + b]
  BY <1>1, ScoreSums
<1>5. \A n \in 0 .. a : h[n] = f[n]
  <2> DEFINE T == {n \in 0 .. a : h[n] # f[n]}
  <2>1. SUFFICES ASSUME T # {} PROVE FALSE
    OBVIOUS
  <2>2. PICK n \in T : \A y \in T : n <= y
    <3>1. T \subseteq Nat
      BY <1>1
    <3> HIDE DEF T
    <3> QED
      BY <2>1, <3>1, LeastNumber
  <2>3. n # 0 /\ n \in 1 .. a /\ n - 1 \in 0 .. a /\ n \in 1 .. a + b
    BY <1>1, <1>2, <1>4, <2>2
  <2>4. h[n - 1] = f[n - 1]
    BY <2>2, <2>3
  <2>5. h[n] = h[n - 1] + Weight[C[n]] /\ f[n] = f[n - 1] + Weight[A[n]] /\ C[n] = A[n]
    BY <1>1, <1>2, <1>4, <2>3
  <2> QED
    BY <2>2, <2>4, <2>5
<1>6. \A n \in 0 .. b : h[a + n] = f[a] + g[n]
  <2> DEFINE T == {n \in 0 .. b : h[a + n] # f[a] + g[n]}
  <2>1. SUFFICES ASSUME T # {} PROVE FALSE
    OBVIOUS
  <2>2. PICK n \in T : \A y \in T : n <= y
    <3>1. T \subseteq Nat
      BY <1>1
    <3> HIDE DEF T
    <3> QED
      BY <2>1, <3>1, LeastNumber
  <2>3. h[a + 0] = f[a] + g[0]
    <3>1. a + 0 = a /\ a \in 0 .. a /\ f[a] \in Nat /\ g[0] = 0
      BY <1>1, <1>2, <1>3
    <3> QED
      BY <1>5, <3>1
  <2>4. n # 0
    BY <2>2, <2>3
  <2>4a. n \in 0 .. b /\ ~(h[a + n] = f[a] + g[n])
    BY <2>2
  <2>4b. \A y \in 0 .. b : ~(n <= y) => h[a + y] = f[a] + g[y]
    BY <2>2
  <2> HIDE DEF T
  <2>5. /\ n \in 1 .. b /\ n - 1 \in 0 .. b /\ a + n \in 1 .. a + b
        /\ (a + n) - 1 = a + (n - 1) /\ ~(n <= n - 1)
    BY <1>1, <2>4, <2>4a
  <2>6. h[a + (n - 1)] = f[a] + g[n - 1]
    BY <2>4b, <2>5
  <2>7. h[a + n] = h[a + (n - 1)] + Weight[B[n]]
    BY <1>1, <1>4, <2>5
  <2>8. g[n] = g[n - 1] + Weight[B[n]]
    BY <1>3, <2>5
  <2>9. f[a] \in Nat /\ g[n - 1] \in Nat
    <3>1. a \in 0 .. a
      BY <1>1
    <3> QED
      BY <2>5, <3>1
  <2>10. Weight[B[n]] \in Nat
    <3>1. B[n] \in Blocks
      BY <2>5 DEF b
    <3> QED
      BY <3>1, ChainsAssumption
  <2>11. ASSUME NEW x \in Nat, NEW y \in Nat, NEW z \in Nat
         PROVE  (x + y) + z = x + (y + z)
    OBVIOUS
  <2> QED
    BY <2>4a, <2>6, <2>7, <2>8, <2>9, <2>10, <2>11
<1>7. Score(C) = Score(A) + Score(B)
  <2>1. b \in 0 .. b
    BY <1>1
  <2> QED
    BY <1>2, <1>3, <1>4, <1>6, <2>1
<1>8. Score(A) \in Nat /\ Score(B) \in Nat
  <2>1. a \in 0 .. a /\ b \in 0 .. b
    BY <1>1
  <2> QED
    BY <1>2, <1>3, <2>1
<1> QED
  BY <1>7, <1>8 DEF C

\* A block has a positive score.
LEMMA ScoreOfOne ==
    ASSUME NEW b \in Blocks
    PROVE  Score(<<b>>) = Weight[b] /\ Weight[b] \in Nat \ {0}
<1>1. <<b>> \in Seq(Blocks) /\ Len(<<b>>) = 1 /\ <<b>>[1] = b
  OBVIOUS
<1>2. PICK f \in [0 .. 1 -> Nat] : /\ f[0] = 0
                                   /\ \A n \in 1 .. 1 : f[n] = f[n - 1] + Weight[<<b>>[n]]
                                   /\ Score(<<b>>) = f[1]
  BY <1>1, ScoreSums
<1>3. f[1] = f[0] + Weight[b]
  BY <1>1, <1>2
<1>4. Weight[b] \in Nat \ {0}
  BY ChainsAssumption
<1> QED
  BY <1>2, <1>3, <1>4

\* So have several.
LEMMA ScoreOfSome ==
    ASSUME NEW B \in Seq(Blocks), B # << >>
    PROVE  Score(B) \in Nat /\ Score(B) > 0
<1> DEFINE m == Len(B)
<1>1. PICK f \in [0 .. m -> Nat] : /\ f[0] = 0
                                   /\ \A n \in 1 .. m : f[n] = f[n - 1] + Weight[B[n]]
                                   /\ Score(B) = f[m]
  BY ScoreSums
<1>2. m \in 1 .. m /\ m - 1 \in 0 .. m /\ m \in Nat /\ B[m] \in Blocks
  OBVIOUS
<1>3. Weight[B[m]] \in Nat \ {0}
  BY <1>2, ChainsAssumption
<1> HIDE DEF m
<1>4. f[m] = f[m - 1] + Weight[B[m]] /\ f[m - 1] \in Nat
  BY <1>1, <1>2
<1> QED
  BY <1>1, <1>3, <1>4
\* What is left after a cut scores no more.
LEMMA ScoreOfPrefix ==
    ASSUME NEW C \in Seq(Blocks), NEW h \in 1 .. Len(C)
    PROVE  /\ Score(UpTo(C, h)) \in Nat /\ Score(C) \in Nat
           /\ Score(UpTo(C, h)) <= Score(C)
           /\ h # Len(C) => Score(UpTo(C, h)) < Score(C)
<1> DEFINE S == SubSeq(C, h + 1, Len(C))
           L == UpTo(C, h)
<1>1. L \in Seq(Blocks) /\ S \in Seq(Blocks) /\ L \o S = C
  BY Splits, CutFacts
<1>2. h = Len(C) => L = C
  BY CutFacts
<1>3. h # Len(C) => S # << >>
  BY Splits
<1> HIDE DEF S, L
<1>4. Score(C) = Score(L) + Score(S) /\ Score(L) \in Nat /\ Score(S) \in Nat
  BY <1>1, ScoreOfBoth
<1>5. h # Len(C) => Score(S) > 0
  BY <1>1, <1>3, ScoreOfSome
<1>6. Score(C) \in Nat /\ Score(L) <= Score(C) /\ (h # Len(C) => Score(L) < Score(C))
  BY <1>4, <1>5
<1> QED
  BY <1>4, <1>6 DEF L

-----------------------------------------------------------------------------
(* The steps that ForkChoice allows.                                       *)

\* C and L part at most MaxRollbackDelta blocks below the top of L.
Near(L, C) ==
    \E common \in 1 .. Len(L) :
        /\ common >= Len(L) - MaxRollbackDelta
        /\ common <= Len(C)
        /\ \A i \in 1 .. common : C[i] = L[i]

\* The ledger may go from L to C in one step.
Follows(L, C) ==
    \/ \E h \in 1 .. Len(L) : C = UpTo(L, h)
    \/ \E b \in Valid : /\ Parent[b] = Parent[Last(L)] /\ Weight[b] = Weight[Last(L)]
                        /\ C = Append(Front(L), b)
    \/ IsChain(C) /\ Score(C) > Score(L) /\ Near(L, C)

\* It may go to C or to what the API leaves of C.
AllCuts(L, C) == \A h \in 1 .. Len(C) : Follows(L, UpTo(C, h))

\* C is the lower part of L, and L of C and S.
Within(C, S, L) ==
    /\ Len(C) <= Len(L) /\ Len(L) <= Len(C) + Len(S)
    /\ L = UpTo(C \o S, Len(L))

LEMMA CutsFollow ==
    ASSUME NEW L \in Seq(Blocks), IsChain(L), NEW t \in 1 .. Len(L)
    PROVE  AllCuts(L, UpTo(L, t))
<1> DEFINE C == UpTo(L, t)
<1>1. Len(C) = t /\ \A h \in 1 .. t : UpTo(C, h) = UpTo(L, h)
  BY CutFacts
<1> HIDE DEF C
<1>2. \A h \in 1 .. t : h \in 1 .. Len(L)
  OBVIOUS
<1>3. \A h \in 1 .. Len(C) : Follows(L, UpTo(C, h))
  BY <1>1, <1>2 DEF Follows
<1> QED
  BY <1>3 DEF AllCuts, C

LEMMA SameFollows ==
    ASSUME NEW L \in Seq(Blocks), IsChain(L)
    PROVE  AllCuts(L, L) /\ Near(L, L) /\ Follows(L, L) /\ Score(L) \in Nat
<1>1. Len(L) \in 1 .. Len(L) /\ Len(L) \in Nat /\ UpTo(L, Len(L)) = L
  BY ChainFacts, CutFacts
<1>2. AllCuts(L, L)
  BY <1>1, CutsFollow
<1>3. Near(L, L)
  <2>1. Len(L) >= Len(L) - MaxRollbackDelta
    BY <1>1, BlocksApplierAssumption
  <2> QED
    BY <1>1, <2>1 DEF Near
<1>4. Follows(L, L)
  BY <1>1 DEF Follows
<1>5. Score(L) \in Nat
  BY <1>1, ScoreOfPrefix
<1> QED
  BY <1>2, <1>3, <1>4, <1>5

\* Whoever may go everywhere on C may go to C.
LEMMA CutsReach ==
    ASSUME NEW L \in Seq(Blocks), NEW C \in Seq(Blocks), IsChain(C), AllCuts(L, C)
    PROVE  Follows(L, C)
<1>1. Len(C) \in 1 .. Len(C) /\ UpTo(C, Len(C)) = C
  BY ChainFacts, CutFacts
<1> QED
  BY <1>1 DEF AllCuts

\* A longer chain that begins with the ledger.
LEMMA LongerFollows ==
    ASSUME NEW L \in Seq(Blocks), IsChain(L), NEW C \in Seq(Blocks), IsChain(C),
           Len(L) <= Len(C), L = UpTo(C, Len(L))
    PROVE  AllCuts(L, C) /\ Near(L, C) /\ Score(C) >= Score(L)
<1> DEFINE n == Len(L)
<1>1. n \in Nat /\ n >= 1 /\ Len(C) \in Nat /\ n <= Len(C) /\ n \in 1 .. Len(C)
  BY ChainFacts
<1>2. L = UpTo(C, n)
  OBVIOUS
<1>3. \A i \in 1 .. n : L[i] = C[i]
  BY <1>1, <1>2, CutFacts
<1>4. Score(L) \in Nat /\ Score(C) \in Nat /\ Score(L) <= Score(C)
  BY <1>1, <1>2, ScoreOfPrefix
<1>5. Near(L, C)
  <2>1. n \in 1 .. n /\ n >= n - MaxRollbackDelta /\ n <= Len(C)
    BY <1>1, BlocksApplierAssumption
  <2> QED
    BY <1>3, <2>1 DEF Near
<1>6. ASSUME NEW h \in 1 .. Len(C) PROVE Follows(L, UpTo(C, h))
  <2>1. CASE h <= n
    <3>1. h \in 1 .. n
      BY <1>1, <2>1
    <3>2. UpTo(L, h) = UpTo(C, h)
      BY <1>1, <1>2, <3>1, CutFacts
    <3> QED
      BY <3>1, <3>2 DEF Follows
  <2>2. CASE h > n
    <3> DEFINE D == UpTo(C, h)
    <3>1. D \in Seq(Blocks) /\ Len(D) = h /\ IsChain(D)
      BY PrefixIsChain
    <3>2. n \in 1 .. h /\ UpTo(D, n) = L /\ \A i \in 1 .. n : D[i] = L[i]
      <4>1. n \in 1 .. h /\ \A i \in 1 .. n : i \in 1 .. h
        BY <1>1, <2>2
      <4>2. UpTo(D, n) = UpTo(C, n) /\ \A i \in 1 .. h : D[i] = C[i]
        BY <4>1, CutFacts
      <4> QED
        BY <1>2, <1>3, <4>1, <4>2
    <3> HIDE DEF D
    <3>3. Score(L) < Score(D)
      BY <1>1, <2>2, <3>1, <3>2, ScoreOfPrefix
    <3>4. Near(L, D)
      <4>1. n \in 1 .. n /\ n >= n - MaxRollbackDelta /\ n <= Len(D)
        BY <1>1, <2>2, <3>1, BlocksApplierAssumption
      <4> QED
        BY <3>2, <4>1 DEF Near
    <3>5. Score(L) \in Nat /\ Score(D) \in Nat
      BY <1>4, <3>1, <3>2, ScoreOfPrefix
    <3>6. Follows(L, D)
      BY <3>1, <3>3, <3>4, <3>5 DEF Follows
    <3> QED
      BY <3>6 DEF D
  <2> QED
    BY <1>1, <2>1, <2>2
<1> QED
  BY <1>4, <1>5, <1>6 DEF AllCuts

\* A chain and its last block.
LEMMA LastSplits ==
    ASSUME NEW L \in Seq(Blocks), Len(L) >= 2
    PROVE  /\ Front(L) \in Seq(Blocks) /\ Len(Front(L)) = Len(L) - 1
           /\ Front(L) = UpTo(L, Len(L) - 1) /\ Len(L) - 1 \in 1 .. Len(L)
           /\ Last(L) = L[Len(L)] /\ Last(L) \in Blocks
           /\ \A i \in 1 .. Len(L) - 1 : Front(L)[i] = L[i]
           /\ Front(L) \o <<Last(L)>> = L
           /\ Score(L) = Score(Front(L)) + Weight[Last(L)]
<1> DEFINE n == Len(L)
<1>1. n \in Nat /\ n >= 2 /\ n - 1 \in 1 .. n /\ n - 1 \in Nat
  OBVIOUS
<1>2. Front(L) = UpTo(L, n - 1)
  BY DEF Front, UpTo
<1>3. /\ Front(L) \in Seq(Blocks) /\ Len(Front(L)) = n - 1
      /\ \A i \in 1 .. n - 1 : Front(L)[i] = L[i]
  BY <1>1, <1>2, CutFacts
<1>4. Last(L) = L[n] /\ Last(L) \in Blocks
  BY DEF Last
<1>5. Front(L) \o SubSeq(L, (n - 1) + 1, n) = L /\ SubSeq(L, (n - 1) + 1, n) = <<L[n]>>
  BY <1>1, <1>2, Splits
<1>6. Front(L) \o <<Last(L)>> = L
  BY <1>4, <1>5
<1>7. <<Last(L)>> \in Seq(Blocks)
  BY <1>4
<1>8. Score(L) = Score(Front(L)) + Score(<<Last(L)>>)
  BY <1>3, <1>6, <1>7, ScoreOfBoth
<1> QED
  BY <1>1, <1>2, <1>3, <1>4, <1>6, <1>8, ScoreOfOne

\* Another version of the last block.
LEMMA SwapFollows ==
    ASSUME NEW L \in Seq(Blocks), IsChain(L), Len(L) >= 2,
           NEW c \in Valid, Parent[c] = Parent[Last(L)], Weight[c] = Weight[Last(L)]
    PROVE  LET C == Front(L) \o <<c>>
           IN AllCuts(L, C) /\ Near(L, C) /\ Score(C) = Score(L) /\ Score(L) \in Nat
<1> DEFINE F == Front(L)
           C == F \o <<c>>
           n == Len(L)
<1>0. c \in Blocks /\ <<c>> \in Seq(Blocks) /\ Len(<<c>>) = 1
  BY ChainsAssumption
<1>1. /\ F \in Seq(Blocks) /\ Len(F) = n - 1 /\ F = UpTo(L, n - 1) /\ n - 1 \in 1 .. n
      /\ \A i \in 1 .. n - 1 : F[i] = L[i]
      /\ Score(L) = Score(F) + Weight[Last(L)]
  BY LastSplits
<1>1a. n \in Nat /\ n >= 2
  OBVIOUS
<1> HIDE DEF F, n
<1>2. /\ C \in Seq(Blocks) /\ Len(C) = n
      /\ \A i \in 1 .. n - 1 : C[i] = L[i]
  <2>1. /\ C \in Seq(Blocks) /\ Len(C) = Len(F) + 1
        /\ \A i \in 1 .. Len(F) : C[i] = F[i]
    BY <1>0, <1>1, Concatenated
  <2> QED
    BY <1>1, <1>1a, <2>1
<1>3. Score(C) = Score(F) + Weight[c] /\ Score(F) \in Nat /\ Weight[c] \in Nat
  BY <1>0, <1>1, ScoreOfBoth, ScoreOfOne
<1>4. C = Append(F, c)
  BY <1>0, <1>1
<1> HIDE DEF C
<1>5. Near(L, C)
  <2>1. n - 1 \in 1 .. Len(L) /\ n - 1 >= Len(L) - MaxRollbackDelta /\ n - 1 <= Len(C)
    BY <1>1, <1>1a, <1>2, BlocksApplierAssumption DEF n
  <2> QED
    BY <1>2, <2>1 DEF Near
<1>6. ASSUME NEW h \in 1 .. Len(C) PROVE Follows(L, UpTo(C, h))
  <2>1. CASE h = n
    <3>1. UpTo(C, h) = C
      BY <1>2, <2>1, CutFacts
    <3> QED
      BY <1>4, <3>1 DEF Follows, F
  <2>2. CASE h # n
    <3>1. h \in 1 .. n - 1 /\ h \in 1 .. Len(L)
      BY <1>1, <1>1a, <1>2, <2>2 DEF n
    <3>2. /\ UpTo(C, h) \in Seq(Blocks) /\ Len(UpTo(C, h)) = h
          /\ \A i \in 1 .. h : UpTo(C, h)[i] = C[i]
          /\ UpTo(L, h) \in Seq(Blocks) /\ Len(UpTo(L, h)) = h
          /\ \A i \in 1 .. h : UpTo(L, h)[i] = L[i]
      BY <1>2, <3>1, CutFacts
    <3>3. \A i \in 1 .. h : i \in 1 .. n - 1
      BY <1>1, <1>1a, <3>1
    <3>4. \A i \in 1 .. h : UpTo(C, h)[i] = UpTo(L, h)[i]
      BY <1>2, <3>2, <3>3
    <3>5. UpTo(C, h) = UpTo(L, h)
      BY <3>2, <3>4, SameBlocks
    <3> QED
      BY <3>1, <3>5 DEF Follows
  <2> QED
    BY <2>1, <2>2
<1> QED
  BY <1>1, <1>3, <1>5, <1>6 DEF AllCuts, C, F

\* Blocks on top of C that score more than the ledger.
LEMMA HigherFollows ==
    ASSUME NEW L \in Seq(Blocks), IsChain(L), NEW C \in Seq(Blocks),
           NEW B \in Seq(Blocks), IsChain(C \o B), Near(L, C),
           Score(C) + Score(B) > Score(L)
    PROVE  Follows(L, C \o B)
<1>1. PICK common \in 1 .. Len(L) : /\ common >= Len(L) - MaxRollbackDelta
                                    /\ common <= Len(C)
                                    /\ \A i \in 1 .. common : C[i] = L[i]
  BY DEF Near
<1> DEFINE D == C \o B
<1>2. /\ Len(D) = Len(C) + Len(B) /\ Len(C) \in Nat /\ Len(B) \in Nat
      /\ \A i \in 1 .. Len(C) : D[i] = C[i]
  BY Concatenated
<1>3. Score(D) = Score(C) + Score(B)
  BY ScoreOfBoth
<1> HIDE DEF D
<1>4. common \in Nat /\ common <= Len(D) /\ \A i \in 1 .. common : i \in 1 .. Len(C)
  BY <1>1, <1>2
<1>5. \A i \in 1 .. common : D[i] = L[i]
  BY <1>1, <1>2, <1>4
<1>6. Near(L, D)
  BY <1>1, <1>4, <1>5 DEF Near
<1> QED
  BY <1>3, <1>6 DEF Follows, D

\* One block more.
LEMMA OneMoreFollows ==
    ASSUME NEW L \in Seq(Blocks), NEW C \in Seq(Blocks), NEW b \in Blocks,
           AllCuts(L, C), Follows(L, C \o <<b>>)
    PROVE  AllCuts(L, C \o <<b>>)
<1> DEFINE D == C \o <<b>>
<1>0. <<b>> \in Seq(Blocks) /\ Len(<<b>>) = 1
  OBVIOUS
<1>1. /\ D \in Seq(Blocks) /\ Len(D) = Len(C) + 1 /\ Len(C) \in Nat
      /\ \A i \in 1 .. Len(C) : D[i] = C[i]
  BY <1>0, Concatenated
<1> HIDE DEF D
<1>2. ASSUME NEW h \in 1 .. Len(D) PROVE Follows(L, UpTo(D, h))
  <2>1. CASE h = Len(D)
    <3>1. UpTo(D, h) = D
      BY <1>1, <2>1, CutFacts
    <3> QED
      BY <3>1 DEF D
  <2>2. CASE h # Len(D)
    <3>1. h \in 1 .. Len(C) /\ \A i \in 1 .. h : i \in 1 .. Len(C)
      BY <1>1, <2>2
    <3>2. /\ UpTo(C, h) \in Seq(Blocks) /\ Len(UpTo(C, h)) = h
          /\ \A i \in 1 .. h : UpTo(C, h)[i] = C[i]
          /\ UpTo(D, h) \in Seq(Blocks) /\ Len(UpTo(D, h)) = h
          /\ \A i \in 1 .. h : UpTo(D, h)[i] = D[i]
      BY <1>1, <3>1, CutFacts
    <3>3. \A i \in 1 .. h : UpTo(D, h)[i] = UpTo(C, h)[i]
      BY <1>1, <3>1, <3>2
    <3>4. UpTo(D, h) = UpTo(C, h)
      BY <3>2, <3>3, SameBlocks
    <3> QED
      BY <3>1, <3>4 DEF AllCuts
  <2> QED
    BY <2>1, <2>2
<1> QED
  BY <1>2 DEF AllCuts, D

\* What ForkChoice needs to know of a handler at work: where it may stop, and that the
\* blocks it is going to add outscore the ledger it started from.
ForkInv ==
    pc # "idle" =>
        /\ kind \in Exclusive /\ pc \in {"check", "rollback", "add", "restore", "applied"}
              => held = "handler"
        /\ pc # "applied" \/ kind \notin Exclusive => AllCuts(before, chain)
        /\ pc = "applied" => Follows(before, chain)
        /\ pc = "cachedApply" /\ chain # before => Weight[Parent[First]] = Weight[Last(before)]
        /\ pc \in {"snapshot", "check"} \/ (pc = "add" /\ saved = << >>) =>
              Near(before, chain) /\ Score(chain) >= Score(before)
        /\ pc = "rollback" /\ target <= Len(chain) =>
              /\ Within(UpTo(chain, target), saved, before)
              /\ kind \notin Micro => Score(UpTo(chain, target)) + Score(batch) > Score(before)
        /\ pc \in {"add", "restore"} /\ saved # << >> =>
              /\ Within(chain, saved, before)
              /\ kind \notin Micro => Score(chain) + Score(batch) > Score(before)

\* What is known of the ledger and of the request.
LEMMA LedgerFacts ==
    ASSUME LedgerInv
    PROVE  /\ chain \in Seq(Blocks) /\ IsChain(chain) /\ Len(chain) \in Nat
           /\ before \in Seq(Blocks) /\ Len(before) \in Nat
           /\ saved \in Seq(Blocks) /\ target \in Nat
           /\ batch \in Seq(Blocks) /\ (pc # "idle" => batch # << >>)
           /\ AllCuts(chain, chain) /\ Near(chain, chain) /\ Follows(chain, chain)
           /\ Score(chain) \in Nat
<1>1. chain \in Seq(Blocks) /\ IsChain(chain)
  BY DEF LedgerInv, StoredInv
<1>2. /\ before \in Seq(Blocks) /\ saved \in Seq(Blocks) /\ target \in Nat
      /\ batch \in Seq(Blocks) /\ (pc # "idle" => batch # << >>)
  BY DEF LedgerInv, VolatileInv, RequestOK, Busy
<1> QED
  BY <1>1, <1>2, SameFollows

LEMMA ForkQuiet ==
    ASSUME LedgerInv, WorkInv, ForkInv,
           Exists \/ Snapshot \/ MicroTop \/ Lock \/ CheckRefuses \/ StorageFails
    PROVE  ForkInv'
<1>1. UNCHANGED <<chain, kind, batch, saved, target, before>>
  BY DEF Exists, Snapshot, MicroTop, Lock, CheckRefuses, StorageFails, stored,
         request, plan
<1>2. Moves /\ (pc = "lock" => held' = "handler") /\ (pc # "lock" => held' = held)
  <2>1. ASSUME Exists PROVE Moves /\ pc # "lock" /\ held' = held
    BY <2>1 DEF Exists, Moves, Goto, First
  <2>2. ASSUME Snapshot PROVE Moves /\ pc # "lock" /\ held' = held
    BY <2>2 DEF Snapshot, Moves, Goto
  <2>3. ASSUME MicroTop PROVE Moves /\ pc # "lock" /\ held' = held
    BY <2>3 DEF MicroTop, Moves, Goto, First
  <2>4. ASSUME Lock PROVE Moves /\ held' = "handler" /\ pc = "lock"
    BY <2>4 DEF Lock, Moves, Goto
  <2>5. ASSUME CheckRefuses PROVE Moves /\ pc # "lock" /\ held' = held
    BY <2>5 DEF CheckRefuses, Moves, Goto
  <2>6. ASSUME StorageFails PROVE Moves /\ pc # "lock" /\ held' = held
    BY <2>6 DEF StorageFails, Moves, Goto, AfterFailedAdd, Writing
  <2> QED
    BY <2>1, <2>2, <2>3, <2>4, <2>5, <2>6
<1>3. pc # "idle" /\ pc # "applied" /\ pc' \notin {"idle", "applied", "cachedApply", "rollback", "add"}
  BY <1>2 DEF Moves, Writing
<1>4. kind \in Exclusive /\ pc' \in {"check", "restore"} => held' = "handler"
  <2>1. pc \in {"exists", "snapshot"} /\ pc' = "check" => kind = "block"
    BY <1>2 DEF WorkInv, HandlerInv, Moves, Writing
  <2>2. "block" \notin Exclusive
    BY DEF Exclusive, Micro
  <2> QED
    BY <1>2, <1>3, <2>1, <2>2 DEF ForkInv, Moves, Writing
<1>5. AllCuts(before, chain)
  BY <1>3 DEF ForkInv
<1>6. pc' \in {"snapshot", "check"} => Near(before, chain) /\ Score(chain) >= Score(before)
  <2>1. pc' \in {"snapshot", "check"} => pc \in {"exists", "snapshot", "lock"}
    BY <1>2 DEF Moves, Writing
  <2>2. pc \in {"exists", "lock"} => chain = before
    BY <1>3 DEF WorkInv, HistoryInv
  <2>3. chain = before => Near(before, chain) /\ Score(chain) >= Score(before)
    BY LedgerFacts
  <2> QED
    BY <1>3, <2>1, <2>2, <2>3 DEF ForkInv
<1>7. pc' = "restore" => pc = "add"
  BY <1>2 DEF Moves, Writing
<1> QED
  BY <1>1, <1>3, <1>4, <1>5, <1>6, <1>7 DEF ForkInv

\* A handler starts: nothing has happened to the ledger.
LEMMA ForkBegin ==
    ASSUME LedgerInv, Begin
    PROVE  ForkInv'
<1>1. ASSUME NEW k, NEW bs, NEW step \in {"lock", "check", "exists", "snapshot", "top"},
             Start(k, bs, step), step = "check" => k \notin Exclusive
      PROVE  ForkInv'
  <2>1. pc' = step /\ before' = chain /\ chain' = chain /\ kind' = k
    BY <1>1 DEF Start, Goto, stored
  <2>2. AllCuts(chain, chain) /\ Near(chain, chain) /\ Score(chain) >= Score(chain)
    BY LedgerFacts
  <2> QED
    BY <1>1, <2>1, <2>2 DEF ForkInv
<1>2. "minedInSync" \notin Exclusive
  BY DEF Exclusive, Micro
<1> QED
  BY <1>1, <1>2 DEF Begin, SyncBatch, MinedBlock, MinedBlockInSync, Block, MicroBlock, MineMicro

\* The API leaves a part of the ledger, which is the one the handler goes on from.
LEMMA ForkApi ==
    ASSUME LedgerInv, LedgerInv', WorkInv, ForkInv, ApiRollback
    PROVE  ForkInv'
<1> SUFFICES ASSUME pc' # "idle" PROVE ForkInv'
  BY DEF ForkInv
<1>1. PICK h \in RollbackHeights : Rollback(h)
  BY DEF ApiRollback
<1>2. h \in 1 .. Len(chain)
  BY DEF LedgerInv, StoredInv, RollbackHeights
<1>3. /\ chain' = UpTo(chain, h) /\ before' = chain' /\ pc # "idle"
      /\ UNCHANGED <<pc, kind, batch, saved, target>> /\ held = "api"
  BY <1>1 DEF ApiRollback, Rollback, request, plan
<1>4. ~(kind \in Exclusive /\ pc \in {"check", "rollback", "add", "restore", "applied"})
  BY <1>3 DEF ForkInv
<1>5. /\ AllCuts(chain', chain') /\ Near(chain', chain') /\ Follows(chain', chain')
      /\ Score(chain') \in Nat /\ chain' \in Seq(Blocks) /\ IsChain(chain')
      /\ Len(chain') \in Nat
  <2>1. chain' \in Seq(Blocks) /\ IsChain(chain')
    BY <1>2, <1>3, LedgerFacts, PrefixIsChain
  <2> QED
    BY <2>1, SameFollows
<1>6. Score(chain') >= Score(chain')
  BY <1>5
<1>7. /\ chain \in Seq(Blocks) /\ saved \in Seq(Blocks) /\ batch \in Seq(Blocks)
      /\ batch # << >> /\ Len(chain) \in Nat /\ target \in Nat
  BY <1>3, LedgerFacts
<1>8. Score(batch) \in Nat /\ Score(batch) > 0
  BY <1>7, ScoreOfSome
<1>9. Score(chain') + Score(batch) > Score(chain')
  BY <1>5, <1>8
<1>10. Within(chain', saved, chain')
  <2>1. /\ chain' \o saved \in Seq(Blocks) /\ Len(chain' \o saved) = Len(chain') + Len(saved)
        /\ Len(saved) \in Nat
        /\ \A i \in 1 .. Len(chain') : (chain' \o saved)[i] = chain'[i]
    BY <1>5, <1>7, Concatenated
  <2>2. Len(chain') \in 1 .. Len(chain' \o saved)
    BY <1>2, <1>3, <1>5, <1>7, <2>1, CutFacts
  <2> DEFINE W == chain' \o saved
  <2> HIDE DEF W
  <2>3. W \in Seq(Blocks) /\ Len(chain') \in 1 .. Len(W)
    BY <2>1, <2>2 DEF W
  <2>4. /\ UpTo(W, Len(chain')) \in Seq(Blocks) /\ Len(UpTo(W, Len(chain'))) = Len(chain')
        /\ \A i \in 1 .. Len(chain') : UpTo(W, Len(chain'))[i] = W[i]
    BY <2>3, CutFacts
  <2>5. UpTo(W, Len(chain')) = chain'
    BY <1>5, <2>1, <2>4, SameBlocks DEF W
  <2> QED
    BY <1>5, <2>1, <2>5 DEF Within, W
<1>11. ASSUME pc = "rollback", target <= Len(chain')
       PROVE  /\ Within(UpTo(chain', target), saved, chain')
              /\ kind \notin Micro => Score(UpTo(chain', target)) + Score(batch) > Score(chain')
  <2> DEFINE C == UpTo(chain, target)
  <2>1. target \in 1 .. h /\ Len(chain') = h /\ h \in Nat /\ h <= Len(chain)
    <3>1. target >= 1 /\ Len(chain') = h
      BY <1>2, <1>3, <1>7, <1>11, CutFacts DEF WorkInv, PlanInv
    <3> QED
      BY <1>2, <1>7, <1>11, <3>1
  <2>2. UpTo(chain', target) = C
    BY <1>2, <1>3, <1>7, <2>1, CutFacts
  <2>3. chain = before
    BY <1>11 DEF WorkInv, HistoryInv
  <2>4. target <= Len(chain) /\ target \in 1 .. Len(chain)
    BY <1>7, <2>1
  <2>5. /\ Within(C, saved, chain)
        /\ kind \notin Micro => Score(C) + Score(batch) > Score(chain)
    BY <1>3, <1>11, <2>3, <2>4 DEF ForkInv
  <2>6. C \in Seq(Blocks) /\ Len(C) = target /\ Score(C) \in Nat
    BY <1>7, <2>4, CutFacts, ScoreOfPrefix
  <2> HIDE DEF C
  <2>7. Score(chain) \in Nat /\ Score(chain') <= Score(chain)
    BY <1>2, <1>3, <1>7, ScoreOfPrefix
  <2>8. kind \notin Micro => Score(C) + Score(batch) > Score(chain')
    BY <1>5, <1>8, <2>5, <2>6, <2>7
  <2> DEFINE W == C \o saved
  <2>9. W \in Seq(Blocks) /\ Len(W) = target + Len(saved) /\ Len(saved) \in Nat
    BY <1>7, <2>6, Concatenated
  <2>10. Len(chain) <= Len(W) /\ chain = UpTo(W, Len(chain))
    BY <2>5, <2>6, <2>9 DEF Within
  <2> HIDE DEF W
  <2>11. Len(chain) \in 1 .. Len(W) /\ h \in 1 .. Len(chain)
    BY <1>2, <1>7, <2>4, <2>9, <2>10
  <2>12. UpTo(UpTo(W, Len(chain)), h) = UpTo(W, h)
    BY <2>9, <2>11, CutFacts
  <2>13. chain' = UpTo(W, h)
    BY <1>3, <2>10, <2>12
  <2>14. h <= target + Len(saved)
    BY <1>7, <2>1, <2>4, <2>9, <2>10
  <2>15. Within(C, saved, chain')
    <3>1. target <= h
      BY <2>1
    <3> QED
      BY <2>1, <2>6, <2>13, <2>14, <3>1 DEF Within, W
  <2> QED
    BY <2>2, <2>8, <2>15
<1> QED
  BY <1>3, <1>4, <1>5, <1>6, <1>9, <1>10, <1>11 DEF ForkInv

LEMMA ForkCachedRollback ==
    ASSUME LedgerInv, WorkInv, ForkInv, CachedRollback
    PROVE  ForkInv'
<1> DEFINE c == Parent[First]
           edge == Parent[c]
           h == HeightOf(edge)
           n == Len(chain)
<1>1. /\ pc = "cachedRollback" /\ kind = "block" /\ chain = before
      /\ UNCHANGED <<kind, batch, before>> /\ First' = First
      /\ CacheFits(chain, cache) /\ c \in cache
  BY DEF CachedRollback, request, WorkInv, HandlerInv, HistoryInv, CacheInv,
         CachedWithSnapshot, First
<1>2. "block" \notin Exclusive
  BY DEF Exclusive, Micro
<1>3. \/ InChain(edge) /\ chain' = UpTo(chain, h) /\ pc' = "cachedApply"
      \/ pc' = "refused" /\ chain' = chain
  BY DEF CachedRollback, Rollback, Goto, First, stored
<1>4. CASE pc' = "refused" /\ chain' = chain
  BY <1>1, <1>2, <1>4 DEF ForkInv
<1>5. CASE InChain(edge) /\ chain' = UpTo(chain, h) /\ pc' = "cachedApply"
  <2>1. h \in 1 .. n /\ chain[h] = edge
    BY <1>5, HeightFacts
  <2>2. AllCuts(chain, chain')
    BY <1>5, <2>1, CutsFollow, LedgerFacts
  <2>3. ASSUME chain' # chain PROVE Weight[c] = Weight[Last(chain)]
    <3>1. h # n /\ n \in Nat
      BY <1>5, <2>1, <2>3, CutFacts, LedgerFacts
    <3>2. h >= n - 1
      BY <1>1, <2>1 DEF CacheFits, Shallow
    <3>3. h = n - 1 /\ h \in 1 .. n - 1 /\ h + 1 = n
      BY <2>1, <3>1, <3>2
    <3>4. Weight[chain[h + 1]] = Weight[c]
      BY <1>1, <2>1, <3>3 DEF CacheFits, SameWeight
    <3> QED
      BY <3>3, <3>4 DEF Last
  <2> QED
    BY <1>1, <1>2, <1>5, <2>2, <2>3 DEF ForkInv
<1> QED
  BY <1>3, <1>4, <1>5

LEMMA ForkCachedApply ==
    ASSUME LedgerInv, WorkInv, ForkInv, CachedApply
    PROVE  ForkInv'
<1> DEFINE c == Parent[First]
<1>1. /\ pc = "cachedApply" /\ kind = "block"
      /\ UNCHANGED <<kind, batch, before>> /\ First' = First
      /\ chain = before \/ chain = Front(before)
      /\ chain # before => Weight[c] = Weight[Last(before)]
      /\ AllCuts(before, chain) /\ IsChain(before)
  BY DEF CachedApply, request, WorkInv, HandlerInv, HistoryInv, ForkInv, First
<1>2. "block" \notin Exclusive
  BY DEF Exclusive, Micro
<1>3. \/ /\ CanAdd(<<c>>) /\ chain' = chain \o <<c>>
         /\ pc' \in {"snapshot", "check"}
      \/ pc' = "refused" /\ chain' = chain
  BY DEF CachedApply, AddBlocks, Goto, First, stored
<1>4. CASE pc' = "refused" /\ chain' = chain
  BY <1>1, <1>2, <1>4 DEF ForkInv
<1>5. CASE CanAdd(<<c>>) /\ chain' = chain \o <<c>> /\ pc' \in {"snapshot", "check"}
  <2>1. Parent[c] = Last(chain) /\ c \in Valid
    BY <1>5 DEF CanAdd, Linked, Top, Range
  <2>2. /\ chain \in Seq(Blocks) /\ IsChain(chain) /\ Len(chain) \in Nat
        /\ before \in Seq(Blocks)
    BY LedgerFacts
  <2>3. /\ chain' \in Seq(Blocks) /\ IsChain(chain') /\ Len(chain') = Len(chain) + 1
        /\ \A i \in 1 .. Len(chain) : chain'[i] = chain[i]
    BY <1>5, <2>1, <2>2, Appended
  <2>4. AllCuts(before, chain') /\ Near(before, chain') /\ Score(chain') >= Score(before)
    <3>1. CASE chain = before
      <4>1. Len(chain) \in 1 .. Len(chain')
        BY <2>2, <2>3, ChainFacts
      <4>2. /\ UpTo(chain', Len(chain)) \in Seq(Blocks)
            /\ Len(UpTo(chain', Len(chain))) = Len(chain)
            /\ \A i \in 1 .. Len(chain) : UpTo(chain', Len(chain))[i] = chain'[i]
        BY <2>3, <4>1, CutFacts
      <4>3. UpTo(chain', Len(chain)) = chain
        BY <2>2, <2>3, <4>2, SameBlocks
      <4>4. Len(chain) <= Len(chain')
        BY <2>2, <2>3
      <4> QED
        BY <2>2, <2>3, <3>1, <4>3, <4>4, LongerFollows
    <3>2. CASE chain # before
      <4>1. chain = Front(before) /\ Weight[c] = Weight[Last(before)]
        BY <1>1, <3>2
      <4>2. Len(before) >= 2 /\ Len(before) \in Nat
        <5>1. Len(before) \in Nat /\ Len(before) >= 1
          BY <1>1, <2>2, ChainFacts
        <5>2. Len(chain) >= 1
          BY <2>2, ChainFacts
        <5>3. Len(before) # 1
          BY <2>2, <4>1, <5>2 DEF Front
        <5>4. \A m \in Nat : m >= 1 /\ m # 1 => m >= 2
          OBVIOUS
        <5> QED
          BY <5>1, <5>3, <5>4, Zenon
      <4>3. /\ Len(before) - 1 \in 1 .. Len(before) /\ Len(chain) = Len(before) - 1
            /\ Last(before) = before[Len(before)]
            /\ \A i \in 1 .. Len(before) - 1 : chain[i] = before[i]
        BY <2>2, <4>1, <4>2, LastSplits
      <4>4. Last(chain) = before[Len(before) - 1]
        <5>1. Len(chain) \in 1 .. Len(before) - 1
          BY <4>2, <4>3
        <5> QED
          BY <4>3, <5>1 DEF Last
      <4>5. Parent[Last(before)] = before[Len(before) - 1]
        <5>1. Len(before) \in 2 .. Len(before)
          BY <4>2
        <5> QED
          BY <1>1, <2>2, <4>3, <5>1, ChainFacts
      <4>6. Parent[c] = Parent[Last(before)]
        BY <2>1, <4>4, <4>5
      <4>7. /\ AllCuts(before, Front(before) \o <<c>>) /\ Near(before, Front(before) \o <<c>>)
            /\ Score(Front(before) \o <<c>>) = Score(before) /\ Score(before) \in Nat
        BY <1>1, <2>1, <2>2, <4>1, <4>2, <4>6, SwapFollows
      <4>8. chain' = Front(before) \o <<c>>
        BY <1>5, <4>1
      <4>9. Score(chain') = Score(before) /\ Score(before) \in Nat
        BY <4>7, <4>8
      <4>10. Score(chain') >= Score(before)
        BY <4>9
      <4> QED
        BY <4>7, <4>8, <4>10
    <3> QED
      BY <3>1, <3>2
  <2> QED
    BY <1>1, <1>2, <1>5, <2>4 DEF ForkInv
<1> QED
  BY <1>3, <1>4, <1>5

\* The blocks are accepted: they outscore what they replace.
LEMMA ForkCheck ==
    ASSUME LedgerInv, WorkInv, WorkInv', ForkInv, CheckAccepts
    PROVE  ForkInv'
<1> DEFINE n == Len(chain)
           h == HeightOf(Parent[First])
<1>1. /\ pc = "check" /\ Accepts /\ target' = h
      /\ saved' = SubSeq(chain, h + 1, n)
      /\ pc' = IF h = n THEN "add" ELSE "rollback"
      /\ UNCHANGED <<chain, kind, batch, before, held>>
  BY DEF CheckAccepts, RollbackBlocks, Goto, First, stored, request
<1>2. /\ kind \in Exclusive => held = "handler"
      /\ AllCuts(before, chain)
      /\ Near(before, chain) /\ Score(chain) >= Score(before)
  BY <1>1 DEF ForkInv
<1>3. /\ InChain(Parent[First])
      /\ kind \notin Micro => Score(chain) < Score(UpTo(chain, h)) + Score(batch)
  BY <1>1 DEF Accepts, ReplacesTop, HigherScore, DeltaHeight, First
<1>4. h \in 1 .. n
  BY <1>3, HeightFacts
<1>5. chain \in Seq(Blocks) /\ IsChain(chain) /\ n \in Nat /\ batch \in Seq(Blocks)
  BY LedgerFacts
<1>6. CASE h = n
  <2>1. saved' = << >>
    BY <1>1, <1>4, <1>5, <1>6, Splits
  <2> QED
    BY <1>1, <1>2, <1>6, <2>1 DEF ForkInv
<1>7. CASE h # n
  <2> DEFINE C == UpTo(chain, h)
  <2>1. saved' # << >> /\ saved' \in Seq(Blocks) /\ C \o saved' = chain
    BY <1>1, <1>4, <1>5, <1>7, Splits
  <2>2. C \in Seq(Blocks) /\ Len(C) = h /\ UpTo(chain, n) = chain
    BY <1>4, <1>5, CutFacts
  <2>3. n = h + Len(saved') /\ Len(saved') \in Nat
    BY <2>1, <2>2, Concatenated
  <2>4. chain = before
    BY <1>1, <1>7 DEF WorkInv, HistoryInv
  <2> HIDE DEF C
  <2>5. Len(C) <= Len(chain) /\ Len(chain) <= Len(C) + Len(saved')
    BY <1>4, <1>5, <2>2, <2>3
  <2>6. Within(C, saved', chain)
    BY <2>1, <2>2, <2>5 DEF Within, n
  <2>7. kind \notin Micro => Score(C) + Score(batch) > Score(chain)
    <3> SUFFICES ASSUME kind \notin Micro PROVE Score(C) + Score(batch) > Score(chain)
      OBVIOUS
    <3>1. Score(chain) < Score(C) + Score(batch)
      BY <1>3 DEF C
    <3>2. Score(C) \in Nat /\ Score(batch) \in Nat /\ Score(chain) \in Nat
      BY <1>5, <2>2, ScoreOfBoth
    <3> QED
      BY <3>1, <3>2
  <2>8. UpTo(chain', target') = C /\ pc' = "rollback"
    BY <1>1, <1>7 DEF C
  <2> QED
    BY <1>1, <1>2, <2>4, <2>6, <2>7, <2>8 DEF ForkInv
<1> QED
  BY <1>6, <1>7

LEMMA ForkRollback ==
    ASSUME LedgerInv, WorkInv, ForkInv, RollbackToHeight
    PROVE  ForkInv'
<1>1. /\ pc = "rollback" /\ chain = before /\ saved # << >>
      /\ UNCHANGED <<kind, batch, saved, target, before, held>>
  BY DEF RollbackToHeight, request, plan, WorkInv, HistoryInv, PlanInv
<1>2. \/ target \in RollbackHeights /\ chain' = UpTo(chain, target) /\ pc' = "add"
      \/ pc' = "refused" /\ chain' = chain
  BY DEF RollbackToHeight, Rollback, Goto, stored
<1>3. CASE pc' = "refused" /\ chain' = chain
  BY <1>1, <1>3 DEF ForkInv
<1>4. CASE target \in RollbackHeights /\ chain' = UpTo(chain, target) /\ pc' = "add"
  <2>1. target \in 1 .. Len(chain) /\ target <= Len(chain)
    BY <1>4 DEF RollbackHeights, LedgerInv, StoredInv
  <2>2. AllCuts(before, chain')
    BY <1>1, <1>4, <2>1, CutsFollow, LedgerFacts
  <2> QED
    BY <1>1, <1>4, <2>1, <2>2 DEF ForkInv
<1> QED
  BY <1>2, <1>3, <1>4

\* The blocks are added.
LEMMA ForkAdd ==
    ASSUME LedgerInv, LedgerInv', WorkInv, ForkInv, AddDeserializedBlocks
    PROVE  ForkInv'
<1>1. pc = "add" /\ UNCHANGED <<kind, batch, saved, target, before, held>>
  BY DEF AddDeserializedBlocks, request, plan
<1>2. \/ CanAdd(batch) /\ chain' = chain \o batch /\ pc' = "applied"
      \/ chain' = chain /\ pc' = IF saved = << >> THEN "refused" ELSE "restore"
  BY DEF AddDeserializedBlocks, AddBlocks, AfterFailedAdd, Goto, stored
<1>3. CASE chain' = chain /\ pc' = IF saved = << >> THEN "refused" ELSE "restore"
  BY <1>1, <1>3 DEF ForkInv
<1>4. CASE CanAdd(batch) /\ chain' = chain \o batch /\ pc' = "applied"
  <2>1. /\ chain \in Seq(Blocks) /\ IsChain(chain) /\ Len(chain) \in Nat
        /\ before \in Seq(Blocks) /\ Len(before) \in Nat
        /\ saved \in Seq(Blocks)
        /\ batch \in Seq(Blocks) /\ batch # << >> /\ Score(chain) \in Nat
    BY <1>1, LedgerFacts
  <2>2. IsChain(chain \o batch)
    BY <1>4 DEF LedgerInv, StoredInv, IsChain, Linked
  <2>3. IsChain(before) /\ Len(before) <= Len(chain) + MaxRollbackDelta
    BY <1>1 DEF WorkInv, HistoryInv
  <2>4. Score(batch) \in Nat /\ Score(batch) > 0 /\ Score(before) \in Nat
    BY <2>1, <2>3, ScoreOfSome, SameFollows
  <2>5. AllCuts(before, chain)
    BY <1>1 DEF ForkInv
  <2>6. Follows(before, chain \o batch)
    <3>1. CASE saved = << >>
      <4>1. Near(before, chain) /\ Score(chain) >= Score(before)
        BY <1>1, <3>1 DEF ForkInv
      <4>2. Score(chain) + Score(batch) > Score(before)
        BY <2>1, <2>4, <4>1
      <4> QED
        BY <2>1, <2>2, <2>3, <4>1, <4>2, HigherFollows
    <3>2. CASE saved # << >>
      <4> DEFINE n == Len(chain)
                 W == chain \o saved
      <4>1. /\ n <= Len(before) /\ Len(before) <= n + Len(saved)
            /\ before = UpTo(W, Len(before))
        BY <1>1, <3>2 DEF ForkInv, Within
      <4>2. /\ W \in Seq(Blocks) /\ Len(W) = n + Len(saved) /\ Len(saved) \in Nat
            /\ \A i \in 1 .. n : W[i] = chain[i]
        BY <2>1, Concatenated
      <4>3. n >= 1
        BY <2>1, ChainFacts
      <4> HIDE DEF W
      <4>4. Len(before) \in 1 .. Len(W) /\ n \in 1 .. Len(before)
        BY <2>1, <4>1, <4>2, <4>3
      <4>5. \A i \in 1 .. Len(before) : before[i] = W[i]
        BY <4>1, <4>2, <4>4, CutFacts
      <4>6. Near(before, chain)
        <5>1. n >= Len(before) - MaxRollbackDelta
          BY <2>1, <2>3, BlocksApplierAssumption
        <5>2. \A i \in 1 .. n : i \in 1 .. Len(before)
          BY <4>4
        <5> QED
          BY <4>2, <4>4, <4>5, <5>1, <5>2 DEF Near
      <4>7. CASE kind \notin Micro
        <5>1. Score(chain) + Score(batch) > Score(before)
          BY <1>1, <3>2, <4>7 DEF ForkInv
        <5> QED
          BY <2>1, <2>2, <2>3, <4>6, <5>1, HigherFollows
      <4>8. CASE kind \in Micro
        <5> DEFINE b == Base[First]
        <5>1. saved = <<b>> /\ Parent[b] = Parent[First] /\ Len(batch) = 1 /\ First \in Blocks
          BY <1>1, <4>8 DEF WorkInv, MicroInv, HandlerInv, Micro
        <5>2. batch = <<First>>
          BY <2>1, <5>1, OneBlock DEF First
        <5>3. First \in Valid
          BY <1>4, <5>2 DEF CanAdd, Range
        <5>4. b \in Blocks /\ Len(saved) = 1
          BY <2>1, <5>1
        <5>5. Weight[First] = Weight[b]
          BY <5>1, <5>4, ChainsAssumption
        <5> HIDE DEF b
        <5>6. CASE Len(before) = n
          <6>1. \A i \in 1 .. n : before[i] = chain[i]
            BY <4>2, <4>5, <5>6
          <6>2. before = chain
            BY <2>1, <5>6, <6>1, SameBlocks
          <6>3. Score(chain) + Score(batch) > Score(before)
            BY <2>1, <2>4, <6>2
          <6> QED
            BY <2>1, <2>2, <2>3, <4>6, <6>3, HigherFollows
        <5>7. CASE Len(before) # n
          <6>1. Len(before) = Len(W)
            BY <2>1, <4>1, <4>2, <5>4, <5>7
          <6>2. before = W
            BY <4>1, <4>2, <4>4, <6>1, CutFacts
          <6>3. before = chain \o <<b>>
            BY <5>1, <6>2 DEF W
          <6>4. Front(before) = chain /\ Last(before) = b
            BY <2>1, <5>4, <6>3, FrontAfter
          <6>5. chain \o batch = Append(Front(before), First)
            BY <2>1, <5>1, <5>2, <6>4
          <6> QED
            BY <5>1, <5>3, <5>5, <6>4, <6>5 DEF Follows
        <5> QED
          BY <5>6, <5>7
      <4> QED
        BY <4>7, <4>8
    <3> QED
      BY <3>1, <3>2
  <2>7. ASSUME kind \notin Exclusive PROVE AllCuts(before, chain \o batch)
    <3>1. kind # "sync"
      BY <2>7 DEF Exclusive
    <3>2. Len(batch) = 1
      BY <1>1, <3>1 DEF WorkInv, HandlerInv
    <3>3. batch[1] \in Blocks /\ batch = <<batch[1]>>
      BY <2>1, <3>2, OneBlock
    <3> QED
      BY <2>1, <2>5, <2>6, <3>3, OneMoreFollows
  <2>8. kind \in Exclusive => held = "handler"
    BY <1>1 DEF ForkInv
  <2> QED
    BY <1>1, <1>4, <2>6, <2>7, <2>8 DEF ForkInv
<1> QED
  BY <1>2, <1>3, <1>4

\* The saved blocks are put back, or what is left of the ledger stays.
LEMMA ForkRestore ==
    ASSUME LedgerInv, LedgerInv', WorkInv, ForkInv, Restore
    PROVE  ForkInv'
<1>1. /\ pc = "restore" /\ pc' = "refused" /\ saved # << >>
      /\ UNCHANGED <<kind, batch, saved, target, before, held>>
  BY DEF Restore, Goto, request, plan, WorkInv, PlanInv
<1>2. chain' = chain \o saved \/ chain' = chain
  BY DEF Restore, AddBlocks, stored
<1>3. CASE chain' = chain
  BY <1>1, <1>3 DEF ForkInv
<1>4. CASE chain' = chain \o saved
  <2>1. /\ Len(before) <= Len(chain) + Len(saved)
        /\ before = UpTo(chain \o saved, Len(before))
    BY <1>1 DEF ForkInv, Within
  <2>2. IsChain(before) /\ before \in Seq(Blocks)
    BY <1>1, LedgerFacts DEF WorkInv, HistoryInv
  <2>3. IsChain(chain \o saved)
    BY <1>4 DEF LedgerInv, StoredInv, IsChain, Linked
  <2>4. chain \o saved \in Seq(Blocks) /\ Len(chain \o saved) = Len(chain) + Len(saved)
    BY LedgerFacts, Concatenated
  <2>5. AllCuts(before, chain \o saved)
    BY <2>1, <2>2, <2>3, <2>4, LongerFollows
  <2> QED
    BY <1>1, <1>4, <2>5 DEF ForkInv
<1> QED
  BY <1>2, <1>3, <1>4

LEMMA ForkStep ==
    ASSUME LedgerInv, LedgerInv', WorkInv, WorkInv', ForkInv, [Next]_vars
    PROVE  ForkInv'
<1>1. CASE ApiLock
  <2>1. /\ UNCHANGED <<chain, pc, kind, batch, saved, target, before>>
        /\ held = "none" /\ First' = First
    BY <1>1 DEF ApiLock, stored, request, plan, First
  <2> QED
    BY <2>1 DEF ForkInv
<1>2. CASE UNCHANGED vars
  <2>1. UNCHANGED <<chain, pc, kind, batch, saved, target, before, held>> /\ First' = First
    BY <1>2 DEF vars, stored, request, plan, First
  <2> QED
    BY <2>1 DEF ForkInv
<1>3. CASE Exists \/ Snapshot \/ MicroTop \/ Lock \/ CheckRefuses \/ StorageFails
  BY <1>3, ForkQuiet
<1>4. CASE SwitchState \/ SnapshotTimeout \/ Applied \/ Refused \/ Crash \/ LockPanics
  <2>1. pc' = "idle"
    BY <1>4 DEF SwitchState, SnapshotTimeout, Applied, Refused, Crash, LockPanics,
                Restart, Return, Goto
  <2> QED
    BY <2>1 DEF ForkInv
<1>5. CASE CachedRollback \/ CachedApply \/ CheckAccepts
  BY <1>5, ForkCachedRollback, ForkCachedApply, ForkCheck
<1>6. CASE RollbackToHeight \/ AddDeserializedBlocks \/ Restore
  BY <1>6, ForkRollback, ForkAdd, ForkRestore
<1>7. CASE Begin \/ ApiRollback
  BY <1>7, ForkBegin, ForkApi
<1> QED
  BY <1>1, <1>2, <1>3, <1>4, <1>5, <1>6, <1>7 DEF Next

LEMMA ForkInvariant == Spec => []ForkInv
<1>1. Init => ForkInv
  BY DEF Init, ForkInv
<1>2. LedgerInv /\ LedgerInv' /\ WorkInv /\ WorkInv' /\ ForkInv /\ [Next]_vars => ForkInv'
  BY ForkStep
<1> QED
  BY <1>1, <1>2, LedgerInvariant, WorkInvariant, PTL DEF Spec

\* A step of the ledger seen from outside.
LEMMA FollowsIsStep ==
    ASSUME Ledger \in Seq(Blocks), Ledger' \in Seq(Blocks), Follows(Ledger, Ledger')
    PROVE  Choice!Next
<1>1. CASE \E h \in 1 .. Len(Ledger) : Ledger' = UpTo(Ledger, h)
  BY <1>1 DEF Choice!Next, Choice!Cut, Choice!UpTo, UpTo
<1>2. CASE \E b \in Valid : /\ Parent[b] = Parent[Last(Ledger)]
                            /\ Weight[b] = Weight[Last(Ledger)]
                            /\ Ledger' = Append(Front(Ledger), b)
  BY <1>2, ChainsAssumption
     DEF Choice!Next, Choice!ReplaceTop, Choice!Last, Choice!Front, Last, Front
<1>3. CASE IsChain(Ledger') /\ Score(Ledger') > Score(Ledger) /\ Near(Ledger, Ledger')
  <2>1. Choice!IsChain(Ledger')
    BY <1>3 DEF Choice!IsChain, Choice!Linked, Choice!Range, IsChain, Linked, Range
  <2>2. Choice!Score(Ledger') > Choice!Score(Ledger)
    BY <1>3 DEF Choice!Score, Score
  <2>3. PICK common \in 1 .. Len(Ledger) :
            /\ common >= Len(Ledger) - MaxRollbackDelta
            /\ common <= Len(Ledger')
            /\ \A i \in 1 .. common : Ledger'[i] = Ledger[i]
    BY <1>3 DEF Near
  <2>4. IsPrefix(UpTo(Ledger, common), Ledger')
    <3> DEFINE P == UpTo(Ledger, common)
               Q == UpTo(Ledger', common)
    <3>1. common \in 1 .. Len(Ledger')
      BY <2>3
    <3>2. /\ P \in Seq(Blocks) /\ Len(P) = common /\ \A i \in 1 .. common : P[i] = Ledger[i]
          /\ Q \in Seq(Blocks) /\ Len(Q) = common /\ \A i \in 1 .. common : Q[i] = Ledger'[i]
      BY <3>1, CutFacts
    <3> HIDE DEF P, Q
    <3>3. P = Q
      BY <2>3, <3>2, SameBlocks
    <3>4. UpTo(P, common) = P
      BY <3>2, CutFacts
    <3>5. Len(P) <= Len(Ledger') /\ SubSeq(P, 1, Len(P)) = SubSeq(Ledger', 1, Len(P))
      BY <2>3, <3>2, <3>3, <3>4 DEF UpTo, Q
    <3> QED
      BY <3>5 DEF IsPrefix, P
  <2>5. Choice!Adopt
    BY <2>1, <2>2, <2>3, <2>4 DEF Choice!Adopt, Choice!UpTo, Choice!IsPrefix, UpTo, IsPrefix
  <2> QED
    BY <2>5 DEF Choice!Next
<1> QED
  BY <1>1, <1>2, <1>3 DEF Follows

\* Every step of a handler, of the API or of a crash is a step of ForkChoice or none.
LEMMA ChoiceStep ==
    ASSUME LedgerInv, LedgerInv', WorkInv, ForkInv, [Next]_vars
    PROVE  [Choice!Next]_Ledger
<1>1. /\ chain \in Seq(Blocks) /\ IsChain(chain) /\ before \in Seq(Blocks)
  BY LedgerFacts
<1>2. chain' \in Seq(Blocks) /\ before' \in Seq(Blocks)
  BY DEF LedgerInv, StoredInv, VolatileInv, RequestOK
<1>3. Ledger \in Seq(Blocks) /\ Ledger' \in Seq(Blocks)
  BY <1>1, <1>2 DEF Ledger
<1>4. Ledger' = Ledger \/ Follows(Ledger, Ledger')
  <2>1. CASE Begin
    BY <2>1 DEF Begin, SyncBatch, MinedBlock, MinedBlockInSync, Block, MicroBlock, MineMicro,
                Start, stored, Ledger, Goto
  <2>2. CASE SwitchState \/ UNCHANGED vars \/ ApiLock
    BY <2>2 DEF SwitchState, ApiLock, vars, stored, Ledger
  <2>3. CASE ApiRollback
    <3>1. PICK h \in RollbackHeights : Rollback(h)
      BY <2>3 DEF ApiRollback
    <3>2. h \in 1 .. Len(chain)
      BY DEF LedgerInv, StoredInv, RollbackHeights
    <3>3. chain' = UpTo(chain, h) /\ Ledger' = chain' /\ held = "api" /\ pc' = pc
      BY <2>3, <3>1 DEF ApiRollback, Rollback, Ledger
    <3>4. CASE pc = "idle"
      BY <3>2, <3>3, <3>4 DEF Ledger, Follows
    <3>5. CASE pc # "idle"
      <4>1. AllCuts(before, chain)
        BY <3>3, <3>5 DEF ForkInv
      <4> QED
        BY <3>2, <3>3, <3>5, <4>1 DEF Ledger, AllCuts
    <3> QED
      BY <3>4, <3>5
  <2>4. CASE SnapshotTimeout \/ Applied \/ Refused \/ Crash \/ LockPanics
    <3>1. pc' = "idle" /\ chain' = chain
      BY <2>4 DEF SnapshotTimeout, Applied, Refused, Crash, LockPanics, Restart, Return,
                  Goto, stored
    <3>2. CASE pc = "idle"
      BY <3>1, <3>2 DEF Ledger
    <3>3. CASE pc # "idle"
      <4>1. AllCuts(before, chain) \/ Follows(before, chain)
        BY <3>3 DEF ForkInv
      <4>2. Follows(before, chain)
        BY <1>1, <4>1, CutsReach
      <4> QED
        BY <3>1, <3>3, <4>2 DEF Ledger
    <3> QED
      BY <3>2, <3>3
  <2>5. ASSUME \/ Exists \/ CachedRollback \/ CachedApply \/ Snapshot \/ MicroTop \/ Lock
               \/ CheckRefuses \/ CheckAccepts \/ RollbackToHeight
               \/ AddDeserializedBlocks \/ Restore \/ StorageFails
        PROVE  Ledger' = Ledger
    <3>1. pc # "idle" /\ before' = before
      BY <2>5 DEF Exists, CachedRollback, CachedApply, Snapshot, MicroTop, Lock, CheckRefuses,
                  CheckAccepts, RollbackToHeight, AddDeserializedBlocks, Restore,
                  StorageFails, Writing
    <3>2. pc' # "idle"
      <4>1. CASE Exists
        BY <4>1 DEF Exists, Goto
      <4>2. CASE CachedRollback \/ CachedApply \/ Snapshot \/ MicroTop \/ Lock
        BY <4>2 DEF CachedRollback, CachedApply, Snapshot, MicroTop, Lock, Goto
      <4>3. CASE \/ CheckRefuses \/ CheckAccepts \/ RollbackToHeight
                 \/ AddDeserializedBlocks \/ Restore \/ StorageFails
        BY <4>3 DEF CheckRefuses, CheckAccepts, RollbackToHeight, AddDeserializedBlocks,
                    Restore, StorageFails, AfterFailedAdd, Goto
      <4> QED
        BY <2>5, <4>1, <4>2, <4>3
    <3> QED
      BY <3>1, <3>2 DEF Ledger
  <2> QED
    BY <2>1, <2>2, <2>3, <2>4, <2>5 DEF Next
<1> QED
  BY <1>3, <1>4, FollowsIsStep

\* Seen from outside the handlers, for every tree of blocks, every batch and every
\* interleaving with crashes, storage failures and API rollbacks: the ledger only moves to
\* a chain with a strictly higher score that branches off within maxRollbackDeltaHeight
\* blocks, to another version of its last block, or back to one of its prefixes.
THEOREM LedgerFollowsForkChoice == Spec => ImplementsForkChoice
<1>1. Init => Choice!Init
  <2> SUFFICES ASSUME Init PROVE Choice!Init
    OBVIOUS
  <2>1. chain \in Seq(Blocks) /\ Len(chain) = 1 /\ chain[1] = Genesis /\ Ledger = chain
    BY ChainsAssumption DEF Init, Ledger
  <2>2. \A i \in 1 .. Len(chain) : i = 1 /\ chain[i] = Genesis
    BY <2>1
  <2>3. IsChain(chain)
    BY <2>1, <2>2, ChainByHeight, ChainsAssumption
  <2> QED
    BY <2>1, <2>3 DEF Choice!Init, Choice!IsChain, Choice!Linked, Choice!Range,
                      IsChain, Linked, Range
<1>2. LedgerInv /\ LedgerInv' /\ WorkInv /\ ForkInv /\ [Next]_vars => [Choice!Next]_Ledger
  BY ChoiceStep
<1> QED
  BY <1>1, <1>2, LedgerInvariant, WorkInvariant, ForkInvariant, PTL
     DEF Spec, ImplementsForkChoice, Choice!Spec
-----------------------------------------------------------------------------
(* The decisions and their reference.                                      *)

\* Fork and Adoptable of the specification, height by height, for the lower end m of the
\* rollback window, the handler k, its blocks B, the ledger L and the cached blocks S
\* that NG's Block may return to.
Forks(m, L, B) ==
    \E i \in 1 .. Len(L) :
        /\ i >= Len(L) - MaxRollbackDelta /\ i >= m
        /\ Linked(L[i], B) /\ Range(B) \subseteq Valid
        /\ Score(UpTo(L, i)) + Score(B) > Score(L)
CachedForks(m, L, B, S) ==
    \E h \in m .. Len(L) : \E c \in S :
        /\ h \notin 1 .. (Len(L) - 2)
        /\ IsChain(UpTo(L, h) \o <<c>>)
        /\ Forks(m, UpTo(L, h) \o <<c>>, B)
Adopts(m, k, B, L, S) ==
    /\ ~On(B[1], L)
    /\ \/ /\ k \in Micro
          /\ Base[B[1]] = Last(L) /\ IsChain(Front(L) \o <<B[1]>>) /\ m < Len(L)
       \/ /\ k \notin Micro
          /\ Forks(m, L, B) \/ (k = "block" /\ CachedForks(m, L, B, S))
Usable == {c \in cache : CachedWithSnapshot(c)}

\* Blocks on a chain, by their parents.
LEMMA ForkByParent ==
    ASSUME NEW L \in Seq(Blocks), IsChain(L), NEW i \in 1 .. Len(L), NEW B \in Seq(Blocks)
    PROVE  /\ IsChain(UpTo(L, i) \o B) <=> Linked(L[i], B) /\ Range(B) \subseteq Valid
           /\ Score(UpTo(L, i) \o B) = Score(UpTo(L, i)) + Score(B)
           /\ Score(UpTo(L, i)) \in Nat /\ Score(B) \in Nat
<1> DEFINE C == UpTo(L, i)
<1>1. C \in Seq(Blocks) /\ IsChain(C) /\ Last(C) = L[i] /\ Len(C) = i
  BY PrefixIsChain, CutFacts
<1>2. C # << >>
  BY <1>1, ChainFacts
<1> HIDE DEF C
<1>3. ASSUME Linked(L[i], B), Range(B) \subseteq Valid PROVE IsChain(C \o B)
  BY <1>1, <1>3, ExtensionIsChain
<1>4. ASSUME IsChain(C \o B) PROVE Linked(L[i], B) /\ Range(B) \subseteq Valid
  <2>1. Linked(L[i], B)
    BY <1>1, <1>2, <1>4, UpperFits
  <2>2. /\ C \o B \in Seq(Blocks) /\ Len(C \o B) = Len(C) + Len(B)
        /\ Len(C) \in Nat /\ Len(B) \in Nat
        /\ \A j \in 1 .. Len(B) : (C \o B)[Len(C) + j] = B[j]
    BY <1>1, Concatenated
  <2>3. \A j \in 1 .. Len(B) : Len(C) + j \in 1 .. Len(C \o B)
    BY <2>2
  <2>4. \A j \in 1 .. Len(B) : B[j] \in Valid
    BY <1>4, <2>2, <2>3, ChainFacts
  <2> QED
    BY <2>1, <2>4, AllValid
<1>5. Score(C \o B) = Score(C) + Score(B) /\ Score(C) \in Nat /\ Score(B) \in Nat
  BY <1>1, ScoreOfBoth
<1> QED
  BY <1>3, <1>4, <1>5 DEF C

\* Linked to one block: the parent of the first.
LEMMA FirstLinked ==
    ASSUME NEW B \in Seq(Blocks), B # << >>, NEW x, Linked(x, B)
    PROVE  Parent[B[1]] = x
<1>1. 1 \in 1 .. Len(B)
  OBVIOUS
<1> QED
  BY <1>1 DEF Linked

LEMMA OneLinked ==
    ASSUME NEW b \in Blocks, NEW x
    PROVE  /\ <<b>> \in Seq(Blocks) /\ <<b>> # << >> /\ Len(<<b>>) = 1 /\ <<b>>[1] = b
           /\ Linked(x, <<b>>) <=> Parent[b] = x
           /\ Range(<<b>>) \subseteq Valid <=> b \in Valid
<1>1. <<b>> \in Seq(Blocks) /\ <<b>> # << >> /\ Len(<<b>>) = 1 /\ <<b>>[1] = b
  OBVIOUS
<1>2. Linked(x, <<b>>) <=> Parent[b] = x
  BY <1>1 DEF Linked
<1>3. Range(<<b>>) \subseteq Valid <=> \A i \in 1 .. Len(<<b>>) : <<b>>[i] \in Valid
  BY <1>1, AllValid
<1> QED
  BY <1>1, <1>2, <1>3

LEMMA ForkMeans ==
    ASSUME NEW L \in Seq(Blocks), IsChain(L), NEW B \in Seq(Blocks)
    PROVE  Fork(L, B) <=> Forks(minHeight, L, B)
<1>1. ASSUME NEW i \in 1 .. Len(L)
      PROVE  /\ IsChain(UpTo(L, i) \o B) <=> Linked(L[i], B) /\ Range(B) \subseteq Valid
             /\ Score(UpTo(L, i) \o B) = Score(UpTo(L, i)) + Score(B)
  BY ForkByParent
<1> QED
  BY <1>1, Zenon DEF Fork, Forks

\* The specification's reference in these terms.
LEMMA AdoptableMeans ==
    ASSUME LedgerInv, WorkInv, pc # "idle"
    PROVE  Adoptable <=> Adopts(minHeight, kind, batch, before, Usable)
<1>1. /\ before \in Seq(Blocks) /\ IsChain(before) /\ Len(before) \in Nat
      /\ batch \in Seq(Blocks) /\ batch # << >> /\ batch[1] \in Blocks
      /\ minHeight \in Nat /\ minHeight >= 1
  BY FirstBlock, LedgerFacts DEF WorkInv, HistoryInv, LedgerInv, StoredInv
<1>2. Usable \subseteq Blocks
  BY DEF Usable, LedgerInv, VolatileInv, CacheOK
<1>3. batch[1] \in Range(before) <=> On(batch[1], before)
  BY <1>1, ChainFacts DEF On
<1>4. ASSUME NEW c \in Blocks, NEW P \in Seq(Blocks) PROVE Append(P, c) = P \o <<c>>
  BY <1>4
<1>5. IsChain(Append(Front(before), batch[1])) <=> IsChain(Front(before) \o <<batch[1]>>)
  <2>1. Front(before) \in Seq(Blocks)
    BY <1>1 DEF Front
  <2> QED
    BY <1>1, <1>4, <2>1
<1>6. Fork(before, batch) <=> Forks(minHeight, before, batch)
  BY <1>1, ForkMeans
<1>7. ASSUME NEW h \in minHeight .. Len(before), NEW c \in Usable
      PROVE  /\ Append(UpTo(before, h), c) = UpTo(before, h) \o <<c>>
             /\ IsChain(UpTo(before, h) \o <<c>>) =>
                   (Fork(UpTo(before, h) \o <<c>>, batch) <=>
                        Forks(minHeight, UpTo(before, h) \o <<c>>, batch))
  <2>1. h \in 1 .. Len(before)
    BY <1>1
  <2>2. UpTo(before, h) \in Seq(Blocks) /\ c \in Blocks /\ <<c>> \in Seq(Blocks)
    BY <1>1, <1>2, <2>1, CutFacts
  <2>3. UpTo(before, h) \o <<c>> \in Seq(Blocks)
    BY <2>2, Concatenated
  <2> QED
    BY <1>1, <1>4, <2>2, <2>3, ForkMeans
<1>8. (\E base \in CachedBases : IsChain(base) /\ Fork(base, batch)) <=>
         CachedForks(minHeight, before, batch, Usable)
  <2> DEFINE Hs == minHeight .. Len(before) \ 1 .. (Len(before) - 2)
  <2>1. CachedBases = {Append(UpTo(before, h), c) : h \in Hs, c \in Usable}
    BY DEF CachedBases, Usable
  <2>2. \A h : h \in Hs <=> h \in minHeight .. Len(before) /\ h \notin 1 .. (Len(before) - 2)
    OBVIOUS
  <2> HIDE DEF Hs
  <2>3. ASSUME NEW base \in CachedBases, IsChain(base), Fork(base, batch)
        PROVE  CachedForks(minHeight, before, batch, Usable)
    <3>1. PICK h \in Hs, c \in Usable : base = Append(UpTo(before, h), c)
      BY <2>1
    <3> QED
      BY <1>7, <2>2, <2>3, <3>1 DEF CachedForks
  <2>4. ASSUME CachedForks(minHeight, before, batch, Usable)
        PROVE  \E base \in CachedBases : IsChain(base) /\ Fork(base, batch)
    <3>1. PICK h \in minHeight .. Len(before), c \in Usable :
             /\ h \notin 1 .. (Len(before) - 2)
             /\ IsChain(UpTo(before, h) \o <<c>>)
             /\ Forks(minHeight, UpTo(before, h) \o <<c>>, batch)
      BY <2>4 DEF CachedForks
    <3>2. Append(UpTo(before, h), c) \in CachedBases
      BY <2>1, <2>2, <3>1
    <3> QED
      BY <1>7, <3>1, <3>2
  <2> QED
    BY <2>3, <2>4
<1>9. CASE kind \in Micro
  BY <1>3, <1>5, <1>9, Zenon DEF Adoptable, Adopts
<1>10. CASE kind \notin Micro
  BY <1>3, <1>6, <1>8, <1>10, Zenon DEF Adoptable, Adopts
<1> QED
  BY <1>9, <1>10

\* Blocks that cannot be added where they belong are adopted nowhere.
LEMMA NotAddable ==
    ASSUME NEW L \in Seq(Blocks), IsChain(L), NEW B \in Seq(Blocks), B # << >>,
           NEW m, NEW k, NEW S, k \in Micro => Len(B) = 1,
           ~(Linked(Parent[B[1]], B) /\ Range(B) \subseteq Valid)
    PROVE  ~Adopts(m, k, B, L, S)
<1>1. ASSUME NEW C, Forks(m, C, B) PROVE FALSE
  <2>1. PICK i \in 1 .. Len(C) : Linked(C[i], B) /\ Range(B) \subseteq Valid
    BY <1>1 DEF Forks
  <2>2. Parent[B[1]] = C[i]
    BY <2>1, FirstLinked
  <2> QED
    BY <2>1, <2>2
<1>2. ASSUME k \in Micro, IsChain(Front(L) \o <<B[1]>>) PROVE FALSE
  <2>1. B[1] \in Blocks /\ B = <<B[1]>>
    BY <1>2, OneBlock
  <2>2. Front(L) \in Seq(Blocks) /\ <<B[1]>> \in Seq(Blocks)
    BY <2>1 DEF Front
  <2> DEFINE D == Front(L) \o <<B[1]>>
  <2>3. D \in Seq(Blocks) /\ Len(D) \in 1 .. Len(D) /\ D[Len(D)] = B[1]
    <3>1. Last(D) = B[1]
      BY <2>1, <2>2, FrontAfter
    <3>2. D \in Seq(Blocks) /\ IsChain(D)
      BY <1>2, <2>2, Concatenated
    <3> HIDE DEF D
    <3> QED
      BY <3>1, <3>2, ChainFacts
  <2> HIDE DEF D
  <2>4. B[1] \in Valid
    <3>1. IsChain(D)
      BY <1>2 DEF D
    <3> QED
      BY <2>3, <3>1, ChainFacts
  <2> QED
    BY <2>1, <2>4, OneLinked
<1> QED
  BY <1>1, <1>2 DEF Adopts, CachedForks
\* A chain that ends in a cached block.
LEMMA CachedBase ==
    ASSUME NEW L \in Seq(Blocks), IsChain(L), NEW S \in SUBSET Cachable, CacheFits(L, S),
           NEW h \in 1 .. Len(L), h \notin 1 .. (Len(L) - 2), NEW c \in S,
           IsChain(UpTo(L, h) \o <<c>>)
    PROVE  LET C == UpTo(L, h) \o <<c>>
           IN /\ C \in Seq(Blocks) /\ Len(C) = h + 1 /\ h + 1 >= Len(L)
              /\ Parent[c] = L[h] /\ C[h + 1] = c
              /\ \A i \in 1 .. h : C[i] = L[i] /\ UpTo(C, i) = UpTo(L, i)
              /\ Score(C) >= Score(L) /\ Score(C) \in Nat /\ Score(L) \in Nat
<1> DEFINE P == UpTo(L, h)
           C == P \o <<c>>
           n == Len(L)
<1>0. c \in Blocks /\ <<c>> \in Seq(Blocks) /\ Len(<<c>>) = 1 /\ <<c>>[1] = c
  BY CachableFacts
<1>1. /\ P \in Seq(Blocks) /\ Len(P) = h /\ IsChain(P)
      /\ \A i \in 1 .. h : P[i] = L[i]
      /\ \A i \in 1 .. h : UpTo(P, i) = UpTo(L, i)
      /\ n \in Nat /\ h \in Nat /\ 1 <= h /\ h <= n
  BY CutFacts, PrefixIsChain
<1>2. Linked(L[h], <<c>>)
  BY <1>0, ForkByParent
<1>3. Parent[c] = L[h]
  BY <1>0, <1>2, OneLinked
<1>4. h = n \/ h = n - 1
  BY <1>1
<1> HIDE DEF P, n
<1>5. /\ C \in Seq(Blocks) /\ Len(C) = h + 1 /\ C[h + 1] = c
      /\ \A i \in 1 .. h : C[i] = P[i]
  <2>1. /\ C \in Seq(Blocks) /\ Len(C) = Len(P) + 1 /\ C[Len(P) + 1] = c
        /\ \A i \in 1 .. Len(P) : C[i] = P[i]
    BY <1>0, <1>1, Concatenated
  <2> QED
    BY <1>1, <2>1
<1>6. Score(C) = Score(P) + Weight[c] /\ Score(P) \in Nat /\ Weight[c] \in Nat
  BY <1>0, <1>1, ScoreOfBoth, ScoreOfOne
<1> HIDE DEF C
<1>7. ASSUME NEW i \in 1 .. h PROVE UpTo(C, i) = UpTo(L, i)
  <2>1. i \in 1 .. Len(C) /\ i \in 1 .. Len(P) /\ i \in 1 .. Len(L)
        /\ \A j \in 1 .. i : j \in 1 .. h
    BY <1>1, <1>5 DEF n
  <2>2. /\ UpTo(C, i) \in Seq(Blocks) /\ Len(UpTo(C, i)) = i
        /\ \A j \in 1 .. i : UpTo(C, i)[j] = C[j]
        /\ UpTo(L, i) \in Seq(Blocks) /\ Len(UpTo(L, i)) = i
        /\ \A j \in 1 .. i : UpTo(L, i)[j] = L[j]
    BY <1>5, <2>1, CutFacts
  <2>3. \A j \in 1 .. i : UpTo(C, i)[j] = UpTo(L, i)[j]
    BY <1>1, <1>5, <2>1, <2>2
  <2> QED
    BY <2>2, <2>3, SameBlocks
<1>8. Score(L) \in Nat /\ Score(C) >= Score(L)
  <2>1. CASE h = n
    <3>1. P = L
      BY <2>1, CutFacts DEF P, n
    <3> QED
      BY <1>6, <3>1
  <2>2. CASE h = n - 1
    <3>1. n >= 2 /\ n \in Nat
      BY <1>1, <2>2
    <3>2. P = Front(L) /\ Score(L) = Score(P) + Weight[Last(L)]
      BY <2>2, <3>1, LastSplits DEF P, n
    <3>3. h \in 1 .. n - 1 /\ h + 1 = n
      BY <1>1, <2>2
    <3>4. Weight[L[h + 1]] = Weight[c]
      BY <1>3, <3>3 DEF CacheFits, SameWeight, n
    <3>5. Weight[Last(L)] = Weight[c]
      BY <3>3, <3>4 DEF Last, n
    <3> QED
      BY <1>6, <3>2, <3>5
  <2> QED
    BY <1>4, <2>1, <2>2
<1>9. h + 1 >= n
  BY <1>1, <1>4
<1>10. Score(C) \in Nat
  BY <1>6
<1> QED
  BY <1>1, <1>3, <1>5, <1>7, <1>8, <1>9, <1>10 DEF C, P, n

\* A block whose parent is the top, or not a version that NG's Block returns to, gains
\* nothing from the cache.
LEMMA CacheGivesNothing ==
    ASSUME NEW L \in Seq(Blocks), IsChain(L), NEW S \in SUBSET Cachable, CacheFits(L, S),
           NEW m \in Nat, m >= 1, NEW b \in Blocks, NEW R, R \subseteq S,
           Last(L) = Parent[b] \/ Parent[b] \notin R,
           CachedForks(m, L, <<b>>, R)
    PROVE  Forks(m, L, <<b>>)
<1> DEFINE n == Len(L)
           B == <<b>>
<1>0. n \in Nat /\ n >= 1 /\ Last(L) = L[n]
  BY ChainFacts
<1>1. PICK h \in m .. n, c \in R :
         /\ h \notin 1 .. (n - 2)
         /\ IsChain(UpTo(L, h) \o <<c>>)
         /\ Forks(m, UpTo(L, h) \o <<c>>, B)
  BY DEF CachedForks
<1>2. h \in 1 .. n /\ c \in S
  BY <1>0, <1>1
<1> DEFINE C == UpTo(L, h) \o <<c>>
<1>3. /\ C \in Seq(Blocks) /\ Len(C) = h + 1 /\ h + 1 >= n
      /\ Parent[c] = L[h] /\ C[h + 1] = c
      /\ \A i \in 1 .. h : C[i] = L[i] /\ UpTo(C, i) = UpTo(L, i)
      /\ Score(C) >= Score(L) /\ Score(C) \in Nat /\ Score(L) \in Nat
  BY <1>1, <1>2, CachedBase
<1>4. IsChain(C) /\ Forks(m, C, B)
  BY <1>1
<1> HIDE DEF C
<1>5. PICK i \in 1 .. Len(C) : /\ i >= Len(C) - MaxRollbackDelta /\ i >= m
                               /\ Linked(C[i], B) /\ Range(B) \subseteq Valid
                               /\ Score(UpTo(C, i)) + Score(B) > Score(C)
  BY <1>4 DEF Forks
<1>6. Parent[b] = C[i] /\ B \in Seq(Blocks) /\ b \in Valid
  BY <1>5, OneLinked
<1> HIDE DEF B
<1>7. CASE i \in 1 .. h
  <2>1. i \in 1 .. n /\ i >= n - MaxRollbackDelta
    BY <1>0, <1>2, <1>3, <1>5, <1>7, BlocksApplierAssumption
  <2>2. Linked(L[i], B) /\ UpTo(C, i) = UpTo(L, i)
    BY <1>3, <1>5, <1>7
  <2>3. Score(UpTo(L, i)) \in Nat /\ Score(B) \in Nat
    BY <1>6, <2>1, ForkByParent
  <2>4. Score(UpTo(L, i)) + Score(B) > Score(L)
    BY <1>3, <1>5, <2>2, <2>3
  <2> QED
    BY <1>5, <2>1, <2>2, <2>4 DEF Forks, B
<1>8. CASE i \notin 1 .. h
  <2>1. i = h + 1
    BY <1>2, <1>3, <1>5, <1>8
  <2>2. Last(L) = Parent[b] /\ Parent[b] = c
    BY <1>3, <1>6, <2>1
  <2>3. L[n] = c
    BY <1>0, <2>2
  <2>4. n \in 1 .. n /\ n # 1
    <3>1. L[1] = Genesis
      BY ChainByHeight
    <3>2. c # Genesis
      BY <1>2 DEF Cachable
    <3> QED
      BY <1>0, <2>3, <3>1, <3>2
  <2>5. n \in 2 .. n /\ n - 1 \in 1 .. n
    BY <1>0, <2>4
  <2>6. L[n - 1] = L[h]
    BY <1>3, <2>3, <2>5, ChainFacts
  <2>7. h = n - 1
    BY <1>2, <2>5, <2>6, NoBlockTwice
  <2>8. i = n /\ n >= m
    BY <1>0, <1>5, <2>1, <2>7
  <2>9. n >= n - MaxRollbackDelta
    BY <1>0, BlocksApplierAssumption
  <2>10. Linked(L[n], B) /\ Range(B) \subseteq Valid
    BY <1>3, <1>5, <2>1, <2>3
  <2>11. Score(UpTo(L, n)) + Score(B) > Score(L)
    <3>1. UpTo(L, n) = L
      BY <2>4, CutFacts
    <3>2. Score(B) > 0 /\ Score(B) \in Nat
      BY <1>6, OneLinked, ScoreOfSome DEF B
    <3> QED
      BY <1>3, <3>1, <3>2
  <2> QED
    BY <2>4, <2>8, <2>9, <2>10, <2>11 DEF Forks, B
<1> QED
  BY <1>7, <1>8 DEF B

\* A block that refers to a cached block off the ledger forks from nothing else.
LEMMA ForkOfCached ==
    ASSUME NEW L \in Seq(Blocks), IsChain(L), NEW S \in SUBSET Cachable, CacheFits(L, S),
           NEW m \in Nat, m >= 1, NEW b \in Blocks, NEW R, R \subseteq S,
           Parent[b] \in S, Last(L) # Parent[b]
    PROVE  /\ ~Forks(m, L, <<b>>)
           /\ CachedForks(m, L, <<b>>, R) =>
                 /\ Parent[b] \in R
                 /\ \E h \in m .. Len(L) : h \in 1 .. Len(L) /\ L[h] = Parent[Parent[b]]
<1> DEFINE n == Len(L)
           B == <<b>>
           p == Parent[b]
<1>0. n \in Nat /\ n >= 1 /\ Last(L) = L[n] /\ L[1] = Genesis
  BY ChainFacts, ChainByHeight
<1>1. ASSUME NEW i \in 1 .. n, L[i] = p PROVE FALSE
  <2>1. i # 1
    BY <1>0, <1>1 DEF Cachable
  <2>2. i \in 2 .. n /\ i - 1 \in 1 .. n
    BY <1>0, <2>1
  <2>3. L[i - 1] = Parent[p]
    BY <1>1, <2>2, ChainFacts
  <2>4. i - 1 >= n - 1
    BY <2>2, <2>3 DEF CacheFits, Shallow
  <2>5. i = n
    BY <1>0, <2>2, <2>4
  <2> QED
    BY <1>0, <1>1, <2>5
<1>2. ~Forks(m, L, B)
  <2> SUFFICES ASSUME Forks(m, L, B) PROVE FALSE
    OBVIOUS
  <2>1. PICK i \in 1 .. n : Linked(L[i], B)
    BY DEF Forks
  <2> QED
    BY <1>1, <2>1, OneLinked
<1>3. ASSUME CachedForks(m, L, B, R)
      PROVE  p \in R /\ \E h \in m .. n : h \in 1 .. n /\ L[h] = Parent[p]
  <2>1. PICK h \in m .. n, c \in R :
           /\ h \notin 1 .. (n - 2)
           /\ IsChain(UpTo(L, h) \o <<c>>)
           /\ Forks(m, UpTo(L, h) \o <<c>>, B)
    BY <1>3 DEF CachedForks
  <2>2. h \in 1 .. n /\ c \in S
    BY <1>0, <2>1
  <2> DEFINE C == UpTo(L, h) \o <<c>>
  <2>3. /\ Len(C) = h + 1 /\ Parent[c] = L[h] /\ C[h + 1] = c
        /\ \A i \in 1 .. h : C[i] = L[i]
    BY <2>1, <2>2, CachedBase
  <2>4. PICK i \in 1 .. Len(C) : Linked(C[i], B)
    BY <2>1 DEF Forks
  <2> HIDE DEF C
  <2>5. p = C[i]
    BY <2>4, OneLinked
  <2>6. i \in 1 .. h \/ i = h + 1
    BY <2>2, <2>3, <2>4
  <2>7. i = h + 1
    <3>1. ASSUME i \in 1 .. h PROVE FALSE
      <4>1. i \in 1 .. n /\ L[i] = p
        BY <2>2, <2>3, <2>5, <3>1
      <4> QED
        BY <1>1, <4>1
    <3> QED
      BY <2>6, <3>1
  <2>8. p = c
    BY <2>3, <2>5, <2>7
  <2> QED
    BY <2>1, <2>2, <2>3, <2>8
<1> QED
  BY <1>2, <1>3

\* What holds of every request, disturbed or not.
RoughInv ==
    /\ cacheSnapshots \subseteq cache
    /\ pc # "idle" => Len(batch) <= MaxBatch \/ Len(batch) = 1
    /\ pc = "top" => kind \in Micro
    /\ pc = "lock" => kind # "block"
    /\ pc = "snapshot" => kind = "block" \/ kind \in Micro

\* What an undisturbed handler knows at each of its steps.
CalmInv ==
    /\ \/ pc \in Writing
       \/ kind = "block" /\ pc \in {"snapshot", "check"}
       => ~On(First, before)
    /\ pc = "cachedRollback" => Last(chain) # Parent[First]
    /\ kind = "block" /\ pc \in {"snapshot", "check", "rollback"} /\ chain = before =>
          Last(chain) = Parent[First] \/ ~CachedWithSnapshot(Parent[First])
    /\ kind \in Micro /\ pc \in {"lock", "check"} => Last(chain) = Base[First]
    /\ pc \in {"snapshot", "check"} \/ (pc = "add" /\ saved = << >>) =>
          chain = before \/ minHeight < Len(chain)
    /\ pc = "rollback" => target \in 1 .. Len(chain) /\ chain[target] = Parent[First]
    /\ pc \in {"add", "restore"} => Last(chain) = Parent[First]
    /\ pc = "restore" => ~CanAdd(batch)
    /\ pc = "applied" => Adopts(minHeight, kind, batch, before, Usable)
    /\ pc = "refused" => ~Adopts(minHeight, kind, batch, before, Usable)
DecisionInv == RoughInv /\ (pc # "idle" /\ calm => CalmInv)

LEMMA RoughStep ==
    ASSUME WorkInv, RoughInv, [Next]_vars
    PROVE  RoughInv'
<1>1. CASE Begin
  <2>1. /\ UNCHANGED cached
        /\ \/ kind' = "sync" /\ pc' = "lock"
           \/ kind' = "mined" /\ pc' = "lock"
           \/ kind' = "minedInSync" /\ pc' = "check"
           \/ kind' = "block" /\ pc' = "exists"
           \/ kind' = "micro" /\ pc' \in {"snapshot", "top"}
           \/ kind' = "minedMicro" /\ pc' = "top"
    BY <1>1 DEF Begin, SyncBatch, MinedBlock, MinedBlockInSync, Block, MicroBlock, MineMicro,
                Start, Goto
  <2>2. Len(batch') <= MaxBatch \/ Len(batch') = 1
    <3>1. ASSUME NEW n \in 1 .. MaxBatch, NEW blocks \in [1 .. n -> Blocks], batch' = blocks
          PROVE  Len(batch') <= MaxBatch
      <4>1. blocks \in Seq(Blocks) /\ Len(blocks) = n /\ n <= MaxBatch
        BY BlocksApplierAssumption
      <4> QED
        BY <3>1, <4>1
    <3>2. ASSUME NEW b, batch' = <<b>> PROVE Len(batch') = 1
      BY <3>2
    <3> QED
      BY <1>1, <3>1, <3>2 DEF Begin, SyncBatch, MinedBlock, MinedBlockInSync, Block,
                              MicroBlock, MineMicro, Start
  <2> QED
    BY <2>1, <2>2 DEF RoughInv, cached, Micro
<1>2. CASE Applied
  <2>1. pc' = "idle" /\ cache' = CacheAfter(First) /\ cacheSnapshots' = SnapshotsAfter(First)
    BY <1>2 DEF Applied, Return, Goto, First
  <2>2. SnapshotsAfter(First) \subseteq CacheAfter(First)
    BY DEF SnapshotsAfter, CacheAfter, RoughInv, Micro
  <2> QED
    BY <2>1, <2>2 DEF RoughInv
<1>3. CASE SwitchState \/ Crash \/ LockPanics
  <2>1. cacheSnapshots' = {} /\ pc' = "idle"
    BY <1>3 DEF SwitchState, Crash, LockPanics, Restart, Return, Goto
  <2> QED
    BY <2>1 DEF RoughInv
<1>4. CASE SnapshotTimeout \/ Refused
  <2>1. UNCHANGED cached /\ pc' = "idle"
    BY <1>4 DEF SnapshotTimeout, Refused, Return, Goto
  <2> QED
    BY <2>1 DEF RoughInv, cached
<1>5. CASE ApiLock \/ ApiRollback \/ UNCHANGED vars
  <2>1. UNCHANGED <<cached, pc, request>>
    BY <1>5 DEF ApiLock, ApiRollback, vars
  <2> QED
    BY <2>1 DEF RoughInv, cached, request
<1>6. CASE Exists
  <2>1. UNCHANGED <<cached, request>> /\ pc # "idle" /\ kind = "block"
        /\ pc' \in {"refused", "cachedRollback", "snapshot", "check"}
    BY <1>6 DEF Exists, Goto, WorkInv, HandlerInv
  <2> QED
    BY <2>1 DEF RoughInv, cached, request
<1>7. CASE CachedApply
  <2>1. UNCHANGED <<cached, request>> /\ pc # "idle" /\ kind = "block"
        /\ pc' \in {"refused", "snapshot", "check"}
    BY <1>7 DEF CachedApply, Goto, WorkInv, HandlerInv
  <2> QED
    BY <2>1 DEF RoughInv, cached, request
<1>8. CASE Snapshot \/ MicroTop
  <2>1. /\ UNCHANGED <<cached, request>> /\ pc # "idle"
        /\ \/ pc = "snapshot" /\ pc' = IF kind = "block" THEN "check" ELSE "top"
           \/ pc = "top" /\ pc' \in {"lock", "refused"}
    BY <1>8 DEF Snapshot, MicroTop, Goto
  <2> QED
    BY <2>1 DEF RoughInv, cached, request, Micro
<1>9. CASE \/ CachedRollback \/ Lock \/ CheckRefuses \/ CheckAccepts \/ RollbackToHeight
           \/ AddDeserializedBlocks \/ Restore \/ StorageFails
  <2>1. UNCHANGED <<cached, request>>
    BY <1>9 DEF CachedRollback, Lock, CheckRefuses, CheckAccepts, RollbackToHeight,
                AddDeserializedBlocks, Restore, StorageFails
  <2>2. pc # "idle" /\ pc' \notin {"top", "lock", "snapshot"}
    <3>1. CASE CachedRollback \/ Lock \/ CheckRefuses \/ CheckAccepts
      BY <3>1 DEF CachedRollback, Lock, CheckRefuses, CheckAccepts, Goto
    <3>2. CASE RollbackToHeight \/ AddDeserializedBlocks \/ Restore \/ StorageFails
      BY <3>2 DEF RollbackToHeight, AddDeserializedBlocks, Restore, StorageFails,
                  AfterFailedAdd, Goto, Writing
    <3> QED
      BY <1>9, <3>1, <3>2
  <2> QED
    BY <2>1, <2>2 DEF RoughInv, cached, request
<1> QED
  BY <1>1, <1>2, <1>3, <1>4, <1>5, <1>6, <1>7, <1>8, <1>9 DEF Next

-----------------------------------------------------------------------------
(* Every step of an undisturbed handler.                                   *)

\* A block that follows the top is new.
LEMMA ChildIsNew ==
    ASSUME NEW C \in Seq(Blocks), IsChain(C), NEW b, Parent[b] = Last(C)
    PROVE  ~On(b, C)
<1> SUFFICES ASSUME NEW i \in 1 .. Len(C), C[i] = b PROVE FALSE
  BY DEF On
<1>1. Len(C) \in Nat /\ Len(C) \in 1 .. Len(C) /\ Last(C) = C[Len(C)] /\ C[Len(C)] \in Blocks
  BY ChainFacts
<1>2. CASE i = 1
  <2>1. Parent[b] = NoBlock
    BY <1>2, ChainFacts
  <2> QED
    BY <1>1, <2>1, ChainsAssumption
<1>3. CASE i # 1
  <2>1. i \in 2 .. Len(C) /\ i - 1 \in 1 .. Len(C) /\ i - 1 # Len(C)
    BY <1>1, <1>3
  <2>2. C[i - 1] = C[Len(C)]
    BY <1>1, <2>1, ChainFacts
  <2> QED
    BY <1>1, <2>1, <2>2, NoBlockTwice
<1> QED
  BY <1>2, <1>3

\* What the handler and the reference look at, when the ledger is as it was.
LEMMA CalmFacts ==
    ASSUME LedgerInv, WorkInv, pc # "idle"
    PROVE  /\ before \in Seq(Blocks) /\ IsChain(before) /\ Len(before) \in Nat
           /\ batch \in Seq(Blocks) /\ batch # << >> /\ First \in Blocks
           /\ kind # "sync" => batch = <<First>>
           /\ minHeight \in Nat /\ minHeight >= 1 /\ minHeight <= Len(chain)
           /\ cache \in SUBSET Cachable /\ Usable \subseteq cache
           /\ pc # "applied" => CacheFits(chain, cache)
           /\ \A x : x \in Usable <=> CachedWithSnapshot(x)
           /\ \A x : InChain(x) <=> On(x, chain)
<1>1. /\ before \in Seq(Blocks) /\ Len(before) \in Nat /\ chain \in Seq(Blocks) /\ IsChain(chain)
      /\ batch \in Seq(Blocks) /\ batch # << >>
  BY LedgerFacts
<1>2. First \in Blocks
  BY <1>1, FirstBlock DEF First
<1>3. IsChain(before) /\ cache \in SUBSET Cachable /\ (pc # "applied" => CacheFits(chain, cache))
  BY DEF WorkInv, HistoryInv, HandlerInv, CacheInv
<1>4. kind # "sync" => batch = <<First>>
  <2>1. kind # "sync" => Len(batch) = 1
    BY DEF WorkInv, HandlerInv
  <2> QED
    BY <1>1, <2>1, OneBlock DEF First
<1>5. minHeight \in Nat /\ minHeight >= 1 /\ minHeight <= Len(chain)
  BY DEF LedgerInv, StoredInv
<1>6. Usable \subseteq cache /\ \A x : x \in Usable <=> CachedWithSnapshot(x)
  BY DEF Usable, CachedWithSnapshot
<1>7. \A x : InChain(x) <=> On(x, chain)
  BY <1>1, ChainFacts DEF InChain, On
<1> QED
  BY <1>1, <1>2, <1>3, <1>4, <1>5, <1>6, <1>7

\* Without a version to return to, the blocks fork from the ledger itself.
LEMMA ForksFromLedger ==
    ASSUME LedgerInv, WorkInv, CalmInv, chain = before, kind \notin Micro,
           pc \in {"check", "rollback"}, Adopts(minHeight, kind, batch, before, Usable)
    PROVE  /\ InChain(Parent[First])
           /\ HeightOf(Parent[First]) >= Len(chain) - MaxRollbackDelta
           /\ HeightOf(Parent[First]) >= minHeight
           /\ Score(UpTo(chain, HeightOf(Parent[First]))) + Score(batch) > Score(chain)
<1> USE CalmFacts
<1>1. Forks(minHeight, before, batch)
  <2>1. ASSUME kind = "block", CachedForks(minHeight, before, batch, Usable)
        PROVE  Forks(minHeight, before, batch)
    <3>1. batch = <<First>> /\ First \in Blocks /\ CacheFits(before, cache)
      BY <2>1
    <3>2. Last(before) = Parent[First] \/ Parent[First] \notin Usable
      BY <2>1 DEF CalmInv
    <3>3. CachedForks(minHeight, before, <<First>>, Usable)
      BY <2>1, <3>1
    <3> QED
      BY <3>1, <3>2, <3>3, CacheGivesNothing
  <2> QED
    BY <2>1 DEF Adopts
<1>2. PICK i \in 1 .. Len(before) :
         /\ i >= Len(before) - MaxRollbackDelta /\ i >= minHeight
         /\ Linked(before[i], batch)
         /\ Score(UpTo(before, i)) + Score(batch) > Score(before)
  BY <1>1 DEF Forks
<1>3. before[i] = Parent[First]
  BY <1>2, FirstLinked DEF First
<1>4. InChain(Parent[First])
  BY <1>3 DEF On
<1>5. i = HeightOf(Parent[First])
  BY <1>3, <1>4, HeightFacts
<1> QED
  BY <1>2, <1>4, <1>5

LEMMA DecideExists ==
    ASSUME LedgerInv, WorkInv, RoughInv, CalmInv, Exists
    PROVE  CalmInv'
<1> DEFINE p == Parent[First]
<1>1. /\ pc = "exists" /\ kind = "block" /\ chain = before
      /\ UNCHANGED <<chain, minHeight, cache, cacheSnapshots, kind, batch, saved, before>>
      /\ kind \notin Micro
  BY DEF Exists, stored, cached, request, plan, WorkInv, HandlerInv, HistoryInv, Micro
<1>2. /\ First' = First /\ Usable' = Usable
      /\ (CachedWithSnapshot(p)' <=> CachedWithSnapshot(p))
  BY <1>1 DEF First, Usable, CachedWithSnapshot
<1>3. /\ batch = <<First>> /\ First \in Blocks /\ CacheFits(before, cache)
      /\ \A x : x \in Usable <=> CachedWithSnapshot(x)
      /\ InChain(First) <=> On(First, before)
      /\ before \in Seq(Blocks) /\ IsChain(before) /\ cache \in SUBSET Cachable
      /\ minHeight \in Nat /\ minHeight >= 1 /\ Usable \subseteq cache
  BY <1>1, CalmFacts
<1>4. \/ InChain(First) /\ pc' = "refused"
      \/ ~InChain(First) /\ Last(chain) # p /\ HalfCached(p) /\ pc' = "refused"
      \/ ~InChain(First) /\ Last(chain) # p /\ pc' = "cachedRollback"
      \/ /\ ~InChain(First) /\ pc' \in {"snapshot", "check"}
         /\ Last(chain) = p \/ ~CachedWithSnapshot(p)
  BY DEF Exists, Goto, First, Top
<1>5. CASE InChain(First) /\ pc' = "refused"
  <2>1. ~Adopts(minHeight, kind, batch, before, Usable)
    BY <1>3, <1>5 DEF Adopts, First
  <2> QED
    BY <1>1, <1>2, <1>5, <2>1 DEF CalmInv, Writing
<1>6. CASE Last(chain) # p /\ HalfCached(p) /\ pc' = "refused"
  <2>1. p \in cache /\ ~CachedWithSnapshot(p)
    BY <1>6 DEF HalfCached, RoughInv, CachedWithSnapshot
  <2>2. p \notin Usable
    BY <1>3, <2>1
  <2>3. ~Forks(minHeight, before, <<First>>) /\ ~CachedForks(minHeight, before, <<First>>, Usable)
    BY <1>1, <1>3, <1>6, <2>1, <2>2, ForkOfCached
  <2>4. ~Adopts(minHeight, kind, batch, before, Usable)
    BY <1>1, <1>3, <2>3 DEF Adopts
  <2> QED
    BY <1>1, <1>2, <1>6, <2>4 DEF CalmInv, Writing
<1>7. CASE ~InChain(First) /\ Last(chain) # p /\ pc' = "cachedRollback"
  BY <1>1, <1>2, <1>3, <1>7 DEF CalmInv, Writing
<1>8. CASE /\ ~InChain(First) /\ pc' \in {"snapshot", "check"}
           /\ Last(chain) = p \/ ~CachedWithSnapshot(p)
  BY <1>1, <1>2, <1>3, <1>8 DEF CalmInv, Writing
<1> QED
  BY <1>4, <1>5, <1>6, <1>7, <1>8

LEMMA DecideWait ==
    ASSUME LedgerInv, WorkInv, RoughInv, CalmInv, Snapshot \/ MicroTop \/ Lock
    PROVE  CalmInv'
<1>1. UNCHANGED <<chain, minHeight, cache, cacheSnapshots, kind, batch, saved, before>>
  BY DEF Snapshot, MicroTop, Lock, stored, cached, request, plan
<1>2. /\ First' = First /\ Usable' = Usable
      /\ (CachedWithSnapshot(Parent[First])' <=> CachedWithSnapshot(Parent[First]))
  BY <1>1 DEF First, Usable, CachedWithSnapshot
<1>3. \/ pc = "snapshot" /\ kind = "block" /\ pc' = "check"
      \/ pc = "snapshot" /\ kind # "block" /\ pc' = "top"
      \/ pc = "top" /\ Last(chain) = Base[First] /\ pc' = "lock"
      \/ pc = "top" /\ Last(chain) # Base[First] /\ pc' = "refused"
      \/ pc = "lock" /\ pc' = "check"
  BY DEF Snapshot, MicroTop, Lock, Goto, Top, First
<1>4. CASE pc = "snapshot" /\ kind = "block" /\ pc' = "check"
  BY <1>1, <1>2, <1>4 DEF CalmInv, Writing, Micro
<1>5. CASE pc' = "top"
  BY <1>1, <1>2, <1>5 DEF CalmInv, Writing
<1>6. CASE Last(chain) = Base[First] /\ pc' = "lock"
  BY <1>1, <1>2, <1>6 DEF CalmInv, Writing
<1>7. CASE pc = "top" /\ Last(chain) # Base[First] /\ pc' = "refused"
  <2>1. kind \in Micro /\ chain = before
    BY <1>7 DEF RoughInv, WorkInv, HistoryInv
  <2>2. ~Adopts(minHeight, kind, batch, before, Usable)
    BY <1>7, <2>1 DEF Adopts, First
  <2> QED
    BY <1>1, <1>2, <1>7, <2>2 DEF CalmInv, Writing
<1>8. CASE pc = "lock" /\ pc' = "check"
  <2>1. kind # "block" /\ chain = before
    BY <1>8 DEF RoughInv, WorkInv, HistoryInv
  <2> QED
    BY <1>1, <1>2, <1>8, <2>1 DEF CalmInv, Writing
<1> QED
  BY <1>3, <1>4, <1>5, <1>6, <1>7, <1>8

\* A version that a microblock completes: the parent is below the top.
LEMMA VersionFits ==
    ASSUME NEW L \in Seq(Blocks), IsChain(L), NEW b \in Blocks, Len(L) >= 2,
           IsChain(Front(L) \o <<b>>)
    PROVE  Len(L) - 1 \in 1 .. Len(L) /\ L[Len(L) - 1] = Parent[b]
<1> DEFINE F == Front(L)
           D == F \o <<b>>
           n == Len(L)
<1>1. /\ F \in Seq(Blocks) /\ Len(F) = n - 1 /\ n - 1 \in 1 .. n
      /\ \A i \in 1 .. n - 1 : F[i] = L[i]
  BY LastSplits
<1>2. n \in Nat /\ n >= 2
  OBVIOUS
<1>3. <<b>> \in Seq(Blocks) /\ Len(<<b>>) = 1 /\ <<b>>[1] = b
  OBVIOUS
<1> HIDE DEF F, n
<1>4. /\ D \in Seq(Blocks) /\ Len(D) = Len(F) + 1 /\ D[Len(F) + 1] = b
      /\ \A i \in 1 .. Len(F) : D[i] = F[i]
  BY <1>1, <1>3, Concatenated
<1>5. IsChain(D)
  BY DEF F
<1> HIDE DEF D
<1>6. Len(D) = n /\ D[n] = b /\ n - 1 \in 1 .. n - 1 /\ n \in 2 .. Len(D)
  BY <1>1, <1>2, <1>4
<1>7. Parent[b] = D[n - 1]
  BY <1>4, <1>5, <1>6, ChainFacts
<1> QED
  BY <1>1, <1>4, <1>6, <1>7 DEF n

LEMMA DecideCheck ==
    ASSUME LedgerInv, WorkInv, CalmInv, CheckRefuses
    PROVE  CalmInv'
<1> DEFINE p == Parent[First]
           n == Len(chain)
<1>1. /\ pc = "check" /\ pc' = "refused" /\ ~Accepts
      /\ UNCHANGED <<chain, minHeight, cache, cacheSnapshots, kind, batch, saved, before>>
      /\ chain = before \/ Replaced
  BY DEF CheckRefuses, Goto, stored, cached, request, plan, WorkInv, HistoryInv
<1>2. First' = First /\ Usable' = Usable
  BY <1>1 DEF First, Usable, CachedWithSnapshot
<1>3. /\ chain \in Seq(Blocks) /\ IsChain(chain) /\ n \in Nat /\ n >= 1
      /\ First \in Blocks /\ batch \in Seq(Blocks) /\ batch # << >>
      /\ minHeight \in Nat /\ minHeight >= 1 /\ MaxRollbackDelta \in Nat
      /\ \A x : InChain(x) <=> On(x, chain)
  BY <1>1, CalmFacts, LedgerFacts, ChainFacts, BlocksApplierAssumption
<1>4. ~Adopts(minHeight, kind, batch, before, Usable)
  <2> SUFFICES ASSUME Adopts(minHeight, kind, batch, before, Usable) PROVE FALSE
    OBVIOUS
  <2>1. CASE chain = before /\ kind \in Micro
    <3>1. ~On(First, chain) /\ IsChain(Front(chain) \o <<First>>) /\ minHeight < n
      BY <2>1 DEF Adopts, First
    <3>2. n >= 2
      BY <1>3, <3>1
    <3>3. n - 1 \in 1 .. n /\ chain[n - 1] = p
      BY <1>3, <3>1, <3>2, VersionFits
    <3>4. InChain(p) /\ ~InChain(First)
      BY <1>3, <3>1, <3>3 DEF On
    <3>5. HeightOf(p) = n - 1
      BY <3>3, <3>4, HeightFacts
    <3>6. Len(chain) - HeightOf(p) = 1
      BY <1>3, <3>5
    <3> QED
      BY <1>1, <2>1, <3>4, <3>6 DEF Accepts, ReplacesTop, First
  <2>2. CASE chain = before /\ kind \notin Micro
    <3>1. /\ InChain(p) /\ HeightOf(p) >= n - MaxRollbackDelta
          /\ Score(UpTo(chain, HeightOf(p))) + Score(batch) > Score(chain)
      BY <1>1, <2>2, ForksFromLedger
    <3>2. ~InChain(First)
      BY <1>3, <2>2 DEF Adopts, First
    <3>3. HeightOf(p) \in 1 .. n
      BY <3>1, HeightFacts
    <3>4. Score(UpTo(chain, HeightOf(p))) \in Nat /\ Score(batch) \in Nat /\ Score(chain) \in Nat
      BY <1>3, <3>3, ForkByParent, LedgerFacts
    <3>5. Score(chain) < Score(UpTo(chain, HeightOf(p))) + Score(batch)
      BY <3>1, <3>4
    <3>6. n - HeightOf(p) <= MaxRollbackDelta
      BY <1>3, <3>1, <3>3
    <3> QED
      BY <1>1, <2>2, <3>1, <3>2, <3>5, <3>6 DEF Accepts, HigherScore, DeltaHeight, First
  <2>3. CASE Replaced
    <3>1. Last(chain) = p /\ kind \notin Micro
      BY <2>3 DEF Replaced, Micro
    <3>2. n \in 1 .. n /\ chain[n] = p
      BY <1>3, <3>1, ChainFacts
    <3>3. InChain(p) /\ ~InChain(First)
      BY <1>3, <3>1, <3>2, ChildIsNew DEF On
    <3>4. HeightOf(p) = n
      BY <3>2, <3>3, HeightFacts
    <3>5. Score(chain) < Score(UpTo(chain, HeightOf(p))) + Score(batch)
      <4>1. UpTo(chain, n) = chain
        BY <1>3, <3>2, CutFacts
      <4>2. Score(chain) \in Nat /\ Score(batch) \in Nat /\ Score(batch) > 0
        BY <1>3, LedgerFacts, ScoreOfSome
      <4>3. Score(chain) < Score(chain) + Score(batch)
        BY <4>2
      <4> QED
        BY <3>4, <4>1, <4>3
    <3>6. n - HeightOf(p) <= MaxRollbackDelta
      BY <1>3, <3>4
    <3> QED
      BY <1>1, <3>1, <3>3, <3>5, <3>6 DEF Accepts, HigherScore, DeltaHeight, First
  <2> QED
    BY <1>1, <2>1, <2>2, <2>3
<1> QED
  BY <1>1, <1>2, <1>4 DEF CalmInv, Writing

LEMMA DecideAccept ==
    ASSUME LedgerInv, WorkInv, CalmInv, CheckAccepts
    PROVE  CalmInv'
<1> DEFINE p == Parent[First]
           n == Len(chain)
           h == HeightOf(p)
<1>1. /\ pc = "check" /\ Accepts /\ target' = h
      /\ pc' = IF h = n THEN "add" ELSE "rollback"
      /\ UNCHANGED <<chain, minHeight, cache, cacheSnapshots, kind, batch, before>>
      /\ chain = before \/ Replaced
  BY DEF CheckAccepts, Goto, First, stored, cached, request, WorkInv, HistoryInv
<1>2. First' = First /\ (CachedWithSnapshot(p)' <=> CachedWithSnapshot(p))
  BY <1>1 DEF First, CachedWithSnapshot
<1>3. InChain(p) /\ ~InChain(First)
  BY <1>1 DEF Accepts, ReplacesTop, HigherScore, First
<1>4. h \in 1 .. n /\ chain[h] = p
  BY <1>3, HeightFacts
<1>5. ~On(First, before)
  <2>1. CASE kind = "block"
    BY <1>1, <2>1 DEF CalmInv
  <2>2. CASE kind # "block"
    BY <1>1, <1>3, <2>2, CalmFacts DEF Replaced
  <2> QED
    BY <2>1, <2>2
<1>6. CASE h = n
  <2>1. Last(chain) = p
    BY <1>4, <1>6 DEF Last
  <2> QED
    BY <1>1, <1>2, <1>5, <1>6, <2>1 DEF CalmInv, Writing
<1>7. CASE h # n
  BY <1>1, <1>2, <1>4, <1>5, <1>7 DEF CalmInv, Writing
<1> QED
  BY <1>6, <1>7

LEMMA DecideCachedRollback ==
    ASSUME LedgerInv, WorkInv, CalmInv, CachedRollback
    PROVE  CalmInv'
<1> DEFINE p == Parent[First]
           edge == Parent[p]
<1>1. /\ pc = "cachedRollback" /\ kind = "block" /\ kind \notin Micro /\ chain = before
      /\ UNCHANGED <<minHeight, cache, cacheSnapshots, kind, batch, saved, before>>
      /\ p \in cache /\ Last(chain) # p /\ ~On(First, before)
  BY DEF CachedRollback, Rollback, stored, cached, request, plan, WorkInv, HandlerInv,
         HistoryInv, CalmInv, Micro, CachedWithSnapshot, Writing
<1>2. First' = First /\ Usable' = Usable
  BY <1>1 DEF First, Usable, CachedWithSnapshot
<1>3. \/ pc' = "cachedApply"
      \/ ~(InChain(edge) /\ HeightOf(edge) \in RollbackHeights) /\ pc' = "refused"
  BY DEF CachedRollback, Goto, First
<1>4. CASE pc' = "cachedApply"
  BY <1>1, <1>2, <1>4 DEF CalmInv, Writing
<1>5. CASE ~(InChain(edge) /\ HeightOf(edge) \in RollbackHeights) /\ pc' = "refused"
  <2>1. /\ batch = <<First>> /\ First \in Blocks /\ CacheFits(before, cache)
        /\ before \in Seq(Blocks) /\ IsChain(before) /\ cache \in SUBSET Cachable
        /\ minHeight \in Nat /\ minHeight >= 1 /\ Usable \subseteq cache
        /\ \A x : InChain(x) <=> On(x, chain)
    BY <1>1, CalmFacts
  <2>2. /\ ~Forks(minHeight, before, <<First>>)
        /\ CachedForks(minHeight, before, <<First>>, Usable) =>
              \E h \in minHeight .. Len(before) : h \in 1 .. Len(before) /\ before[h] = edge
    BY <1>1, <2>1, ForkOfCached
  <2>3. ~CachedForks(minHeight, before, <<First>>, Usable)
    <3> SUFFICES ASSUME NEW h \in minHeight .. Len(before), h \in 1 .. Len(before),
                        before[h] = edge
                 PROVE  FALSE
      BY <2>2
    <3>1. InChain(edge)
      BY <1>1, <2>1 DEF On
    <3>2. HeightOf(edge) = h
      BY <1>1, <3>1, HeightFacts
    <3> QED
      BY <1>1, <1>5, <3>1, <3>2 DEF RollbackHeights
  <2>4. ~Adopts(minHeight, kind, batch, before, Usable)
    BY <1>1, <2>1, <2>2, <2>3 DEF Adopts
  <2> QED
    BY <1>1, <1>2, <1>5, <2>4 DEF CalmInv, Writing
<1> QED
  BY <1>3, <1>4, <1>5

\* How far the window moves.
LEMMA WindowAfterAdd ==
    ASSUME LedgerInv, NEW bs \in Seq(Blocks), bs # << >>, AddBlocks(bs)
    PROVE  /\ chain' = chain \o bs /\ Len(chain') = Len(chain) + Len(bs)
           /\ minHeight' \in Nat /\ minHeight' < Len(chain')
           /\ Len(bs) <= RollbackMaxBlocks => minHeight' <= Len(chain)
           /\ Len(bs) = 1 /\ 2 <= RollbackMaxBlocks =>
                 minHeight' = minHeight \/ minHeight' <= Len(chain) - 1
<1> DEFINE n == Len(chain)
           k == Len(bs)
           m == minHeight
<1>1. /\ chain' = chain \o bs /\ Len(chain') = n + k /\ n \in Nat /\ k \in Nat /\ k >= 1
      /\ m \in Nat /\ m <= n
  <2>1. chain \in Seq(Blocks) /\ m \in Nat /\ m <= n
    BY DEF LedgerInv, StoredInv
  <2>2. k # 0
    OBVIOUS
  <2>3. \A j \in Nat : j # 0 => j >= 1
    OBVIOUS
  <2> QED
    BY <2>1, <2>2, <2>3, Concatenated DEF AddBlocks
<1>2. minHeight' = IF n + k < m \/ (n + k) - m < RollbackMaxBlocks
                   THEN m ELSE (n + k) - RollbackMaxBlocks
  <2>1. minHeight' = NewRollbackMinHeight(Len(chain'))
    BY DEF AddBlocks
  <2> QED
    BY <1>1, <2>1, Zenon DEF NewRollbackMinHeight
<1>3. RollbackMaxBlocks \in Nat /\ RollbackMaxBlocks >= 1
  BY BlocksApplierAssumption
<1> HIDE DEF n, k, m
<1>4. minHeight' \in Nat /\ minHeight' < n + k
  BY <1>1, <1>2, <1>3
<1>5. k <= RollbackMaxBlocks => minHeight' <= n
  BY <1>1, <1>2, <1>3
<1>6. k = 1 /\ 2 <= RollbackMaxBlocks => minHeight' = m \/ minHeight' <= n - 1
  BY <1>1, <1>2, <1>3
<1> QED
  BY <1>1, <1>4, <1>5, <1>6 DEF n, k, m

LEMMA DecideCachedApply ==
    ASSUME LedgerInv, WorkInv, calm, CalmInv, CachedApply
    PROVE  CalmInv'
<1> DEFINE c == Parent[First]
<1>1. /\ pc = "cachedApply" /\ kind = "block" /\ kind \notin Micro
      /\ UNCHANGED <<cache, cacheSnapshots, kind, batch, saved, before>>
      /\ CachedWithSnapshot(c) /\ ~On(First, before) /\ Last(chain) = Parent[c]
  BY DEF CachedApply, cached, request, plan, WorkInv, HandlerInv, HistoryInv, CalmInv,
         Micro, Writing
<1>2. First' = First
  BY <1>1 DEF First
<1>3. c \in Valid /\ c \in Blocks /\ chain \in Seq(Blocks) /\ IsChain(chain)
  BY <1>1, CachableFacts, LedgerFacts DEF WorkInv, HandlerInv, CachedWithSnapshot
<1>4. CanAdd(<<c>>)
  BY <1>1, <1>3, Appended DEF CanAdd, Top
<1>5. AddBlocks(<<c>>) /\ pc' \in {"snapshot", "check"}
  BY <1>4 DEF CachedApply, Goto, First
<1>6. <<c>> \in Seq(Blocks) /\ <<c>> # << >>
  BY <1>3
<1>7. chain' = chain \o <<c>> /\ minHeight' < Len(chain')
  BY <1>5, <1>6, WindowAfterAdd
<1>8. Last(chain') = c
  BY <1>3, <1>7, FrontAfter
<1> QED
  BY <1>1, <1>2, <1>5, <1>7, <1>8 DEF CalmInv, Writing

LEMMA DecideRollback ==
    ASSUME LedgerInv, WorkInv, calm, CalmInv, RollbackToHeight
    PROVE  CalmInv'
<1> DEFINE p == Parent[First]
           n == Len(chain)
<1>1. /\ pc = "rollback" /\ chain = before /\ saved # << >>
      /\ UNCHANGED <<minHeight, cache, cacheSnapshots, kind, batch, saved, before>>
      /\ target \in 1 .. n /\ chain[target] = p /\ ~On(First, before)
      /\ UpTo(chain, target) \o saved = chain
  BY DEF RollbackToHeight, Rollback, stored, cached, request, plan, WorkInv, PlanInv,
         HistoryInv, CalmInv, Writing
<1>2. First' = First /\ Usable' = Usable
  BY <1>1 DEF First, Usable, CachedWithSnapshot
<1>3. chain \in Seq(Blocks) /\ IsChain(chain) /\ n \in Nat /\ saved \in Seq(Blocks)
  BY LedgerFacts
<1>4. \/ chain' = UpTo(chain, target) /\ pc' = "add"
      \/ target \notin RollbackHeights /\ pc' = "refused"
  BY DEF RollbackToHeight, Rollback, Goto
<1>5. CASE chain' = UpTo(chain, target) /\ pc' = "add"
  <2>1. Last(chain') = p
    BY <1>1, <1>3, <1>5, CutFacts
  <2> QED
    BY <1>1, <1>2, <1>5, <2>1 DEF CalmInv, Writing
<1>6. CASE target \notin RollbackHeights /\ pc' = "refused"
  <2>0. minHeight \in Nat /\ minHeight >= 1
    BY <1>1, CalmFacts
  <2>1. target < minHeight
    BY <1>1, <1>3, <1>6, <2>0 DEF RollbackHeights
  <2>2. ~Adopts(minHeight, kind, batch, before, Usable)
    <3> SUFFICES ASSUME Adopts(minHeight, kind, batch, before, Usable) PROVE FALSE
      OBVIOUS
    <3>1. CASE kind \in Micro
      <4>1. minHeight < n
        BY <1>1, <3>1 DEF Adopts
      <4>2. Len(saved) = 1
        BY <1>1, <3>1 DEF WorkInv, MicroInv
      <4>3. UpTo(chain, target) \in Seq(Blocks) /\ Len(UpTo(chain, target)) = target
        BY <1>1, <1>3, CutFacts
      <4>4. n = target + Len(saved)
        BY <1>1, <1>3, <4>3, Concatenated
      <4> QED
        BY <1>1, <1>3, <2>0, <2>1, <4>1, <4>2, <4>4
    <3>2. CASE kind \notin Micro
      <4>1. InChain(p) /\ HeightOf(p) >= minHeight
        BY <1>1, <3>2, ForksFromLedger
      <4>2. target = HeightOf(p)
        BY <1>1, <4>1, HeightFacts
      <4> QED
        BY <1>1, <2>0, <2>1, <4>1, <4>2
    <3> QED
      BY <3>1, <3>2
  <2> QED
    BY <1>1, <1>2, <1>6, <2>2 DEF CalmInv, Writing
<1> QED
  BY <1>4, <1>5, <1>6

\* Blocks that the storage refuses where they belong are adopted nowhere.
LEMMA RefusedBlocks ==
    ASSUME LedgerInv, WorkInv, pc # "idle", ~CanAdd(batch), Last(chain) = Parent[First], NEW m
    PROVE  ~Adopts(m, kind, batch, before, Usable)
<1>1. /\ before \in Seq(Blocks) /\ IsChain(before) /\ batch \in Seq(Blocks) /\ batch # << >>
  BY CalmFacts
<1>2. kind \in Micro => Len(batch) = 1
  BY DEF WorkInv, HandlerInv, Micro
<1>3. ~(Linked(Parent[batch[1]], batch) /\ Range(batch) \subseteq Valid)
  BY DEF CanAdd, Top, First
<1> QED
  BY <1>1, <1>2, <1>3, NotAddable

LEMMA DecideRestore ==
    ASSUME LedgerInv, WorkInv, CalmInv, Restore
    PROVE  CalmInv'
<1>1. /\ pc = "restore" /\ pc' = "refused"
      /\ UNCHANGED <<cache, cacheSnapshots, kind, batch, saved, before>>
      /\ ~CanAdd(batch) /\ Last(chain) = Parent[First]
  BY DEF Restore, Goto, cached, request, plan, CalmInv
<1>2. Usable' = Usable
  BY <1>1 DEF Usable, CachedWithSnapshot
<1>3. ~Adopts(minHeight', kind, batch, before, Usable)
  BY <1>1, RefusedBlocks
<1> QED
  BY <1>1, <1>2, <1>3 DEF CalmInv, Writing

\* The storage takes the blocks: the reference adopts them.
LEMMA AdoptsVersion ==
    ASSUME LedgerInv, WorkInv, calm, CalmInv, pc = "add", CanAdd(batch), kind \in Micro,
           NEW m \in Nat, m <= Len(chain)
    PROVE  Adopts(m, kind, batch, before, Usable)
<1> DEFINE b == Base[First]
<1>1. /\ saved = <<b>> /\ ~On(First, before) /\ kind # "sync"
      /\ saved # << >> => chain \o saved = before
  BY DEF WorkInv, MicroInv, HistoryInv, CalmInv, Micro, Writing
<1>2. /\ chain \in Seq(Blocks) /\ IsChain(chain) /\ Len(chain) \in Nat /\ saved \in Seq(Blocks)
      /\ batch = <<First>> /\ First \in Blocks
  BY <1>1, LedgerFacts, CalmFacts
<1> HIDE DEF b
<1>3. b \in Blocks
  BY <1>1, <1>2, OneBlock
<1>4. before = chain \o <<b>>
  BY <1>1
<1>5. Front(before) = chain /\ Last(before) = b
  BY <1>2, <1>3, <1>4, FrontAfter
<1>6. Len(before) = Len(chain) + 1
  BY <1>2, <1>3, <1>4, Concatenated
<1>7. m < Len(before)
  BY <1>2, <1>6
<1>8. IsChain(chain \o <<First>>)
  <2>1. Parent[First] = Last(chain) /\ First \in Valid
    BY <1>2, OneLinked DEF CanAdd, Top
  <2> QED
    BY <1>2, <2>1, Appended
<1>9. batch[1] = First /\ Base[batch[1]] = b
  BY DEF First, b
<1>10. ~On(batch[1], before) /\ Base[batch[1]] = Last(before) /\ m < Len(before)
       /\ IsChain(Front(before) \o <<batch[1]>>)
  BY <1>1, <1>5, <1>7, <1>8, <1>9, Zenon
<1> QED
  BY <1>10, Zenon DEF Adopts

\* The blocks fit on L where the ledger C ends.
LEMMA ForksAt ==
    ASSUME NEW L \in Seq(Blocks), NEW C \in Seq(Blocks), IsChain(C), Len(C) <= Len(L),
           \A i \in 1 .. Len(C) : L[i] = C[i], Len(L) <= Len(C) + MaxRollbackDelta,
           NEW B, Linked(Last(C), B), Range(B) \subseteq Valid,
           Score(C) + Score(B) > Score(L), NEW m \in Nat, m <= Len(C)
    PROVE  Forks(m, L, B)
<1> DEFINE n == Len(C)
<1>1. n \in Nat /\ n >= 1 /\ Len(L) \in Nat /\ MaxRollbackDelta \in Nat /\ Last(C) = C[n]
  BY ChainFacts, BlocksApplierAssumption
<1>2. n \in 1 .. Len(L) /\ n \in 1 .. n /\ n >= Len(L) - MaxRollbackDelta /\ n >= m
  BY <1>1
<1>3. UpTo(L, n) = C
  <2>1. UpTo(L, n) \in Seq(Blocks) /\ Len(UpTo(L, n)) = n /\ \A i \in 1 .. n : UpTo(L, n)[i] = L[i]
    BY <1>2, CutFacts
  <2> QED
    BY <2>1, SameBlocks
<1>4. L[n] = Last(C)
  BY <1>1, <1>2
<1> QED
  BY <1>2, <1>3, <1>4 DEF Forks

LEMMA AdoptsFork ==
    ASSUME LedgerInv, WorkInv, ForkInv, calm, CalmInv, pc = "add", CanAdd(batch),
           kind \notin Micro, saved # << >> \/ chain = before, NEW m \in Nat, m <= Len(chain)
    PROVE  Adopts(m, kind, batch, before, Usable)
<1>1. ~On(batch[1], before)
  BY DEF CalmInv, Writing, First
<1>2. /\ chain \in Seq(Blocks) /\ IsChain(chain) /\ Len(chain) \in Nat /\ saved \in Seq(Blocks)
      /\ before \in Seq(Blocks) /\ batch \in Seq(Blocks) /\ batch # << >> /\ Score(chain) \in Nat
  BY LedgerFacts
<1>3. Linked(Last(chain), batch) /\ Range(batch) \subseteq Valid
  BY DEF CanAdd, Top
<1>4. Len(before) <= Len(chain) + MaxRollbackDelta
  BY DEF WorkInv, HistoryInv
<1>5. CASE saved # << >>
  <2>1. chain \o saved = before /\ Score(chain) + Score(batch) > Score(before)
    BY <1>5 DEF WorkInv, HistoryInv, ForkInv
  <2>2. Len(before) = Len(chain) + Len(saved) /\ Len(saved) \in Nat
        /\ \A i \in 1 .. Len(chain) : before[i] = chain[i]
    BY <1>2, <2>1, Concatenated
  <2>3. Len(chain) <= Len(before)
    BY <1>2, <2>2
  <2>4. Forks(m, before, batch)
    BY <1>2, <1>3, <1>4, <2>1, <2>2, <2>3, ForksAt
  <2> QED
    BY <1>1, <2>4 DEF Adopts
<1>6. CASE chain = before
  <2>1. Score(batch) > 0 /\ Score(batch) \in Nat
    BY <1>2, ScoreOfSome
  <2>2. Score(chain) + Score(batch) > Score(before)
    BY <1>2, <1>6, <2>1
  <2>3. Len(chain) <= Len(before)
    BY <1>2, <1>6
  <2>4. Forks(m, before, batch)
    BY <1>2, <1>3, <1>4, <1>6, <2>2, <2>3, ForksAt
  <2> QED
    BY <1>1, <2>4 DEF Adopts
<1> QED
  BY <1>5, <1>6

LEMMA AdoptsOnCached ==
    ASSUME LedgerInv, WorkInv, calm, CalmInv, pc = "add", CanAdd(batch),
           saved = << >>, chain # before, NEW m \in Nat, m <= Len(chain) - 1
    PROVE  Adopts(m, kind, batch, before, Usable)
<1> DEFINE c == Parent[First]
           n == Len(chain)
           F == Front(chain)
<1>1. /\ ~On(batch[1], before) /\ Replaced /\ minHeight < n
  BY DEF CalmInv, Writing, First, WorkInv, HistoryInv
<1>2. /\ chain \in Seq(Blocks) /\ IsChain(chain) /\ n \in Nat
      /\ before \in Seq(Blocks) /\ IsChain(before) /\ Len(before) \in Nat
      /\ batch \in Seq(Blocks) /\ batch # << >> /\ Score(chain) \in Nat
      /\ minHeight \in Nat /\ minHeight >= 1 /\ \A x : x \in Usable <=> CachedWithSnapshot(x)
  BY LedgerFacts, CalmFacts
<1>3. /\ kind = "block" /\ kind \notin Micro /\ F \in {Front(before), before}
      /\ Last(chain) = c /\ c \in Usable
  BY <1>1, <1>2 DEF Replaced, Micro
<1>4. n >= 2
  BY <1>1, <1>2
<1>5. F \in Seq(Blocks) /\ Len(F) = n - 1 /\ F \o <<c>> = chain
  BY <1>2, <1>3, <1>4, LastSplits
<1> DEFINE h == n - 1
<1>6. /\ h \in m .. Len(before) /\ h \in 1 .. Len(before)
      /\ h \notin 1 .. (Len(before) - 2) /\ UpTo(before, h) = F
  <2>1. CASE F = before
    <3>1. Len(before) = h
      BY <1>5, <2>1
    <3>2. h \in 1 .. h /\ h \in m .. h /\ h \notin 1 .. (h - 2)
      BY <1>2, <1>4
    <3>3. UpTo(before, Len(before)) = before
      BY <1>2, <3>1, <3>2, CutFacts
    <3> QED
      BY <2>1, <3>1, <3>2, <3>3
  <2>2. CASE F = Front(before)
    <3>1. Len(before) >= 1 /\ Len(Front(before)) = h
      BY <1>2, <1>5, <2>2, ChainFacts
    <3>2. Len(before) # 1
      <4>1. ASSUME Len(before) = 1 PROVE Len(Front(before)) = 0
        BY <1>2, <4>1 DEF Front
      <4> QED
        BY <1>2, <1>4, <3>1, <4>1
    <3>3. Len(before) >= 2
      <4>1. \A j \in Nat : j >= 1 /\ j # 1 => j >= 2
        OBVIOUS
      <4> QED
        BY <1>2, <3>1, <3>2, <4>1, Zenon
    <3>4. Front(before) = UpTo(before, Len(before) - 1) /\ Len(Front(before)) = Len(before) - 1
      BY <1>2, <3>3, LastSplits
    <3>5. Len(before) = n /\ Len(before) - 1 = h
      BY <1>2, <3>1, <3>4
    <3>6. h \in m .. n /\ h \in 1 .. n /\ h \notin 1 .. (n - 2)
      BY <1>2, <1>4
    <3> QED
      BY <2>2, <3>4, <3>5, <3>6
  <2> QED
    BY <1>3, <2>1, <2>2
<1>7. Forks(m, chain, batch)
  <2>1. Score(batch) > 0 /\ Score(batch) \in Nat
    BY <1>2, ScoreOfSome
  <2>2. Score(chain) + Score(batch) > Score(chain)
    BY <1>2, <2>1
  <2>3. n <= n /\ n <= n + MaxRollbackDelta /\ m <= n
    BY <1>2, BlocksApplierAssumption
  <2>4. Linked(Last(chain), batch) /\ Range(batch) \subseteq Valid
    BY DEF CanAdd, Top
  <2> QED
    BY <1>2, <2>2, <2>3, <2>4, ForksAt
<1> HIDE DEF h, F, c, n
<1>8. IsChain(UpTo(before, h) \o <<c>>) /\ Forks(m, UpTo(before, h) \o <<c>>, batch)
  BY <1>2, <1>5, <1>6, <1>7
<1>9. CachedForks(m, before, batch, Usable)
  BY <1>3, <1>6, <1>8 DEF CachedForks
<1> QED
  BY <1>1, <1>3, <1>9 DEF Adopts

LEMMA DecideAdd ==
    ASSUME LedgerInv, WorkInv, ForkInv, RoughInv, calm, CalmInv, AddDeserializedBlocks,
           MaxBatch <= RollbackMaxBlocks, 2 <= RollbackMaxBlocks
    PROVE  CalmInv'
<1>1. /\ pc = "add"
      /\ UNCHANGED <<cache, cacheSnapshots, kind, batch, saved, before>>
      /\ Last(chain) = Parent[First] /\ ~On(First, before)
  BY DEF AddDeserializedBlocks, cached, request, plan, CalmInv, Writing
<1>2. Usable' = Usable /\ First' = First
  BY <1>1 DEF Usable, CachedWithSnapshot, First
<1>3. \/ CanAdd(batch) /\ AddBlocks(batch) /\ pc' = "applied"
      \/ /\ ~CanAdd(batch) /\ UNCHANGED stored
         /\ pc' = IF saved = << >> THEN "refused" ELSE "restore"
  BY DEF AddDeserializedBlocks, AfterFailedAdd, Goto
<1>4. CASE CanAdd(batch) /\ AddBlocks(batch) /\ pc' = "applied"
  <2>1. batch \in Seq(Blocks) /\ batch # << >> /\ Len(chain) \in Nat
    BY <1>1, LedgerFacts
  <2>2. Len(batch) <= RollbackMaxBlocks
    <3>1. Len(batch) <= MaxBatch \/ Len(batch) = 1
      BY <1>1 DEF RoughInv
    <3>2. Len(batch) \in Nat
      BY <2>1
    <3>3. MaxBatch \in Nat /\ RollbackMaxBlocks \in Nat
      BY BlocksApplierAssumption
    <3>4. \A j, x, r \in Nat : (j <= x \/ j = 1) /\ x <= r /\ 2 <= r => j <= r
      OBVIOUS
    <3> QED
      BY <3>1, <3>2, <3>3, <3>4, Zenon
  <2>3. minHeight' \in Nat /\ minHeight' <= Len(chain)
        /\ (Len(batch) = 1 => minHeight' = minHeight \/ minHeight' <= Len(chain) - 1)
    BY <1>4, <2>1, <2>2, WindowAfterAdd
  <2>4. Adopts(minHeight', kind, batch, before, Usable)
    <3>1. CASE kind \in Micro
      BY <1>1, <1>4, <2>3, <3>1, AdoptsVersion
    <3>2. CASE kind \notin Micro /\ (saved # << >> \/ chain = before)
      BY <1>1, <1>4, <2>3, <3>2, AdoptsFork
    <3>3. CASE kind \notin Micro /\ saved = << >> /\ chain # before
      <4>1. minHeight < Len(chain) /\ Replaced
        BY <1>1, <3>3 DEF CalmInv, WorkInv, HistoryInv
      <4>2. Len(batch) = 1
        BY <1>1, <4>1 DEF Replaced, WorkInv, HandlerInv
      <4>3. minHeight \in Nat
        BY DEF LedgerInv, StoredInv
      <4>4. minHeight' <= Len(chain) - 1
        BY <2>1, <2>3, <4>1, <4>2, <4>3
      <4> QED
        BY <1>1, <1>4, <2>3, <3>3, <4>4, AdoptsOnCached
    <3> QED
      BY <3>1, <3>2, <3>3
  <2> QED
    BY <1>1, <1>2, <1>4, <2>4 DEF CalmInv, Writing
<1>5. CASE /\ ~CanAdd(batch) /\ UNCHANGED stored
           /\ pc' = IF saved = << >> THEN "refused" ELSE "restore"
  <2>1. ~Adopts(minHeight, kind, batch, before, Usable)
    BY <1>1, <1>5, RefusedBlocks
  <2>2. UNCHANGED <<chain, minHeight>> /\ ~CanAdd(batch)'
    BY <1>1, <1>5 DEF stored, CanAdd, Top
  <2> QED
    BY <1>1, <1>2, <1>5, <2>1, <2>2 DEF CalmInv, Writing
<1> QED
  BY <1>3, <1>4, <1>5

LEMMA DecisionStep ==
    ASSUME LedgerInv, WorkInv, ForkInv, DecisionInv, [Next]_vars,
           MaxBatch <= RollbackMaxBlocks, 2 <= RollbackMaxBlocks
    PROVE  DecisionInv'
<1>1. RoughInv /\ RoughInv'
  BY RoughStep DEF DecisionInv
<1>2. SUFFICES ASSUME pc' # "idle", calm' PROVE CalmInv'
  BY <1>1 DEF DecisionInv
<1>3. CASE Begin
  <2>1. /\ before' = chain /\ chain' = chain
        /\ \/ kind' \in {"sync", "mined"} /\ pc' = "lock"
           \/ kind' = "minedInSync" /\ pc' = "check"
           \/ kind' = "block" /\ pc' = "exists"
           \/ pc' \in {"snapshot", "top"} /\ kind' \in Micro
    BY <1>3 DEF Begin, SyncBatch, MinedBlock, MinedBlockInSync, Block, MicroBlock, MineMicro,
                Start, Goto, stored, Micro
  <2> QED
    BY <2>1 DEF CalmInv, Writing, Micro
<1>4. CASE SwitchState \/ SnapshotTimeout \/ Applied \/ Refused \/ Crash \/ LockPanics
  <2>1. pc' = "idle"
    BY <1>4 DEF SwitchState, SnapshotTimeout, Applied, Refused, Crash, LockPanics,
                Restart, Return, Goto
  <2> QED
    BY <1>2, <2>1
<1>5. CASE ApiRollback \/ StorageFails
  <2>1. pc' = "idle" \/ ~calm'
    BY <1>5 DEF ApiRollback, StorageFails
  <2> QED
    BY <1>2, <2>1
<1>6. CASE ApiLock \/ UNCHANGED vars
  <2>1. UNCHANGED <<chain, minHeight, cache, cacheSnapshots, pc, kind, batch, saved, target,
                    before, calm>>
    BY <1>6 DEF ApiLock, vars, stored, cached, request, plan
  <2>2. /\ First' = First /\ Usable' = Usable /\ (CanAdd(batch)' <=> CanAdd(batch))
        /\ (CachedWithSnapshot(Parent[First])' <=> CachedWithSnapshot(Parent[First]))
    BY <2>1 DEF First, Usable, CanAdd, Top, CachedWithSnapshot
  <2>3. CalmInv
    BY <1>2, <2>1 DEF DecisionInv
  <2> QED
    BY <2>1, <2>2, <2>3 DEF CalmInv
<1>7. ASSUME \/ Exists \/ CachedRollback \/ CachedApply \/ Snapshot \/ MicroTop \/ Lock
             \/ CheckRefuses \/ CheckAccepts \/ RollbackToHeight
             \/ AddDeserializedBlocks \/ Restore
      PROVE  CalmInv'
  <2>1. calm' = calm /\ pc # "idle"
    BY <1>7 DEF Exists, CachedRollback, CachedApply, Snapshot, MicroTop, Lock,
                CheckRefuses, CheckAccepts, RollbackToHeight, AddDeserializedBlocks, Restore
  <2>2. calm /\ CalmInv
    BY <1>2, <2>1 DEF DecisionInv
  <2> QED
    BY <1>1, <1>7, <2>2, DecideExists, DecideWait, DecideCheck, DecideAccept,
       DecideCachedRollback, DecideCachedApply, DecideRollback, DecideAdd, DecideRestore
<1> QED
  BY <1>3, <1>4, <1>5, <1>6, <1>7 DEF Next

\* The handlers apply the blocks that the reference adopts, and no others, whenever no
\* failure of the storage and no API rollback comes between: for every tree of blocks and
\* every cache.  The hypothesis: a batch of a synchronization, which is as long as the list
\* of IDs that a peer answers with (nodes list 100 at most, actions_by_type.go), is not
\* longer than the rollback window of 2000 blocks.  A longer one would move the window
\* above the block that it branches off.
THEOREM DecisionsAreRight ==
    ASSUME MaxBatch <= RollbackMaxBlocks, 2 <= RollbackMaxBlocks
    PROVE  Spec => []DecisionsMatchReference
<1>1. Init => DecisionInv
  BY DEF Init, DecisionInv, RoughInv
<1>2. LedgerInv /\ WorkInv /\ ForkInv /\ DecisionInv /\ [Next]_vars => DecisionInv'
  BY DecisionStep
<1>3. LedgerInv /\ WorkInv /\ DecisionInv => DecisionsMatchReference
  <2> SUFFICES ASSUME LedgerInv, WorkInv, DecisionInv, calm, pc \in {"applied", "refused"}
               PROVE  /\ pc = "applied" => Adoptable
                      /\ pc = "refused" => ~Adoptable
    BY DEF DecisionsMatchReference
  <2>1. CalmInv /\ pc # "idle"
    BY DEF DecisionInv
  <2>2. Adoptable <=> Adopts(minHeight, kind, batch, before, Usable)
    BY <2>1, AdoptableMeans
  <2> QED
    BY <2>1, <2>2 DEF CalmInv
<1> QED
  BY <1>1, <1>2, <1>3, LedgerInvariant, WorkInvariant, ForkInvariant, PTL DEF Spec
=============================================================================
