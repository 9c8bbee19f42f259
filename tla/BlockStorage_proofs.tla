------------------------ MODULE BlockStorage_proofs ------------------------
(***************************************************************************)
(* Theorems about the block files, for blocks of any size, any voting      *)
(* window and any depth of rollbacks, with BlockV5 preactivated or voted   *)
(* for, with crashes and failures at any point: the stored chain reads     *)
(* back, and blocks are stored by a wrong protobuf info only after one of  *)
(* two things that InfoKept and EdgeHasTransactions name.                  *)
(***************************************************************************)
EXTENDS BlockStorage, FiniteSetTheorems, TLAPS

-----------------------------------------------------------------------------
(* What the theorems ask of a behaviour.                                   *)

\* No failed operation has dropped what the batch said of the protobuf info:
\* between two operations the database has the info of the memory, or the
\* batch has it.  (AddBlocksFails and RollbackFails may break this, see
\* README, section 5.)
InfoKept == pc = "up" /\ ~batch.changed => rw.pb = db.pb

\* The last block before the first protobuf block has transactions: this is
\* how blockReadWriter.rollback tells that the activation is undone.
EdgeHasTransactions ==
    /\ lastBlock # NoBlock
    /\ ~IsProtobuf(lastBlock)
    /\ IsActivatedAtHeight(lastBlock, Height(lastBlock) + 1)
    => TxSize(lastBlock) > 0

-----------------------------------------------------------------------------
(* Chains.                                                                 *)

Chain == Seq(Contents)

\* The block at a height of a chain.
LEMMA AncestorFacts ==
    ASSUME NEW N \in Chain, NEW h \in 1..Len(N) + 1
    PROVE  /\ Ancestor(N, h) \in Chain
           /\ Len(Ancestor(N, h)) = h - 1
           /\ Height(Ancestor(N, h)) = h
           /\ \A i \in 1..h - 1 : Ancestor(N, h)[i] = N[i]
  BY DEF Chain, Ancestor, Height

LEMMA TopAncestor ==
    ASSUME NEW N \in Chain
    PROVE  Ancestor(N, Len(N) + 1) = N
<1>1. /\ Ancestor(N, Len(N) + 1) \in Chain
      /\ Len(Ancestor(N, Len(N) + 1)) = Len(N)
      /\ \A i \in 1..Len(N) : Ancestor(N, Len(N) + 1)[i] = N[i]
  BY DEF Chain, Ancestor
<1> QED
  BY <1>1 DEF Chain

LEMMA AncestorOfAncestor ==
    ASSUME NEW N \in Chain, NEW h \in 1..Len(N) + 1, NEW g \in 1..h
    PROVE  Ancestor(Ancestor(N, h), g) = Ancestor(N, g)
<1>1. /\ Ancestor(N, h) \in Chain
      /\ Len(Ancestor(N, h)) = h - 1
      /\ \A i \in 1..h - 1 : Ancestor(N, h)[i] = N[i]
  BY AncestorFacts
<1>2. g \in 1..Len(Ancestor(N, h)) + 1 /\ g \in 1..Len(N) + 1
  BY <1>1 DEF Chain
<1>3. /\ Ancestor(Ancestor(N, h), g) \in Chain
      /\ Len(Ancestor(Ancestor(N, h), g)) = g - 1
      /\ \A i \in 1..g - 1 : Ancestor(Ancestor(N, h), g)[i] = Ancestor(N, h)[i]
  BY <1>1, <1>2, AncestorFacts
<1>4. /\ Ancestor(N, g) \in Chain
      /\ Len(Ancestor(N, g)) = g - 1
      /\ \A i \in 1..g - 1 : Ancestor(N, g)[i] = N[i]
  BY <1>2, AncestorFacts
<1>5. \A i \in 1..g - 1 : Ancestor(Ancestor(N, h), g)[i] = Ancestor(N, g)[i]
  BY <1>1, <1>3, <1>4
<1> HIDE DEF Chain
<1> DEFINE x == Ancestor(Ancestor(N, h), g)
           y == Ancestor(N, g)
<1>6. x \in Chain /\ y \in Chain /\ Len(x) = Len(y) /\ \A i \in 1..Len(x) : x[i] = y[i]
  BY <1>3, <1>4, <1>5
<1> HIDE DEF x, y
<1>7. x = y
  BY <1>6 DEF Chain
<1> QED
  BY <1>7 DEF x, y

\* A block on top of a chain leaves the blocks below it.
LEMMA AppendFacts ==
    ASSUME NEW N \in Chain, NEW c \in Contents
    PROVE  /\ Append(N, c) \in Chain
           /\ Len(Append(N, c)) = Len(N) + 1
           /\ Append(N, c) # Genesis
           /\ Append(N, c)[Len(N) + 1] = c
           /\ \A i \in 1..Len(N) : Append(N, c)[i] = N[i]
           /\ TxSize(Append(N, c)) = c.txs
           /\ Ancestor(Append(N, c), Len(N) + 1) = N
           /\ \A h \in 1..Len(N) + 1 : Ancestor(Append(N, c), h) = Ancestor(N, h)
<1> DEFINE A == Append(N, c)
<1>1. /\ A \in Chain
      /\ Len(A) = Len(N) + 1
      /\ A # Genesis
      /\ A[Len(N) + 1] = c
      /\ \A i \in 1..Len(N) : A[i] = N[i]
  BY DEF Chain, Genesis
<1>2. TxSize(A) = c.txs
  BY <1>1 DEF TxSize, Last
<1> HIDE DEF A
<1>3. Len(N) \in Nat
  BY DEF Chain
<1>4. ASSUME NEW h \in 1..Len(N) + 1
      PROVE  Ancestor(A, h) = Ancestor(N, h)
  <2>1. h \in 1..Len(A) + 1
    BY <1>1, <1>3
  <2>2. /\ Ancestor(A, h) \in Chain /\ Len(Ancestor(A, h)) = h - 1
        /\ \A i \in 1..h - 1 : Ancestor(A, h)[i] = A[i]
    BY <1>1, <2>1, AncestorFacts
  <2>3. /\ Ancestor(N, h) \in Chain /\ Len(Ancestor(N, h)) = h - 1
        /\ \A i \in 1..h - 1 : Ancestor(N, h)[i] = N[i]
    BY AncestorFacts
  <2>4. \A i \in 1..h - 1 : Ancestor(A, h)[i] = Ancestor(N, h)[i]
    BY <2>2, <2>3, <1>1, <1>3
  <2> DEFINE x == Ancestor(A, h)
             y == Ancestor(N, h)
  <2>5. x \in Chain /\ y \in Chain /\ Len(x) = Len(y) /\ \A i \in 1..Len(x) : x[i] = y[i]
    BY <2>2, <2>3, <2>4
  <2> HIDE DEF x, y
  <2>6. x = y
    BY <2>5 DEF Chain
  <2> QED
    BY <2>6 DEF x, y
<1>5. Ancestor(A, Len(N) + 1) = N
  BY <1>3, <1>4, TopAncestor
<1> QED
  BY <1>1, <1>2, <1>4, <1>5 DEF A

LEMMA SizeType ==
    ASSUME NEW N \in Chain
    PROVE  TxSize(N) \in Nat
<1>1. CASE N = Genesis
  BY <1>1 DEF TxSize
<1>2. CASE N # Genesis
  <2>1. Len(N) \in 1..Len(N) /\ N[Len(N)] \in Contents
    BY <1>2 DEF Genesis, Chain
  <2>2. N[Len(N)].txs \in Nat
    BY <2>1, BlockStorageAssumption DEF Contents
  <2> QED
    BY <1>2, <2>2 DEF TxSize, Last
<1> QED
  BY <1>1, <1>2

-----------------------------------------------------------------------------
(* Activation.                                                             *)

\* IsActivatedAtHeight, with what the database says of the preactivated
\* features as a parameter.
ActiveAt(pre, b, h) ==
    \/ Preactivated /\ pre
    \/ \E i \in 1..Len(b) : b[i].approves /\ h >= i + 2 + Window

\* The approvals of a chain come with the last blocks of voting periods.
Periods(N) == \A i \in 1..Len(N) : N[i].approves => (i + 2) % Window = 0

\* Height e is the edge of the chain: exactly the blocks above it are
\* protobuf blocks, the one that comes next included.
Edge(pre, N, e) == \A h \in 2..Len(N) + 2 : ActiveAt(pre, N, h) <=> h > e

LEMMA ActiveIs ==
    ASSUME NEW b, NEW h
    PROVE  /\ IsActivatedAtHeight(b, h) = ActiveAt(db.preactivated, b, h)
  BY DEF IsActivatedAtHeight, ActiveAt

\* What the blocks above a height approve does not count for the next height.
LEMMA ActiveOnPrefix ==
    ASSUME NEW pre, NEW N \in Chain, NEW g \in 1..Len(N) + 1,
           NEW h \in 1..g + 1
    PROVE  ActiveAt(pre, Ancestor(N, g), h) <=> ActiveAt(pre, N, h)
<1>1. Len(N) \in Nat /\ Window \in Nat
  BY BlockStorageAssumption DEF Chain
<1>2. /\ Len(Ancestor(N, g)) = g - 1
      /\ \A i \in 1..g - 1 : Ancestor(N, g)[i] = N[i]
  BY AncestorFacts
<1>3. \A i \in 1..Len(N) : h >= i + 2 + Window => i \in 1..g - 1
  BY <1>1
<1>4. \A i \in 1..g - 1 : i \in 1..Len(N)
  BY <1>1
<1>5. (\E i \in 1..Len(Ancestor(N, g)) :
           Ancestor(N, g)[i].approves /\ h >= i + 2 + Window)
      <=> (\E i \in 1..Len(N) : N[i].approves /\ h >= i + 2 + Window)
  BY <1>2, <1>3, <1>4
<1> QED
  BY <1>5 DEF ActiveAt

LEMMA EdgeOfPrefix ==
    ASSUME NEW pre, NEW N \in Chain, NEW g \in 1..Len(N) + 1, NEW e,
           Edge(pre, N, e)
    PROVE  Edge(pre, Ancestor(N, g), e)
<1>1. Len(N) \in Nat /\ Len(Ancestor(N, g)) = g - 1
  BY AncestorFacts DEF Chain
<1>2. SUFFICES ASSUME NEW h \in 2..g + 1
               PROVE  ActiveAt(pre, Ancestor(N, g), h) <=> h > e
  BY <1>1 DEF Edge
<1>3. h \in 1..g + 1 /\ h \in 2..Len(N) + 2
  BY <1>1
<1>4. ActiveAt(pre, Ancestor(N, g), h) <=> ActiveAt(pre, N, h)
  BY <1>3, ActiveOnPrefix
<1> QED
  BY <1>3, <1>4 DEF Edge

LEMMA PeriodsOfPrefix ==
    ASSUME NEW N \in Chain, NEW g \in 1..Len(N) + 1, Periods(N)
    PROVE  Periods(Ancestor(N, g))
<1>1. Len(N) \in Nat
  BY DEF Chain
<1>2. /\ Len(Ancestor(N, g)) = g - 1
      /\ \A i \in 1..g - 1 : Ancestor(N, g)[i] = N[i]
  BY AncestorFacts
<1>3. \A i \in 1..g - 1 : i \in 1..Len(N)
  BY <1>1
<1> QED
  BY <1>2, <1>3 DEF Periods

\* The version of a block is told by the edge.
LEMMA ProtobufAboveEdge ==
    ASSUME NEW N \in Chain, NEW e \in Nat \ {0}, Edge(db.preactivated, N, e),
           NEW h \in 1..Len(N) + 1
    PROVE  IsProtobuf(Ancestor(N, h)) <=> h > e
<1>1. Len(N) \in Nat
  BY DEF Chain
<1>2. /\ Ancestor(N, h) \in Chain /\ Len(Ancestor(N, h)) = h - 1
      /\ Height(Ancestor(N, h)) = h
  BY AncestorFacts
<1>3. CASE h = 1
  <2>1. Ancestor(N, h) = Genesis
    BY <1>2, <1>3 DEF Chain, Genesis
  <2> QED
    BY <1>3, <2>1 DEF IsProtobuf
<1>4. CASE h > 1
  <2>1. Ancestor(N, h) # Genesis
    BY <1>2, <1>4 DEF Chain, Genesis
  <2>2. Front(Ancestor(N, h)) = Ancestor(Ancestor(N, h), h - 1)
    BY <1>2 DEF Front, Ancestor
  <2>3. h - 1 \in 1..h /\ h - 1 \in 1..Len(N) + 1 /\ h \in 1..(h - 1) + 1
        /\ h \in 2..Len(N) + 2
    BY <1>1, <1>4
  <2>4. Front(Ancestor(N, h)) = Ancestor(N, h - 1)
    BY <2>2, <2>3, AncestorOfAncestor
  <2>5. ActiveAt(db.preactivated, Ancestor(N, h - 1), h)
        <=> ActiveAt(db.preactivated, N, h)
    BY <2>3, ActiveOnPrefix
  <2>6. ActiveAt(db.preactivated, N, h) <=> h > e
    BY <2>3 DEF Edge
  <2> QED
    BY <1>2, <2>1, <2>4, <2>5, <2>6, ActiveIs DEF IsProtobuf
<1> QED
  BY <1>3, <1>4

LEMMA ModPlus ==
    ASSUME NEW a \in Nat, NEW w \in Nat \ {0}, a % w = 0
    PROVE  (a + w) % w = 0
<1>1. a \div w \in Int /\ a \in Int /\ w \in Int /\ w > 0
  OBVIOUS
<1>2. a = w * (a \div w) + (a % w)
  BY <1>1, Z3
<1>3. PICK q \in Int : a = w * q
  BY <1>1, <1>2
<1>4. a + w \in Nat /\ a + w = w * (q + 1) + 0 /\ q + 1 \in Int /\ 0 \in 0..w - 1
  BY <1>3
<1>5. \A b \in Nat : \A p \in Int : b = w * p + 0 => b % w = 0
  OBVIOUS
<1> QED
  BY <1>4, <1>5

\* The edge of a chain with one block more: it was there before, or the
\* voting period that ends with the new block moves it to the new block.
LEMMA EdgeAppend ==
    ASSUME NEW pre, NEW N \in Chain, NEW c \in Contents, NEW e \in Nat \ {0},
           Edge(pre, N, e), Periods(N),
           c.approves => NeedToFinishVotingPeriod(Len(N) + 2)
    PROVE  /\ Periods(Append(N, c))
           /\ e <= Len(N) + 1 => Edge(pre, Append(N, c), e)
           /\ e > Len(N) + 1 /\ ActiveAt(pre, Append(N, c), Len(N) + 3)
                => /\ Edge(pre, Append(N, c), Len(N) + 2)
                   /\ NeedToFinishVotingPeriod(Len(N) + 2)
           /\ e > Len(N) + 1 /\ ~ActiveAt(pre, Append(N, c), Len(N) + 3)
                => Edge(pre, Append(N, c), Len(N) + 3)
<1> DEFINE A == Append(N, c)
           k == Len(N) + 1
<1>1. /\ A \in Chain /\ Len(A) = k /\ A[k] = c
      /\ \A i \in 1..Len(N) : A[i] = N[i]
      /\ Ancestor(A, k) = N
  BY AppendFacts
<1>2. Len(N) \in Nat /\ k \in Nat \ {0} /\ Window \in Nat \ {0}
  BY BlockStorageAssumption DEF Chain
<1>3. Periods(A)
  <2>1. ASSUME NEW i \in 1..k, A[i].approves PROVE (i + 2) % Window = 0
    <3>1. CASE i = k
      <4>1. NeedToFinishVotingPeriod(Len(N) + 2)
        BY <1>1, <2>1, <3>1
      <4>2. i + 2 = Len(N) + 2 + 1
        BY <3>1, <1>2
      <4> QED
        BY <4>1, <4>2 DEF NeedToFinishVotingPeriod
    <3>2. CASE i # k
      <4>1. i \in 1..Len(N)
        BY <1>2, <3>2
      <4> QED
        BY <4>1, <1>1, <2>1 DEF Periods
    <3> QED
      BY <3>1, <3>2
  <2> QED
    BY <1>1, <2>1 DEF Periods
<1>4. ASSUME NEW h \in 2..k + 1
      PROVE  ActiveAt(pre, A, h) <=> h > e
  <2>1. h \in 1..k + 1 /\ k \in 1..Len(A) + 1
    BY <1>1, <1>2
  <2>2. ActiveAt(pre, N, h) <=> ActiveAt(pre, A, h)
    BY <2>1, <1>1, ActiveOnPrefix
  <2>3. h \in 2..Len(N) + 2
    BY <1>2
  <2> QED
    BY <2>2, <2>3 DEF Edge
<1>5. \A h \in 2..Len(A) + 2 : h \in 2..k + 1 \/ h = k + 2
  BY <1>1, <1>2
<1>6. ASSUME e <= k
      PROVE  Edge(pre, A, e)
  <2>1. ActiveAt(pre, A, k + 1)
    BY <1>2, <1>4, <1>6
  <2>2. \A i \in 1..Len(A) : k + 1 >= i + 2 + Window => k + 2 >= i + 2 + Window
    BY <1>2
  <2>3. ActiveAt(pre, A, k + 2)
    BY <2>1, <2>2 DEF ActiveAt
  <2> QED
    BY <1>2, <1>4, <1>5, <1>6, <2>3 DEF Edge
<1>7. ASSUME e > k, ActiveAt(pre, A, k + 2)
      PROVE  Edge(pre, A, k + 1) /\ NeedToFinishVotingPeriod(k + 1)
  <2>1. \A h \in 2..k + 1 : ~ActiveAt(pre, A, h)
    BY <1>2, <1>4, <1>7
  <2>2. Edge(pre, A, k + 1)
    BY <1>2, <1>5, <1>7, <2>1 DEF Edge
  <2>3. k + 1 \in 2..k + 1
    BY <1>2
  <2>4. ~ActiveAt(pre, A, k + 1)
    BY <2>1, <2>3
  <2>5. PICK i \in 1..Len(A) : A[i].approves /\ k + 2 >= i + 2 + Window
    BY <1>7, <2>4 DEF ActiveAt
  <2>6. ~(k + 1 >= i + 2 + Window)
    BY <2>4, <2>5 DEF ActiveAt
  <2>7. i \in Nat /\ k + 2 = (i + 2) + Window
    BY <1>1, <1>2, <2>5, <2>6
  <2>8. (i + 2) % Window = 0
    BY <1>3, <2>5 DEF Periods
  <2>9. (k + 2) % Window = 0
    <3>1. i + 2 \in Nat
      BY <2>7
    <3>2. ((i + 2) + Window) % Window = 0
      BY <3>1, <2>8, <1>2, ModPlus
    <3> QED
      BY <2>7, <3>2
  <2>10. k + 2 = (k + 1) + 1
    BY <1>2
  <2> QED
    BY <2>2, <2>9, <2>10 DEF NeedToFinishVotingPeriod
<1>8. ASSUME e > k, ~ActiveAt(pre, A, k + 2)
      PROVE  Edge(pre, A, k + 2)
  <2>1. \A h \in 2..k + 1 : ~ActiveAt(pre, A, h)
    BY <1>2, <1>4, <1>8
  <2> QED
    BY <1>2, <1>5, <1>8, <2>1 DEF Edge
<1>9. k + 1 = Len(N) + 2 /\ k + 2 = Len(N) + 3
  BY <1>2
<1> QED
  BY <1>3, <1>6, <1>7, <1>8, <1>9

-----------------------------------------------------------------------------
(* The layout of the files.                                                *)

\* off[h]: where the transactions of the block at height h end.
Offsets(N, off) ==
    /\ off[0] = 0
    /\ \A h \in 1..Len(N) + 1 : off[h] = off[h - 1] + TxSize(Ancestor(N, h))
    /\ \A i, j \in 0..Len(N) + 1 : i <= j => off[i] <= off[j]

Layout(pre, N, off, e) ==
    /\ N \in Chain
    /\ off \in [Nat -> Nat]
    /\ e \in Nat \ {0}
    /\ Periods(N)
    /\ Edge(pre, N, e)
    /\ Offsets(N, off)
    /\ e <= Len(N) + 1 => off[e - 1] < off[e]

\* Where the ID of the block at height h ends.
IdAt(e, h) == IF h > e THEN e + h ELSE 2 * h

TxCell == [block : Chain, pb : BOOLEAN] \cup {ZeroCell}
IdCell == [block : Chain, part : {"digest", "low", "high"}] \cup {ZeroCell}
Files == [tx : Seq(TxCell), hd : Seq(TxCell), id : Seq(IdCell)]

Cell(N, e, h) == IF h > e THEN [block |-> Ancestor(N, h), pb |-> TRUE]
                 ELSE [block |-> Ancestor(N, h), pb |-> FALSE]
IdPart(N, h, part) == [block |-> Ancestor(N, h), part |-> part]

\* The first k blocks of the chain are at the beginning of the files, each
\* in the format of its version.
TxHeld(s, N, off, e, k) ==
    /\ Len(s) >= off[k]
    /\ \A h \in 1..k : \A i \in off[h - 1] + 1..off[h] : s[i] = Cell(N, e, h)

HdHeld(s, N, e, k) ==
    /\ Len(s) >= k
    /\ \A h \in 1..k : s[h] = Cell(N, e, h)

IdHeld(s, N, e, k) ==
    /\ Len(s) >= IdAt(e, k)
    /\ \A h \in 1..k :
          /\ h > e => s[e + h] = IdPart(N, h, "digest")
          /\ h <= e => /\ s[2 * h - 1] = IdPart(N, h, "low")
                       /\ s[2 * h] = IdPart(N, h, "high")

Holds(F, N, off, e, k) ==
    /\ TxHeld(F.tx, N, off, e, k)
    /\ HdHeld(F.hd, N, e, k)
    /\ IdHeld(F.id, N, e, k)

\* Nothing else is in the files.
Full(F, off, e, k) ==
    /\ Len(F.tx) = off[k]
    /\ Len(F.hd) = k
    /\ Len(F.id) = IdAt(e, k)

LEMMA IdAtFacts ==
    ASSUME NEW e \in Nat \ {0}, NEW k \in Nat, NEW h \in 1..k
    PROVE  /\ IdAt(e, k) \in Nat
           /\ h > e => /\ IdAt(e, h - 1) = e + h - 1
                       /\ IdAt(e, h) = e + h
                       /\ e + h \in 1..IdAt(e, k)
           /\ h <= e => /\ IdAt(e, h - 1) = 2 * h - 2
                        /\ IdAt(e, h) = 2 * h
                        /\ 2 * h - 1 \in 1..IdAt(e, k)
                        /\ 2 * h \in 1..IdAt(e, k)
  BY DEF IdAt

LEMMA IdAtType ==
    ASSUME NEW e \in Nat \ {0}, NEW k \in Nat
    PROVE  IdAt(e, k) \in Nat
  BY DEF IdAt

\* A file that agrees with another one up to the end of block k.
LEMMA TxHeldSame ==
    ASSUME NEW N \in Chain, NEW off \in [Nat -> Nat], NEW e, NEW k \in 0..Len(N) + 1,
           Offsets(N, off), NEW s, NEW t, TxHeld(s, N, off, e, k),
           Len(t) >= off[k], \A i \in 1..off[k] : t[i] = s[i]
    PROVE  TxHeld(t, N, off, e, k)
<1>1. Len(N) \in Nat
  BY DEF Chain
<1>2. ASSUME NEW h \in 1..k, NEW i \in off[h - 1] + 1..off[h]
      PROVE  i \in 1..off[k]
  <2>1. h \in 0..Len(N) + 1 /\ k \in 0..Len(N) + 1 /\ h <= k /\ h \in Nat
        /\ h - 1 \in Nat /\ k \in Nat
    BY <1>1
  <2>2. off[h] <= off[k]
    BY <2>1 DEF Offsets
  <2>3. off[h - 1] \in Nat /\ off[h] \in Nat /\ off[k] \in Nat
    BY <2>1
  <2> QED
    BY <2>2, <2>3
<1> QED
  BY <1>2 DEF TxHeld

LEMMA HdHeldSame ==
    ASSUME NEW N, NEW e, NEW k \in Nat, NEW s, NEW t, HdHeld(s, N, e, k),
           Len(t) >= k, \A i \in 1..k : t[i] = s[i]
    PROVE  HdHeld(t, N, e, k)
  BY DEF HdHeld

LEMMA IdHeldSame ==
    ASSUME NEW N, NEW e \in Nat \ {0}, NEW k \in Nat, NEW s, NEW t, IdHeld(s, N, e, k),
           Len(t) >= IdAt(e, k), \A i \in 1..IdAt(e, k) : t[i] = s[i]
    PROVE  IdHeld(t, N, e, k)
<1> SUFFICES ASSUME NEW h \in 1..k
             PROVE  /\ h > e => t[e + h] = IdPart(N, h, "digest")
                    /\ h <= e => /\ t[2 * h - 1] = IdPart(N, h, "low")
                                 /\ t[2 * h] = IdPart(N, h, "high")
  BY DEF IdHeld
<1>1. /\ h > e => e + h \in 1..IdAt(e, k)
      /\ h <= e => 2 * h - 1 \in 1..IdAt(e, k) /\ 2 * h \in 1..IdAt(e, k)
  BY IdAtFacts
<1> QED
  BY <1>1 DEF IdHeld

LEMMA LenType ==
    ASSUME NEW S, NEW s \in Seq(S)
    PROVE  Len(s) \in Nat
  OBVIOUS

LEMMA LongerFacts ==
    ASSUME NEW S, NEW s \in Seq(S), NEW x \in Seq(S), NEW n \in Nat, Len(s) >= n
    PROVE  Len(s \o x) >= n /\ \A i \in 1..n : (s \o x)[i] = s[i]
  OBVIOUS

\* Something is written after the blocks.
LEMMA HoldsLonger ==
    ASSUME NEW F \in Files, NEW G \in Files,
           NEW N \in Chain, NEW off \in [Nat -> Nat], NEW e \in Nat \ {0},
           NEW k \in 0..Len(N) + 1, Offsets(N, off), Holds(F, N, off, e, k),
           NEW x \in Seq(TxCell), NEW y \in Seq(TxCell), NEW z \in Seq(IdCell),
           G.tx = F.tx \o x, G.hd = F.hd \o y, G.id = F.id \o z
    PROVE  Holds(G, N, off, e, k)
<1>1. Len(N) \in Nat /\ k \in Nat /\ off[k] \in Nat /\ IdAt(e, k) \in Nat
  BY IdAtType DEF Chain
<1>2. F.tx \in Seq(TxCell) /\ F.hd \in Seq(TxCell) /\ F.id \in Seq(IdCell)
  BY DEF Files
<1>3. Len(F.tx) >= off[k] /\ Len(F.hd) >= k /\ Len(F.id) >= IdAt(e, k)
  BY DEF Holds, TxHeld, HdHeld, IdHeld
<1>4. Len(G.tx) >= off[k] /\ \A i \in 1..off[k] : G.tx[i] = F.tx[i]
  <2> DEFINE s == F.tx
             n == off[k]
  <2>1. s \in Seq(TxCell) /\ x \in Seq(TxCell) /\ n \in Nat /\ Len(s) >= n
    BY <1>1, <1>2, <1>3
  <2> HIDE DEF s, n
  <2>2. Len(s \o x) >= n /\ \A i \in 1..n : (s \o x)[i] = s[i]
    BY ONLY <2>1, LongerFacts
  <2>3. G.tx = s \o x
    BY DEF s
  <2>4. Len(G.tx) >= n /\ \A i \in 1..n : G.tx[i] = s[i]
    BY ONLY <2>2, <2>3
  <2> QED
    BY <2>4, Zenon DEF s, n
<1>5. Len(G.hd) >= k /\ \A i \in 1..k : G.hd[i] = F.hd[i]
  <2> DEFINE s == F.hd
             n == k
  <2>1. s \in Seq(TxCell) /\ y \in Seq(TxCell) /\ n \in Nat /\ Len(s) >= n
    BY <1>1, <1>2, <1>3
  <2> HIDE DEF s, n
  <2>2. Len(s \o y) >= n /\ \A i \in 1..n : (s \o y)[i] = s[i]
    BY ONLY <2>1, LongerFacts
  <2>3. G.hd = s \o y
    BY DEF s
  <2>4. Len(G.hd) >= n /\ \A i \in 1..n : G.hd[i] = s[i]
    BY ONLY <2>2, <2>3
  <2> QED
    BY <2>4, Zenon DEF s, n
<1>6. Len(G.id) >= IdAt(e, k) /\ \A i \in 1..IdAt(e, k) : G.id[i] = F.id[i]
  <2> DEFINE s == F.id
             n == IdAt(e, k)
  <2>1. s \in Seq(IdCell) /\ z \in Seq(IdCell) /\ n \in Nat /\ Len(s) >= n
    BY <1>1, <1>2, <1>3
  <2> HIDE DEF s, n
  <2>2. Len(s \o z) >= n /\ \A i \in 1..n : (s \o z)[i] = s[i]
    BY ONLY <2>1, LongerFacts
  <2>3. G.id = s \o z
    BY DEF s
  <2>4. Len(G.id) >= n /\ \A i \in 1..n : G.id[i] = s[i]
    BY ONLY <2>2, <2>3
  <2> QED
    BY <2>4, Zenon DEF s, n
<1>7. TxHeld(F.tx, N, off, e, k) /\ HdHeld(F.hd, N, e, k) /\ IdHeld(F.id, N, e, k)
  BY DEF Holds
<1>8. TxHeld(G.tx, N, off, e, k)
  BY <1>4, <1>7, TxHeldSame
<1>9. HdHeld(G.hd, N, e, k)
  BY <1>1, <1>5, <1>7, HdHeldSame
<1>10. IdHeld(G.id, N, e, k)
  BY <1>1, <1>6, <1>7, IdHeldSame
<1> QED
  BY <1>8, <1>9, <1>10 DEF Holds

\* A file is cut at the end of block k.
LEMMA CutFacts ==
    ASSUME NEW S, NEW s \in Seq(S), NEW n \in Nat, n <= Len(s)
    PROVE  /\ CutTo(s, n) \in Seq(S)
           /\ Len(CutTo(s, n)) = n
           /\ \A i \in 1..n : CutTo(s, n)[i] = s[i]
<1>1. CutTo(s, n) = [i \in 1..n |-> s[i]]
  BY DEF CutTo
<1> QED
  BY <1>1

\* The blocks below are there as well, and so they are for every other chain
\* with these blocks.
LEMMA SameSide ==
    ASSUME NEW e \in Nat, NEW e2 \in Nat, NEW g \in Nat,
           e2 = e \/ (e >= g /\ e2 >= g)
    PROVE  /\ \A h \in 1..g : h > e <=> h > e2
           /\ \A h \in 1..g : h > e2 => e2 = e
           /\ \A h \in 1..g : h <= e2 => h <= e
           /\ IdAt(e2, g) = IdAt(e, g)
  BY DEF IdAt

LEMMA TxHeldPart ==
    ASSUME NEW s, Len(s) \in Nat, NEW N \in Chain, NEW M, NEW off \in [Nat -> Nat],
           NEW off2 \in [Nat -> Nat], NEW e \in Nat, NEW e2 \in Nat,
           NEW k \in 0..Len(N) + 1, NEW g \in 0..k, Offsets(N, off),
           TxHeld(s, N, off, e, k),
           \A h \in 1..g : Ancestor(M, h) = Ancestor(N, h),
           \A h \in 0..g : off2[h] = off[h],
           \A h \in 1..g : h > e <=> h > e2
    PROVE  TxHeld(s, M, off2, e2, g)
<1>1. Len(N) \in Nat /\ k \in Nat /\ g \in Nat
  BY DEF Chain
<1>2. g \in 0..Len(N) + 1 /\ k \in 0..Len(N) + 1 /\ g <= k /\ g \in 0..g
  BY <1>1
<1>3. off[g] <= off[k]
  BY <1>2 DEF Offsets
<1>4. off[g] \in Nat /\ off[k] \in Nat /\ off2[g] = off[g]
  BY <1>1, <1>2
<1>5. Len(s) >= off[k]
  BY DEF TxHeld
<1>6. Len(s) >= off2[g]
  BY <1>3, <1>4, <1>5
<1>7. ASSUME NEW h \in 1..g, NEW i \in off2[h - 1] + 1..off2[h]
      PROVE  s[i] = Cell(M, e2, h)
  <2>1. h \in 0..g /\ h - 1 \in 0..g /\ h \in 1..k
    BY <1>1
  <2>2. off2[h] = off[h] /\ off2[h - 1] = off[h - 1]
    BY <2>1
  <2>3. s[i] = Cell(N, e, h)
    BY <2>1, <2>2 DEF TxHeld
  <2> QED
    BY <2>3, Zenon DEF Cell
<1> QED
  BY <1>6, <1>7 DEF TxHeld

LEMMA HdHeldPart ==
    ASSUME NEW s, Len(s) \in Nat, NEW N, NEW M, NEW e \in Nat, NEW e2 \in Nat,
           NEW k \in Nat, NEW g \in 0..k, HdHeld(s, N, e, k),
           \A h \in 1..g : Ancestor(M, h) = Ancestor(N, h),
           \A h \in 1..g : h > e <=> h > e2
    PROVE  HdHeld(s, M, e2, g)
<1>1. Len(s) >= g
  BY DEF HdHeld
<1>2. ASSUME NEW h \in 1..g PROVE s[h] = Cell(M, e2, h)
  <2>1. h \in 1..k
    OBVIOUS
  <2>2. s[h] = Cell(N, e, h)
    BY <2>1 DEF HdHeld
  <2> QED
    BY <2>2, Zenon DEF Cell
<1> QED
  BY <1>1, <1>2 DEF HdHeld

LEMMA IdHeldPart ==
    ASSUME NEW s, Len(s) \in Nat, NEW N, NEW M, NEW e \in Nat \ {0}, NEW e2 \in Nat \ {0},
           NEW k \in Nat, NEW g \in 0..k, IdHeld(s, N, e, k),
           \A h \in 1..g : Ancestor(M, h) = Ancestor(N, h),
           e2 = e \/ (e >= g /\ e2 >= g)
    PROVE  IdHeld(s, M, e2, g)
<1>1. IdAt(e2, g) = IdAt(e, g) /\ IdAt(e, g) <= IdAt(e, k) /\ IdAt(e, k) \in Nat
      /\ IdAt(e, g) \in Nat
  BY DEF IdAt
<1>2. Len(s) >= IdAt(e, k)
  BY DEF IdHeld
<1>3. Len(s) >= IdAt(e2, g)
  BY <1>1, <1>2
<1>4. ASSUME NEW h \in 1..g
      PROVE  /\ h > e2 => s[e2 + h] = IdPart(M, h, "digest")
             /\ h <= e2 => /\ s[2 * h - 1] = IdPart(M, h, "low")
                           /\ s[2 * h] = IdPart(M, h, "high")
  <2>1. h \in 1..k /\ (h > e2 => e2 = e) /\ (h <= e2 => h <= e)
    OBVIOUS
  <2>2. \A p \in {"digest", "low", "high"} : IdPart(M, h, p) = IdPart(N, h, p)
    BY DEF IdPart
  <2> QED
    BY <2>1, <2>2 DEF IdHeld
<1> QED
  BY <1>3, <1>4 DEF IdHeld

LEMMA HoldsPart ==
    ASSUME NEW F \in Files, NEW N \in Chain, NEW M \in Chain, NEW off \in [Nat -> Nat],
           NEW off2 \in [Nat -> Nat], NEW e \in Nat \ {0}, NEW e2 \in Nat \ {0},
           NEW k \in 0..Len(N) + 1, NEW g \in 0..k,
           Offsets(N, off), Holds(F, N, off, e, k),
           \A h \in 1..g : Ancestor(M, h) = Ancestor(N, h),
           \A h \in 0..g : off2[h] = off[h],
           e2 = e \/ (e >= g /\ e2 >= g)
    PROVE  Holds(F, M, off2, e2, g)
<1>1. Len(N) \in Nat
  BY DEF Chain
<1>2. k \in Nat /\ g \in Nat
  BY <1>1
<1>3. Len(F.tx) \in Nat /\ Len(F.hd) \in Nat /\ Len(F.id) \in Nat
  <2>1. F.tx \in Seq(TxCell) /\ F.hd \in Seq(TxCell) /\ F.id \in Seq(IdCell)
    BY DEF Files
  <2> QED
    BY <2>1, LenType, Zenon
<1>4. \A h \in 1..g : h > e <=> h > e2
  BY <1>2, SameSide
<1>5. TxHeld(F.tx, N, off, e, k) /\ HdHeld(F.hd, N, e, k) /\ IdHeld(F.id, N, e, k)
  BY DEF Holds
<1>6. TxHeld(F.tx, M, off2, e2, g)
  BY <1>3, <1>4, <1>5, TxHeldPart
<1>7. HdHeld(F.hd, M, e2, g)
  BY <1>2, <1>3, <1>4, <1>5, HdHeldPart
<1>8. IdHeld(F.id, M, e2, g)
  BY <1>2, <1>3, <1>5, IdHeldPart
<1> QED
  BY <1>6, <1>7, <1>8 DEF Holds

\* The layout of the blocks up to a height.
LEMMA LayoutOfPrefix ==
    ASSUME NEW pre, NEW N, NEW off, NEW e, Layout(pre, N, off, e),
           NEW g \in 1..Len(N) + 1
    PROVE  Layout(pre, Ancestor(N, g), off, e)
<1>1. N \in Chain /\ Len(N) \in Nat
  BY DEF Layout, Chain
<1>2. Ancestor(N, g) \in Chain /\ Len(Ancestor(N, g)) = g - 1
  BY <1>1, AncestorFacts
<1>3. Periods(Ancestor(N, g)) /\ Edge(pre, Ancestor(N, g), e)
  BY <1>1, PeriodsOfPrefix, EdgeOfPrefix DEF Layout
<1>4. Offsets(Ancestor(N, g), off)
  <2>1. \A h \in 1..g : h \in 1..Len(N) + 1 /\ Ancestor(Ancestor(N, g), h) = Ancestor(N, h)
    BY <1>1, AncestorOfAncestor
  <2>2. \A h \in 0..g : h \in 0..Len(N) + 1
    BY <1>1
  <2>3. Len(Ancestor(N, g)) + 1 = g
    BY <1>1, <1>2
  <2> QED
    BY <2>1, <2>2, <2>3 DEF Offsets, Layout
<1>5. e <= Len(Ancestor(N, g)) + 1 => e <= Len(N) + 1
  BY <1>1, <1>2 DEF Layout
<1> QED
  BY <1>2, <1>3, <1>4, <1>5 DEF Layout

-----------------------------------------------------------------------------
(* The protobuf info.                                                      *)

Infos == [on : BOOLEAN, tx : Nat, hd : Nat, after : Nat]

\* The info of k blocks of a chain with edge e.
InfoOf(off, e, k) ==
    IF e <= k THEN [on |-> TRUE, tx |-> off[e], hd |-> e, after |-> e]
    ELSE NoProtobuf

\* Info of k blocks, or of more blocks than are left after a rollback or a
\* failed addition: the one in the database until the next batch, the one in
\* memory until the files are truncated.
Fits(p, off, e, k) ==
    \/ p = InfoOf(off, e, k)
    \/ /\ e > k /\ p.on
       /\ p.after > k /\ p.hd > k /\ p.tx > off[k]

\* The preactivated feature is stored, its info is not yet.
Pending(p, e, k) == p = NoProtobuf /\ e = 1 /\ k = 1

\* The info locates the IDs of the first k blocks.
Locates(p, e, k) ==
    /\ IdOffset(p, k) = IdAt(e, k)
    /\ \A h \in 1..k : /\ IdOffset(p, h - 1) = IdAt(e, h - 1)
                       /\ h > e => IdSize(p, h - 1) = 1
                       /\ h <= e => IdSize(p, h - 1) = 2

LEMMA InfoType ==
    ASSUME NEW off \in [Nat -> Nat], NEW e \in Nat \ {0}, NEW k \in Nat
    PROVE  InfoOf(off, e, k) \in Infos /\ NoProtobuf \in Infos
  BY DEF InfoOf, Infos, NoProtobuf

LEMMA FitsLocates ==
    ASSUME NEW p \in Infos, NEW off, NEW e \in Nat \ {0}, NEW k \in Nat,
           Fits(p, off, e, k) \/ Pending(p, e, k)
    PROVE  Locates(p, e, k)
<1>1. CASE p.on /\ p.after = e /\ e <= k
  BY <1>1 DEF Locates, IdOffset, IdSize, IdAt, Infos
<1>2. CASE p.on /\ p.after > k /\ e > k
  BY <1>2 DEF Locates, IdOffset, IdSize, IdAt, Infos
<1>3. CASE ~p.on /\ e > k
  BY <1>3 DEF Locates, IdOffset, IdSize, IdAt, Infos
<1>4. CASE ~p.on /\ e = 1 /\ k = 1
  BY <1>4 DEF Locates, IdOffset, IdSize, IdAt, Infos
<1>5. p = InfoOf(off, e, k) => (p.on /\ p.after = e /\ e <= k) \/ (~p.on /\ e > k)
  <2>1. e <= k \/ e > k
    OBVIOUS
  <2>2. e <= k => InfoOf(off, e, k).on /\ InfoOf(off, e, k).after = e
    BY DEF InfoOf
  <2>3. e > k => InfoOf(off, e, k) = NoProtobuf
    BY DEF InfoOf
  <2>4. ~NoProtobuf.on
    BY DEF NoProtobuf
  <2> QED
    BY <2>1, <2>2, <2>3, <2>4, Zenon
<1>6. Pending(p, e, k) => ~p.on /\ e = 1 /\ k = 1
  BY DEF Pending, NoProtobuf
<1> QED
  BY <1>1, <1>2, <1>3, <1>4, <1>5, <1>6 DEF Fits

\* The cells of an ID, and back.
LEMMA IdOfCells ==
    ASSUME NEW N \in Chain, NEW e \in Nat \ {0}, Edge(db.preactivated, N, e),
           NEW h \in 1..Len(N) + 1
    PROVE  /\ h > e => IdCells(Ancestor(N, h)) = <<IdPart(N, h, "digest")>>
           /\ h <= e => IdCells(Ancestor(N, h))
                          = <<IdPart(N, h, "low"), IdPart(N, h, "high")>>
           /\ IdFromCells(IdCells(Ancestor(N, h))) = Ancestor(N, h)
<1>1. IsProtobuf(Ancestor(N, h)) <=> h > e
  BY ProtobufAboveEdge
<1>2. /\ h > e => IdCells(Ancestor(N, h)) = <<IdPart(N, h, "digest")>>
      /\ ~(h > e) => IdCells(Ancestor(N, h))
                       = <<IdPart(N, h, "low"), IdPart(N, h, "high")>>
  BY <1>1 DEF IdCells, IdPart
<1>3. Len(N) \in Nat
  BY DEF Chain
<1>4. h <= e => ~(h > e)
  BY <1>3
<1> DEFINE s == IdCells(Ancestor(N, h))
<1>5. 1 \in DOMAIN s /\ s[1].block = Ancestor(N, h)
  BY <1>2 DEF IdPart
<1>6. IdFromCells(s) = Ancestor(N, h)
  <2> HIDE DEF s
  <2>1. Ancestor(N, h) \in {s[i].block : i \in DOMAIN s}
    BY <1>5
  <2>2. IdCells(Ancestor(N, h)) = s
    BY DEF s
  <2> QED
    BY <1>5, <2>1, <2>2 DEF IdFromCells
<1> QED
  BY <1>2, <1>4, <1>6

LEMMA SameSequence ==
    ASSUME NEW S, NEW s \in Seq(S), NEW t \in Seq(S), Len(s) = Len(t),
           \A i \in 1..Len(s) : s[i] = t[i]
    PROVE  s = t
  OBVIOUS

LEMMA OneOrTwoCells ==
    ASSUME NEW S, NEW s \in Seq(S), NEW i \in 1..Len(s)
    PROVE  /\ SubSeq(s, i, i) = <<s[i]>>
           /\ i + 1 <= Len(s) => SubSeq(s, i, i + 1) = <<s[i], s[i + 1]>>
<1>3. SubSeq(s, i, i) = <<s[i]>>
  <2> DEFINE t == SubSeq(s, i, i)
             u == <<s[i]>>
  <2>1. t \in Seq(S) /\ Len(t) = 1 /\ t[1] = s[i]
    OBVIOUS
  <2>2. u \in Seq(S) /\ Len(u) = 1 /\ u[1] = s[i]
    OBVIOUS
  <2> HIDE DEF t, u
  <2>3. \A j \in 1..Len(t) : t[j] = u[j]
    BY <2>1, <2>2
  <2>4. t = u
    BY <2>1, <2>2, <2>3, SameSequence
  <2> QED
    BY <2>4 DEF t, u
<1>4. ASSUME i + 1 <= Len(s) PROVE SubSeq(s, i, i + 1) = <<s[i], s[i + 1]>>
  <2> DEFINE t == SubSeq(s, i, i + 1)
             u == <<s[i], s[i + 1]>>
  <2>1. t \in Seq(S) /\ Len(t) = 2 /\ t[1] = s[i] /\ t[2] = s[i + 1]
    BY <1>4
  <2>2. u \in Seq(S) /\ Len(u) = 2 /\ u[1] = s[i] /\ u[2] = s[i + 1]
    BY <1>4
  <2> HIDE DEF t, u
  <2>3. \A j \in 1..Len(t) : t[j] = u[j]
    BY <2>1, <2>2
  <2>4. t = u
    BY <2>1, <2>2, <2>3, SameSequence
  <2> QED
    BY <2>4 DEF t, u
<1> QED
  BY <1>3, <1>4

\* blockIDByHeight returns the block of the chain.
LEMMA ReadsId ==
    ASSUME NEW N \in Chain, NEW e \in Nat \ {0}, Edge(db.preactivated, N, e),
           NEW k \in 0..Len(N) + 1, file \in Files, IdHeld(file.id, N, e, k),
           NEW p, Locates(p, e, k), NEW h \in 1..k
    PROVE  BlockIDByHeight(p, h) = Ancestor(N, h)
<1>1. Len(N) \in Nat
  BY DEF Chain
<1>2. k \in Nat /\ h \in 1..Len(N) + 1
  BY <1>1
<1>3. file.id \in Seq(IdCell)
  BY DEF Files
<1>4. Len(file.id) \in Nat /\ Len(file.id) >= IdAt(e, k) /\ IdAt(e, k) \in Nat
  BY <1>2, <1>3, LenType, IdAtType DEF IdHeld
<1> DEFINE from == IdOffset(p, h - 1)
           to == from + IdSize(p, h - 1)
<1>5. /\ from = IdAt(e, h - 1)
      /\ h > e => IdSize(p, h - 1) = 1
      /\ h <= e => IdSize(p, h - 1) = 2
  BY DEF Locates
<1>6. CASE h > e
  <2>1. from = e + h - 1 /\ to = e + h /\ e + h \in 1..IdAt(e, k)
    BY <1>2, <1>5, <1>6, IdAtFacts
  <2>2. file.id[e + h] = IdPart(N, h, "digest")
    BY <1>6 DEF IdHeld
  <2>3. SubSeq(file.id, from + 1, to) = <<file.id[e + h]>>
    <3>1. \A i \in 1..Len(file.id) : SubSeq(file.id, i, i) = <<file.id[i]>>
      BY <1>3, OneOrTwoCells
    <3>2. from + 1 = e + h /\ to = e + h /\ e + h \in 1..Len(file.id)
      BY <2>1, <1>2, <1>4
    <3> QED
      BY <3>1, <3>2, <1>3
  <2>4. ~(to > Len(file.id))
    BY <2>1, <1>4
  <2>5. SubSeq(file.id, from + 1, to) = IdCells(Ancestor(N, h))
    BY <1>2, <1>6, <2>2, <2>3, IdOfCells
  <2> QED
    BY <1>2, <2>4, <2>5, IdOfCells DEF BlockIDByHeight
<1>7. CASE h <= e
  <2>1. /\ from = 2 * h - 2 /\ to = 2 * h /\ 2 * h \in 1..IdAt(e, k)
        /\ 2 * h - 1 \in 1..IdAt(e, k)
    BY <1>2, <1>5, <1>7, IdAtFacts
  <2>2. /\ file.id[2 * h - 1] = IdPart(N, h, "low")
        /\ file.id[2 * h] = IdPart(N, h, "high")
    BY <1>7 DEF IdHeld
  <2>3. SubSeq(file.id, from + 1, to) = <<file.id[2 * h - 1], file.id[2 * h]>>
    <3>1. \A i \in 1..Len(file.id) : i + 1 <= Len(file.id)
             => SubSeq(file.id, i, i + 1) = <<file.id[i], file.id[i + 1]>>
      BY <1>3, OneOrTwoCells
    <3>2. /\ from + 1 = 2 * h - 1 /\ to = (2 * h - 1) + 1
          /\ 2 * h - 1 \in 1..Len(file.id) /\ (2 * h - 1) + 1 <= Len(file.id)
          /\ (2 * h - 1) + 1 = 2 * h
      BY <2>1, <1>2, <1>4
    <3>3. SubSeq(file.id, 2 * h - 1, (2 * h - 1) + 1)
            = <<file.id[2 * h - 1], file.id[(2 * h - 1) + 1]>>
      BY <3>1, <3>2, <1>3
    <3> QED
      BY <3>2, <3>3
  <2>4. ~(to > Len(file.id))
    BY <2>1, <1>4
  <2>5. SubSeq(file.id, from + 1, to) = IdCells(Ancestor(N, h))
    BY <1>2, <1>7, <2>2, <2>3, IdOfCells
  <2> QED
    BY <1>2, <2>4, <2>5, IdOfCells DEF BlockIDByHeight
<1> QED
  BY <1>2, <1>6, <1>7

-----------------------------------------------------------------------------
(* The metas.                                                              *)

MetaRecs == [block : Chain, height : Nat, txStart : Nat, txEnd : Nat,
             hdStart : Nat, hdEnd : Nat]

Meta(N, off, h) ==
    [block |-> Ancestor(N, h), height |-> h,
     txStart |-> off[h - 1], txEnd |-> off[h], hdStart |-> h - 1, hdEnd |-> h]

Metas(N, off, i, j) == {Meta(N, off, h) : h \in i..j}

LEMMA MetaType ==
    ASSUME NEW N \in Chain, NEW off \in [Nat -> Nat], NEW i \in Nat \ {0},
           NEW j \in 0..Len(N) + 1
    PROVE  Metas(N, off, i, j) \subseteq MetaRecs
<1>1. Len(N) \in Nat
  BY DEF Chain
<1>2. ASSUME NEW h \in i..j PROVE Meta(N, off, h) \in MetaRecs
  <2>1. h \in 1..Len(N) + 1 /\ h \in Nat /\ h - 1 \in Nat
    BY <1>1
  <2>2. Ancestor(N, h) \in Chain
    BY <2>1, AncestorFacts
  <2> QED
    BY <2>1, <2>2 DEF Meta, MetaRecs
<1> QED
  BY <1>2 DEF Metas

\* The metas of two chains that agree up to height j.
LEMMA MetasSame ==
    ASSUME NEW N, NEW M, NEW off, NEW off2, NEW i \in Nat \ {0}, NEW j \in Nat,
           \A h \in 1..j : Ancestor(M, h) = Ancestor(N, h),
           \A h \in 0..j : off2[h] = off[h]
    PROVE  Metas(M, off2, i, j) = Metas(N, off, i, j)
<1>1. ASSUME NEW h \in i..j PROVE Meta(M, off2, h) = Meta(N, off, h)
  <2>1. h \in 1..j /\ h \in 0..j /\ h - 1 \in 0..j
    OBVIOUS
  <2>2. Ancestor(M, h) = Ancestor(N, h) /\ off2[h] = off[h] /\ off2[h - 1] = off[h - 1]
    BY <2>1
  <2> QED
    BY <2>2 DEF Meta
<1> QED
  BY <1>1 DEF Metas

LEMMA MetasJoin ==
    ASSUME NEW N, NEW off, NEW j \in Nat, NEW k \in Nat, j <= k
    PROVE  Metas(N, off, 1, j) \cup Metas(N, off, j + 1, k) = Metas(N, off, 1, k)
<1>1. \A h : h \in 1..k <=> h \in 1..j \/ h \in j + 1..k
  OBVIOUS
<1> QED
  BY <1>1 DEF Metas

\* Blocks at different heights are different blocks.
LEMMA AncestorsDiffer ==
    ASSUME NEW N \in Chain, NEW h \in 1..Len(N) + 1, NEW g \in 1..Len(N) + 1,
           Ancestor(N, h) = Ancestor(N, g)
    PROVE  h = g
<1>1. Len(N) \in Nat
  BY DEF Chain
<1>2. Len(Ancestor(N, h)) = h - 1 /\ Len(Ancestor(N, g)) = g - 1
  BY AncestorFacts
<1> QED
  BY <1>1, <1>2

\* A block of the chain has its meta in the database, and one only.
LEMMA MetaFound ==
    ASSUME NEW N \in Chain, NEW off, NEW k \in 0..Len(N) + 1,
           db.meta = Metas(N, off, 1, k), NEW h \in 1..k
    PROVE  /\ HasMeta(Ancestor(N, h))
           /\ MetaOf(Ancestor(N, h)) = Meta(N, off, h)
<1>1. Len(N) \in Nat
  BY DEF Chain
<1>2. Meta(N, off, h) \in db.meta /\ Meta(N, off, h).block = Ancestor(N, h)
  BY DEF Metas, Meta
<1>3. ASSUME NEW m \in db.meta, m.block = Ancestor(N, h)
      PROVE  m = Meta(N, off, h)
  <2>1. PICK g \in 1..k : m = Meta(N, off, g)
    BY DEF Metas
  <2>2. Ancestor(N, g) = Ancestor(N, h)
    BY <1>3, <2>1 DEF Meta
  <2>3. g \in 1..Len(N) + 1 /\ h \in 1..Len(N) + 1
    BY <1>1
  <2>4. g = h
    BY <2>2, <2>3, AncestorsDiffer
  <2> QED
    BY <2>1, <2>4
<1> QED
  BY <1>2, <1>3 DEF HasMeta, MetaOf

LEMMA MetasCount ==
    ASSUME NEW N \in Chain, NEW off, NEW k \in 0..Len(N) + 1
    PROVE  Cardinality(Metas(N, off, 1, k)) = k
<1>1. Len(N) \in Nat /\ k \in Nat
  BY DEF Chain
<1> DEFINE S == 1..k
           T == Metas(N, off, 1, k)
           f == [h \in S |-> Meta(N, off, h)]
<1>2. f \in [S -> T] /\ \A t \in T : \E h \in S : f[h] = t
  BY DEF Metas
<1>3. ASSUME NEW g \in S, NEW h \in S, f[g] = f[h] PROVE g = h
  <2>1. Ancestor(N, g) = Ancestor(N, h)
    BY <1>3 DEF Meta
  <2>2. g \in 1..Len(N) + 1 /\ h \in 1..Len(N) + 1
    BY <1>1
  <2> QED
    BY <2>1, <2>2, AncestorsDiffer
<1>4. f \in Bijection(S, T)
  BY <1>2, <1>3 DEF Bijection, Injection, Surjection, IsInjective
<1>5. ExistsBijection(S, T)
  BY <1>4 DEF ExistsBijection
<1>6. IsFiniteSet(S) /\ Cardinality(S) = k
  <2>1. 1 \in Int /\ k \in Int
    BY <1>1
  <2>2. IsFiniteSet(1..k) /\ Cardinality(1..k) = IF 1 > k THEN 0 ELSE k - 1 + 1
    BY <2>1, FS_Interval
  <2> QED
    BY <1>1, <2>2
<1> HIDE DEF S, T
<1>7. Cardinality(T) = Cardinality(S)
  BY <1>5, <1>6, FS_Bijection
<1> QED
  BY <1>6, <1>7 DEF T

-----------------------------------------------------------------------------
(* The inductive invariant.                                                *)

Places == {"down", "opening", "genesis", "writing genesis", "preactivating",
           "loading", "syncing", "up", "adding", "flushing"}

BTypeOK ==
    /\ file \in Files
    /\ buf \in Files
    /\ rw \in [height : Nat, txLen : Nat, hdLen : Nat, pb : Infos]
    /\ batch \in [changed : BOOLEAN, pb : Infos]
    /\ blocksNum \in Nat
    /\ lastBlock \in Chain \cup {NoBlock}
    /\ db \in [height : Nat, min : Nat \ {0}, meta : SUBSET MetaRecs, pb : Infos,
               preactivated : BOOLEAN]
    /\ pc \in Places

\* The height with the blocks that are being added.
TopHeight == db.height + blocksNum

\* The files with what is in the buffers.
Whole == [tx |-> file.tx \o buf.tx, hd |-> file.hd \o buf.hd,
          id |-> file.id \o buf.id]

\* Where nothing is being added.
Idle == pc \in Places \ {"writing genesis", "adding", "flushing"}

\* Where the counters of the blockReadWriter are right.
Counting == pc \in Places \ {"down", "opening", "syncing"}

\* Where blocks can be added or are being added.
Working == pc \in {"up", "adding", "flushing"}

\* What the database tells of the chain N, and the files hold of it.
Stored(N, off, e) ==
    /\ db.meta = Metas(N, off, 1, db.height)
    /\ Holds(file, N, off, e, db.height)
    /\ db.height = 0 => /\ db.pb = NoProtobuf
                        /\ ~db.preactivated
                        /\ pc \in {"down", "opening", "genesis", "writing genesis"}
    /\ db.height > 0 => Fits(db.pb, off, e, db.height) \/ Pending(db.pb, e, db.height)

\* What the memory tells of it.
Counted(N, off, e) ==
    /\ rw.height = TopHeight /\ rw.txLen = off[TopHeight] /\ rw.hdLen = TopHeight
    /\ blockInfo = Metas(N, off, db.height + 1, TopHeight)
    /\ Holds(Whole, N, off, e, TopHeight)
    /\ Full(Whole, off, e, TopHeight)
    /\ rw.pb = IF batch.changed THEN batch.pb ELSE db.pb

\* What holds at each place of the state manager.
AtPlace(N, off, e) ==
    /\ Idle => blocksNum = 0 /\ blockInfo = {} /\ buf = EmptyFiles
    /\ Counting => Counted(N, off, e)
    /\ ~Counting => batch = NoChange
    /\ Working => rw.pb = InfoOf(off, e, TopHeight) /\ lastBlock = N
    /\ pc = "opening" => rw.pb = db.pb
    /\ pc = "syncing" => Fits(rw.pb, off, e, db.height) /\ lastBlock = N
    /\ pc = "genesis" => db.height = 0 /\ rw.pb = NoProtobuf
    /\ pc = "writing genesis" => /\ db.height = 0 /\ blocksNum = 1
                                 /\ rw.pb = NoProtobuf
    /\ pc = "preactivating" => /\ db.height = 1 /\ ~db.preactivated
                               /\ rw.pb = NoProtobuf /\ batch = NoChange
    /\ pc = "loading" => \/ rw.pb = InfoOf(off, e, db.height)
                         \/ Pending(rw.pb, e, db.height)
    /\ pc = "flushing" => buf = EmptyFiles

\* Chain N, with the offsets off and the edge e, is what the storage stands for.
StandsFor(N, off, e) ==
    /\ Layout(db.preactivated, N, off, e)
    /\ TopHeight > 0 => Len(N) + 1 = TopHeight
    /\ Stored(N, off, e)
    /\ AtPlace(N, off, e)

BInv == BTypeOK /\ \E N, off, e : StandsFor(N, off, e)

-----------------------------------------------------------------------------
(* What the invariant says about reads.                                    *)

\* Info of k blocks fits the g blocks below as well.
LEMMA InfoFitsPrefix ==
    ASSUME NEW pre, NEW N, NEW off, NEW e, Layout(pre, N, off, e),
           NEW k \in 0..Len(N) + 1, NEW g \in 0..k
    PROVE  Fits(InfoOf(off, e, k), off, e, g)
<1>0. /\ N \in Chain /\ off \in [Nat -> Nat] /\ e \in Nat \ {0}
  BY DEF Layout
<1>a. Len(N) \in Nat
  BY <1>0 DEF Chain
<1>b. k \in Nat /\ g \in Nat
  BY <1>a
<1>1. Len(N) \in Nat /\ e \in Nat \ {0} /\ k \in Nat /\ g \in Nat /\ k <= Len(N) + 1 /\ g <= k
  BY <1>0, <1>a, <1>b
<1>2. CASE e <= g
  <2>1. e <= k
    BY <1>1, <1>2
  <2>2. InfoOf(off, e, k) = InfoOf(off, e, g)
    BY <1>2, <2>1 DEF InfoOf
  <2> QED
    BY <2>2 DEF Fits
<1>3. CASE e > g /\ e <= k
  <2>1. /\ e - 1 \in 0..Len(N) + 1 /\ g \in 0..Len(N) + 1 /\ g <= e - 1
        /\ e <= Len(N) + 1 /\ e - 1 \in Nat
    BY <1>1, <1>3
  <2>2. off[g] <= off[e - 1] /\ off[e - 1] < off[e]
    BY <2>1 DEF Layout, Offsets
  <2>3. off[g] \in Nat /\ off[e - 1] \in Nat /\ off[e] \in Nat
    BY <1>0, <1>1, <2>1
  <2>4. off[e] > off[g]
    BY <2>2, <2>3
  <2>5. /\ InfoOf(off, e, k).on /\ InfoOf(off, e, k).after = e
        /\ InfoOf(off, e, k).hd = e /\ InfoOf(off, e, k).tx = off[e]
    BY <1>3 DEF InfoOf
  <2> QED
    BY <1>3, <2>4, <2>5 DEF Fits
<1>4. CASE e > k
  <2>1. e > g /\ ~(e <= k) /\ ~(e <= g)
    BY <1>1, <1>4
  <2>2. InfoOf(off, e, k) = InfoOf(off, e, g)
    BY <2>1 DEF InfoOf
  <2> QED
    BY <2>2 DEF Fits
<1> QED
  BY <1>1, <1>2, <1>3, <1>4

\* The numbers that go with the invariant.
LEMMA StandsForTypes ==
    ASSUME BTypeOK, NEW N, NEW off, NEW e, StandsFor(N, off, e)
    PROVE  /\ N \in Chain /\ off \in [Nat -> Nat] /\ e \in Nat \ {0}
           /\ Len(N) \in Nat
           /\ db.height \in Nat /\ blocksNum \in Nat /\ TopHeight \in Nat
           /\ db.height <= TopHeight
           /\ TopHeight \in 0..Len(N) + 1
           /\ db.height \in 0..Len(N) + 1
           /\ db.height \in 0..TopHeight
           /\ Edge(db.preactivated, N, e) /\ Offsets(N, off)
<1>1. /\ N \in Chain /\ off \in [Nat -> Nat] /\ e \in Nat \ {0}
      /\ Edge(db.preactivated, N, e) /\ Offsets(N, off)
  BY DEF StandsFor, Layout
<1>2. Len(N) \in Nat
  BY <1>1 DEF Chain
<1>3. db.height \in Nat /\ blocksNum \in Nat
  BY DEF BTypeOK
<1>4. TopHeight \in Nat /\ db.height <= TopHeight
  BY <1>3 DEF TopHeight
<1>5. TopHeight > 0 => Len(N) + 1 = TopHeight
  BY DEF StandsFor
<1>6. TopHeight \in 0..Len(N) + 1 /\ db.height \in 0..TopHeight
  BY <1>2, <1>3, <1>4, <1>5
<1>7. db.height \in 0..Len(N) + 1
  BY <1>2, <1>3, <1>4, <1>6
<1> QED
  BY <1>1, <1>2, <1>3, <1>4, <1>6, <1>7

LEMMA StandsForNumbers ==
    ASSUME BTypeOK, NEW N, NEW off, NEW e, StandsFor(N, off, e)
    PROVE  /\ e \in Nat \ {0} /\ Len(N) \in Nat
           /\ db.height \in Nat /\ blocksNum \in Nat /\ TopHeight \in Nat
           /\ db.height <= TopHeight /\ TopHeight <= Len(N) + 1
           /\ db.height <= Len(N) + 1
<1>1. /\ e \in Nat \ {0} /\ Len(N) \in Nat
      /\ db.height \in Nat /\ blocksNum \in Nat /\ TopHeight \in Nat
      /\ db.height <= TopHeight
      /\ TopHeight \in 0..Len(N) + 1
  BY StandsForTypes
<1> QED
  BY <1>1

\* Without the preactivated feature nothing is activated above the genesis.
LEMMA GenesisEdge ==
    ASSUME BTypeOK, NEW N, NEW off, NEW e, StandsFor(N, off, e),
           TopHeight = 1, ~db.preactivated
    PROVE  e > 1 /\ N = Genesis
<1>1. /\ N \in Chain /\ e \in Nat \ {0} /\ Len(N) \in Nat
      /\ Edge(db.preactivated, N, e)
  BY StandsForTypes
<1>2. Len(N) = 0
  BY <1>1 DEF StandsFor
<1>3. N = Genesis
  BY <1>1, <1>2 DEF Chain, Genesis
<1>4. ~ActiveAt(db.preactivated, N, 2)
  BY <1>2 DEF ActiveAt
<1>5. 2 \in 2..Len(N) + 2
  BY <1>2
<1>6. ~(2 > e)
  BY <1>1, <1>4, <1>5 DEF Edge
<1> QED
  BY <1>1, <1>3, <1>6

\* The info that reads go by fits the stored blocks, wherever the state
\* manager is.
LEMMA CurrentFits ==
    ASSUME BTypeOK, NEW N, NEW off, NEW e, StandsFor(N, off, e), db.height > 0
    PROVE  /\ CurrentInfo \in Infos
           /\ \/ Fits(CurrentInfo, off, e, db.height)
              \/ Pending(CurrentInfo, e, db.height)
<1>1. CurrentInfo \in Infos
  BY DEF BTypeOK, CurrentInfo
<1>2. /\ N \in Chain /\ off \in [Nat -> Nat] /\ e \in Nat \ {0}
      /\ TopHeight \in 0..Len(N) + 1 /\ db.height \in 0..TopHeight /\ db.height \in Nat
      /\ blocksNum \in Nat
  BY StandsForTypes
<1>3. CASE pc \in {"down", "opening"}
  <2>1. CurrentInfo = db.pb
    BY <1>3 DEF CurrentInfo, StandsFor, AtPlace
  <2>2. Fits(db.pb, off, e, db.height) \/ Pending(db.pb, e, db.height)
    BY DEF StandsFor, Stored
  <2> QED
    BY <1>1, <2>1, <2>2
<1>a. pc # "down" => CurrentInfo = rw.pb
  BY DEF CurrentInfo
<1>4. CASE pc = "syncing"
  <2>1. Fits(rw.pb, off, e, db.height)
    BY <1>4 DEF StandsFor, AtPlace
  <2> QED
    BY <1>1, <1>4, <1>a, <2>1
<1>5. CASE pc \in {"genesis", "writing genesis"}
  <2>1. db.height = 0
    BY <1>5 DEF StandsFor, AtPlace
  <2> QED
    BY <2>1
<1>6. CASE pc = "preactivating"
  <2>1. Idle
    BY <1>6 DEF Idle, Places
  <2>2. /\ db.height = 1 /\ blocksNum = 0 /\ ~db.preactivated /\ rw.pb = NoProtobuf
    BY <1>6, <2>1 DEF StandsFor, AtPlace
  <2>3. TopHeight = 1
    BY <2>2 DEF TopHeight
  <2>4. e > 1
    BY <2>2, <2>3, GenesisEdge
  <2>5. InfoOf(off, e, db.height) = NoProtobuf
    BY <1>2, <2>2, <2>4 DEF InfoOf
  <2>6. Fits(rw.pb, off, e, db.height)
    BY <2>2, <2>5 DEF Fits
  <2> QED
    BY <1>1, <1>6, <1>a, <2>6
<1>7. CASE pc = "loading"
  <2>1. rw.pb = InfoOf(off, e, db.height) \/ Pending(rw.pb, e, db.height)
    BY <1>7 DEF StandsFor, AtPlace
  <2>2. Fits(rw.pb, off, e, db.height) \/ Pending(rw.pb, e, db.height)
    BY <2>1 DEF Fits
  <2> QED
    BY <1>1, <1>7, <1>a, <2>2
<1>8. CASE pc \in {"up", "adding", "flushing"}
  <2>1. rw.pb = InfoOf(off, e, TopHeight)
    BY <1>8 DEF StandsFor, AtPlace, Working
  <2>2. Fits(InfoOf(off, e, TopHeight), off, e, db.height)
    BY <1>2, InfoFitsPrefix DEF StandsFor
  <2>3. CurrentInfo = rw.pb
    BY <1>8, <1>a
  <2> QED
    BY <1>1, <2>1, <2>2, <2>3
<1> QED
  BY <1>3, <1>4, <1>5, <1>6, <1>7, <1>8 DEF BTypeOK, Places

\* Every read of an ID returns the block of the chain.
LEMMA ReadsChain ==
    ASSUME BTypeOK, NEW N, NEW off, NEW e, StandsFor(N, off, e),
           NEW p \in Infos, Fits(p, off, e, db.height) \/ Pending(p, e, db.height),
           NEW h \in 1..db.height
    PROVE  BlockIDByHeight(p, h) = Ancestor(N, h)
<1>1. /\ N \in Chain /\ off \in [Nat -> Nat] /\ e \in Nat \ {0}
      /\ db.height \in 0..Len(N) + 1 /\ db.height \in Nat
      /\ Edge(db.preactivated, N, e)
  BY StandsForTypes
<1>2. Locates(p, e, db.height)
  BY <1>1, FitsLocates
<1>3. file \in Files /\ IdHeld(file.id, N, e, db.height)
  BY DEF BTypeOK, StandsFor, Stored, Holds
<1> QED
  BY <1>1, <1>2, <1>3, ReadsId

\* The offsets to which the files are truncated.
LEMMA EndsFacts ==
    ASSUME BTypeOK, NEW N, NEW off, NEW e, StandsFor(N, off, e), db.height > 0,
           Fits(rw.pb, off, e, db.height) \/ Pending(rw.pb, e, db.height)
    PROVE  /\ HasMeta(BlockIDByHeight(rw.pb, db.height))
           /\ Ends.tx = off[db.height]
           /\ Ends.hd = db.height
           /\ Ends.id = IdAt(e, db.height)
<1>1. /\ N \in Chain /\ off \in [Nat -> Nat] /\ e \in Nat \ {0}
      /\ db.height \in 0..Len(N) + 1 /\ db.height \in Nat
  BY StandsForTypes
<1>2. rw.pb \in Infos /\ db.height \in 1..db.height
  <2>1. db.height \in Nat
    BY <1>1
  <2>2. db.height \in 1..db.height
    BY <2>1
  <2> QED
    BY <2>2 DEF BTypeOK
<1>3. BlockIDByHeight(rw.pb, db.height) = Ancestor(N, db.height)
  BY <1>2, ReadsChain
<1>4. /\ HasMeta(Ancestor(N, db.height))
      /\ MetaOf(Ancestor(N, db.height)) = Meta(N, off, db.height)
  BY <1>1, <1>2, MetaFound DEF StandsFor, Stored
<1>5. IdOffset(rw.pb, db.height) = IdAt(e, db.height)
  BY <1>1, <1>2, FitsLocates DEF Locates
<1>6. /\ MetaOf(Ancestor(N, db.height)).txEnd = off[db.height]
      /\ MetaOf(Ancestor(N, db.height)).hdEnd = db.height
  BY <1>4 DEF Meta
<1>7. Ends = [tx |-> off[db.height], hd |-> db.height, id |-> IdAt(e, db.height)]
  BY <1>1, <1>3, <1>5, <1>6 DEF Ends
<1> QED
  BY <1>3, <1>4, <1>7

-----------------------------------------------------------------------------
(* What the invariant says about the properties.                           *)

\* The format in which a stored block is read is the one it was written in.
LEMMA FormatTold ==
    ASSUME NEW pre, NEW N, NEW off, NEW e, Layout(pre, N, off, e),
           NEW k \in 0..Len(N) + 1, NEW p \in Infos,
           Fits(p, off, e, k) \/ Pending(p, e, k), NEW h \in 1..k
    PROVE  /\ (p.on /\ h - 1 >= p.hd) <=> h > e
           /\ (p.on /\ off[h - 1] >= p.tx) <=> h > e
<1>1. N \in Chain /\ off \in [Nat -> Nat] /\ e \in Nat \ {0} /\ Offsets(N, off)
      /\ (e <= Len(N) + 1 => off[e - 1] < off[e])
  BY DEF Layout
<1>2. Len(N) \in Nat /\ e \in Nat \ {0}
  BY <1>1 DEF Chain
<1>3. /\ k \in Nat /\ h \in Nat /\ h - 1 \in Nat /\ h <= k /\ e - 1 \in Nat
      /\ h - 1 \in 0..Len(N) + 1 /\ k \in 0..Len(N) + 1 /\ k <= Len(N) + 1
  BY <1>1, <1>2
<1>4. off[h - 1] \in Nat /\ off[k] \in Nat /\ off[e] \in Nat /\ off[e - 1] \in Nat
  BY <1>1, <1>3
<1>5. CASE p = InfoOf(off, e, k) /\ e <= k
  <2>1. p.on /\ p.hd = e /\ p.tx = off[e]
    BY <1>5 DEF InfoOf
  <2>2. h > e => off[h - 1] >= off[e]
    <3>1. ASSUME h > e PROVE off[e] <= off[h - 1]
      <4>1. e \in 0..Len(N) + 1 /\ e <= h - 1
        BY <1>1, <1>2, <1>3, <3>1
      <4> QED
        BY <1>1, <1>3, <4>1 DEF Offsets
    <3> QED
      BY <1>4, <3>1
  <2>3. h <= e => ~(off[h - 1] >= off[e])
    <3>1. ASSUME h <= e PROVE off[h - 1] <= off[e - 1]
      <4>1. e - 1 \in 0..Len(N) + 1 /\ h - 1 <= e - 1
        BY <1>1, <1>2, <1>3, <1>5, <3>1
      <4> QED
        BY <1>1, <1>3, <4>1 DEF Offsets
    <3>2. off[e - 1] < off[e]
      BY <1>1, <1>2, <1>3, <1>5
    <3> QED
      BY <1>4, <3>1, <3>2
  <2> QED
    BY <1>2, <1>3, <2>1, <2>2, <2>3
<1>6. CASE e > k /\ p.on /\ p.hd > k /\ p.tx > off[k]
  <2>1. off[h - 1] <= off[k]
    <3>1. h - 1 <= k
      BY <1>3
    <3> QED
      BY <1>1, <1>3, <3>1 DEF Offsets
  <2>2. p.hd \in Nat /\ p.tx \in Nat
    BY DEF Infos
  <2> QED
    BY <1>2, <1>3, <1>4, <1>6, <2>1, <2>2
<1>7. CASE ~p.on /\ e > k
  BY <1>2, <1>3, <1>7
<1>8. CASE ~p.on /\ e = 1 /\ k = 1
  BY <1>3, <1>8
<1>9. p = InfoOf(off, e, k) => e <= k \/ (~p.on /\ e > k)
  <2>1. e <= k \/ e > k
    BY <1>1, <1>3
  <2>2. e > k => InfoOf(off, e, k) = NoProtobuf
    BY <1>1, <1>3 DEF InfoOf
  <2>3. ~NoProtobuf.on
    BY DEF NoProtobuf
  <2> QED
    BY <2>1, <2>2, <2>3, Zenon
<1>10. Pending(p, e, k) => ~p.on /\ e = 1 /\ k = 1
  BY DEF Pending, NoProtobuf
<1> QED
  BY <1>5, <1>6, <1>7, <1>8, <1>9, <1>10 DEF Fits

LEMMA CellFormat ==
    ASSUME NEW N, NEW e, NEW h, NEW b, b = Ancestor(N, h), NEW f \in BOOLEAN, f <=> h > e
    PROVE  Cell(N, e, h) = [block |-> b, pb |-> f]
<1>1. CASE h > e
  <2>1. f = TRUE
    BY <1>1
  <2> QED
    BY <1>1, <2>1 DEF Cell
<1>2. CASE ~(h > e)
  <2>1. f = FALSE
    BY <1>2
  <2> QED
    BY <1>2, <2>1 DEF Cell
<1> QED
  BY <1>1, <1>2

LEMMA InvReadsBack == BInv => StoredChainReadsBack
<1>1. SUFFICES ASSUME BTypeOK, NEW N, NEW off, NEW e, StandsFor(N, off, e),
                      db.height > 0
               PROVE  StoredChainReadsBack
  BY DEF BInv, StoredChainReadsBack
<1>2. /\ N \in Chain /\ off \in [Nat -> Nat] /\ e \in Nat \ {0} /\ Len(N) \in Nat
      /\ db.height \in 0..Len(N) + 1 /\ db.height \in Nat
      /\ Offsets(N, off)
  BY <1>1, StandsForTypes
<1>a. /\ e \in Nat \ {0} /\ Len(N) \in Nat /\ db.height \in Nat
      /\ db.height <= Len(N) + 1
  BY <1>1, StandsForNumbers
<1> DEFINE n == db.height
           p == CurrentInfo
<1>3. p \in Infos /\ (Fits(p, off, e, n) \/ Pending(p, e, n))
  BY <1>1, CurrentFits
<1>4. \A h \in 1..n : BlockIDByHeight(p, h) = Ancestor(N, h)
  BY <1>1, <1>3, ReadsChain
<1>5. n \in 1..n /\ n \in 1..Len(N) + 1 /\ n > 0
  BY <1>1, <1>a
<1>6. StoredTop = Ancestor(N, n)
  BY <1>4, <1>5 DEF StoredTop
<1>7. StoredTop # NoBlock /\ Height(StoredTop) = n
  BY <1>2, <1>5, <1>6, AncestorFacts, NoBlockAssumption DEF Chain
<1>8. ASSUME NEW h \in 1..n
      PROVE  /\ BlockIDByHeight(p, h) = Ancestor(StoredTop, h)
             /\ HasMeta(BlockIDByHeight(p, h))
             /\ ReadsBack(p, BlockIDByHeight(p, h), MetaOf(BlockIDByHeight(p, h)))
  <2> DEFINE b == Ancestor(N, h)
             m == MetaOf(b)
  <2>1. BlockIDByHeight(p, h) = b
    BY <1>4
  <2>2. h \in 1..Len(N) + 1 /\ h \in Nat /\ h - 1 \in Nat /\ h <= n
    BY <1>a
  <2>3. Ancestor(StoredTop, h) = b
    BY <1>2, <1>5, <1>6, AncestorOfAncestor
  <2>4. HasMeta(b) /\ m = Meta(N, off, h)
    BY <1>1, <1>2, MetaFound DEF StandsFor, Stored
  <2>5. /\ m.txStart = off[h - 1] /\ m.txEnd = off[h]
        /\ m.hdStart = h - 1 /\ m.hdEnd = h
    BY <2>4 DEF Meta
  <2>6. off[h] = off[h - 1] + TxSize(b) /\ off[h] <= off[n]
        /\ off[h] \in Nat /\ off[n] \in Nat
    <3>1. h \in 0..Len(N) + 1 /\ n \in 0..Len(N) + 1
      BY <1>2, <2>2
    <3>2. off[h] = off[h - 1] + TxSize(b) /\ off[h] <= off[n]
      BY <1>2, <2>2, <3>1 DEF Offsets
    <3>3. off[h] \in Nat /\ off[n] \in Nat
      BY <1>2, <2>2
    <3> QED
      BY <3>2, <3>3
  <2>7. /\ TxHeld(file.tx, N, off, e, n) /\ HdHeld(file.hd, N, e, n)
        /\ Len(file.tx) \in Nat /\ Len(file.hd) \in Nat
    <3>1. file.tx \in Seq(TxCell) /\ file.hd \in Seq(TxCell)
      BY <1>1 DEF BTypeOK, Files
    <3>2. Len(file.tx) \in Nat /\ Len(file.hd) \in Nat
      BY <3>1, LenType, Zenon
    <3> QED
      BY <1>1, <3>2 DEF StandsFor, Stored, Holds
  <2>8. /\ (p.on /\ m.hdStart >= p.hd) <=> h > e
        /\ (p.on /\ m.txStart >= p.tx) <=> h > e
    <3>1. Layout(db.preactivated, N, off, e)
      BY <1>1 DEF StandsFor
    <3>2. /\ (p.on /\ h - 1 >= p.hd) <=> h > e
          /\ (p.on /\ off[h - 1] >= p.tx) <=> h > e
      BY <1>2, <1>3, <3>1, FormatTold
    <3> QED
      BY <2>5, <3>2
  <2>9. /\ (p.on /\ m.hdStart >= p.hd) \in BOOLEAN
        /\ (p.on /\ m.txStart >= p.tx) \in BOOLEAN
    OBVIOUS
  <2>10. /\ m.hdEnd <= Len(file.hd)
         /\ file.hd[m.hdEnd] = [block |-> b, pb |-> p.on /\ m.hdStart >= p.hd]
    <3>1. file.hd[h] = Cell(N, e, h) /\ h <= Len(file.hd)
      BY <1>a, <2>2, <2>7 DEF HdHeld
    <3>2. Cell(N, e, h) = [block |-> b, pb |-> p.on /\ m.hdStart >= p.hd]
      <4> DEFINE f == p.on /\ m.hdStart >= p.hd
      <4>1. f \in BOOLEAN /\ (f <=> h > e) /\ b = Ancestor(N, h)
        BY <2>8, <2>9
      <4> HIDE DEF f, b
      <4>2. Cell(N, e, h) = [block |-> b, pb |-> f]
        BY <4>1, CellFormat
      <4> QED
        BY <4>2 DEF f, b
    <3> QED
      BY <2>5, <3>1, <3>2
  <2>11. /\ m.txEnd <= Len(file.tx)
         /\ \A i \in m.txStart + 1..m.txEnd :
               file.tx[i] = [block |-> b, pb |-> p.on /\ m.txStart >= p.tx]
    <3>1. \A i \in off[h - 1] + 1..off[h] : file.tx[i] = Cell(N, e, h)
      BY <2>7 DEF TxHeld
    <3>2. off[n] <= Len(file.tx)
      BY <2>6, <2>7 DEF TxHeld
    <3>3. Cell(N, e, h) = [block |-> b, pb |-> p.on /\ m.txStart >= p.tx]
      <4> DEFINE f == p.on /\ m.txStart >= p.tx
      <4>1. f \in BOOLEAN /\ (f <=> h > e) /\ b = Ancestor(N, h)
        BY <2>8, <2>9
      <4> HIDE DEF f, b
      <4>2. Cell(N, e, h) = [block |-> b, pb |-> f]
        BY <4>1, CellFormat
      <4> QED
        BY <4>2 DEF f, b
    <3>4. off[h] <= Len(file.tx)
      BY <2>6, <2>7, <3>2
    <3> QED
      BY <2>5, <3>1, <3>3, <3>4
  <2>12. m.hdEnd = m.hdStart + 1 /\ m.txEnd = m.txStart + TxSize(b)
    BY <2>2, <2>5, <2>6
  <2>13. ReadsBack(p, b, m)
    BY <2>10, <2>11, <2>12 DEF ReadsBack
  <2> QED
    BY <2>1, <2>3, <2>4, <2>13
<1>9. Cardinality(db.meta) = n
  BY <1>1, <1>2, MetasCount DEF StandsFor, Stored
<1> QED
  BY <1>7, <1>8, <1>9 DEF StoredChainReadsBack

\* A settled state manager has nothing in the buffers.
LEMMA WholeIsFile ==
    ASSUME BTypeOK, buf = EmptyFiles
    PROVE  Whole = file
<1>1. file \in Files
  BY DEF BTypeOK
<1>2. file.tx \in Seq(TxCell) /\ file.hd \in Seq(TxCell) /\ file.id \in Seq(IdCell)
  BY <1>1 DEF Files
<1>3. file = [tx |-> file.tx, hd |-> file.hd, id |-> file.id]
  BY <1>1 DEF Files
<1>4. /\ file.tx \o <<>> = file.tx
      /\ file.hd \o <<>> = file.hd
      /\ file.id \o <<>> = file.id
  BY <1>2
<1>5. buf.tx = <<>> /\ buf.hd = <<>> /\ buf.id = <<>>
  BY DEF EmptyFiles
<1> QED
  BY <1>3, <1>4, <1>5 DEF Whole

\* What the invariant says between two operations.
LEMMA UpFacts ==
    ASSUME BTypeOK, NEW N, NEW off, NEW e, StandsFor(N, off, e), pc = "up"
    PROVE  /\ db.height > 0 /\ TopHeight = db.height /\ blocksNum = 0
           /\ Len(N) + 1 = db.height
           /\ buf = EmptyFiles /\ blockInfo = {}
           /\ Whole = file
           /\ Counted(N, off, e)
           /\ rw.pb = InfoOf(off, e, db.height)
           /\ lastBlock = N
<1>1. Idle /\ Counting /\ Working
  BY DEF Idle, Counting, Working, Places
<1>2. /\ blocksNum = 0 /\ buf = EmptyFiles /\ blockInfo = {}
      /\ Counted(N, off, e)
      /\ rw.pb = InfoOf(off, e, TopHeight) /\ lastBlock = N
  BY <1>1 DEF StandsFor, AtPlace
<1>3. db.height \in Nat
  BY DEF BTypeOK
<1>4. TopHeight = db.height
  BY <1>2, <1>3 DEF TopHeight
<1>5. db.height # 0
  BY DEF StandsFor, Stored
<1>6. db.height > 0
  BY <1>3, <1>5
<1>7. Len(N) + 1 = db.height
  BY <1>4, <1>6 DEF StandsFor
<1> QED
  BY <1>2, <1>4, <1>6, <1>7, WholeIsFile

LEMMA InvCounters == BInv => CountersMatchFiles
<1>1. SUFFICES ASSUME BTypeOK, NEW N, NEW off, NEW e, StandsFor(N, off, e), pc = "up"
               PROVE  CountersMatchFiles
  BY DEF BInv, CountersMatchFiles
<1>2. /\ N \in Chain /\ off \in [Nat -> Nat] /\ e \in Nat \ {0} /\ Len(N) \in Nat
      /\ db.height \in Nat
  BY <1>1, StandsForTypes
<1>3. /\ db.height > 0 /\ TopHeight = db.height /\ Len(N) + 1 = db.height
      /\ Whole = file /\ Counted(N, off, e) /\ lastBlock = N
  BY <1>1, UpFacts
<1>4. /\ rw.height = db.height /\ rw.txLen = off[db.height] /\ rw.hdLen = db.height
      /\ Full(file, off, e, db.height)
  BY <1>3 DEF Counted
<1>5. CurrentInfo = rw.pb
  BY <1>1 DEF CurrentInfo
<1>6. rw.pb \in Infos /\ (Fits(rw.pb, off, e, db.height) \/ Pending(rw.pb, e, db.height))
  BY <1>1, <1>3, <1>5, CurrentFits
<1>7. IdOffset(rw.pb, db.height) = IdAt(e, db.height)
  BY <1>2, <1>6, FitsLocates DEF Locates
<1>8. db.height \in 1..db.height /\ db.height # 0
  <2>1. db.height \in Nat
    BY <1>2
  <2> QED
    BY <1>3, <2>1
<1>9. StoredTop = Ancestor(N, db.height)
  BY <1>1, <1>5, <1>6, <1>8, ReadsChain DEF StoredTop
<1>10. Ancestor(N, db.height) = N
  BY <1>2, <1>3, TopAncestor
<1> QED
  BY <1>3, <1>4, <1>7, <1>9, <1>10 DEF CountersMatchFiles, Full

-----------------------------------------------------------------------------
(* Writing and truncating.                                                 *)

\* The storage with the blocks above n gone.
Lower(N, n) == IF n = 0 THEN N ELSE Ancestor(N, n)

LEMMA LowerFacts ==
    ASSUME NEW pre, NEW N, NEW off, NEW e, Layout(pre, N, off, e),
           NEW n \in 0..Len(N) + 1, NEW F \in Files, Holds(F, N, off, e, n)
    PROVE  /\ Layout(pre, Lower(N, n), off, e)
           /\ n > 0 => Len(Lower(N, n)) + 1 = n
           /\ Holds(F, Lower(N, n), off, e, n)
           /\ Metas(Lower(N, n), off, 1, n) = Metas(N, off, 1, n)
<1>1. CASE n = 0
  BY <1>1 DEF Lower
<1>2. CASE n # 0
  <2> DEFINE M == Ancestor(N, n)
  <2>1. N \in Chain /\ off \in [Nat -> Nat] /\ e \in Nat \ {0} /\ Offsets(N, off)
    BY DEF Layout
  <2>2. Len(N) \in Nat
    BY <2>1 DEF Chain
  <2>3. n \in 1..Len(N) + 1 /\ n \in Nat /\ n \in 0..n
    BY <1>2, <2>2
  <2>4. M \in Chain /\ Len(M) = n - 1
    BY <2>1, <2>3, AncestorFacts
  <2>5. \A h \in 1..n : Ancestor(M, h) = Ancestor(N, h)
    BY <2>1, <2>3, AncestorOfAncestor
  <2>6. Layout(pre, M, off, e)
    BY <2>3, LayoutOfPrefix
  <2>7. Len(M) + 1 = n
    BY <2>3, <2>4
  <2>8. Metas(M, off, 1, n) = Metas(N, off, 1, n)
    <3>1. 1 \in Nat \ {0} /\ \A h \in 0..n : off[h] = off[h]
      OBVIOUS
    <3> QED
      BY <2>3, <2>5, <3>1, MetasSame
  <2>9. Holds(F, M, off, e, n)
    <3> HIDE DEF M
    <3>1. \A h \in 0..n : off[h] = off[h]
      OBVIOUS
    <3> QED
      BY <2>1, <2>3, <2>4, <2>5, <3>1, HoldsPart
  <2>10. Lower(N, n) = M
    BY <1>2 DEF Lower
  <2> QED
    BY <2>6, <2>7, <2>8, <2>9, <2>10
<1> QED
  BY <1>1, <1>2

\* All of the buffers is written.
LEMMA AllWrittenIs ==
    ASSUME BTypeOK
    PROVE  AllWritten = Whole /\ Whole \in Files
<1>1. /\ file.tx \in Seq(TxCell) /\ file.hd \in Seq(TxCell) /\ file.id \in Seq(IdCell)
      /\ buf.tx \in Seq(TxCell) /\ buf.hd \in Seq(TxCell) /\ buf.id \in Seq(IdCell)
  BY DEF BTypeOK, Files
<1>2. \A S : \A s \in Seq(S) : SubSeq(s, 1, Len(s)) = s
  <2>1. SUFFICES ASSUME NEW S, NEW s \in Seq(S) PROVE SubSeq(s, 1, Len(s)) = s
    OBVIOUS
  <2>2. /\ SubSeq(s, 1, Len(s)) \in Seq(S) /\ Len(SubSeq(s, 1, Len(s))) = Len(s)
        /\ \A i \in 1..Len(s) : SubSeq(s, 1, Len(s))[i] = s[i]
    OBVIOUS
  <2> QED
    BY <2>2, SameSequence
<1>3. /\ SubSeq(buf.tx, 1, Len(buf.tx)) = buf.tx
      /\ SubSeq(buf.hd, 1, Len(buf.hd)) = buf.hd
      /\ SubSeq(buf.id, 1, Len(buf.id)) = buf.id
  BY <1>1, <1>2, Zenon
<1>4. AllWritten = Whole
  BY <1>3 DEF AllWritten, Written, Whole
<1>5. /\ file.tx \o buf.tx \in Seq(TxCell) /\ file.hd \o buf.hd \in Seq(TxCell)
      /\ file.id \o buf.id \in Seq(IdCell)
  BY <1>1
<1> QED
  BY <1>4, <1>5 DEF Whole, Files

\* Some of the buffers is written: the blocks stay where they are.
LEMMA SomeWrittenFacts ==
    ASSUME BTypeOK, NEW F \in SomeWritten,
           NEW N \in Chain, NEW off \in [Nat -> Nat], NEW e \in Nat \ {0},
           NEW n \in 0..Len(N) + 1, Offsets(N, off), Holds(file, N, off, e, n)
    PROVE  F \in Files /\ Holds(F, N, off, e, n)
<1>1. /\ file.tx \in Seq(TxCell) /\ file.hd \in Seq(TxCell) /\ file.id \in Seq(IdCell)
      /\ buf.tx \in Seq(TxCell) /\ buf.hd \in Seq(TxCell) /\ buf.id \in Seq(IdCell)
      /\ file \in Files
  BY DEF BTypeOK, Files
<1>2. PICK t \in 0..Len(buf.tx), h \in 0..Len(buf.hd), i \in 0..Len(buf.id) :
         F = Written(t, h, i)
  BY DEF SomeWritten
<1> DEFINE x == SubSeq(buf.tx, 1, t)
           y == SubSeq(buf.hd, 1, h)
           z == SubSeq(buf.id, 1, i)
<1>3. x \in Seq(TxCell) /\ y \in Seq(TxCell) /\ z \in Seq(IdCell)
  <2>1. \A S : \A s \in Seq(S) : \A j \in 0..Len(s) : SubSeq(s, 1, j) \in Seq(S)
    OBVIOUS
  <2> QED
    BY <1>1, <2>1, Zenon
<1>4. F.tx = file.tx \o x /\ F.hd = file.hd \o y /\ F.id = file.id \o z
  BY <1>2 DEF Written
<1>5. F = [tx |-> file.tx \o x, hd |-> file.hd \o y, id |-> file.id \o z]
  BY <1>2 DEF Written
<1> HIDE DEF x, y, z
<1>6. F \in Files
  <2>1. /\ file.tx \o x \in Seq(TxCell) /\ file.hd \o y \in Seq(TxCell)
        /\ file.id \o z \in Seq(IdCell)
    BY <1>1, <1>3
  <2> QED
    BY <1>5, <2>1 DEF Files
<1> QED
  BY <1>1, <1>3, <1>4, <1>6, HoldsLonger

\* The first files are truncated where the stored blocks end.
LEMMA TruncatedFacts ==
    ASSUME BTypeOK, NEW N, NEW off, NEW e, StandsFor(N, off, e), NEW j \in 0..3,
           db.height > 0 =>
              Fits(rw.pb, off, e, db.height) \/ Pending(rw.pb, e, db.height)
    PROVE  /\ Truncated(j) \in Files
           /\ Holds(Truncated(j), N, off, e, db.height)
           /\ j = 3 => Full(Truncated(j), off, e, db.height)
<1> DEFINE n == db.height
<1>1. /\ N \in Chain /\ off \in [Nat -> Nat] /\ e \in Nat \ {0}
      /\ n \in 0..Len(N) + 1 /\ n \in Nat /\ Offsets(N, off)
  BY StandsForTypes
<1>2. /\ file.tx \in Seq(TxCell) /\ file.hd \in Seq(TxCell) /\ file.id \in Seq(IdCell)
      /\ file \in Files
  BY DEF BTypeOK, Files
<1>3. off[n] \in Nat /\ IdAt(e, n) \in Nat
  BY <1>1, IdAtType
<1>4. Ends.tx = off[n] /\ Ends.hd = n /\ Ends.id = IdAt(e, n)
  <2>1. CASE n = 0
    <3>1. off[0] = 0 /\ IdAt(e, 0) = 0
      BY <1>1 DEF Offsets, IdAt
    <3> QED
      BY <2>1, <3>1 DEF Ends
  <2>2. CASE n # 0
    <3>1. n > 0
      BY <1>1, <2>2
    <3> QED
      BY <3>1, EndsFacts
  <2> QED
    BY <2>1, <2>2
<1>5. /\ TxHeld(file.tx, N, off, e, n) /\ HdHeld(file.hd, N, e, n)
      /\ IdHeld(file.id, N, e, n)
  BY DEF StandsFor, Stored, Holds
<1>6. Len(file.tx) >= off[n] /\ Len(file.hd) >= n /\ Len(file.id) >= IdAt(e, n)
  BY <1>5 DEF TxHeld, HdHeld, IdHeld
<1>7. Len(file.tx) \in Nat /\ Len(file.hd) \in Nat /\ Len(file.id) \in Nat
  BY <1>2, LenType, Zenon
<1> DEFINE tx == CutTo(file.tx, off[n])
           hd == CutTo(file.hd, n)
           id == CutTo(file.id, IdAt(e, n))
<1>8. /\ tx \in Seq(TxCell) /\ Len(tx) = off[n]
      /\ \A i \in 1..off[n] : tx[i] = file.tx[i]
  <2>1. off[n] <= Len(file.tx)
    BY <1>3, <1>6, <1>7
  <2> QED
    BY <1>2, <1>3, <2>1, CutFacts
<1>9. /\ hd \in Seq(TxCell) /\ Len(hd) = n
      /\ \A i \in 1..n : hd[i] = file.hd[i]
  <2>1. n <= Len(file.hd) /\ n \in Nat
    BY <1>1, <1>6, <1>7
  <2> QED
    BY <1>2, <2>1, CutFacts
<1>10. /\ id \in Seq(IdCell) /\ Len(id) = IdAt(e, n)
       /\ \A i \in 1..IdAt(e, n) : id[i] = file.id[i]
  <2>1. IdAt(e, n) <= Len(file.id)
    BY <1>3, <1>6, <1>7
  <2> QED
    BY <1>2, <1>3, <2>1, CutFacts
<1>11. Truncated(j) = [tx |-> IF j > 0 THEN tx ELSE file.tx,
                       hd |-> IF j > 1 THEN hd ELSE file.hd,
                       id |-> IF j > 2 THEN id ELSE file.id]
  BY <1>4 DEF Truncated
<1> HIDE DEF tx, hd, id
<1>a. Len(tx) >= off[n] /\ Len(hd) >= n /\ Len(id) >= IdAt(e, n) /\ n \in Nat
      /\ e \in Nat \ {0}
  <2>1. \A i \in Nat : i >= i
    OBVIOUS
  <2> QED
    BY <1>1, <1>3, <1>8, <1>9, <1>10, <2>1, Zenon
<1>12. TxHeld(tx, N, off, e, n)
  BY <1>1, <1>5, <1>8, <1>a, TxHeldSame, Zenon
<1>13. HdHeld(hd, N, e, n)
  BY <1>5, <1>9, <1>a, HdHeldSame, Zenon
<1>14. IdHeld(id, N, e, n)
  BY <1>5, <1>10, <1>a, IdHeldSame, Zenon
<1>15. /\ Truncated(j).tx = IF j > 0 THEN tx ELSE file.tx
       /\ Truncated(j).hd = IF j > 1 THEN hd ELSE file.hd
       /\ Truncated(j).id = IF j > 2 THEN id ELSE file.id
  BY <1>11
<1>16. Truncated(j) \in Files
  <2>1. /\ (IF j > 0 THEN tx ELSE file.tx) \in Seq(TxCell)
        /\ (IF j > 1 THEN hd ELSE file.hd) \in Seq(TxCell)
        /\ (IF j > 2 THEN id ELSE file.id) \in Seq(IdCell)
    BY <1>2, <1>8, <1>9, <1>10
  <2> QED
    BY <1>11, <2>1 DEF Files
<1>17. Holds(Truncated(j), N, off, e, n)
  <2>1. /\ TxHeld(Truncated(j).tx, N, off, e, n)
        /\ HdHeld(Truncated(j).hd, N, e, n)
        /\ IdHeld(Truncated(j).id, N, e, n)
    BY <1>5, <1>12, <1>13, <1>14, <1>15, Zenon
  <2> QED
    BY <2>1 DEF Holds
<1>18. j = 3 => Full(Truncated(j), off, e, n)
  BY <1>8, <1>9, <1>10, <1>15 DEF Full
<1> QED
  BY <1>16, <1>17, <1>18

-----------------------------------------------------------------------------
(* Steps.                                                                  *)

LEMMA GenesisLayout ==
    ASSUME NEW off, off = [i \in Nat |-> IF i = 0 THEN 0 ELSE 1]
    PROVE  Layout(FALSE, Genesis, off, 2) /\ off[0] = 0 /\ off[1] = 1
<1>1. Genesis \in Chain /\ Len(Genesis) = 0
  BY DEF Genesis, Chain
<1>2. off \in [Nat -> Nat] /\ off[0] = 0 /\ off[1] = 1
  OBVIOUS
<1>3. Periods(Genesis)
  BY <1>1 DEF Periods
<1>4. Edge(FALSE, Genesis, 2)
  BY <1>1 DEF Edge, ActiveAt
<1>5. Offsets(Genesis, off)
  <2>1. Ancestor(Genesis, 1) = Genesis
    BY <1>1, TopAncestor
  <2>2. TxSize(Genesis) = 1
    BY DEF TxSize
  <2>3. \A h \in 1..1 : off[h] = off[h - 1] + TxSize(Ancestor(Genesis, h))
    BY <1>2, <2>1, <2>2
  <2>4. \A i, j \in 0..1 : i <= j => off[i] <= off[j]
    <3>1. \A i \in 0..1 : i = 0 \/ i = 1
      OBVIOUS
    <3>2. 0 <= 0 /\ 0 <= 1 /\ 1 <= 1 /\ ~(1 <= 0)
      OBVIOUS
    <3> QED
      BY <1>2, <3>1, <3>2, Zenon
  <2> QED
    BY <1>1, <1>2, <2>3, <2>4 DEF Offsets
<1>6. 2 \in Nat \ {0} /\ ~(2 <= Len(Genesis) + 1)
  BY <1>1
<1> QED
  BY <1>1, <1>2, <1>3, <1>4, <1>5, <1>6, Zenon DEF Layout

LEMMA EmptyFilesType == EmptyFiles \in Files
  BY DEF EmptyFiles, Files

\* No block is held anywhere.
LEMMA NothingHeld ==
    ASSUME NEW F \in Files, NEW N, NEW off, off[0] = 0, NEW e \in Nat \ {0}
    PROVE  Holds(F, N, off, e, 0) /\ Metas(N, off, 1, 0) = {}
<1>1. F.tx \in Seq(TxCell) /\ F.hd \in Seq(TxCell) /\ F.id \in Seq(IdCell)
  BY DEF Files
<1>2. Len(F.tx) \in Nat /\ Len(F.hd) \in Nat /\ Len(F.id) \in Nat
  BY <1>1, LenType, Zenon
<1>3. IdAt(e, 0) = 0 /\ 1..0 = {}
  BY DEF IdAt
<1> QED
  BY <1>2, <1>3 DEF Holds, TxHeld, HdHeld, IdHeld, Metas

LEMMA InitInv == Init => BInv
<1> SUFFICES ASSUME Init PROVE BInv
  OBVIOUS
<1> DEFINE off == [i \in Nat |-> IF i = 0 THEN 0 ELSE 1]
<1>1. Layout(FALSE, Genesis, off, 2) /\ off[0] = 0
  BY GenesisLayout, Zenon
<1> HIDE DEF off
<1>2. /\ file = EmptyFiles /\ buf = EmptyFiles /\ rw = ClosedRW /\ blockInfo = {}
      /\ batch = NoChange /\ blocksNum = 0 /\ lastBlock = NoBlock /\ pc = "down"
      /\ db = [height |-> 0, min |-> 1, meta |-> {}, pb |-> NoProtobuf,
               preactivated |-> FALSE]
  BY DEF Init
<1>3. NoProtobuf \in Infos /\ NoChange \in [changed : BOOLEAN, pb : Infos]
      /\ ClosedRW \in [height : Nat, txLen : Nat, hdLen : Nat, pb : Infos]
  BY DEF NoProtobuf, Infos, NoChange, ClosedRW
<1>4. BTypeOK
  BY <1>2, <1>3, EmptyFilesType DEF BTypeOK, Places
<1>5. Holds(EmptyFiles, Genesis, off, 2, 0) /\ Metas(Genesis, off, 1, 0) = {}
  <2>1. 2 \in Nat \ {0}
    OBVIOUS
  <2> QED
    BY <1>1, <2>1, EmptyFilesType, NothingHeld
<1>6. db.height = 0 /\ db.meta = {} /\ db.pb = NoProtobuf /\ db.preactivated = FALSE
  BY <1>2
<1>7. TopHeight = 0
  BY <1>2, <1>6 DEF TopHeight
<1>8. Stored(Genesis, off, 2)
  BY <1>2, <1>5, <1>6 DEF Stored
<1>9. AtPlace(Genesis, off, 2)
  BY <1>2 DEF AtPlace, Idle, Counting, Working, Places
<1>10. Layout(db.preactivated, Genesis, off, 2) /\ ~(TopHeight > 0)
  <2>1. ~(0 > 0)
    OBVIOUS
  <2> QED
    BY <1>1, <1>6, <1>7, <2>1, Zenon
<1>11. StandsFor(Genesis, off, 2)
  BY <1>8, <1>9, <1>10 DEF StandsFor
<1> QED
  BY <1>4, <1>11 DEF BInv

LEMMA OpenStep == BInv /\ Open => BInv'
<1>1. SUFFICES ASSUME BTypeOK, NEW N, NEW off, NEW e, StandsFor(N, off, e), Open
               PROVE  BTypeOK' /\ StandsFor(N, off, e)'
  BY DEF BInv
<1>2. /\ pc = "down" /\ pc' = "opening" /\ file' = file /\ buf' = buf
      /\ blockInfo' = blockInfo /\ batch' = batch /\ blocksNum' = blocksNum
      /\ lastBlock' = lastBlock /\ db' = db
      /\ rw' = [height |-> db.height, txLen |-> Len(file.tx),
                hdLen |-> Len(file.hd), pb |-> db.pb]
  BY <1>1 DEF Open
<1>3. Len(file.tx) \in Nat /\ Len(file.hd) \in Nat
  <2>1. file.tx \in Seq(TxCell) /\ file.hd \in Seq(TxCell)
    BY <1>1 DEF BTypeOK, Files
  <2> QED
    BY <2>1, LenType, Zenon
<1>4. BTypeOK'
  BY <1>1, <1>2, <1>3 DEF BTypeOK, Places
<1>5. TopHeight' = TopHeight
  BY <1>2 DEF TopHeight
<1>6. Stored(N, off, e)'
  BY <1>1, <1>2 DEF StandsFor, Stored
<1>7. blocksNum = 0 /\ blockInfo = {} /\ buf = EmptyFiles /\ batch = NoChange
  BY <1>1, <1>2 DEF StandsFor, AtPlace, Idle, Counting, Places
<1>8. rw'.pb = db'.pb
  BY <1>2
<1>9. AtPlace(N, off, e)'
  BY <1>2, <1>7, <1>8 DEF AtPlace, Idle, Counting, Working, Places
<1>10. Layout(db.preactivated, N, off, e)' /\ (TopHeight > 0 => Len(N) + 1 = TopHeight)'
  BY <1>1, <1>2, <1>5 DEF StandsFor
<1> QED
  BY <1>4, <1>6, <1>9, <1>10 DEF StandsFor

\* What the database has survives, whatever the files lose above it.
LEMMA CrashStep == BInv /\ Crash => BInv'
<1>1. SUFFICES ASSUME BTypeOK, NEW N, NEW off, NEW e, StandsFor(N, off, e), Crash,
                      NEW n, n = db.height
               PROVE  BTypeOK' /\ StandsFor(Lower(N, n), off, e)'
  BY DEF BInv
<1>2. /\ buf' = EmptyFiles /\ rw' = ClosedRW /\ blockInfo' = {} /\ batch' = NoChange
      /\ blocksNum' = 0 /\ lastBlock' = NoBlock /\ pc' = "down" /\ db' = db
      /\ file' \in IF pc \in {"opening", "syncing"}
                   THEN {Truncated(i) : i \in 0..3} ELSE SomeWritten
  BY <1>1 DEF Crash
<1>3. /\ N \in Chain /\ off \in [Nat -> Nat] /\ e \in Nat \ {0}
      /\ n \in 0..Len(N) + 1 /\ n \in Nat /\ Offsets(N, off)
  BY <1>1, StandsForTypes
<1>4. Holds(file, N, off, e, n) /\ Layout(db.preactivated, N, off, e)
      /\ db.meta = Metas(N, off, 1, n)
  BY <1>1 DEF StandsFor, Stored
<1>5. file' \in Files /\ Holds(file', N, off, e, n)
  <2>1. CASE pc \in {"opening", "syncing"}
    <3>1. PICK j \in 0..3 : file' = Truncated(j)
      BY <1>2, <2>1
    <3>2. db.height > 0 =>
             Fits(rw.pb, off, e, db.height) \/ Pending(rw.pb, e, db.height)
      <4>1. ASSUME db.height > 0
            PROVE  Fits(rw.pb, off, e, db.height) \/ Pending(rw.pb, e, db.height)
        <5>1. CurrentInfo = rw.pb
          BY <2>1 DEF CurrentInfo
        <5> QED
          BY <1>1, <4>1, <5>1, CurrentFits
      <4> QED
        BY <4>1
    <3> QED
      BY <1>1, <3>1, <3>2, TruncatedFacts
  <2>2. CASE pc \notin {"opening", "syncing"}
    <3>1. file' \in SomeWritten
      BY <1>2, <2>2
    <3> QED
      BY <1>1, <1>3, <1>4, <3>1, SomeWrittenFacts
  <2> QED
    BY <2>1, <2>2
<1>6. /\ Layout(db.preactivated, Lower(N, n), off, e)
      /\ n > 0 => Len(Lower(N, n)) + 1 = n
      /\ Holds(file', Lower(N, n), off, e, n)
      /\ Metas(Lower(N, n), off, 1, n) = Metas(N, off, 1, n)
  BY <1>3, <1>4, <1>5, LowerFacts
<1>7. BTypeOK'
  <2>1. /\ NoChange \in [changed : BOOLEAN, pb : Infos]
        /\ ClosedRW \in [height : Nat, txLen : Nat, hdLen : Nat, pb : Infos]
    BY DEF NoProtobuf, Infos, NoChange, ClosedRW
  <2> QED
    BY <1>1, <1>2, <1>5, <2>1, EmptyFilesType DEF BTypeOK, Places
<1>8. TopHeight' = n
  BY <1>1, <1>2, <1>3 DEF TopHeight
<1>9. Stored(Lower(N, n), off, e)'
  <2>1. /\ db.height = 0 => db.pb = NoProtobuf /\ ~db.preactivated
        /\ db.height > 0 => Fits(db.pb, off, e, db.height) \/ Pending(db.pb, e, db.height)
    BY <1>1 DEF StandsFor, Stored
  <2> QED
    BY <1>1, <1>2, <1>4, <1>6, <2>1 DEF Stored
<1>10. AtPlace(Lower(N, n), off, e)'
  BY <1>2 DEF AtPlace, Idle, Counting, Working, Places
<1> QED
  BY <1>2, <1>6, <1>7, <1>8, <1>9, <1>10 DEF StandsFor

-----------------------------------------------------------------------------
(* A block is written.                                                     *)

LEMMA ConcatAssociative ==
    ASSUME NEW S, NEW s \in Seq(S), NEW t \in Seq(S), NEW u \in Seq(S)
    PROVE  s \o (t \o u) = (s \o t) \o u
<1> DEFINE a == s \o (t \o u)
           b == (s \o t) \o u
<1>1. a \in Seq(S) /\ b \in Seq(S) /\ Len(a) = Len(b)
  OBVIOUS
<1>2. \A i \in 1..Len(a) : a[i] = b[i]
  OBVIOUS
<1> HIDE DEF a, b
<1>3. a = b
  BY <1>1, <1>2, SameSequence
<1> QED
  BY <1>3 DEF a, b

LEMMA ConcatAppend ==
    ASSUME NEW S, NEW s \in Seq(S), NEW t \in Seq(S), NEW x \in S
    PROVE  s \o Append(t, x) = Append(s \o t, x)
<1> DEFINE a == s \o Append(t, x)
           b == Append(s \o t, x)
<1>1. a \in Seq(S) /\ b \in Seq(S) /\ Len(a) = Len(b)
  OBVIOUS
<1>2. \A i \in 1..Len(a) : a[i] = b[i]
  OBVIOUS
<1> HIDE DEF a, b
<1>3. a = b
  BY <1>1, <1>2, SameSequence
<1> QED
  BY <1>3 DEF a, b

LEMMA TailFacts ==
    ASSUME NEW S, NEW s \in Seq(S), NEW t \in Seq(S)
    PROVE  /\ Len(s \o t) = Len(s) + Len(t)
           /\ \A i \in 1..Len(t) : (s \o t)[Len(s) + i] = t[i]
           /\ \A i \in Len(s) + 1..Len(s) + Len(t) : (s \o t)[i] = t[i - Len(s)]
  OBVIOUS

LEMMA IdTailFacts ==
    \A a, b \in Seq(IdCell) :
        /\ Len(a \o b) = Len(a) + Len(b)
        /\ \A i \in 1..Len(b) : (a \o b)[Len(a) + i] = b[i]
  OBVIOUS

LEMMA OneMore ==
    ASSUME NEW k \in Nat
    PROVE  \A h \in 1..k + 1 : h = k + 1 \/ h \in 1..k
  OBVIOUS

LEMMA Shifted ==
    ASSUME NEW a \in Nat, NEW b \in Nat
    PROVE  \A i \in a + 1..a + b : i - a \in 1..b
  OBVIOUS

LEMMA ConstantCells ==
    ASSUME NEW S, NEW x \in S, NEW n \in Nat, NEW X, X = [i \in 1..n |-> x]
    PROVE  X \in Seq(S) /\ Len(X) = n /\ \A i \in 1..n : X[i] = x
  OBVIOUS

\* The three files with one block more.
TxAddable(M, off, e, k, s, X) ==
    /\ M \in Chain /\ off \in [Nat -> Nat] /\ e \in Nat \ {0} /\ k \in Nat
    /\ k = Len(M) /\ Offsets(M, off)
    /\ s \in Seq(TxCell) /\ TxHeld(s, M, off, e, k) /\ Len(s) = off[k]
    /\ X \in Seq(TxCell) /\ Len(X) = TxSize(M)
    /\ \A i \in 1..TxSize(M) : X[i] = Cell(M, e, k + 1)

LEMMA TxAdded ==
    ASSUME NEW M, NEW off, NEW e, NEW k, NEW s, NEW X, TxAddable(M, off, e, k, s, X)
    PROVE  /\ TxHeld(s \o X, M, off, e, k + 1)
           /\ Len(s \o X) = off[k + 1]
<1> SUFFICES ASSUME M \in Chain, off \in [Nat -> Nat], e \in Nat \ {0}, k \in Nat,
                    k = Len(M), Offsets(M, off),
                    s \in Seq(TxCell), TxHeld(s, M, off, e, k), Len(s) = off[k],
                    X \in Seq(TxCell), Len(X) = TxSize(M),
                    \A i \in 1..TxSize(M) : X[i] = Cell(M, e, k + 1)
             PROVE  /\ TxHeld(s \o X, M, off, e, k + 1)
                    /\ Len(s \o X) = off[k + 1]
  BY Zenon DEF TxAddable
<1>1. TxSize(M) \in Nat /\ off[k] \in Nat /\ off[k + 1] \in Nat
  BY SizeType
<1> DEFINE x == Cell(M, e, k + 1)
<1>2. X \in Seq(TxCell) /\ Len(X) = TxSize(M) /\ \A i \in 1..TxSize(M) : X[i] = x
  OBVIOUS
<1> HIDE DEF x
<1>3. off[k + 1] = off[k] + TxSize(M)
  <2>1. k + 1 \in 1..Len(M) + 1 /\ (k + 1) - 1 = k
    OBVIOUS
  <2>2. off[k + 1] = off[(k + 1) - 1] + TxSize(Ancestor(M, k + 1))
    BY <2>1 DEF Offsets
  <2>3. Ancestor(M, k + 1) = M
    BY TopAncestor
  <2> QED
    BY <2>1, <2>2, <2>3
<1>4. Len(s \o X) = off[k + 1]
  <2>1. \A a, b \in Seq(TxCell) : Len(a \o b) = Len(a) + Len(b)
    OBVIOUS
  <2> QED
    BY <1>2, <1>3, <2>1, Zenon
<1>5. \A i \in 1..off[k] : (s \o X)[i] = s[i]
  BY <1>1, <1>2
<1>6. \A i \in off[k] + 1..off[k + 1] : (s \o X)[i] = x
  <2>1. \A i \in off[k] + 1..off[k] + TxSize(M) : (s \o X)[i] = X[i - off[k]]
    <3>1. \A a, b \in Seq(TxCell) :
             \A i \in Len(a) + 1..Len(a) + Len(b) : (a \o b)[i] = b[i - Len(a)]
      BY TailFacts, Zenon
    <3>2. \A i \in Len(s) + 1..Len(s) + Len(X) : (s \o X)[i] = X[i - Len(s)]
      BY <1>2, <3>1, Zenon
    <3>3. Len(X) = TxSize(M)
      BY <1>2, Zenon
    <3> QED
      BY <3>2, <3>3, Zenon
  <2>2. \A i \in off[k] + 1..off[k] + TxSize(M) : i - off[k] \in 1..TxSize(M)
    BY <1>1, Shifted, Zenon
  <2> QED
    BY <1>2, <1>3, <2>1, <2>2
<1>7. TxHeld(s \o X, M, off, e, k)
  <2>1. Len(s \o X) >= off[k]
    BY <1>1, <1>3, <1>4
  <2>2. k \in 0..Len(M) + 1
    OBVIOUS
  <2> DEFINE t == s \o X
  <2>3. Len(t) >= off[k] /\ \A i \in 1..off[k] : t[i] = s[i]
    BY <1>5, <2>1
  <2> HIDE DEF t
  <2>4. TxHeld(t, M, off, e, k)
    BY <2>2, <2>3, TxHeldSame
  <2> QED
    BY <2>4 DEF t
<1>a. \A h \in 1..k + 1 : h = k + 1 \/ h \in 1..k
  BY OneMore
<1>8. ASSUME NEW h \in 1..k + 1, NEW i \in off[h - 1] + 1..off[h]
      PROVE  (s \o X)[i] = Cell(M, e, h)
  <2>1. CASE h = k + 1
    <3>1. h - 1 = k
      BY <2>1
    <3> QED
      BY <1>6, <2>1, <3>1 DEF x
  <2>2. CASE h # k + 1
    <3>1. h \in 1..k
      BY <1>a, <2>2
    <3> QED
      BY <1>7, <3>1 DEF TxHeld
  <2> QED
    BY <2>1, <2>2
<1>9. Len(s \o X) >= off[k + 1]
  BY <1>1, <1>4
<1> QED
  BY <1>4, <1>8, <1>9 DEF TxHeld

LEMMA HdAdded ==
    ASSUME NEW M \in Chain, NEW e \in Nat \ {0}, NEW k \in Nat,
           NEW s \in Seq(TxCell), HdHeld(s, M, e, k), Len(s) = k,
           NEW x \in TxCell, x = Cell(M, e, k + 1)
    PROVE  /\ HdHeld(Append(s, x), M, e, k + 1)
           /\ Len(Append(s, x)) = k + 1
<1>1. Len(Append(s, x)) = k + 1 /\ Append(s, x)[k + 1] = x
      /\ \A i \in 1..k : Append(s, x)[i] = s[i]
  OBVIOUS
<1>2. ASSUME NEW h \in 1..k + 1 PROVE Append(s, x)[h] = Cell(M, e, h)
  <2>1. CASE h = k + 1
    BY <1>1, <2>1
  <2>2. CASE h # k + 1
    <3>1. h \in 1..k
      BY <2>2
    <3> QED
      BY <1>1, <3>1 DEF HdHeld
  <2> QED
    BY <2>1, <2>2
<1>3. Len(Append(s, x)) >= k + 1
  BY <1>1
<1> QED
  BY <1>1, <1>2, <1>3 DEF HdHeld

IdAddable(M, e, k, s, X) ==
    /\ M \in Chain /\ e \in Nat \ {0} /\ k \in Nat /\ k = Len(M)
    /\ s \in Seq(IdCell) /\ IdHeld(s, M, e, k) /\ Len(s) = IdAt(e, k)
    /\ X \in Seq(IdCell)
    /\ k + 1 > e => X = <<IdPart(M, k + 1, "digest")>>
    /\ k + 1 <= e => X = <<IdPart(M, k + 1, "low"), IdPart(M, k + 1, "high")>>

LEMMA IdAdded ==
    ASSUME NEW M, NEW e, NEW k, NEW s, NEW X, IdAddable(M, e, k, s, X)
    PROVE  /\ IdHeld(s \o X, M, e, k + 1)
           /\ Len(s \o X) = IdAt(e, k + 1)
<1> SUFFICES ASSUME M \in Chain, e \in Nat \ {0}, k \in Nat, k = Len(M),
                    s \in Seq(IdCell), IdHeld(s, M, e, k), Len(s) = IdAt(e, k),
                    X \in Seq(IdCell),
                    k + 1 > e => X = <<IdPart(M, k + 1, "digest")>>,
                    k + 1 <= e => X = <<IdPart(M, k + 1, "low"),
                                        IdPart(M, k + 1, "high")>>
             PROVE  /\ IdHeld(s \o X, M, e, k + 1)
                    /\ Len(s \o X) = IdAt(e, k + 1)
  BY Zenon DEF IdAddable
<1>1. /\ IdAt(e, k) \in Nat
      /\ k + 1 > e => IdAt(e, k) = e + k /\ IdAt(e, k + 1) = e + (k + 1)
      /\ k + 1 <= e => IdAt(e, k) = 2 * k /\ IdAt(e, k + 1) = 2 * (k + 1)
  BY DEF IdAt
<1>2. \A i \in 1..IdAt(e, k) : (s \o X)[i] = s[i]
  BY <1>1
<1>3. CASE k + 1 > e
  <2>1. Len(X) = 1 /\ X[1] = IdPart(M, k + 1, "digest")
    BY <1>3
  <2>2. Len(s \o X) = IdAt(e, k + 1) /\ (s \o X)[e + (k + 1)] = X[1]
    <3>1. /\ Len(s \o X) = Len(s) + Len(X)
          /\ \A i \in 1..Len(X) : (s \o X)[Len(s) + i] = X[i]
      BY IdTailFacts, Zenon
    <3>2. 1 \in 1..Len(X) /\ Len(s) + 1 = e + (k + 1) /\ Len(s) + Len(X) = IdAt(e, k + 1)
      BY <1>1, <1>3, <2>1
    <3> QED
      BY <3>1, <3>2
  <2> QED
    <3> DEFINE t == s \o X
    <3>1. /\ Len(t) = IdAt(e, k + 1) /\ t[e + (k + 1)] = IdPart(M, k + 1, "digest")
          /\ \A i \in 1..IdAt(e, k) : t[i] = s[i]
      BY <1>2, <2>1, <2>2
    <3> HIDE DEF t
    <3>2. Len(t) >= IdAt(e, k) /\ Len(t) >= IdAt(e, k + 1)
      BY <1>1, <1>3, <3>1
    <3>3. IdHeld(t, M, e, k)
      BY <3>1, <3>2, IdHeldSame
    <3>4. \A h \in 1..k + 1 : h \in 1..k \/ h = k + 1
      OBVIOUS
    <3>5. ~(k + 1 <= e)
      BY <1>3
    <3>6. IdHeld(t, M, e, k + 1)
      BY <3>1, <3>2, <3>3, <3>4, <3>5, Zenon DEF IdHeld
    <3> QED
      BY <3>1, <3>6 DEF t
<1>4. CASE k + 1 <= e
  <2>1. /\ Len(X) = 2 /\ X[1] = IdPart(M, k + 1, "low")
        /\ X[2] = IdPart(M, k + 1, "high")
    BY <1>4
  <2>2. /\ Len(s \o X) = IdAt(e, k + 1)
        /\ (s \o X)[2 * (k + 1) - 1] = X[1] /\ (s \o X)[2 * (k + 1)] = X[2]
    <3>1. /\ Len(s \o X) = Len(s) + Len(X)
          /\ \A i \in 1..Len(X) : (s \o X)[Len(s) + i] = X[i]
      BY IdTailFacts, Zenon
    <3>2. /\ 1 \in 1..Len(X) /\ Len(s) + 1 = 2 * (k + 1) - 1
          /\ 2 \in 1..Len(X) /\ Len(s) + 2 = 2 * (k + 1)
          /\ Len(s) + Len(X) = IdAt(e, k + 1)
      BY <1>1, <1>4, <2>1
    <3>3. (s \o X)[Len(s) + 1] = X[1] /\ (s \o X)[Len(s) + 2] = X[2]
      BY <3>1, <3>2
    <3> QED
      BY <3>1, <3>2, <3>3
  <2> QED
    <3> DEFINE t == s \o X
    <3>1. /\ Len(t) = IdAt(e, k + 1)
          /\ t[2 * (k + 1) - 1] = IdPart(M, k + 1, "low")
          /\ t[2 * (k + 1)] = IdPart(M, k + 1, "high")
          /\ \A i \in 1..IdAt(e, k) : t[i] = s[i]
      BY <1>2, <2>1, <2>2
    <3> HIDE DEF t
    <3>2. Len(t) >= IdAt(e, k) /\ Len(t) >= IdAt(e, k + 1)
      BY <1>1, <1>4, <3>1
    <3>3. IdHeld(t, M, e, k)
      BY <3>1, <3>2, IdHeldSame
    <3>4. \A h \in 1..k + 1 : h \in 1..k \/ h = k + 1
      OBVIOUS
    <3>5. ~(k + 1 > e)
      BY <1>4
    <3>6. IdHeld(t, M, e, k + 1)
      BY <3>1, <3>2, <3>3, <3>4, <3>5, Zenon DEF IdHeld
    <3> QED
      BY <3>1, <3>6 DEF t
<1> QED
  BY <1>3, <1>4

LEMMA AssocTx == \A a, b, c \in Seq(TxCell) : a \o (b \o c) = (a \o b) \o c
<1> TAKE a, b, c \in Seq(TxCell)
<1> QED
  BY ConcatAssociative
LEMMA AssocId == \A a, b, c \in Seq(IdCell) : a \o (b \o c) = (a \o b) \o c
<1> TAKE a, b, c \in Seq(IdCell)
<1> QED
  BY ConcatAssociative
LEMMA AppendTx ==
    \A a, b \in Seq(TxCell), x \in TxCell :
        a \o Append(b, x) = Append(a \o b, x)
<1> TAKE a, b \in Seq(TxCell), x \in TxCell
<1> QED
  BY ConcatAppend

FileThen(B) == [tx |-> file.tx \o B.tx, hd |-> file.hd \o B.hd,
                id |-> file.id \o B.id]

\* The files and the memory are at height k, the last one before block M.
ReadyFor(M, off, e, k) ==
    /\ M \in Chain /\ off \in [Nat -> Nat] /\ e \in Nat \ {0} /\ k \in Nat
    /\ k = Len(M) /\ Offsets(M, off) /\ Edge(db.preactivated, M, e)
    /\ rw.height = k /\ rw.txLen = off[k] /\ rw.hdLen = k
    /\ Holds(Whole, M, off, e, k) /\ Full(Whole, off, e, k)
    /\ rw.pb.on <=> k + 1 > e

\* startBlock ... finishBlock put block M after the blocks below it.
LEMMA BlockWritten ==
    ASSUME BTypeOK, NEW M, NEW off, NEW e, NEW k, ReadyFor(M, off, e, k)
    PROVE  /\ WrittenBuf(M) \in Files
           /\ Holds(FileThen(WrittenBuf(M)), M, off, e, k + 1)
           /\ Full(FileThen(WrittenBuf(M)), off, e, k + 1)
           /\ WrittenRW(M) = [height |-> k + 1, txLen |-> off[k + 1],
                              hdLen |-> k + 1, pb |-> rw.pb]
           /\ MetaFor(M) = Meta(M, off, k + 1)
<1>0. M \in Chain /\ off \in [Nat -> Nat] /\ e \in Nat \ {0} /\ k \in Nat
  BY DEF ReadyFor
<1>a. k = Len(M) /\ Offsets(M, off)
  BY DEF ReadyFor
<1>b. Edge(db.preactivated, M, e)
  BY DEF ReadyFor
<1>c. rw.height = k /\ rw.txLen = off[k] /\ rw.hdLen = k
  BY DEF ReadyFor
<1>1. /\ file.tx \in Seq(TxCell) /\ file.hd \in Seq(TxCell) /\ file.id \in Seq(IdCell)
      /\ buf.tx \in Seq(TxCell) /\ buf.hd \in Seq(TxCell) /\ buf.id \in Seq(IdCell)
  BY DEF BTypeOK, Files
<1>2. /\ Whole.tx = file.tx \o buf.tx /\ Whole.hd = file.hd \o buf.hd
      /\ Whole.id = file.id \o buf.id
  BY DEF Whole
<1>3. Whole.tx \in Seq(TxCell) /\ Whole.hd \in Seq(TxCell) /\ Whole.id \in Seq(IdCell)
  BY AllWrittenIs DEF Files
<1>4. rw.pb.on \in BOOLEAN
  BY DEF BTypeOK, Infos
<1>5. k + 1 \in 1..Len(M) + 1 /\ Ancestor(M, k + 1) = M
  <2>1. Ancestor(M, k + 1) = M
    BY <1>0, <1>a, TopAncestor
  <2>2. \A i \in Nat : i + 1 \in 1..i + 1
    OBVIOUS
  <2> QED
    BY <1>0, <1>a, <2>1, <2>2, Zenon
<1> DEFINE B == WrittenBuf(M)
           W == FileThen(B)
           x == [block |-> M, pb |-> rw.pb.on]
           X == [i \in 1..TxSize(M) |-> x]
           I == IdCells(M)
<1>6. x \in TxCell
  BY <1>0, <1>4 DEF TxCell
<1>7. x = Cell(M, e, k + 1)
  <2> DEFINE f == rw.pb.on
  <2>1. f \in BOOLEAN /\ (f <=> k + 1 > e)
    BY <1>4 DEF ReadyFor
  <2> HIDE DEF f
  <2>2. Cell(M, e, k + 1) = [block |-> M, pb |-> f]
    BY <1>5, <2>1, CellFormat
  <2> QED
    BY <2>2 DEF f
<1>8. /\ k + 1 > e => I = <<IdPart(M, k + 1, "digest")>>
      /\ k + 1 <= e => I = <<IdPart(M, k + 1, "low"), IdPart(M, k + 1, "high")>>
  <2>1. /\ k + 1 > e => IdCells(Ancestor(M, k + 1)) = <<IdPart(M, k + 1, "digest")>>
        /\ k + 1 <= e => IdCells(Ancestor(M, k + 1))
                          = <<IdPart(M, k + 1, "low"), IdPart(M, k + 1, "high")>>
    BY <1>0, <1>b, <1>5, IdOfCells
  <2> QED
    BY <1>5, <2>1, Zenon
<1>9. I \in Seq(IdCell)
  <2>1. \A p \in {"digest", "low", "high"} : IdPart(M, k + 1, p) \in IdCell
    BY <1>0, <1>5 DEF IdPart, IdCell
  <2>2. \A a, b \in IdCell : <<a>> \in Seq(IdCell) /\ <<a, b>> \in Seq(IdCell)
    OBVIOUS
  <2>3. k + 1 > e \/ k + 1 <= e
    BY <1>0
  <2> QED
    BY <1>8, <2>1, <2>2, <2>3, Zenon
<1>10. B = [tx |-> buf.tx \o X, hd |-> Append(buf.hd, x), id |-> buf.id \o I]
  BY Zenon DEF WrittenBuf
<1>11. B.tx = buf.tx \o X /\ B.hd = Append(buf.hd, x) /\ B.id = buf.id \o I
  <2> HIDE DEF B, x, X, I
  <2> QED
    BY <1>10
<1>12. /\ TxHeld(Whole.tx, M, off, e, k) /\ Len(Whole.tx) = off[k]
       /\ HdHeld(Whole.hd, M, e, k) /\ Len(Whole.hd) = k
       /\ IdHeld(Whole.id, M, e, k) /\ Len(Whole.id) = IdAt(e, k)
  BY DEF ReadyFor, Holds, Full
<1>13. X \in Seq(TxCell) /\ Len(X) = TxSize(M) /\ \A i \in 1..TxSize(M) : X[i] = x
  <2>1. X = [i \in 1..TxSize(M) |-> x] /\ TxSize(M) \in Nat
    BY <1>0, SizeType
  <2> HIDE DEF x, X
  <2> QED
    BY <1>6, <2>1, ConstantCells
<1> HIDE DEF x, X, I, B
<1> DEFINE s == Whole.tx
           t == Whole.hd
           u == Whole.id
<1> HIDE DEF s, t, u
<1>14. /\ TxHeld(s \o X, M, off, e, k + 1)
       /\ Len(s \o X) = off[k + 1]
  <2>1. s \in Seq(TxCell) /\ TxHeld(s, M, off, e, k) /\ Len(s) = off[k]
    BY <1>3, <1>12 DEF s
  <2>2. \A i \in 1..TxSize(M) : X[i] = Cell(M, e, k + 1)
    BY <1>7, <1>13, Zenon
  <2>3. TxAddable(M, off, e, k, s, X)
    BY <1>0, <1>a, <1>13, <2>1, <2>2, Zenon DEF TxAddable
  <2> QED
    BY <2>3, TxAdded
<1>15. /\ HdHeld(Append(t, x), M, e, k + 1)
       /\ Len(Append(t, x)) = k + 1
  <2>1. t \in Seq(TxCell) /\ HdHeld(t, M, e, k) /\ Len(t) = k
    BY <1>3, <1>12 DEF t
  <2> QED
    BY <1>0, <1>6, <1>7, <2>1, HdAdded
<1>25. /\ IdHeld(u \o I, M, e, k + 1)
       /\ Len(u \o I) = IdAt(e, k + 1)
  <2>1. u \in Seq(IdCell) /\ IdHeld(u, M, e, k) /\ Len(u) = IdAt(e, k)
    BY <1>3, <1>12 DEF u
  <2>2. IdAddable(M, e, k, u, I)
    BY <1>0, <1>a, <1>8, <1>9, <2>1, Zenon DEF IdAddable
  <2> QED
    BY <2>2, IdAdded
<1>16. /\ file.tx \o B.tx = s \o X
       /\ file.hd \o B.hd = Append(t, x)
       /\ file.id \o B.id = u \o I
  <2>1. file.tx \o (buf.tx \o X) = (file.tx \o buf.tx) \o X
    BY <1>1, <1>13, AssocTx, Zenon
  <2>2. file.hd \o Append(buf.hd, x) = Append(file.hd \o buf.hd, x)
    BY <1>1, <1>6, AppendTx, Zenon
  <2>3. file.id \o (buf.id \o I) = (file.id \o buf.id) \o I
    BY <1>1, <1>9, AssocId, Zenon
  <2> QED
    BY <1>2, <1>11, <2>1, <2>2, <2>3, Zenon DEF s, t, u
<1>17. W.tx = s \o X /\ W.hd = Append(t, x) /\ W.id = u \o I
  <2>1. W.tx = file.tx \o B.tx /\ W.hd = file.hd \o B.hd /\ W.id = file.id \o B.id
    BY DEF FileThen
  <2> QED
    BY <1>16, <2>1, Zenon
<1> HIDE DEF W
<1>18. Holds(W, M, off, e, k + 1)
  BY <1>14, <1>15, <1>25, <1>17, Zenon DEF Holds
<1>19. Full(W, off, e, k + 1)
  BY <1>14, <1>15, <1>25, <1>17, Zenon DEF Full
<1>20. B \in Files
  <2>1. buf.tx \o X \in Seq(TxCell) /\ Append(buf.hd, x) \in Seq(TxCell)
    BY <1>1, <1>6, <1>13
  <2>2. buf.id \o I \in Seq(IdCell)
    BY <1>1, <1>9
  <2> QED
    BY <1>10, <2>1, <2>2 DEF Files
<1>21. off[k + 1] = off[k] + TxSize(M)
  <2>1. off[k + 1] = off[(k + 1) - 1] + TxSize(Ancestor(M, k + 1))
    BY <1>a, <1>5 DEF Offsets
  <2>2. (k + 1) - 1 = k
    BY <1>0
  <2> QED
    BY <1>5, <2>1, <2>2, Zenon
<1>22. WrittenRW(M) = [height |-> k + 1, txLen |-> off[k + 1],
                       hdLen |-> k + 1, pb |-> rw.pb]
  <2>1. rw \in [height : Nat, txLen : Nat, hdLen : Nat, pb : Infos]
    BY DEF BTypeOK
  <2>2. rw.height + 1 = k + 1 /\ rw.txLen + TxSize(M) = off[k + 1] /\ rw.hdLen + 1 = k + 1
    BY <1>21, <1>c
  <2>3. WrittenRW(M) = [height |-> rw.height + 1, txLen |-> rw.txLen + TxSize(M),
                        hdLen |-> rw.hdLen + 1, pb |-> rw.pb]
    BY <2>1 DEF WrittenRW
  <2> QED
    BY <2>2, <2>3, Zenon
<1>23. MetaFor(M) = Meta(M, off, k + 1)
  <2>1. (k + 1) - 1 = k
    BY <1>0
  <2> QED
    BY <1>5, <1>c, <1>21, <2>1 DEF MetaFor, Meta
<1> QED
  BY <1>18, <1>19, <1>20, <1>22, <1>23 DEF B, W

LEMMA GenesisReady ==
    ASSUME BTypeOK, NEW N, NEW off, NEW e, StandsFor(N, off, e), pc = "genesis",
           NEW off2, Layout(FALSE, Genesis, off2, 2), off2[0] = 0
    PROVE  /\ ReadyFor(Genesis, off2, 2, 0)
           /\ db.height = 0 /\ db.meta = {} /\ db.pb = NoProtobuf /\ ~db.preactivated
           /\ rw.pb = NoProtobuf /\ blocksNum = 0
           /\ rw.pb = IF batch.changed THEN batch.pb ELSE db.pb
<1>1. Idle /\ Counting
  BY DEF Idle, Counting, Places
<1>2. blocksNum = 0 /\ db.height = 0 /\ rw.pb = NoProtobuf /\ Counted(N, off, e)
  BY <1>1 DEF StandsFor, AtPlace
<1>3. TopHeight = 0
  BY <1>2 DEF TopHeight
<1>4. db.pb = NoProtobuf /\ ~db.preactivated /\ db.meta = Metas(N, off, 1, 0)
  BY <1>2 DEF StandsFor, Stored
<1>5. e \in Nat \ {0} /\ off[0] = 0 /\ 2 \in Nat \ {0}
  BY StandsForTypes DEF Offsets
<1>6. Whole \in Files
  BY AllWrittenIs
<1>7. db.meta = {} /\ Holds(Whole, Genesis, off2, 2, 0)
  <2>1. Metas(N, off, 1, 0) = {}
    BY <1>5, <1>6, NothingHeld
  <2>2. Holds(Whole, Genesis, off2, 2, 0)
    BY <1>5, <1>6, NothingHeld
  <2> QED
    BY <1>4, <2>1, <2>2
<1>8. /\ rw.height = 0 /\ rw.txLen = off[0] /\ rw.hdLen = 0
      /\ Full(Whole, off, e, 0)
      /\ rw.pb = IF batch.changed THEN batch.pb ELSE db.pb
  BY <1>2, <1>3 DEF Counted
<1>9. Full(Whole, off2, 2, 0)
  <2>1. IdAt(e, 0) = 0 /\ IdAt(2, 0) = 0
    BY <1>5 DEF IdAt
  <2> QED
    BY <1>5, <1>8, <2>1 DEF Full
<1>10. ~rw.pb.on /\ ~(0 + 1 > 2)
  BY <1>2 DEF NoProtobuf
<1>11. /\ Genesis \in Chain /\ off2 \in [Nat -> Nat] /\ Offsets(Genesis, off2)
       /\ Edge(FALSE, Genesis, 2)
  BY DEF Layout
<1>12. 0 = Len(Genesis) /\ 0 \in Nat
  BY DEF Genesis
<1>13. Edge(db.preactivated, Genesis, 2)
  <2>1. db.preactivated = FALSE
    BY <1>4 DEF BTypeOK
  <2> QED
    BY <1>11, <2>1
<1>14. rw.txLen = off2[0]
  BY <1>5, <1>8
<1>15. ReadyFor(Genesis, off2, 2, 0)
  BY <1>5, <1>7, <1>8, <1>9, <1>10, <1>11, <1>12, <1>13, <1>14, Zenon DEF ReadyFor
<1> QED
  BY <1>2, <1>4, <1>7, <1>8, <1>15

\* The files with their buffers, when only the buffers are changed.
LEMMA WholeThen ==
    ASSUME NEW B, file' = file, buf' = B
    PROVE  Whole' = FileThen(B)
  BY DEF Whole, FileThen

LEMMA WriteGenesisStep == BInv /\ WriteGenesis => BInv'
<1> DEFINE o2 == [i \in Nat |-> IF i = 0 THEN 0 ELSE 1]
<1>0. Layout(FALSE, Genesis, o2, 2) /\ o2[0] = 0
  BY GenesisLayout, Zenon
<1> HIDE DEF o2
<1>1. SUFFICES ASSUME BTypeOK, NEW N, NEW off, NEW e, StandsFor(N, off, e), WriteGenesis,
                      NEW off2, off2 = o2
               PROVE  BTypeOK' /\ StandsFor(Genesis, off2, 2)'
  BY DEF BInv
<1>2. /\ pc = "genesis" /\ pc' = "writing genesis" /\ file' = file
      /\ buf' = WrittenBuf(Genesis) /\ rw' = WrittenRW(Genesis)
      /\ blockInfo' = {MetaFor(Genesis)} /\ batch' = batch /\ blocksNum' = 1
      /\ lastBlock' = Genesis /\ db' = db
  BY <1>1 DEF WriteGenesis
<1>20. pc = "genesis" /\ pc' = "writing genesis" /\ blocksNum' = 1 /\ db' = db
  BY <1>2
<1>21. file' = file /\ batch' = batch /\ lastBlock' = Genesis
  BY <1>2
<1>22. buf' = WrittenBuf(Genesis) /\ rw' = WrittenRW(Genesis)
  BY <1>2
<1>3. Layout(FALSE, Genesis, off2, 2) /\ off2[0] = 0
  BY <1>0, <1>1
<1>4. /\ ReadyFor(Genesis, off2, 2, 0)
      /\ db.height = 0 /\ db.meta = {} /\ db.pb = NoProtobuf /\ ~db.preactivated
      /\ rw.pb = NoProtobuf
      /\ rw.pb = IF batch.changed THEN batch.pb ELSE db.pb
  BY <1>1, <1>2, <1>3, GenesisReady
<1>23. db'.height = 0 /\ db'.meta = {} /\ db'.pb = NoProtobuf
  BY <1>4, <1>20, Zenon
<1>27. db'.preactivated = FALSE /\ ~db'.preactivated
  BY <1>1, <1>4, <1>20 DEF BTypeOK
<1>28. db'.height = 0
  BY <1>23
<1>24. /\ rw.pb = NoProtobuf
       /\ rw.pb = IF batch.changed THEN batch.pb ELSE db.pb
  BY <1>4
<1>5. /\ WrittenBuf(Genesis) \in Files
      /\ Holds(FileThen(WrittenBuf(Genesis)), Genesis, off2, 2, 1)
      /\ Full(FileThen(WrittenBuf(Genesis)), off2, 2, 1)
      /\ WrittenRW(Genesis) = [height |-> 1, txLen |-> off2[1], hdLen |-> 1,
                               pb |-> rw.pb]
      /\ MetaFor(Genesis) = Meta(Genesis, off2, 1)
  <2>1. 0 + 1 = 1
    OBVIOUS
  <2> QED
    BY <1>1, <1>4, <2>1, BlockWritten
<1>6. Whole' = FileThen(WrittenBuf(Genesis))
  BY <1>2, WholeThen
<1>7. TopHeight' = 1
  <2>1. blocksNum' = 1
    BY <1>20
  <2> QED
    BY <2>1, <1>28 DEF TopHeight
<1>8. Metas(Genesis, off2, 1, 1) = {Meta(Genesis, off2, 1)} /\ Metas(Genesis, off2, 1, 0) = {}
  <2>1. 1..1 = {1} /\ 1..0 = {}
    OBVIOUS
  <2> QED
    BY <2>1 DEF Metas
<1>25. rw' = [height |-> 1, txLen |-> off2[1], hdLen |-> 1, pb |-> rw.pb]
  BY <1>22, <1>5
<1>26. /\ rw'.height = 1 /\ rw'.txLen = off2[1] /\ rw'.hdLen = 1 /\ rw'.pb = rw.pb
  BY <1>25
<1>9. BTypeOK'
  <2>1. Genesis \in Chain /\ off2 \in [Nat -> Nat]
    BY <1>3 DEF Layout
  <2>2. off2[1] \in Nat
    BY <2>1
  <2> QED
    <3>1. /\ file' \in Files /\ buf' \in Files /\ lastBlock' \in Chain \cup {NoBlock}
          /\ batch' \in [changed : BOOLEAN, pb : Infos]
      BY <1>1, <1>21, <1>22, <1>5, <2>1 DEF BTypeOK
    <3>2. rw.pb \in Infos
      BY <1>1 DEF BTypeOK
    <3>3. rw' \in [height : Nat, txLen : Nat, hdLen : Nat, pb : Infos]
      BY <1>25, <2>2, <3>2
    <3> QED
      BY <1>1, <1>20, <3>1, <3>3 DEF BTypeOK, Places
<1>10. Stored(Genesis, off2, 2)'
  <2>1. Holds(file, Genesis, off2, 2, 0)
    <3>1. 2 \in Nat \ {0} /\ file \in Files
      BY <1>1 DEF BTypeOK
    <3> QED
      BY <1>3, <3>1, NothingHeld
  <2>2. ~(0 > 0)
    OBVIOUS
  <2> QED
    BY <1>20, <1>21, <1>23, <1>27, <1>8, <2>1, <2>2, Zenon DEF Stored
<1>11. Counted(Genesis, off2, 2)'
  <2>2. rw'.pb = IF batch'.changed THEN batch'.pb ELSE db'.pb
    BY <1>20, <1>21, <1>24, <1>26, Zenon
  <2>3. blockInfo' = Metas(Genesis, off2, 1, 1) /\ db'.height + 1 = 1
    <3>1. blockInfo' = {MetaFor(Genesis)}
      BY <1>2
    <3> QED
      BY <1>28, <1>5, <1>8, <3>1
  <2>4. Holds(Whole', Genesis, off2, 2, 1) /\ Full(Whole', off2, 2, 1)
    BY <1>5, <1>6
  <2> QED
    BY <1>7, <1>26, <2>2, <2>3, <2>4, Zenon DEF Counted
<1>12. AtPlace(Genesis, off2, 2)'
  <2>1. rw'.pb = NoProtobuf /\ db'.height = 0
    BY <1>28, <1>24, <1>26
  <2> QED
    BY <1>20, <1>11, <2>1 DEF AtPlace, Idle, Counting, Working, Places
<1>13. Layout(db.preactivated, Genesis, off2, 2)'
  BY <1>3, <1>27, Zenon
<1>14. (TopHeight > 0 => Len(Genesis) + 1 = TopHeight)'
  BY <1>7 DEF Genesis
<1> QED
  BY <1>9, <1>10, <1>12, <1>13, <1>14 DEF StandsFor

LEMMA WholeIsFileNext == BTypeOK' /\ (buf = EmptyFiles)' => (Whole = file)'
<1>1. BTypeOK /\ (buf = EmptyFiles) => (Whole = file)
  BY WholeIsFile
<1> QED
  BY <1>1, PTL

LEMMA NewMinType ==
    ASSUME NEW m \in Nat \ {0}, NEW h \in Nat, NEW r, m = db.min, r = NewRollbackMinHeight(h)
    PROVE  r \in Nat \ {0}
  BY BlockStorageAssumption DEF NewRollbackMinHeight

LEMMA FlushedFacts ==
    ASSUME BTypeOK, blockInfo \subseteq MetaRecs
    PROVE  /\ Flushed \in [height : Nat, min : Nat \ {0}, meta : SUBSET MetaRecs,
                           pb : Infos, preactivated : BOOLEAN]
           /\ Flushed.height = TopHeight
           /\ Flushed.meta = db.meta \cup blockInfo
           /\ Flushed.pb = IF batch.changed THEN batch.pb ELSE db.pb
           /\ Flushed.preactivated = db.preactivated
<1>1. /\ db.height \in Nat /\ db.min \in Nat \ {0} /\ db.meta \in SUBSET MetaRecs
      /\ db.pb \in Infos /\ db.preactivated \in BOOLEAN /\ blocksNum \in Nat
      /\ batch.pb \in Infos /\ batch.changed \in BOOLEAN
  BY DEF BTypeOK
<1> DEFINE r == NewRollbackMinHeight(db.height + blocksNum)
           q == IF batch.changed THEN batch.pb ELSE db.pb
<1>2. TopHeight \in Nat /\ r \in Nat \ {0} /\ q \in Infos
  BY <1>1, NewMinType DEF TopHeight
<1>3. Flushed = [height |-> TopHeight, min |-> r, meta |-> db.meta \cup blockInfo,
                 pb |-> q, preactivated |-> db.preactivated]
  BY Zenon DEF Flushed, TopHeight
<1> HIDE DEF r, q
<1>4. /\ Flushed.height = TopHeight
      /\ Flushed.meta = db.meta \cup blockInfo
      /\ Flushed.pb = q
      /\ Flushed.preactivated = db.preactivated
  BY <1>3
<1>5. Flushed \in [height : Nat, min : Nat \ {0}, meta : SUBSET MetaRecs,
                   pb : Infos, preactivated : BOOLEAN]
  BY <1>1, <1>2, <1>3
<1> QED
  BY <1>4, <1>5 DEF q

LEMMA FlushGenesisStep == BInv /\ FlushGenesis => BInv'
<1>1. SUFFICES ASSUME BTypeOK, NEW N, NEW off, NEW e, StandsFor(N, off, e), FlushGenesis
               PROVE  BTypeOK' /\ StandsFor(N, off, e)'
  BY DEF BInv
<1>2. /\ file' = AllWritten /\ buf' = EmptyFiles
      /\ blockInfo' = {} /\ batch' = NoChange /\ blocksNum' = 0
      /\ pc' = "preactivating" /\ rw' = rw /\ lastBlock' = lastBlock
  BY <1>1 DEF FlushGenesis
<1>3. pc = "writing genesis" /\ db' = Flushed
  BY <1>1 DEF FlushGenesis
<1>4. Counting /\ Counted(N, off, e) /\ db.height = 0 /\ blocksNum = 1 /\ rw.pb = NoProtobuf
  BY <1>1, <1>3 DEF StandsFor, AtPlace, Counting, Places
<1>5. TopHeight = 1
  BY <1>4 DEF TopHeight
<1>6. /\ db.meta = Metas(N, off, 1, 0) /\ ~db.preactivated
      /\ Layout(db.preactivated, N, off, e) /\ Len(N) + 1 = 1
  <2>1. 1 > 0
    OBVIOUS
  <2> QED
    BY <1>1, <1>4, <1>5, <2>1, Zenon DEF StandsFor, Stored
<1>7. /\ rw.height = 1 /\ rw.txLen = off[1] /\ rw.hdLen = 1
      /\ blockInfo = Metas(N, off, 1, 1)
      /\ Holds(Whole, N, off, e, 1)
      /\ Full(Whole, off, e, 1)
      /\ rw.pb = IF batch.changed THEN batch.pb ELSE db.pb
  BY <1>4, <1>5 DEF Counted
<1>8. /\ N \in Chain /\ off \in [Nat -> Nat] /\ e \in Nat \ {0} /\ 1 \in 0..Len(N) + 1
  BY <1>1, <1>5, StandsForTypes
<1>9. e > 1
  BY <1>1, <1>5, <1>6, GenesisEdge
<1>10. blockInfo \subseteq MetaRecs
  <2>1. 1 \in Nat \ {0}
    OBVIOUS
  <2> QED
    BY <1>7, <1>8, <2>1, MetaType
<1>11. /\ db' \in [height : Nat, min : Nat \ {0}, meta : SUBSET MetaRecs,
                   pb : Infos, preactivated : BOOLEAN]
       /\ db'.height = 1
       /\ db'.meta = db.meta \cup blockInfo
       /\ db'.pb = NoProtobuf
       /\ db'.preactivated = db.preactivated
  BY <1>1, <1>3, <1>4, <1>5, <1>7, <1>10, FlushedFacts
<1>12. AllWritten = Whole /\ Whole \in Files
  BY <1>1, AllWrittenIs
<1>13. file' \in Files /\ file' = Whole
  BY <1>2, <1>12
<1>14. BTypeOK'
  <2>1. NoChange \in [changed : BOOLEAN, pb : Infos]
    BY DEF NoProtobuf, Infos, NoChange
  <2> QED
    BY <1>1, <1>2, <1>11, <1>13, <2>1, EmptyFilesType DEF BTypeOK, Places
<1>15. Whole' = file'
  BY <1>2, <1>14, WholeIsFileNext
<1>16. TopHeight' = 1
  BY <1>2, <1>11 DEF TopHeight
<1>17. db'.meta = Metas(N, off, 1, 1)
  <2>1. 0 \in Nat /\ 1 \in Nat /\ 0 <= 1 /\ 0 + 1 = 1
    OBVIOUS
  <2>2. Metas(N, off, 1, 0) \cup Metas(N, off, 0 + 1, 1) = Metas(N, off, 1, 1)
    BY <2>1, MetasJoin
  <2> QED
    BY <1>6, <1>7, <1>11, <2>1, <2>2, Zenon
<1>18. InfoOf(off, e, 1) = NoProtobuf
  BY <1>8, <1>9 DEF InfoOf
<1>19. Stored(N, off, e)'
  <2>1. Holds(file', N, off, e, 1)
    BY <1>7, <1>13
  <2>2. Fits(db'.pb, off, e, 1)
    BY <1>11, <1>18 DEF Fits
  <2>3. 1 # 0
    OBVIOUS
  <2> QED
    BY <1>11, <1>17, <2>1, <2>2, <2>3, Zenon DEF Stored
<1>20. Counted(N, off, e)'
  <2>1. /\ rw'.height = 1 /\ rw'.txLen = off[1] /\ rw'.hdLen = 1
        /\ Holds(Whole', N, off, e, 1) /\ Full(Whole', off, e, 1)
    BY <1>2, <1>7, <1>13, <1>15
  <2>2. blockInfo' = Metas(N, off, db'.height + 1, 1)
    <3>1. (1 + 1)..1 = {}
      OBVIOUS
    <3> QED
      BY <1>2, <1>11, <3>1 DEF Metas
  <2>3. rw'.pb = IF batch'.changed THEN batch'.pb ELSE db'.pb
    BY <1>2, <1>4, <1>11 DEF NoChange
  <2> QED
    BY <1>16, <2>1, <2>2, <2>3, Zenon DEF Counted
<1>21. AtPlace(N, off, e)'
  <2>1. db'.height = 1 /\ ~db'.preactivated /\ rw'.pb = NoProtobuf
    BY <1>2, <1>4, <1>6, <1>11, Zenon
  <2> QED
    BY <1>2, <1>20, <2>1 DEF AtPlace, Idle, Counting, Working, Places
<1>22. Layout(db.preactivated, N, off, e)' /\ (TopHeight > 0 => Len(N) + 1 = TopHeight)'
  BY <1>6, <1>11, <1>16, Zenon
<1> QED
  BY <1>14, <1>19, <1>21, <1>22 DEF StandsFor

\* The preactivated features turn the next block into a protobuf block.
LEMMA PreactivatedLayout ==
    ASSUME NEW off, NEW e, Layout(FALSE, Genesis, off, e), e > 1
    PROVE  \E e2 \in Nat \ {0} :
              /\ Layout(TRUE, Genesis, off, e2)
              /\ IF Preactivated THEN e2 = 1 ELSE e2 = e
<1>1. /\ Genesis \in Chain /\ off \in [Nat -> Nat] /\ e \in Nat \ {0}
      /\ Periods(Genesis) /\ Edge(FALSE, Genesis, e) /\ Offsets(Genesis, off)
      /\ (e <= Len(Genesis) + 1 => off[e - 1] < off[e])
  BY DEF Layout
<1>2. Len(Genesis) = 0
  BY DEF Genesis
<1>3. CASE Preactivated
  <2>1. Edge(TRUE, Genesis, 1)
    <3>1. \A h : ActiveAt(TRUE, Genesis, h)
      BY <1>3 DEF ActiveAt
    <3>2. \A h \in 2..Len(Genesis) + 2 : h > 1
      BY <1>2
    <3> QED
      BY <3>1, <3>2 DEF Edge
  <2>2. off[0] < off[1]
    <3>1. 1 \in 1..Len(Genesis) + 1 /\ 1 - 1 = 0 /\ Len(Genesis) + 1 = 1
      BY <1>2
    <3>2. off[1] = off[0] + TxSize(Ancestor(Genesis, 1))
      BY <1>1, <3>1 DEF Offsets
    <3>3. Ancestor(Genesis, 1) = Genesis
      BY <1>1, <3>1, TopAncestor
    <3>4. TxSize(Genesis) = 1
      BY DEF TxSize
    <3>5. off[0] = 0
      BY <1>1 DEF Offsets
    <3> QED
      BY <3>2, <3>3, <3>4, <3>5
  <2>3. 1 \in Nat \ {0} /\ 1 - 1 = 0
    OBVIOUS
  <2>4. Layout(TRUE, Genesis, off, 1)
    BY <1>1, <2>1, <2>2, <2>3, Zenon DEF Layout
  <2> QED
    BY <1>3, <2>3, <2>4
<1>4. CASE ~Preactivated
  <2>1. \A h : ActiveAt(TRUE, Genesis, h) <=> ActiveAt(FALSE, Genesis, h)
    BY <1>4 DEF ActiveAt
  <2>2. Edge(TRUE, Genesis, e)
    BY <1>1, <2>1, Zenon DEF Edge
  <2>3. Layout(TRUE, Genesis, off, e)
    BY <1>1, <2>2, Zenon DEF Layout
  <2> QED
    BY <1>1, <1>4, <2>3
<1> QED
  BY <1>3, <1>4

LEMMA ApplyPreActivatedFeaturesStep == BInv /\ ApplyPreActivatedFeatures => BInv'
<1>1. SUFFICES ASSUME BTypeOK, NEW N, NEW off, NEW e, StandsFor(N, off, e),
                      ApplyPreActivatedFeatures
               PROVE  BTypeOK' /\ \E e2 : StandsFor(N, off, e2)'
  BY DEF BInv
<1>2. /\ pc = "preactivating" /\ pc' = "loading" /\ file' = file /\ buf' = buf
      /\ rw' = rw /\ blockInfo' = blockInfo /\ batch' = batch
      /\ blocksNum' = blocksNum /\ lastBlock' = lastBlock
  BY <1>1 DEF ApplyPreActivatedFeatures, memVars
<1>3. /\ db' \in [height : Nat, min : Nat \ {0}, meta : SUBSET MetaRecs, pb : Infos,
                  preactivated : BOOLEAN]
      /\ db'.height = db.height /\ db'.meta = db.meta /\ db'.pb = db.pb
      /\ db'.preactivated = TRUE
  BY <1>1 DEF ApplyPreActivatedFeatures, BTypeOK
<1>4. BTypeOK'
  BY <1>1, <1>2, <1>3 DEF BTypeOK, Places
<1>5. Idle /\ Counting
  BY <1>2 DEF Idle, Counting, Places
<1>6. /\ blocksNum = 0 /\ blockInfo = {} /\ buf = EmptyFiles
      /\ Counted(N, off, e) /\ db.height = 1 /\ ~db.preactivated
      /\ rw.pb = NoProtobuf /\ batch = NoChange
  BY <1>1, <1>2, <1>5, Zenon DEF StandsFor, AtPlace
<1>7. TopHeight = 1 /\ TopHeight' = 1
  <2>1. db.height = 1 /\ blocksNum = 0
    BY <1>6
  <2>2. db'.height = 1 /\ blocksNum' = 0
    BY <1>2, <1>3, <2>1
  <2> QED
    BY <2>1, <2>2 DEF TopHeight
<1>8. e > 1 /\ N = Genesis
  BY <1>1, <1>6, <1>7, GenesisEdge
<1>9. PICK e2 \in Nat \ {0} : /\ Layout(TRUE, N, off, e2)
                              /\ IF Preactivated THEN e2 = 1 ELSE e2 = e
  <2>1. db.preactivated = FALSE
    BY <1>1, <1>6 DEF BTypeOK
  <2>2. Layout(FALSE, Genesis, off, e)
    BY <1>1, <1>8, <2>1, Zenon DEF StandsFor
  <2>3. e > 1
    BY <1>8
  <2>4. \E e2 \in Nat \ {0} : /\ Layout(TRUE, Genesis, off, e2)
                              /\ IF Preactivated THEN e2 = 1 ELSE e2 = e
    BY <2>2, <2>3, PreactivatedLayout
  <2>5. N = Genesis
    BY <1>8
  <2> QED
    BY <2>4, <2>5
<1>10. /\ N \in Chain /\ off \in [Nat -> Nat] /\ e \in Nat \ {0} /\ Offsets(N, off)
       /\ 1 \in 0..Len(N) + 1
  BY <1>1, <1>7, StandsForTypes
<1>11. /\ db.meta = Metas(N, off, 1, 1) /\ Holds(file, N, off, e, 1)
       /\ file \in Files
  BY <1>1, <1>6, Zenon DEF StandsFor, Stored, BTypeOK
<1>12. /\ rw.height = 1 /\ rw.txLen = off[1] /\ rw.hdLen = 1
       /\ blockInfo = Metas(N, off, 1 + 1, 1)
       /\ Holds(Whole, N, off, e, 1) /\ Full(Whole, off, e, 1)
       /\ rw.pb = IF batch.changed THEN batch.pb ELSE db.pb
  BY <1>6, <1>7, Zenon DEF Counted
<1>13. rw.pb = db.pb /\ db.pb = NoProtobuf
  BY <1>6, <1>12 DEF NoChange
<1>14. e2 >= 1 /\ e >= 1 /\ IdAt(e2, 1) = IdAt(e, 1)
  BY <1>9, <1>10 DEF IdAt
<1>15. \A F \in Files : Holds(F, N, off, e, 1) => Holds(F, N, off, e2, 1)
  <2> TAKE F \in Files
  <2> HAVE Holds(F, N, off, e, 1)
  <2>1. 1 \in 0..1
    OBVIOUS
  <2> QED
    BY <1>9, <1>10, <1>14, <2>1, HoldsPart
<1>16. Whole \in Files /\ Whole' = Whole
  BY <1>1, <1>2, AllWrittenIs DEF Whole
<1>17. Full(Whole, off, e2, 1)
  BY <1>12, <1>14 DEF Full
<1>18. rw.pb = InfoOf(off, e2, 1) \/ Pending(rw.pb, e2, 1)
  <2>1. CASE Preactivated
    BY <1>9, <1>13, <2>1 DEF Pending
  <2>2. CASE ~Preactivated
    <3>1. e2 > 1
      BY <1>8, <1>9, <2>2
    <3>2. InfoOf(off, e2, 1) = NoProtobuf
      BY <1>9, <3>1 DEF InfoOf
    <3> QED
      BY <1>13, <3>2
  <2> QED
    BY <2>1, <2>2
<1>19. Stored(N, off, e2)'
  <2>1. Fits(db'.pb, off, e2, 1) \/ Pending(db'.pb, e2, 1)
    BY <1>3, <1>13, <1>18 DEF Fits
  <2>2. Holds(file', N, off, e2, 1)
    BY <1>2, <1>11, <1>15
  <2>3. db'.height = 1 /\ db'.meta = Metas(N, off, 1, 1) /\ 1 # 0
    BY <1>3, <1>6, <1>11
  <2> QED
    BY <2>1, <2>2, <2>3, Zenon DEF Stored
<1>20. Counted(N, off, e2)'
  <2>1. /\ rw'.height = 1 /\ rw'.txLen = off[1] /\ rw'.hdLen = 1
        /\ blockInfo' = Metas(N, off, 1 + 1, 1)
    BY <1>2, <1>12, Zenon
  <2>2. Holds(Whole', N, off, e2, 1) /\ Full(Whole', off, e2, 1)
    BY <1>12, <1>15, <1>16, <1>17
  <2>3. rw'.pb = IF batch'.changed THEN batch'.pb ELSE db'.pb
    BY <1>2, <1>3, <1>12, Zenon
  <2>4. db'.height = 1
    BY <1>3, <1>6
  <2> QED
    BY <1>7, <2>1, <2>2, <2>3, <2>4, Zenon DEF Counted
<1>21. AtPlace(N, off, e2)'
  <2>1. rw'.pb = InfoOf(off, e2, db'.height) \/ Pending(rw'.pb, e2, db'.height)
    <3>1. db'.height = 1
      BY <1>3, <1>6
    <3> QED
      BY <1>2, <1>18, <3>1, Zenon
  <2>2. blocksNum' = 0 /\ blockInfo' = {} /\ buf' = EmptyFiles
    BY <1>2, <1>6, Zenon
  <2> QED
    BY <1>2, <1>20, <2>1, <2>2 DEF AtPlace, Idle, Counting, Working, Places
<1>22. Layout(db.preactivated, N, off, e2)'
  BY <1>3, <1>9, Zenon
<1>23. (TopHeight > 0 => Len(N) + 1 = TopHeight)'
  BY <1>7, <1>8 DEF Genesis
<1>24. StandsFor(N, off, e2)'
  BY <1>19, <1>21, <1>22, <1>23 DEF StandsFor
<1> QED
  BY <1>4, <1>24

\* checkProtobufActivation at the end of a start.
LEMMA FinishOpeningStep == BInv /\ FinishOpening => BInv'
<1>1. SUFFICES ASSUME BTypeOK, NEW N, NEW off, NEW e, StandsFor(N, off, e), FinishOpening
               PROVE  BTypeOK' /\ StandsFor(N, off, e)'
  BY DEF BInv
<1>2. /\ pc = "loading" /\ pc' = "up" /\ file' = file /\ buf' = buf
      /\ blockInfo' = blockInfo /\ blocksNum' = blocksNum /\ db' = db
  BY <1>1 DEF FinishOpening
<1>3. /\ lastBlock' = BlockIDByHeight(rw.pb, db.height)
      /\ rw' = ActivatedRW(rw, lastBlock', db.height + 1)
      /\ batch' = StoredInfo(batch, rw, rw')
  BY <1>1 DEF FinishOpening
<1>4. Idle /\ Counting
  BY <1>2 DEF Idle, Counting, Places
<1>5. /\ blocksNum = 0 /\ blockInfo = {} /\ buf = EmptyFiles
      /\ Counted(N, off, e)
      /\ rw.pb = InfoOf(off, e, db.height) \/ Pending(rw.pb, e, db.height)
  BY <1>1, <1>2, <1>4, Zenon DEF StandsFor, AtPlace
<1>6. /\ N \in Chain /\ off \in [Nat -> Nat] /\ Edge(db.preactivated, N, e)
  BY <1>1, StandsForTypes
<1>7. e \in Nat \ {0} /\ Len(N) \in Nat /\ db.height \in Nat
  BY <1>1, StandsForNumbers
<1>8. TopHeight = db.height
  BY <1>5, <1>7 DEF TopHeight
<1>9. db.height > 0
  <2>1. db.height # 0
    BY <1>1, <1>2 DEF StandsFor, Stored
  <2> QED
    BY <1>7, <2>1
<1>10. Len(N) + 1 = db.height
  BY <1>1, <1>8, <1>9 DEF StandsFor
<1>11. BlockIDByHeight(rw.pb, db.height) = N
  <2>1. rw.pb \in Infos
    BY <1>1 DEF BTypeOK
  <2>2. Fits(rw.pb, off, e, db.height) \/ Pending(rw.pb, e, db.height)
    BY <1>5 DEF Fits
  <2>3. db.height \in 1..db.height
    BY <1>7, <1>9
  <2>4. BlockIDByHeight(rw.pb, db.height) = Ancestor(N, db.height)
    BY <1>1, <2>1, <2>2, <2>3, ReadsChain
  <2>5. Ancestor(N, db.height) = N
    BY <1>6, <1>10, TopAncestor
  <2> QED
    BY <2>4, <2>5
<1>12. IsActivatedAtHeight(N, db.height + 1) <=> db.height + 1 > e
  <2>1. db.height + 1 \in 2..Len(N) + 2
    BY <1>7, <1>9, <1>10
  <2> QED
    BY <1>6, <2>1, ActiveIs DEF Edge
<1>13. /\ rw.height = db.height /\ rw.txLen = off[db.height] /\ rw.hdLen = db.height
       /\ rw.pb = IF batch.changed THEN batch.pb ELSE db.pb
  BY <1>5, <1>8, Zenon DEF Counted
<1>14. lastBlock' = N
  BY <1>3, <1>11
<1>15. rw' = ActivatedRW(rw, N, db.height + 1)
  BY <1>3, <1>14
<1>16. /\ rw' \in [height : Nat, txLen : Nat, hdLen : Nat, pb : Infos]
       /\ rw'.height = rw.height /\ rw'.txLen = rw.txLen /\ rw'.hdLen = rw.hdLen
       /\ rw'.pb = InfoOf(off, e, db.height)
  <2>1. rw \in [height : Nat, txLen : Nat, hdLen : Nat, pb : Infos]
    BY <1>1 DEF BTypeOK
  <2>2. CASE rw.pb = InfoOf(off, e, db.height)
    <3>1. rw' = rw
      <4>1. CASE e <= db.height
        <5>1. rw.pb.on
          BY <2>2, <4>1 DEF InfoOf
        <5> QED
          BY <1>15, <5>1 DEF ActivatedRW
      <4>2. CASE ~(e <= db.height)
        <5>1. ~(db.height + 1 > e)
          BY <1>7, <4>2
        <5>2. ~IsActivatedAtHeight(N, db.height + 1)
          BY <1>12, <5>1
        <5> QED
          BY <1>15, <5>2, Zenon DEF ActivatedRW
      <4> QED
        BY <4>1, <4>2
    <3> QED
      BY <2>1, <2>2, <3>1
  <2>3. CASE Pending(rw.pb, e, db.height)
    <3>1. rw.pb = NoProtobuf /\ e = 1 /\ db.height = 1
      BY <2>3 DEF Pending
    <3>2. ~rw.pb.on
      BY <3>1 DEF NoProtobuf
    <3>3. IsActivatedAtHeight(N, db.height + 1)
      BY <1>12, <3>1
    <3> DEFINE p == [on |-> TRUE, tx |-> rw.txLen, hd |-> rw.hdLen, after |-> rw.height]
    <3>4. rw' = [rw EXCEPT !.pb = p]
      BY <1>15, <3>2, <3>3, Zenon DEF ActivatedRW
    <3>5. p \in Infos
      BY <2>1 DEF Infos
    <3>6. p = InfoOf(off, e, db.height)
      <4>1. rw.txLen = off[1] /\ rw.hdLen = 1 /\ rw.height = 1
        BY <1>13, <3>1
      <4>2. InfoOf(off, e, db.height) = [on |-> TRUE, tx |-> off[1], hd |-> 1, after |-> 1]
        BY <3>1 DEF InfoOf
      <4> QED
        BY <4>1, <4>2
    <3> HIDE DEF p
    <3> QED
      BY <2>1, <3>4, <3>5, <3>6
  <2> QED
    BY <1>5, <2>2, <2>3
<1>17. /\ batch' \in [changed : BOOLEAN, pb : Infos]
       /\ rw'.pb = IF batch'.changed THEN batch'.pb ELSE db.pb
  <2>1. batch \in [changed : BOOLEAN, pb : Infos] /\ rw'.pb \in Infos
    BY <1>1, <1>16 DEF BTypeOK
  <2>2. CASE rw.pb = rw'.pb
    <3>1. batch' = batch
      BY <1>3, <2>2 DEF StoredInfo
    <3> QED
      BY <1>13, <2>1, <2>2, <3>1, Zenon
  <2>3. CASE rw.pb # rw'.pb
    <3>1. batch' = [changed |-> TRUE, pb |-> rw'.pb]
      BY <1>3, <2>3 DEF StoredInfo
    <3> QED
      BY <2>1, <3>1
  <2> QED
    BY <2>2, <2>3
<1>18. BTypeOK'
  BY <1>1, <1>2, <1>6, <1>14, <1>16, <1>17 DEF BTypeOK, Places
<1>19. Whole' = Whole /\ TopHeight' = TopHeight
  BY <1>2 DEF Whole, TopHeight
<1>20. Stored(N, off, e)'
  <2>1. db.height # 0
    BY <1>7, <1>9
  <2> QED
    BY <1>1, <1>2, <2>1, Zenon DEF StandsFor, Stored
<1>21. Counted(N, off, e)'
  <2>1. /\ Holds(Whole, N, off, e, TopHeight) /\ Full(Whole, off, e, TopHeight)
        /\ blockInfo = Metas(N, off, db.height + 1, TopHeight)
    BY <1>5 DEF Counted
  <2>2. rw'.height = TopHeight /\ rw'.txLen = off[TopHeight] /\ rw'.hdLen = TopHeight
    BY <1>8, <1>13, <1>16, Zenon
  <2> QED
    BY <1>2, <1>17, <1>19, <2>1, <2>2, Zenon DEF Counted
<1>22. AtPlace(N, off, e)'
  <2>1. rw'.pb = InfoOf(off, e, TopHeight')
    BY <1>8, <1>16, <1>19, Zenon
  <2>2. blocksNum' = 0 /\ blockInfo' = {} /\ buf' = EmptyFiles
    BY <1>2, <1>5, Zenon
  <2> QED
    BY <1>2, <1>14, <1>21, <2>1, <2>2 DEF AtPlace, Idle, Counting, Working, Places
<1>23. Layout(db.preactivated, N, off, e)' /\ (TopHeight > 0 => Len(N) + 1 = TopHeight)'
  BY <1>1, <1>2, <1>19, Zenon DEF StandsFor
<1> QED
  BY <1>18, <1>20, <1>22, <1>23 DEF StandsFor

\* What blockReadWriter.rollback makes of the info.
LEMMA SyncedInfo ==
    ASSUME BTypeOK, NEW N, NEW off, NEW e, StandsFor(N, off, e), db.height > 0,
           Fits(rw.pb, off, e, db.height) \/ Pending(rw.pb, e, db.height),
           NEW q, q = IF RemoveProtobufInfo THEN NoProtobuf ELSE rw.pb
    PROVE  /\ q = InfoOf(off, e, db.height) \/ Pending(q, e, db.height)
           /\ Fits(rw.pb, off, e, db.height) => q = InfoOf(off, e, db.height)
           /\ q \in Infos
<1>1. e \in Nat \ {0} /\ Len(N) \in Nat /\ db.height \in Nat /\ db.height <= Len(N) + 1
  BY StandsForNumbers
<1>2. off \in [Nat -> Nat] /\ Offsets(N, off)
  BY StandsForTypes
<1>3. Ends.tx = off[db.height]
  BY EndsFacts
<1>4. RemoveProtobufInfo <=> off[db.height] < rw.pb.tx
  BY <1>1, <1>3 DEF RemoveProtobufInfo
<1>5. off[db.height] \in Nat /\ off[e] \in Nat
  BY <1>1, <1>2
<1>6. q \in Infos
  BY DEF BTypeOK, Infos, NoProtobuf
<1>7. ASSUME rw.pb = InfoOf(off, e, db.height) PROVE q = InfoOf(off, e, db.height)
  <2>1. CASE e <= db.height
    <3>1. rw.pb.tx = off[e]
      BY <1>7, <2>1 DEF InfoOf
    <3>2. e \in 0..Len(N) + 1 /\ db.height \in 0..Len(N) + 1
      BY <1>1, <2>1
    <3>3. off[e] <= off[db.height]
      BY <1>2, <2>1, <3>2 DEF Offsets
    <3>4. ~RemoveProtobufInfo
      BY <1>4, <1>5, <3>1, <3>3
    <3> QED
      BY <1>7, <3>4
  <2>2. CASE ~(e <= db.height)
    <3>1. InfoOf(off, e, db.height) = NoProtobuf
      BY <2>2 DEF InfoOf
    <3> QED
      BY <1>7, <3>1
  <2> QED
    BY <2>1, <2>2
<1>8. ASSUME e > db.height, rw.pb.tx > off[db.height] PROVE q = InfoOf(off, e, db.height)
  <2>1. rw.pb.tx \in Nat
    BY DEF BTypeOK, Infos
  <2>2. RemoveProtobufInfo
    BY <1>4, <1>5, <1>8, <2>1
  <2>3. InfoOf(off, e, db.height) = NoProtobuf
    BY <1>1, <1>8 DEF InfoOf
  <2> QED
    BY <2>2, <2>3
<1>9. Fits(rw.pb, off, e, db.height) => q = InfoOf(off, e, db.height)
  BY <1>7, <1>8 DEF Fits
<1>10. ASSUME Pending(rw.pb, e, db.height) PROVE Pending(q, e, db.height)
  BY <1>10 DEF Pending
<1> QED
  BY <1>6, <1>9, <1>10

\* syncWithDb, from a start that finds no block and from one that finds some.
LEMMA SyncWithDbStep == BInv /\ SyncWithDb /\ InfoKept' => BInv'
<1>1. SUFFICES ASSUME BTypeOK, NEW N, NEW off, NEW e, StandsFor(N, off, e), SyncWithDb,
                      InfoKept'
               PROVE  BTypeOK' /\ StandsFor(N, off, e)'
  BY DEF BInv
<1>2. /\ pc \in {"opening", "syncing"} /\ buf' = EmptyFiles
      /\ blockInfo' = blockInfo /\ blocksNum' = blocksNum /\ lastBlock' = lastBlock
      /\ db' = db
  BY <1>1 DEF SyncWithDb
<1>3. /\ file' = Truncated(3)
      /\ rw' = [height |-> db.height, txLen |-> Ends.tx, hdLen |-> Ends.hd,
                pb |-> IF RemoveProtobufInfo THEN NoProtobuf ELSE rw.pb]
      /\ batch' = IF RemoveProtobufInfo THEN [changed |-> TRUE, pb |-> NoProtobuf]
                  ELSE batch
  BY <1>1 DEF SyncWithDb
<1>4. pc' = CASE pc = "syncing" -> "up"
              [] pc = "opening" /\ db.height = 0 -> "genesis"
              [] pc = "opening" /\ db.height > 0 -> "loading"
  BY <1>1 DEF SyncWithDb
<1>5. Idle /\ ~Counting
  BY <1>2 DEF Idle, Counting, Places
<1>6. blocksNum = 0 /\ blockInfo = {} /\ batch = NoChange
  BY <1>1, <1>5, Zenon DEF StandsFor, AtPlace
<1>7. e \in Nat \ {0} /\ Len(N) \in Nat /\ db.height \in Nat /\ db.height <= Len(N) + 1
  BY <1>1, StandsForNumbers
<1>8. off \in [Nat -> Nat] /\ Offsets(N, off)
  BY <1>1, StandsForTypes
<1>9. TopHeight = db.height
  BY <1>6, <1>7 DEF TopHeight
<1>10. db.height > 0 => Fits(rw.pb, off, e, db.height) \/ Pending(rw.pb, e, db.height)
  <2>1. pc # "down"
    BY <1>2
  <2>2. CurrentInfo = rw.pb
    BY <2>1 DEF CurrentInfo
  <2>3. db.height > 0 =>
           Fits(CurrentInfo, off, e, db.height) \/ Pending(CurrentInfo, e, db.height)
    BY <1>1, CurrentFits
  <2> QED
    BY <2>2, <2>3, Zenon
<1>11. /\ file' \in Files /\ Holds(file', N, off, e, db.height)
       /\ Full(file', off, e, db.height)
  <2>1. 3 \in 0..3
    OBVIOUS
  <2>2. /\ Truncated(3) \in Files /\ Holds(Truncated(3), N, off, e, db.height)
        /\ Full(Truncated(3), off, e, db.height)
    BY <1>1, <1>10, <2>1, TruncatedFacts
  <2> QED
    BY <1>3, <2>2
<1>12. Ends.tx = off[db.height] /\ Ends.hd = db.height
  <2>1. CASE db.height = 0
    BY <1>8, <2>1 DEF Ends, Offsets
  <2>2. CASE db.height # 0
    <3>1. db.height > 0
      BY <1>7, <2>2
    <3> QED
      BY <1>1, <1>10, <3>1, EndsFacts
  <2> QED
    BY <2>1, <2>2
<1>13. /\ rw'.height = db.height /\ rw'.txLen = off[db.height] /\ rw'.hdLen = db.height
       /\ rw'.pb = IF RemoveProtobufInfo THEN NoProtobuf ELSE rw.pb
  BY <1>3, <1>12
<1>14. rw'.pb \in Infos
  BY <1>1, <1>13 DEF BTypeOK, Infos, NoProtobuf
<1>15. rw' \in [height : Nat, txLen : Nat, hdLen : Nat, pb : Infos]
  <2>1. rw' = [height |-> db.height, txLen |-> off[db.height], hdLen |-> db.height,
               pb |-> rw'.pb]
    BY <1>3, <1>12
  <2>2. off[db.height] \in Nat
    BY <1>7, <1>8
  <2> QED
    BY <1>7, <1>14, <2>1, <2>2
<1>16. pc' \in {"up", "genesis", "loading"}
  BY <1>2, <1>4, <1>7
<1>17. BTypeOK'
  <2>1. NoChange \in [changed : BOOLEAN, pb : Infos]
        /\ [changed |-> TRUE, pb |-> NoProtobuf] \in [changed : BOOLEAN, pb : Infos]
    BY DEF NoProtobuf, Infos, NoChange
  <2>2. batch' \in [changed : BOOLEAN, pb : Infos]
    BY <1>3, <1>6, <2>1
  <2> QED
    BY <1>1, <1>2, <1>11, <1>15, <1>16, <2>2, EmptyFilesType DEF BTypeOK, Places
<1>18. Whole' = file'
  BY <1>2, <1>17, WholeIsFileNext
<1>19. TopHeight' = db.height /\ db'.height = db.height
  <2>1. blocksNum' = 0 /\ db'.height = db.height
    BY <1>2, <1>6
  <2> QED
    BY <1>7, <2>1 DEF TopHeight
<1>20. rw'.pb = IF batch'.changed THEN batch'.pb ELSE db'.pb
  <2>1. CASE RemoveProtobufInfo
    BY <1>3, <1>13, <2>1
  <2>2. CASE ~RemoveProtobufInfo
    <3>1. batch' = NoChange /\ rw'.pb = rw.pb
      BY <1>3, <1>6, <1>13, <2>2
    <3>2. ~batch'.changed
      BY <3>1 DEF NoChange
    <3>3. rw'.pb = db'.pb
      <4>1. CASE pc = "opening"
        <5>1. rw.pb = db.pb
          BY <1>1, <4>1 DEF StandsFor, AtPlace
        <5> QED
          BY <1>2, <3>1, <5>1, Zenon
      <4>2. CASE pc = "syncing"
        <5>1. pc' = "up"
          BY <1>4, <4>2
        <5> QED
          BY <1>1, <3>2, <5>1 DEF InfoKept
      <4> QED
        BY <1>2, <4>1, <4>2
    <3> QED
      BY <3>2, <3>3
  <2> QED
    BY <2>1, <2>2
<1>21. Counted(N, off, e)'
  <2>1. blockInfo' = Metas(N, off, db'.height + 1, TopHeight')
    <3>1. db.height + 1..db.height = {}
      BY <1>7
    <3>2. Metas(N, off, db.height + 1, db.height) = {}
      BY <3>1 DEF Metas
    <3> QED
      BY <1>2, <1>6, <1>19, <3>2, Zenon
  <2>2. Holds(Whole', N, off, e, TopHeight') /\ Full(Whole', off, e, TopHeight')
    BY <1>11, <1>18, <1>19, Zenon
  <2>3. /\ rw'.height = TopHeight' /\ rw'.txLen = off[TopHeight'] /\ rw'.hdLen = TopHeight'
    BY <1>13, <1>19, Zenon
  <2> QED
    BY <1>20, <2>1, <2>2, <2>3, Zenon DEF Counted
<1>22. /\ pc' = "genesis" => db'.height = 0 /\ rw'.pb = NoProtobuf
       /\ pc' = "loading" => \/ rw'.pb = InfoOf(off, e, db'.height)
                             \/ Pending(rw'.pb, e, db'.height)
       /\ pc' = "up" => rw'.pb = InfoOf(off, e, TopHeight') /\ lastBlock' = N
       /\ db'.height = 0 => pc' = "genesis"
  <2>1. CASE db.height = 0
    <3>1. pc = "opening"
      BY <1>1, <1>2, <2>1 DEF StandsFor, Stored
    <3>2. pc' = "genesis"
      BY <1>4, <2>1, <3>1
    <3>3. rw'.pb = NoProtobuf
      BY <1>13, <2>1 DEF RemoveProtobufInfo
    <3> QED
      BY <1>19, <2>1, <3>2, <3>3
  <2>2. CASE db.height # 0
    <3>1. db.height > 0
      BY <1>7, <2>2
    <3>2. /\ rw'.pb = InfoOf(off, e, db.height) \/ Pending(rw'.pb, e, db.height)
          /\ Fits(rw.pb, off, e, db.height) => rw'.pb = InfoOf(off, e, db.height)
      <4> DEFINE q == rw'.pb
      <4>1. q = IF RemoveProtobufInfo THEN NoProtobuf ELSE rw.pb
        BY <1>13
      <4> HIDE DEF q
      <4>2. /\ q = InfoOf(off, e, db.height) \/ Pending(q, e, db.height)
            /\ Fits(rw.pb, off, e, db.height) => q = InfoOf(off, e, db.height)
        BY <1>1, <1>10, <3>1, <4>1, SyncedInfo
      <4> QED
        BY <4>2 DEF q
    <3>3. CASE pc = "opening"
      <4>1. pc' = "loading"
        BY <1>4, <3>1, <3>3, <2>2
      <4> QED
        BY <1>19, <2>2, <3>2, <4>1, Zenon
    <3>4. CASE pc = "syncing"
      <4>1. pc' = "up"
        BY <1>4, <3>4
      <4>2. Fits(rw.pb, off, e, db.height) /\ lastBlock = N
        BY <1>1, <3>4, Zenon DEF StandsFor, AtPlace
      <4>3. rw'.pb = InfoOf(off, e, TopHeight') /\ lastBlock' = N
        BY <1>2, <1>19, <3>2, <4>2, Zenon
      <4>4. db'.height # 0
        BY <1>19, <2>2, Zenon
      <4> QED
        BY <4>1, <4>3, <4>4
    <3> QED
      BY <1>2, <3>3, <3>4
  <2> QED
    BY <2>1, <2>2
<1>23. AtPlace(N, off, e)'
  <2>1. blocksNum' = 0 /\ blockInfo' = {} /\ buf' = EmptyFiles
    BY <1>2, <1>6, Zenon
  <2> QED
    BY <1>16, <1>21, <1>22, <2>1 DEF AtPlace, Idle, Counting, Working, Places
<1>24. Stored(N, off, e)'
  <2>1. /\ db.meta = Metas(N, off, 1, db.height)
        /\ db.height = 0 => db.pb = NoProtobuf /\ ~db.preactivated
        /\ db.height > 0 => Fits(db.pb, off, e, db.height) \/ Pending(db.pb, e, db.height)
    BY <1>1, Zenon DEF StandsFor, Stored
  <2>2. db'.height = 0 => pc' \in {"down", "opening", "genesis", "writing genesis"}
    BY <1>22
  <2> QED
    BY <1>2, <1>11, <2>1, <2>2, Zenon DEF Stored
<1>25. Layout(db.preactivated, N, off, e)' /\ (TopHeight > 0 => Len(N) + 1 = TopHeight)'
  BY <1>1, <1>2, <1>9, <1>19, Zenon DEF StandsFor
<1> QED
  BY <1>17, <1>23, <1>24, <1>25 DEF StandsFor

LEMMA FlushFilesStep == BInv /\ FlushFiles => BInv'
<1>1. SUFFICES ASSUME BTypeOK, NEW N, NEW off, NEW e, StandsFor(N, off, e), FlushFiles
               PROVE  BTypeOK' /\ StandsFor(N, off, e)'
  BY DEF BInv
<1>2. /\ pc = "adding" /\ pc' = "flushing" /\ file' = AllWritten /\ buf' = EmptyFiles
      /\ rw' = rw /\ blockInfo' = blockInfo /\ batch' = batch
      /\ blocksNum' = blocksNum /\ lastBlock' = lastBlock /\ db' = db
  BY <1>1 DEF FlushFiles
<1>3. file' \in Files /\ file' = Whole
  BY <1>1, <1>2, AllWrittenIs
<1>4. BTypeOK'
  BY <1>1, <1>2, <1>3, EmptyFilesType DEF BTypeOK, Places
<1>5. Whole' = Whole
  BY <1>2, <1>3, <1>4, WholeIsFileNext
<1>6. TopHeight' = TopHeight
  BY <1>2 DEF TopHeight
<1>7. Counting /\ Working
  BY <1>2 DEF Counting, Working, Places
<1>8. Counted(N, off, e) /\ rw.pb = InfoOf(off, e, TopHeight) /\ lastBlock = N
  BY <1>1, <1>7, Zenon DEF StandsFor, AtPlace
<1>9. Counted(N, off, e)'
  BY <1>2, <1>5, <1>6, <1>8, Zenon DEF Counted
<1>10. AtPlace(N, off, e)'
  <2>1. rw'.pb = InfoOf(off, e, TopHeight') /\ lastBlock' = N
    BY <1>2, <1>6, <1>8, Zenon
  <2> QED
    BY <1>2, <1>9, <2>1 DEF AtPlace, Idle, Counting, Working, Places
<1>11. Holds(file', N, off, e, db.height)
  <2>1. /\ N \in Chain /\ off \in [Nat -> Nat] /\ e \in Nat \ {0}
        /\ TopHeight \in 0..Len(N) + 1 /\ db.height \in 0..TopHeight /\ Offsets(N, off)
    BY <1>1, StandsForTypes
  <2>2. Holds(file', N, off, e, TopHeight)
    BY <1>3, <1>8 DEF Counted
  <2> QED
    BY <1>3, <2>1, <2>2, HoldsPart
<1>12. db.height # 0
  BY <1>1, <1>2 DEF StandsFor, Stored
<1>13. Stored(N, off, e)'
  BY <1>1, <1>2, <1>11, <1>12, Zenon DEF StandsFor, Stored
<1>14. Layout(db.preactivated, N, off, e)' /\ (TopHeight > 0 => Len(N) + 1 = TopHeight)'
  BY <1>1, <1>2, <1>6, Zenon DEF StandsFor
<1> QED
  BY <1>4, <1>10, <1>13, <1>14 DEF StandsFor

\* What holds where blocks are added.
LEMMA WorkingFacts ==
    ASSUME BTypeOK, NEW N, NEW off, NEW e, StandsFor(N, off, e), Working
    PROVE  /\ Counted(N, off, e)
           /\ rw.pb = InfoOf(off, e, TopHeight) /\ lastBlock = N
           /\ db.height > 0 /\ TopHeight > 0 /\ Len(N) + 1 = TopHeight
           /\ Fits(rw.pb, off, e, db.height)
           /\ BlockIDByHeight(rw.pb, db.height) = Ancestor(N, db.height)
<1>1. Counting
  BY DEF Counting, Working, Places
<1>2. Counted(N, off, e) /\ rw.pb = InfoOf(off, e, TopHeight) /\ lastBlock = N
  BY <1>1, Zenon DEF StandsFor, AtPlace
<1>3. db.height # 0
  BY DEF StandsFor, Stored, Working
<1>4. db.height \in Nat /\ TopHeight \in Nat /\ db.height <= TopHeight
  BY StandsForNumbers
<1>5. db.height > 0 /\ TopHeight > 0
  BY <1>3, <1>4
<1>6. Len(N) + 1 = TopHeight
  BY <1>5 DEF StandsFor
<1>7. Fits(rw.pb, off, e, db.height)
  <2>1. /\ TopHeight \in 0..Len(N) + 1 /\ db.height \in 0..TopHeight
        /\ Layout(db.preactivated, N, off, e)
    BY StandsForTypes DEF StandsFor
  <2>2. Fits(InfoOf(off, e, TopHeight), off, e, db.height)
    BY <2>1, InfoFitsPrefix
  <2> QED
    BY <1>2, <2>2
<1>8. BlockIDByHeight(rw.pb, db.height) = Ancestor(N, db.height)
  <2>1. rw.pb \in Infos
    BY DEF BTypeOK
  <2>2. db.height \in 1..db.height
    BY <1>4, <1>5
  <2> QED
    BY <1>7, <2>1, <2>2, ReadsChain
<1> QED
  BY <1>2, <1>5, <1>6, <1>7, <1>8

LEMMA FlushDBStep == BInv /\ FlushDB => BInv'
<1>1. SUFFICES ASSUME BTypeOK, NEW N, NEW off, NEW e, StandsFor(N, off, e), FlushDB
               PROVE  BTypeOK' /\ StandsFor(N, off, e)'
  BY DEF BInv
<1>2. /\ pc = "flushing" /\ pc' = "up" /\ file' = file /\ buf' = buf /\ rw' = rw
      /\ blockInfo' = {} /\ batch' = NoChange /\ blocksNum' = 0
  BY <1>1 DEF FlushDB
<1>3. db' = Flushed /\ lastBlock' = BlockIDByHeight(rw.pb, db'.height)
  BY <1>1 DEF FlushDB
<1>4. Working
  BY <1>2 DEF Working
<1>5. /\ Counted(N, off, e) /\ rw.pb = InfoOf(off, e, TopHeight)
      /\ TopHeight > 0 /\ Len(N) + 1 = TopHeight
  BY <1>1, <1>4, WorkingFacts
<1>6. /\ N \in Chain /\ off \in [Nat -> Nat] /\ Offsets(N, off)
      /\ Edge(db.preactivated, N, e) /\ TopHeight \in 0..Len(N) + 1
  BY <1>1, StandsForTypes
<1>7. /\ e \in Nat \ {0} /\ Len(N) \in Nat /\ db.height \in Nat /\ TopHeight \in Nat
      /\ db.height <= TopHeight
  BY <1>1, StandsForNumbers
<1>8. /\ rw.height = TopHeight /\ rw.txLen = off[TopHeight] /\ rw.hdLen = TopHeight
      /\ blockInfo = Metas(N, off, db.height + 1, TopHeight)
      /\ Holds(Whole, N, off, e, TopHeight)
      /\ Full(Whole, off, e, TopHeight)
      /\ rw.pb = IF batch.changed THEN batch.pb ELSE db.pb
  BY <1>5, Zenon DEF Counted
<1>9. buf = EmptyFiles
  BY <1>1, <1>2 DEF StandsFor, AtPlace
<1>10. Whole = file
  BY <1>1, <1>9, WholeIsFile
<1>11. blockInfo \subseteq MetaRecs
  <2>1. db.height + 1 \in Nat \ {0}
    BY <1>7
  <2>2. Metas(N, off, db.height + 1, TopHeight) \subseteq MetaRecs
    BY <1>6, <2>1, MetaType
  <2> QED
    BY <1>8, <2>2, Zenon
<1>12. /\ db' \in [height : Nat, min : Nat \ {0}, meta : SUBSET MetaRecs,
                   pb : Infos, preactivated : BOOLEAN]
       /\ db'.height = TopHeight
       /\ db'.meta = db.meta \cup blockInfo
       /\ db'.pb = IF batch.changed THEN batch.pb ELSE db.pb
       /\ db'.preactivated = db.preactivated
  BY <1>1, <1>3, <1>11, FlushedFacts, Zenon
<1>13. db'.pb = rw.pb
  BY <1>8, <1>12, Zenon
<1>14. db'.meta = Metas(N, off, 1, TopHeight)
  <2>1. db.meta = Metas(N, off, 1, db.height)
    BY <1>1 DEF StandsFor, Stored
  <2>2. Metas(N, off, 1, db.height) \cup Metas(N, off, db.height + 1, TopHeight)
          = Metas(N, off, 1, TopHeight)
    <3> DEFINE i == db.height
               j == TopHeight
    <3>1. i \in Nat /\ j \in Nat /\ i <= j
      BY <1>7
    <3> HIDE DEF i, j
    <3>2. Metas(N, off, 1, i) \cup Metas(N, off, i + 1, j) = Metas(N, off, 1, j)
      BY <3>1, MetasJoin
    <3> QED
      BY <3>2 DEF i, j
  <2> QED
    BY <1>8, <1>12, <2>1, <2>2, Zenon
<1>15. rw.pb \in Infos
  BY <1>1 DEF BTypeOK
<1>16. Fits(rw.pb, off, e, TopHeight)
  BY <1>5 DEF Fits
<1>17. lastBlock' = N
  <2>1. Locates(rw.pb, e, TopHeight)
    BY <1>7, <1>15, <1>16, FitsLocates
  <2>2. file \in Files /\ IdHeld(file.id, N, e, TopHeight)
    BY <1>1, <1>8, <1>10 DEF BTypeOK, Holds
  <2>3. TopHeight \in 1..TopHeight
    BY <1>5, <1>7
  <2>4. BlockIDByHeight(rw.pb, TopHeight) = Ancestor(N, TopHeight)
    BY <1>6, <1>7, <2>1, <2>2, <2>3, ReadsId
  <2>5. Ancestor(N, TopHeight) = N
    BY <1>5, <1>6, TopAncestor
  <2> QED
    BY <1>3, <1>12, <2>4, <2>5, Zenon
<1>18. BTypeOK'
  <2>1. NoChange \in [changed : BOOLEAN, pb : Infos]
    BY DEF NoProtobuf, Infos, NoChange
  <2> QED
    BY <1>1, <1>2, <1>6, <1>12, <1>17, <2>1 DEF BTypeOK, Places
<1>19. TopHeight' = TopHeight
  <2>1. TopHeight' = db'.height + blocksNum'
    BY DEF TopHeight
  <2>2. TopHeight + 0 = TopHeight
    BY <1>7
  <2> QED
    BY <1>2, <1>12, <2>1, <2>2, Zenon
<1>20. Whole' = Whole
  BY <1>2 DEF Whole
<1>21. Stored(N, off, e)'
  <2>1. Holds(file', N, off, e, TopHeight)
    BY <1>2, <1>8, <1>10, Zenon
  <2>2. TopHeight # 0
    BY <1>5, <1>7
  <2>3. Fits(db'.pb, off, e, TopHeight)
    BY <1>13, <1>16, Zenon
  <2> QED
    BY <1>12, <1>14, <2>1, <2>2, <2>3, Zenon DEF Stored
<1>22. Counted(N, off, e)'
  <2>1. blockInfo' = Metas(N, off, db'.height + 1, TopHeight')
    <3>1. TopHeight + 1..TopHeight = {}
      BY <1>7
    <3>2. Metas(N, off, TopHeight + 1, TopHeight) = {}
      BY <3>1 DEF Metas
    <3> QED
      BY <1>2, <1>12, <1>19, <3>2, Zenon
  <2>2. rw'.pb = IF batch'.changed THEN batch'.pb ELSE db'.pb
    <3>1. ~batch'.changed
      BY <1>2 DEF NoChange
    <3> QED
      BY <1>2, <1>13, <3>1, Zenon
  <2>3. /\ rw'.height = TopHeight' /\ rw'.txLen = off[TopHeight'] /\ rw'.hdLen = TopHeight'
        /\ Holds(Whole', N, off, e, TopHeight') /\ Full(Whole', off, e, TopHeight')
    BY <1>2, <1>8, <1>19, <1>20, Zenon
  <2> QED
    BY <2>1, <2>2, <2>3, Zenon DEF Counted
<1>23. AtPlace(N, off, e)'
  <2>1. rw'.pb = InfoOf(off, e, TopHeight') /\ buf' = EmptyFiles
    BY <1>2, <1>5, <1>9, <1>19, Zenon
  <2> QED
    BY <1>2, <1>17, <1>22, <2>1 DEF AtPlace, Idle, Counting, Working, Places
<1>24. Layout(db.preactivated, N, off, e)' /\ (TopHeight > 0 => Len(N) + 1 = TopHeight)'
  <2>1. Layout(db.preactivated, N, off, e)
    BY <1>1 DEF StandsFor
  <2> QED
    BY <1>5, <1>12, <1>19, <2>1, Zenon
<1> QED
  BY <1>18, <1>21, <1>23, <1>24 DEF StandsFor

LEMMA RollbackFailsStep == BInv /\ RollbackFails /\ InfoKept' => BInv'
<1>1. SUFFICES ASSUME BTypeOK, NEW N, NEW off, NEW e, StandsFor(N, off, e), RollbackFails,
                      InfoKept'
               PROVE  BTypeOK' /\ StandsFor(N, off, e)'
  BY DEF BInv
<1>2. /\ pc = "up" /\ pc' = pc /\ file' = file /\ buf' = buf /\ rw' = rw
      /\ blockInfo' = blockInfo /\ batch' = NoChange /\ blocksNum' = blocksNum
      /\ lastBlock' = lastBlock /\ db' = db
  BY <1>1 DEF RollbackFails
<1>3. BTypeOK'
  <2>1. NoChange \in [changed : BOOLEAN, pb : Infos]
    BY DEF NoProtobuf, Infos, NoChange
  <2> QED
    BY <1>1, <1>2, <2>1 DEF BTypeOK, Places
<1>4. TopHeight' = TopHeight /\ Whole' = Whole
  BY <1>2 DEF TopHeight, Whole
<1>5. /\ blocksNum = 0 /\ buf = EmptyFiles /\ blockInfo = {}
      /\ Counted(N, off, e) /\ rw.pb = InfoOf(off, e, TopHeight) /\ lastBlock = N
  <2>1. Idle /\ Counting /\ Working
    BY <1>2 DEF Idle, Counting, Working, Places
  <2> QED
    BY <1>1, <2>1, Zenon DEF StandsFor, AtPlace
<1>6. rw'.pb = IF batch'.changed THEN batch'.pb ELSE db'.pb
  <2>1. ~batch'.changed /\ pc' = "up"
    BY <1>2 DEF NoChange
  <2> QED
    BY <1>1, <2>1 DEF InfoKept
<1>7. Counted(N, off, e)'
  BY <1>2, <1>4, <1>5, <1>6, Zenon DEF Counted
<1>8. AtPlace(N, off, e)'
  <2>1. /\ rw'.pb = InfoOf(off, e, TopHeight') /\ lastBlock' = N
        /\ blocksNum' = 0 /\ buf' = EmptyFiles /\ blockInfo' = {} /\ pc' = "up"
    BY <1>2, <1>4, <1>5, Zenon
  <2> QED
    BY <1>7, <2>1 DEF AtPlace, Idle, Counting, Working, Places
<1>9. Stored(N, off, e)'
  BY <1>1, <1>2, Zenon DEF StandsFor, Stored
<1>10. Layout(db.preactivated, N, off, e)' /\ (TopHeight > 0 => Len(N) + 1 = TopHeight)'
  BY <1>1, <1>2, <1>4, Zenon DEF StandsFor
<1> QED
  BY <1>3, <1>8, <1>9, <1>10 DEF StandsFor

LEMMA AddBlocksFailsStep == BInv /\ AddBlocksFails => BInv'
<1>1. SUFFICES ASSUME BTypeOK, NEW N, NEW off, NEW e, StandsFor(N, off, e), AddBlocksFails,
                      NEW n, n = db.height
               PROVE  BTypeOK' /\ StandsFor(Lower(N, n), off, e)'
  BY DEF BInv
<1>2. /\ buf' = EmptyFiles /\ rw' = rw /\ blockInfo' = {} /\ batch' = NoChange
      /\ blocksNum' = 0 /\ pc' = "syncing" /\ db' = db /\ file' \in SomeWritten
  BY <1>1 DEF AddBlocksFails
<1>3. Working /\ lastBlock' = BlockIDByHeight(rw.pb, db.height)
  BY <1>1 DEF AddBlocksFails, Working
<1>4. /\ n > 0 /\ Fits(rw.pb, off, e, n) /\ BlockIDByHeight(rw.pb, n) = Ancestor(N, n)
  BY <1>1, <1>3, WorkingFacts
<1>5. /\ N \in Chain /\ off \in [Nat -> Nat] /\ e \in Nat \ {0}
      /\ n \in 0..Len(N) + 1 /\ n \in Nat /\ Offsets(N, off)
  BY <1>1, StandsForTypes
<1>6. Holds(file, N, off, e, n) /\ Layout(db.preactivated, N, off, e)
      /\ db.meta = Metas(N, off, 1, n)
  BY <1>1 DEF StandsFor, Stored
<1>7. file' \in Files /\ Holds(file', N, off, e, n)
  BY <1>1, <1>2, <1>5, <1>6, SomeWrittenFacts
<1>8. /\ Layout(db.preactivated, Lower(N, n), off, e)
      /\ n > 0 => Len(Lower(N, n)) + 1 = n
      /\ Holds(file', Lower(N, n), off, e, n)
      /\ Metas(Lower(N, n), off, 1, n) = Metas(N, off, 1, n)
  BY <1>5, <1>6, <1>7, LowerFacts
<1>9. lastBlock' = Lower(N, n) /\ Lower(N, n) \in Chain
  <2>1. n # 0
    BY <1>4, <1>5
  <2>2. lastBlock' = Lower(N, n)
    BY <1>1, <1>3, <1>4, <2>1 DEF Lower
  <2>3. Lower(N, n) \in Chain
    BY <1>8 DEF Layout
  <2> QED
    BY <2>2, <2>3
<1>10. BTypeOK'
  <2>1. NoChange \in [changed : BOOLEAN, pb : Infos]
    BY DEF NoProtobuf, Infos, NoChange
  <2> QED
    BY <1>1, <1>2, <1>7, <1>9, <2>1, EmptyFilesType DEF BTypeOK, Places
<1>11. TopHeight' = n
  BY <1>1, <1>2, <1>5 DEF TopHeight
<1>12. Stored(Lower(N, n), off, e)'
  <2>1. n # 0
    BY <1>4, <1>5
  <2>2. db.height > 0 => Fits(db.pb, off, e, db.height) \/ Pending(db.pb, e, db.height)
    BY <1>1 DEF StandsFor, Stored
  <2> QED
    BY <1>1, <1>2, <1>6, <1>8, <2>1, <2>2, Zenon DEF Stored
<1>13. AtPlace(Lower(N, n), off, e)'
  <2>1. Fits(rw'.pb, off, e, db'.height)
    BY <1>1, <1>2, <1>4, Zenon
  <2> QED
    BY <1>2, <1>9, <2>1 DEF AtPlace, Idle, Counting, Working, Places
<1> QED
  BY <1>2, <1>8, <1>10, <1>11, <1>12, <1>13 DEF StandsFor

\* The metas that a rollback leaves.
Gone(N, h, k) == {Ancestor(N, i) : i \in h + 1..k}

LEMMA MetasBelow ==
    ASSUME NEW N \in Chain, NEW off, NEW k \in 0..Len(N) + 1, NEW h \in 0..k
    PROVE  \A m : m \in Metas(N, off, 1, k) /\ m.block \notin Gone(N, h, k)
                    <=> m \in Metas(N, off, 1, h)
<1> DEFINE gone == Gone(N, h, k)
<1>0. Len(N) \in Nat
  BY DEF Chain
<1>1. k \in Nat /\ h \in Nat /\ h <= k /\ k <= Len(N) + 1
  BY <1>0
<1>2. \A i \in 1..k : i \in 1..h \/ i \in h + 1..k
  BY <1>1
<1>3. \A i \in 1..h : i \in 1..k /\ i \in 1..Len(N) + 1
  BY <1>0, <1>1
<1>4. \A i \in h + 1..k : i \in 1..Len(N) + 1
  BY <1>0, <1>1
<1>5. \A i \in 1..h, j \in h + 1..k : i # j
  BY <1>1
<1>6. \A i \in 1..h : Ancestor(N, i) \notin gone
  <2> SUFFICES ASSUME NEW i \in 1..h, NEW j \in h + 1..k, Ancestor(N, i) = Ancestor(N, j)
               PROVE  FALSE
    BY Zenon DEF Gone
  <2>1. i = j
    BY <1>3, <1>4, AncestorsDiffer
  <2> QED
    BY <1>5, <2>1
<1>7. \A i : Meta(N, off, i).block = Ancestor(N, i)
  BY DEF Meta
<1> HIDE DEF gone
<1>8. \A m \in Metas(N, off, 1, k) : m.block \notin gone => m \in Metas(N, off, 1, h)
  <2> SUFFICES ASSUME NEW i \in 1..k, Ancestor(N, i) \notin gone
               PROVE  Meta(N, off, i) \in Metas(N, off, 1, h)
    BY <1>7, Zenon DEF Metas
  <2>1. i \in 1..h
    BY <1>2, Zenon DEF gone, Gone
  <2> QED
    BY <2>1 DEF Metas
<1>9. \A m \in Metas(N, off, 1, h) : m \in Metas(N, off, 1, k) /\ m.block \notin gone
  <2> SUFFICES ASSUME NEW i \in 1..h
               PROVE  /\ Meta(N, off, i) \in Metas(N, off, 1, k)
                      /\ Meta(N, off, i).block \notin gone
    BY Zenon DEF Metas
  <2>1. Meta(N, off, i) \in Metas(N, off, 1, k)
    BY <1>3 DEF Metas
  <2> QED
    BY <1>6, <1>7, <2>1, Zenon
<1> QED
  BY <1>8, <1>9, Zenon DEF gone

LEMMA RollbackStep == BInv /\ (\E h \in 1..MaxHeight : Rollback(h)) => BInv'
<1>1. SUFFICES ASSUME BTypeOK, NEW N, NEW off, NEW e, StandsFor(N, off, e),
                      NEW h \in 1..MaxHeight, Rollback(h), NEW n, n = db.height
               PROVE  BTypeOK' /\ StandsFor(Lower(N, h), off, e)'
  BY DEF BInv
<1> DEFINE gone == {BlockIDByHeight(rw.pb, i) : i \in h + 1..db.height}
<1>2. /\ pc = "up" /\ pc' = "syncing" /\ file' = file /\ buf' = buf /\ rw' = rw
      /\ blockInfo' = blockInfo /\ batch' = NoChange /\ blocksNum' = blocksNum
  BY <1>1 DEF Rollback
<1>3. lastBlock' = BlockIDByHeight(rw.pb, h) /\ h \in db.min..db.height
  BY <1>1 DEF Rollback
<1>4. db' = [db EXCEPT !.height = h, !.meta = {m \in @ : m.block \notin gone},
                       !.pb = IF batch.changed THEN batch.pb ELSE @]
  BY <1>1 DEF Rollback
<1>5. /\ TopHeight = n /\ blocksNum = 0
      /\ buf = EmptyFiles /\ blockInfo = {}
      /\ Counted(N, off, e)
      /\ rw.pb = InfoOf(off, e, n)
  BY <1>1, <1>2, UpFacts
<1>6. rw.pb = IF batch.changed THEN batch.pb ELSE db.pb
  BY <1>5 DEF Counted
<1>7. /\ N \in Chain /\ off \in [Nat -> Nat] /\ e \in Nat \ {0}
      /\ n \in 0..Len(N) + 1 /\ n \in Nat /\ Offsets(N, off)
  BY <1>1, StandsForTypes
<1>8. /\ n \in Nat /\ h \in Nat /\ h >= 1 /\ h <= n /\ h \in 0..n /\ h \in 1..n
  <2>1. db.min \in Nat \ {0} /\ db.height \in Nat
    BY <1>1 DEF BTypeOK
  <2> QED
    BY <1>1, <1>3, <2>1
<1>9. h \in 0..Len(N) + 1
  <2>1. Len(N) \in Nat /\ n <= Len(N) + 1
    BY <1>1, StandsForNumbers
  <2> QED
    BY <1>8, <2>1
<1>10. Holds(file, N, off, e, n) /\ Layout(db.preactivated, N, off, e)
       /\ db.meta = Metas(N, off, 1, n) /\ file \in Files
  BY <1>1 DEF StandsFor, Stored, BTypeOK
<1>11. Fits(rw.pb, off, e, n)
  BY <1>5 DEF Fits
<1>12. \A i \in 1..n : BlockIDByHeight(rw.pb, i) = Ancestor(N, i)
  <2>1. rw.pb \in Infos
    BY <1>1 DEF BTypeOK
  <2> QED
    BY <1>1, <1>11, <2>1, ReadsChain
<1>13. gone = Gone(N, h, n)
  <2>1. \A i \in h + 1..n : i \in 1..n
    BY <1>8
  <2> QED
    BY <1>1, <1>12, <2>1, Zenon DEF Gone
<1>14. {m \in db.meta : m.block \notin gone} = Metas(N, off, 1, h)
  <2> HIDE DEF gone
  <2>1. \A m : m \in Metas(N, off, 1, n) /\ m.block \notin Gone(N, h, n)
                <=> m \in Metas(N, off, 1, h)
    BY <1>7, <1>8, MetasBelow
  <2> QED
    BY <1>10, <1>13, <2>1, Zenon
<1>15. Holds(file, N, off, e, h)
  BY <1>7, <1>8, <1>10, HoldsPart
<1>16. /\ Layout(db.preactivated, Lower(N, h), off, e)
       /\ h > 0 => Len(Lower(N, h)) + 1 = h
       /\ Holds(file, Lower(N, h), off, e, h)
       /\ Metas(Lower(N, h), off, 1, h) = Metas(N, off, 1, h)
  BY <1>9, <1>10, <1>15, LowerFacts
<1>17. Fits(rw.pb, off, e, h)
  <2>1. Fits(InfoOf(off, e, n), off, e, h)
    BY <1>7, <1>8, <1>10, InfoFitsPrefix
  <2> QED
    BY <1>5, <2>1
<1>18. lastBlock' = Lower(N, h) /\ Lower(N, h) \in Chain
  <2>1. h # 0
    BY <1>8
  <2>2. lastBlock' = Lower(N, h)
    BY <1>3, <1>8, <1>12, <2>1, Zenon DEF Lower
  <2>3. Lower(N, h) \in Chain
    BY <1>16 DEF Layout
  <2> QED
    BY <2>2, <2>3
<1>19. db' = [height |-> h, min |-> db.min, meta |-> Metas(N, off, 1, h), pb |-> rw.pb,
              preactivated |-> db.preactivated]
  <2>1. db \in [height : Nat, min : Nat \ {0}, meta : SUBSET MetaRecs, pb : Infos,
                preactivated : BOOLEAN]
    BY <1>1 DEF BTypeOK
  <2> HIDE DEF gone
  <2>2. db' = [db EXCEPT !.height = h, !.meta = Metas(N, off, 1, h), !.pb = rw.pb]
    BY <1>4, <1>6, <1>14, Zenon
  <2> QED
    BY <2>1, <2>2
<1>20. /\ db'.height = h /\ db'.meta = Metas(N, off, 1, h) /\ db'.pb = rw.pb
       /\ db'.preactivated = db.preactivated
  BY <1>19
<1>21. BTypeOK'
  <2>1. NoChange \in [changed : BOOLEAN, pb : Infos]
    BY DEF NoProtobuf, Infos, NoChange
  <2>2. Metas(N, off, 1, h) \subseteq MetaRecs
    <3>1. 1 \in Nat \ {0}
      OBVIOUS
    <3> QED
      BY <1>7, <1>9, <3>1, MetaType
  <2>3. rw.pb \in Infos /\ db.min \in Nat \ {0} /\ db.preactivated \in BOOLEAN
    BY <1>1 DEF BTypeOK
  <2>4. db' \in [height : Nat, min : Nat \ {0}, meta : SUBSET MetaRecs, pb : Infos,
                 preactivated : BOOLEAN]
    BY <1>8, <1>19, <2>2, <2>3
  <2> QED
    BY <1>1, <1>2, <1>18, <2>1, <2>4 DEF BTypeOK, Places
<1>22. TopHeight' = h
  <2>1. TopHeight' = db'.height + blocksNum'
    BY DEF TopHeight
  <2>2. h + 0 = h
    BY <1>8
  <2> QED
    BY <1>2, <1>5, <1>20, <2>1, <2>2, Zenon
<1>23. Stored(Lower(N, h), off, e)'
  <2>1. h # 0
    BY <1>8
  <2>2. Fits(db'.pb, off, e, db'.height)
    BY <1>17, <1>20, Zenon
  <2> QED
    BY <1>2, <1>16, <1>20, <2>1, <2>2, Zenon DEF Stored
<1>24. AtPlace(Lower(N, h), off, e)'
  <2>1. Fits(rw'.pb, off, e, db'.height)
    BY <1>2, <1>17, <1>20, Zenon
  <2>2. blocksNum' = 0 /\ blockInfo' = {} /\ buf' = EmptyFiles
    BY <1>2, <1>5, Zenon
  <2> QED
    BY <1>2, <1>18, <2>1, <2>2 DEF AtPlace, Idle, Counting, Working, Places
<1>25. Layout(db.preactivated, Lower(N, h), off, e)'
  BY <1>16, <1>20, Zenon
<1>26. (TopHeight > 0 => Len(Lower(N, h)) + 1 = TopHeight)'
  BY <1>16, <1>22, Zenon
<1> QED
  BY <1>21, <1>23, <1>24, <1>25, <1>26 DEF StandsFor

-----------------------------------------------------------------------------
(* A block is processed.                                                   *)

\* The edge of chain N with one block more, k the height of N.
NewEdge(pre, M, k, e, e2) ==
    \/ e <= k /\ e2 = e
    \/ /\ e > k /\ e2 = k + 1
       /\ ActiveAt(pre, M, k + 2) /\ NeedToFinishVotingPeriod(k + 1)
    \/ e > k /\ e2 = k + 2 /\ ~ActiveAt(pre, M, k + 2)

LEMMA NewEdgeExists ==
    ASSUME NEW pre, NEW N \in Chain, NEW c \in Contents, NEW e \in Nat \ {0},
           Edge(pre, N, e), Periods(N),
           c.approves => NeedToFinishVotingPeriod(Len(N) + 2)
    PROVE  /\ Periods(Append(N, c))
           /\ \E e2 \in Nat \ {0} : /\ Edge(pre, Append(N, c), e2)
                                    /\ NewEdge(pre, Append(N, c), Len(N) + 1, e, e2)
<1> DEFINE M == Append(N, c)
<1>1. Len(N) \in Nat
  BY DEF Chain
<1>2. (Len(N) + 1) + 1 = Len(N) + 2 /\ (Len(N) + 1) + 2 = Len(N) + 3
      /\ Len(N) + 2 \in Nat \ {0} /\ Len(N) + 3 \in Nat \ {0}
  BY <1>1
<1>3. /\ Periods(M)
      /\ e <= Len(N) + 1 => Edge(pre, M, e)
      /\ e > Len(N) + 1 /\ ActiveAt(pre, M, Len(N) + 3)
           => Edge(pre, M, Len(N) + 2) /\ NeedToFinishVotingPeriod(Len(N) + 2)
      /\ e > Len(N) + 1 /\ ~ActiveAt(pre, M, Len(N) + 3) => Edge(pre, M, Len(N) + 3)
  BY EdgeAppend
<1> HIDE DEF M
<1>4. CASE e <= Len(N) + 1
  <2>1. Edge(pre, M, e) /\ NewEdge(pre, M, Len(N) + 1, e, e)
    BY <1>3, <1>4, Zenon DEF NewEdge
  <2> QED
    BY <1>3, <2>1 DEF M
<1>5. CASE e > Len(N) + 1 /\ ActiveAt(pre, M, Len(N) + 3)
  <2>1. Edge(pre, M, Len(N) + 2) /\ NewEdge(pre, M, Len(N) + 1, e, Len(N) + 2)
    BY <1>2, <1>3, <1>5, Zenon DEF NewEdge
  <2> QED
    BY <1>2, <1>3, <2>1, Zenon DEF M
<1>6. CASE e > Len(N) + 1 /\ ~ActiveAt(pre, M, Len(N) + 3)
  <2>1. Edge(pre, M, Len(N) + 3) /\ NewEdge(pre, M, Len(N) + 1, e, Len(N) + 3)
    BY <1>2, <1>3, <1>6, Zenon DEF NewEdge
  <2> QED
    BY <1>2, <1>3, <2>1, Zenon DEF M
<1>7. e <= Len(N) + 1 \/ e > Len(N) + 1
  BY <1>1
<1> QED
  BY <1>4, <1>5, <1>6, <1>7

LEMMA ZeroOrMore ==
    ASSUME NEW k \in Nat
    PROVE  \A h \in 0..k + 1 : h = k + 1 \/ h \in 0..k
  OBVIOUS

LEMMA SumAbove ==
    /\ \A i, j \in Nat : i + j \in Nat /\ i + j >= i
    /\ \A h, i, j \in Nat : h <= i /\ j >= i => h <= j
  OBVIOUS

\* The offsets, with those of one block more.
MoreOff(N, off, c, k, off2) ==
    /\ off2 \in [Nat -> Nat]
    /\ Offsets(Append(N, c), off2)
    /\ \A h \in 0..k : off2[h] = off[h]
    /\ off2[k + 1] = off[k] + c.txs

LEMMA MoreOffsets ==
    ASSUME NEW N \in Chain, NEW off \in [Nat -> Nat], Offsets(N, off), NEW c \in Contents,
           NEW k, k = Len(N) + 1
    PROVE  \E off2 : MoreOff(N, off, c, k, off2)
<1>1. Len(N) \in Nat /\ k \in Nat /\ k + 1 \in Nat
  BY DEF Chain
<1>2. c.txs \in Nat /\ off[k] \in Nat
  BY <1>1, BlockStorageAssumption DEF Contents
<1> DEFINE M == Append(N, c)
           n == off[k] + c.txs
           off2 == [off EXCEPT ![k + 1] = n]
<1>3. n \in Nat /\ n >= off[k]
  BY <1>2, SumAbove, Zenon
<1> HIDE DEF n
<1>4. off2 \in [Nat -> Nat]
  BY <1>3
<1>5. off2[k + 1] = n /\ \A h \in 0..k : off2[h] = off[h]
  BY <1>1
<1> HIDE DEF off2
<1>6. /\ Len(M) = k /\ TxSize(M) = c.txs /\ M \in Chain
      /\ \A h \in 1..k : Ancestor(M, h) = Ancestor(N, h)
  BY AppendFacts
<1>7. Ancestor(M, k + 1) = M
  BY <1>6, TopAncestor
<1> HIDE DEF M
<1>8. off2[0] = 0
  <2>1. 0 \in 0..k
    BY <1>1
  <2> QED
    BY <1>5, <2>1 DEF Offsets
<1>9. \A h \in 1..k + 1 : h = k + 1 \/ h \in 1..k
  BY <1>1, OneMore
<1>10. ASSUME NEW h \in 1..k + 1
       PROVE  off2[h] = off2[h - 1] + TxSize(Ancestor(M, h))
  <2>1. CASE h = k + 1
    <3>1. h - 1 = k /\ k \in 0..k
      BY <1>1, <2>1
    <3>2. off2[h - 1] = off[k]
      BY <1>5, <3>1, Zenon
    <3>3. off2[h] = off[k] + c.txs
      BY <1>5, <2>1 DEF n
    <3>4. TxSize(Ancestor(M, h)) = c.txs
      BY <1>6, <1>7, <2>1
    <3> QED
      BY <3>2, <3>3, <3>4, Zenon
  <2>2. CASE h \in 1..k
    <3>1. h \in 0..k /\ h - 1 \in 0..k /\ h \in 1..Len(N) + 1
      BY <1>1, <2>2
    <3>2. off2[h] = off[h] /\ off2[h - 1] = off[h - 1]
      BY <1>5, <3>1, Zenon
    <3>3. off[h] = off[h - 1] + TxSize(Ancestor(N, h))
      BY <3>1, Zenon DEF Offsets
    <3>4. Ancestor(M, h) = Ancestor(N, h)
      BY <1>6, <2>2
    <3> QED
      BY <3>2, <3>3, <3>4, Zenon
  <2> QED
    BY <1>9, <2>1, <2>2
<1>11. ASSUME NEW i \in 0..k + 1, NEW j \in 0..k + 1, i <= j
       PROVE  off2[i] <= off2[j]
  <2>1. CASE j \in 0..k
    <3>1. i \in 0..k /\ i \in 0..Len(N) + 1 /\ j \in 0..Len(N) + 1
      BY <1>1, <1>11, <2>1
    <3>2. off[i] <= off[j]
      BY <1>11, <3>1, Zenon DEF Offsets
    <3> QED
      BY <1>5, <2>1, <3>1, <3>2, Zenon
  <2>2. CASE j = k + 1 /\ i \in 0..k
    <3>1. i \in 0..Len(N) + 1 /\ k \in 0..Len(N) + 1 /\ i <= k /\ i \in Nat
      BY <1>1, <2>2
    <3>2. off[i] <= off[k]
      BY <3>1, Zenon DEF Offsets
    <3>3. off[i] \in Nat
      BY <3>1
    <3>4. off[i] <= n
      BY <1>2, <1>3, <3>2, <3>3, SumAbove, Zenon
    <3> QED
      BY <1>5, <2>2, <3>4, Zenon
  <2>3. CASE j = k + 1 /\ i = k + 1
    BY <1>3, <1>5, <2>3
  <2>4. (i \in 0..k \/ i = k + 1) /\ (j \in 0..k \/ j = k + 1)
    BY <1>1, ZeroOrMore, Zenon
  <2>5. j \in 0..k \/ (j = k + 1 /\ i \in 0..k) \/ (j = k + 1 /\ i = k + 1)
    BY <2>4
  <2> QED
    BY <2>1, <2>2, <2>3, <2>5
<1>12. Offsets(M, off2)
  BY <1>6, <1>8, <1>10, <1>11, Zenon DEF Offsets
<1>13. MoreOff(N, off, c, k, off2)
  BY <1>4, <1>5, <1>12, Zenon DEF M, n, MoreOff
<1> QED
  BY <1>13

\* Chain M is chain N, of height k, with a block of contents c on top.
Grows(pre, N, off, e, c, k, M, off2, e2) ==
    /\ N \in Chain /\ off \in [Nat -> Nat] /\ e \in Nat \ {0} /\ Offsets(N, off)
    /\ M = Append(N, c) /\ k = Len(N) + 1 /\ k \in Nat /\ c \in Contents
    /\ Layout(pre, M, off2, e2)
    /\ \A h \in 0..k : off2[h] = off[h]
    /\ off2[k + 1] = off[k] + c.txs
    /\ NewEdge(pre, M, k, e, e2)

LEMMA ChainGrows ==
    ASSUME NEW pre, NEW N, NEW off, NEW e, Layout(pre, N, off, e), NEW c \in Contents,
           c.approves => NeedToFinishVotingPeriod(Len(N) + 2),
           NEW k, k = Len(N) + 1, NEW M, M = Append(N, c),
           e > k /\ ActiveAt(pre, M, k + 2) /\ Edge(pre, M, k + 1) => c.txs > 0
    PROVE  \E off2, e2 : Grows(pre, N, off, e, c, k, M, off2, e2)
<1>1. /\ N \in Chain /\ off \in [Nat -> Nat] /\ e \in Nat \ {0}
      /\ Periods(N) /\ Edge(pre, N, e) /\ Offsets(N, off)
      /\ (e <= Len(N) + 1 => off[e - 1] < off[e])
  BY DEF Layout
<1>2. Len(N) \in Nat
  BY <1>1 DEF Chain
<1>3. k \in Nat /\ Len(M) + 1 = k + 1
  BY <1>1, <1>2, AppendFacts
<1>4. PICK e2 \in Nat \ {0} : Edge(pre, M, e2) /\ NewEdge(pre, M, k, e, e2)
  BY <1>1, NewEdgeExists
<1>5. Periods(M)
  BY <1>1, NewEdgeExists
<1>12. PICK off2 : MoreOff(N, off, c, k, off2)
  BY <1>1, MoreOffsets
<1>6. /\ off2 \in [Nat -> Nat] /\ Offsets(M, off2)
      /\ \A h \in 0..k : off2[h] = off[h]
      /\ off2[k + 1] = off[k] + c.txs
  BY <1>12, Zenon DEF MoreOff
<1>7. M \in Chain
  BY <1>1, AppendFacts
<1>8. c.txs \in Nat
  BY BlockStorageAssumption DEF Contents
<1>9. ASSUME e2 <= k + 1 PROVE off2[e2 - 1] < off2[e2]
  <2>1. CASE e <= k /\ e2 = e
    <3>1. e - 1 \in 0..k /\ e \in 0..k
      BY <1>1, <1>3, <2>1
    <3>2. off2[e - 1] = off[e - 1] /\ off2[e] = off[e]
      BY <1>6, <3>1, Zenon
    <3>3. off[e - 1] < off[e]
      BY <1>1, <2>1, Zenon
    <3> QED
      BY <2>1, <3>2, <3>3, Zenon
  <2>2. CASE e > k /\ e2 = k + 1 /\ ActiveAt(pre, M, k + 2)
    <3>1. c.txs > 0
      BY <1>4, <2>2, Zenon
    <3>2. e2 - 1 = k /\ k \in 0..k
      BY <1>3, <2>2
    <3>3. off2[e2 - 1] = off[k] /\ off2[e2] = off[k] + c.txs
      BY <1>6, <2>2, <3>2, Zenon
    <3>4. off[k] \in Nat
      BY <1>1, <1>3
    <3>5. \A i, j \in Nat : j > 0 => i < i + j
      OBVIOUS
    <3>6. off[k] < off[k] + c.txs
      BY <1>8, <3>1, <3>4, <3>5, Zenon
    <3> QED
      BY <3>3, <3>6, Zenon
  <2>3. CASE e2 = k + 2
    <3>1. ~(k + 2 <= k + 1)
      BY <1>3
    <3> QED
      BY <1>9, <2>3, <3>1, Zenon
  <2> QED
    BY <1>4, <2>1, <2>2, <2>3, Zenon DEF NewEdge
<1>10. Layout(pre, M, off2, e2)
  BY <1>3, <1>4, <1>5, <1>6, <1>7, <1>9, Zenon DEF Layout
<1>11. Grows(pre, N, off, e, c, k, M, off2, e2)
  BY <1>1, <1>3, <1>4, <1>6, <1>10, Zenon DEF Grows
<1> QED
  BY <1>11

LEMMA GrowsFacts ==
    ASSUME NEW pre, NEW N, NEW off, NEW e, NEW c, NEW k, NEW M, NEW off2, NEW e2,
           Grows(pre, N, off, e, c, k, M, off2, e2)
    PROVE  /\ e \in Nat \ {0} /\ e2 \in Nat \ {0} /\ k \in Nat \ {0}
           /\ (e2 = e /\ e <= k) \/ (e > k /\ e2 > k)
           /\ Len(M) = k /\ k = Len(N) + 1 /\ M \in Chain /\ M # Genesis
           /\ TxSize(M) = c.txs
           /\ \A h \in 1..k : Ancestor(M, h) = Ancestor(N, h)
<1>1. /\ N \in Chain /\ e \in Nat \ {0} /\ M = Append(N, c) /\ k = Len(N) + 1
      /\ c \in Contents
  BY DEF Grows
<1>2. e2 \in Nat \ {0}
  BY DEF Grows, Layout
<1>3. /\ M \in Chain /\ Len(M) = k /\ M # Genesis /\ TxSize(M) = c.txs
      /\ \A h \in 1..k : Ancestor(M, h) = Ancestor(N, h)
  BY <1>1, AppendFacts
<1>4. Len(N) \in Nat
  BY <1>1 DEF Chain
<1>5. k \in Nat \ {0} /\ k + 1 > k /\ k + 2 > k
  BY <1>1, <1>4
<1>6. NewEdge(pre, M, k, e, e2)
  BY DEF Grows
<1>7. (e2 = e /\ e <= k) \/ (e > k /\ e2 > k)
  BY <1>5, <1>6, Zenon DEF NewEdge
<1> QED
  BY <1>1, <1>2, <1>3, <1>5, <1>7

\* Info that fits blocks of chain N fits them as blocks of chain M.
LEMMA FitsGrown ==
    ASSUME NEW off, NEW off2, NEW e \in Nat \ {0}, NEW e2 \in Nat \ {0}, NEW k \in Nat,
           (e2 = e /\ e <= k) \/ (e > k /\ e2 > k), NEW h \in 1..k,
           \A i \in 0..k : off2[i] = off[i], NEW p,
           Fits(p, off, e, h) \/ Pending(p, e, h)
    PROVE  Fits(p, off2, e2, h) \/ Pending(p, e2, h)
<1>1. h \in Nat /\ h \in 0..k
  OBVIOUS
<1>2. off2[h] = off[h]
  BY <1>1, Zenon
<1>3. CASE e2 = e /\ e <= k
  <2>1. e \in 0..k
    BY <1>3
  <2>2. off2[e] = off[e]
    BY <2>1, Zenon
  <2>3. InfoOf(off2, e, h) = InfoOf(off, e, h)
    BY <2>2, Zenon DEF InfoOf
  <2> QED
    BY <1>2, <1>3, <2>3, Zenon DEF Fits
<1>4. CASE e > k /\ e2 > k
  <2>1. ~(e <= h) /\ ~(e2 <= h) /\ e2 > h /\ ~(e = 1 /\ h = 1)
    BY <1>4
  <2>2. InfoOf(off2, e2, h) = NoProtobuf /\ InfoOf(off, e, h) = NoProtobuf
    BY <2>1, Zenon DEF InfoOf
  <2>3. Fits(p, off, e, h)
    BY <2>1, Zenon DEF Pending
  <2> QED
    BY <1>2, <2>1, <2>2, <2>3, Zenon DEF Fits
<1> QED
  BY <1>3, <1>4, Zenon

LEMMA MetasOneMore ==
    ASSUME NEW N, NEW off, NEW i \in Nat, NEW k \in Nat, i <= k + 1
    PROVE  Metas(N, off, i, k) \cup {Meta(N, off, k + 1)} = Metas(N, off, i, k + 1)
<1>1. \A h : h \in i..k + 1 <=> h \in i..k \/ h = k + 1
  OBVIOUS
<1> QED
  BY <1>1, Zenon DEF Metas

\* The block can be written: the files and the memory are at the height below.
LEMMA ReadyToGrow ==
    ASSUME BTypeOK, NEW N, NEW off, NEW e, StandsFor(N, off, e), Working,
           NEW c, NEW k, k = TopHeight, NEW M, NEW off2, NEW e2,
           Grows(db.preactivated, N, off, e, c, k, M, off2, e2)
    PROVE  ReadyFor(M, off2, e2, k)
<1>1. /\ e \in Nat \ {0} /\ e2 \in Nat \ {0} /\ k \in Nat \ {0}
      /\ (e2 = e /\ e <= k) \/ (e > k /\ e2 > k)
      /\ Len(M) = k /\ k = Len(N) + 1 /\ M \in Chain
      /\ \A h \in 1..k : Ancestor(M, h) = Ancestor(N, h)
  BY GrowsFacts
<1>2. /\ N \in Chain /\ off \in [Nat -> Nat] /\ Offsets(N, off)
      /\ \A h \in 0..k : off2[h] = off[h]
  BY Zenon DEF Grows
<1>3. off2 \in [Nat -> Nat] /\ Offsets(M, off2) /\ Edge(db.preactivated, M, e2)
  BY DEF Grows, Layout
<1>4. Counted(N, off, e) /\ rw.pb = InfoOf(off, e, k)
  BY WorkingFacts
<1>5. /\ rw.height = k /\ rw.txLen = off[k] /\ rw.hdLen = k
      /\ Holds(Whole, N, off, e, k) /\ Full(Whole, off, e, k)
  BY <1>4 DEF Counted
<1>6. k \in 0..k /\ k \in 0..Len(N) + 1
  BY <1>1
<1>7. e2 = e \/ (e >= k /\ e2 >= k)
  BY <1>1
<1>8. Holds(Whole, M, off2, e2, k)
  <2>1. Whole \in Files
    BY AllWrittenIs
  <2> QED
    BY <1>1, <1>2, <1>3, <1>5, <1>6, <1>7, <2>1, HoldsPart
<1>9. off2[k] = off[k]
  BY <1>2, <1>6, Zenon
<1>10. IdAt(e2, k) = IdAt(e, k)
  BY <1>1, <1>7, SameSide
<1>11. Full(Whole, off2, e2, k)
  BY <1>5, <1>9, <1>10, Zenon DEF Full
<1>12. rw.pb.on <=> k + 1 > e2
  <2>1. CASE e2 = e /\ e <= k
    <3>1. rw.pb.on
      BY <1>4, <2>1 DEF InfoOf
    <3>2. k + 1 > e2
      BY <1>1, <2>1
    <3> QED
      BY <3>1, <3>2
  <2>2. CASE e > k /\ e2 > k
    <3>1. ~(e <= k) /\ ~(k + 1 > e2)
      BY <1>1, <2>2
    <3>2. rw.pb = NoProtobuf
      BY <1>4, <3>1 DEF InfoOf
    <3>3. ~rw.pb.on
      BY <3>2 DEF NoProtobuf
    <3> QED
      BY <3>1, <3>3
  <2> QED
    BY <1>1, <2>1, <2>2
<1>13. k \in Nat /\ rw.txLen = off2[k]
  BY <1>1, <1>5, <1>9
<1> QED
  BY <1>1, <1>3, <1>5, <1>8, <1>11, <1>12, <1>13, Zenon DEF ReadyFor

\* checkProtobufActivation after the block, k + 1 its height.
ProcessedRW(M) ==
    IF NeedToFinishVotingPeriod(Height(M))
    THEN ActivatedRW(WrittenRW(M), M, Height(M) + 1) ELSE WrittenRW(M)

LEMMA ActivatedByBlock ==
    ASSUME BTypeOK, NEW N, NEW off, NEW e, StandsFor(N, off, e), Working,
           NEW c, NEW k, k = TopHeight, NEW M, NEW off2, NEW e2,
           Grows(db.preactivated, N, off, e, c, k, M, off2, e2)
    PROVE  ProcessedRW(M) = [height |-> k + 1, txLen |-> off2[k + 1], hdLen |-> k + 1,
                             pb |-> InfoOf(off2, e2, k + 1)]
<1>1. /\ e \in Nat \ {0} /\ e2 \in Nat \ {0} /\ k \in Nat \ {0}
      /\ (e2 = e /\ e <= k) \/ (e > k /\ e2 > k)
      /\ Len(M) = k
  BY GrowsFacts
<1>2. NewEdge(db.preactivated, M, k, e, e2) /\ \A h \in 0..k : off2[h] = off[h]
  BY Zenon DEF Grows
<1>3. Height(M) = k + 1 /\ Height(M) + 1 = k + 2
  BY <1>1 DEF Height
<1>4. rw.pb = InfoOf(off, e, k)
  BY WorkingFacts
<1> DEFINE r == WrittenRW(M)
<1>5. r = [height |-> k + 1, txLen |-> off2[k + 1], hdLen |-> k + 1, pb |-> rw.pb]
  BY ReadyToGrow, BlockWritten
<1>6. r.height = k + 1 /\ r.txLen = off2[k + 1] /\ r.hdLen = k + 1 /\ r.pb = rw.pb
  <2> HIDE DEF r
  <2> QED
    BY <1>5
<1>7. /\ IsActivatedAtHeight(M, k + 2) <=> ActiveAt(db.preactivated, M, k + 2)
  BY ActiveIs
<1> HIDE DEF r
<1>8. CASE e <= k /\ e2 = e
  <2>1. rw.pb.on
    BY <1>4, <1>8 DEF InfoOf
  <2>2. ProcessedRW(M) = r
    BY <1>6, <2>1, Zenon DEF ProcessedRW, ActivatedRW, r
  <2>3. InfoOf(off2, e2, k + 1) = rw.pb
    <3>1. e \in 0..k /\ e <= k + 1
      BY <1>1, <1>8
    <3>2. off2[e] = off[e]
      BY <1>2, <3>1, Zenon
    <3> QED
      BY <1>4, <1>8, <3>1, <3>2, Zenon DEF InfoOf
  <2> QED
    BY <1>5, <2>2, <2>3, Zenon
<1>9. ASSUME e > k PROVE rw.pb = NoProtobuf /\ ~rw.pb.on
  <2>1. ~(e <= k)
    BY <1>1, <1>9
  <2>2. rw.pb = NoProtobuf
    BY <1>4, <2>1 DEF InfoOf
  <2> QED
    BY <2>2 DEF NoProtobuf
<1>10. CASE /\ e > k /\ e2 = k + 1 /\ ActiveAt(db.preactivated, M, k + 2)
            /\ NeedToFinishVotingPeriod(k + 1)
  <2>1. ~r.pb.on
    BY <1>6, <1>9, <1>10, Zenon
  <2> DEFINE p == [on |-> TRUE, tx |-> r.txLen, hd |-> r.hdLen, after |-> r.height]
  <2>2. ProcessedRW(M) = ActivatedRW(r, M, k + 2)
    BY <1>3, <1>10, Zenon DEF ProcessedRW, r
  <2>3. ActivatedRW(r, M, k + 2) = [r EXCEPT !.pb = p]
    BY <1>7, <1>10, <2>1, Zenon DEF ActivatedRW
  <2>4. p = InfoOf(off2, e2, k + 1)
    <3>1. e2 <= k + 1 /\ e2 = k + 1
      BY <1>1, <1>10
    <3> QED
      BY <1>6, <3>1, Zenon DEF InfoOf
  <2> HIDE DEF p
  <2>5. [r EXCEPT !.pb = p] = [height |-> k + 1, txLen |-> off2[k + 1], hdLen |-> k + 1,
                               pb |-> p]
    BY <1>5
  <2> QED
    BY <2>2, <2>3, <2>4, <2>5, Zenon
<1>11. CASE e > k /\ e2 = k + 2 /\ ~ActiveAt(db.preactivated, M, k + 2)
  <2>1. ProcessedRW(M) = r
    BY <1>3, <1>7, <1>11, Zenon DEF ProcessedRW, ActivatedRW, r
  <2>2. InfoOf(off2, e2, k + 1) = NoProtobuf
    <3>1. ~(e2 <= k + 1)
      BY <1>1, <1>11
    <3> QED
      BY <3>1 DEF InfoOf
  <2> QED
    BY <1>5, <1>9, <1>11, <2>1, <2>2, Zenon
<1> QED
  BY <1>2, <1>8, <1>10, <1>11, Zenon DEF NewEdge

\* What the batch and the database say of the info together.
LEMMA StoredInfoFacts ==
    ASSUME BTypeOK, rw.pb = IF batch.changed THEN batch.pb ELSE db.pb,
           NEW r, r.pb \in Infos, NEW q, q = StoredInfo(batch, rw, r)
    PROVE  /\ q \in [changed : BOOLEAN, pb : Infos]
           /\ r.pb = IF q.changed THEN q.pb ELSE db.pb
<1>1. batch \in [changed : BOOLEAN, pb : Infos]
  BY DEF BTypeOK
<1>2. CASE rw.pb = r.pb
  <2>1. q = batch
    BY <1>2 DEF StoredInfo
  <2> QED
    BY <1>1, <1>2, <2>1, Zenon
<1>3. CASE rw.pb # r.pb
  <2>1. q = [changed |-> TRUE, pb |-> r.pb]
    BY <1>3 DEF StoredInfo
  <2> QED
    BY <2>1
<1> QED
  BY <1>2, <1>3

\* The hypothesis on the block before the first protobuf block.
LEMMA FullBeforeEdge ==
    ASSUME BTypeOK, NEW N \in Chain, NEW c \in Contents, NEW M, M = Append(N, c),
           lastBlock' = M, db' = db, EdgeHasTransactions',
           NEW k, k = Len(N) + 1,
           ActiveAt(db.preactivated, M, k + 2), Edge(db.preactivated, M, k + 1)
    PROVE  c.txs > 0
<1>1. Len(N) \in Nat
  BY DEF Chain
<1>2. M \in Chain /\ Len(M) = k /\ TxSize(M) = c.txs /\ k \in Nat
  BY <1>1, AppendFacts
<1>3. Ancestor(M, k + 1) = M
  BY <1>2, TopAncestor
<1>4. ~IsProtobuf(M)
  <2>1. k + 1 \in Nat \ {0} /\ k + 1 \in 1..Len(M) + 1 /\ ~(k + 1 > k + 1)
    BY <1>2
  <2>2. IsProtobuf(Ancestor(M, k + 1)) <=> k + 1 > k + 1
    BY <1>2, <2>1, ProtobufAboveEdge
  <2> QED
    BY <1>3, <2>1, <2>2, Zenon
<1>5. Height(M) + 1 = k + 2
  BY <1>2 DEF Height
<1>6. IsActivatedAtHeight(M, Height(M) + 1)
  BY <1>5, ActiveIs, Zenon
<1>7. M # NoBlock
  BY <1>2, NoBlockAssumption, Zenon DEF Chain
<1>8. IsProtobuf(lastBlock)' = IsProtobuf(M)
  BY DEF IsProtobuf, IsActivatedAtHeight
<1>9. IsActivatedAtHeight(lastBlock, Height(lastBlock) + 1)'
        = IsActivatedAtHeight(M, Height(M) + 1)
  BY DEF IsActivatedAtHeight
<1>10. TxSize(lastBlock)' = TxSize(M) /\ lastBlock' = M
  BY Zenon
<1>11. TxSize(lastBlock)' > 0
  BY <1>4, <1>6, <1>7, <1>8, <1>9, <1>10, Zenon DEF EdgeHasTransactions
<1> QED
  BY <1>2, <1>10, <1>11, Zenon

LEMMA ProcessBlockStep ==
    BInv /\ (\E c \in Contents : ProcessBlock(c)) /\ EdgeHasTransactions' => BInv'
<1>1. SUFFICES ASSUME BTypeOK, NEW N, NEW off, NEW e, StandsFor(N, off, e),
                      NEW c \in Contents, ProcessBlock(c), EdgeHasTransactions',
                      NEW k, k = TopHeight, NEW M, M = Append(N, c)
               PROVE  BTypeOK' /\ \E off2, e2 : StandsFor(M, off2, e2)'
  BY DEF BInv
<1>2. Working /\ pc' = "adding" /\ file' = file /\ db' = db /\ blocksNum' = blocksNum + 1
  BY <1>1 DEF ProcessBlock, Working
<1>3. /\ Counted(N, off, e) /\ rw.pb = InfoOf(off, e, k) /\ lastBlock = N
      /\ db.height > 0 /\ Len(N) + 1 = k
  BY <1>1, <1>2, WorkingFacts
<1>4. Append(lastBlock, c) = M
  BY <1>1, <1>3
<1>5. /\ buf' = WrittenBuf(M) /\ blockInfo' = blockInfo \cup {MetaFor(M)}
      /\ rw' = ProcessedRW(M) /\ lastBlock' = M /\ batch' = StoredInfo(batch, rw, rw')
  BY <1>1, <1>4, Zenon DEF ProcessBlock, ProcessedRW
<1>6. /\ N \in Chain /\ off \in [Nat -> Nat] /\ Offsets(N, off)
      /\ Layout(db.preactivated, N, off, e)
  BY <1>1, StandsForTypes DEF StandsFor
<1>7. /\ e \in Nat \ {0} /\ Len(N) \in Nat /\ db.height \in Nat /\ blocksNum \in Nat
      /\ k \in Nat /\ db.height <= k
  BY <1>1, StandsForNumbers
<1>8. c.approves => NeedToFinishVotingPeriod(Len(N) + 2)
  <2>1. c.approves => NeedToFinishVotingPeriod(rw.height + 1)
    BY <1>1 DEF ProcessBlock
  <2>2. rw.height = k
    BY <1>1, <1>3 DEF Counted
  <2>3. k + 1 = Len(N) + 2
    BY <1>3, <1>7
  <2> QED
    BY <2>1, <2>2, <2>3, Zenon
<1>9. ActiveAt(db.preactivated, M, k + 2) /\ Edge(db.preactivated, M, k + 1) => c.txs > 0
  <2>1. lastBlock' = M /\ db' = db /\ k = Len(N) + 1 /\ N \in Chain
    BY <1>2, <1>3, <1>5, <1>6
  <2> QED
    BY <1>1, <2>1, FullBeforeEdge
<1>10. PICK off2, e2 : Grows(db.preactivated, N, off, e, c, k, M, off2, e2)
  <2>1. k = Len(N) + 1
    BY <1>3
  <2> QED
    BY <1>1, <1>6, <1>8, <1>9, <2>1, ChainGrows
<1>11. /\ e2 \in Nat \ {0} /\ k \in Nat \ {0}
       /\ (e2 = e /\ e <= k) \/ (e > k /\ e2 > k)
       /\ Len(M) = k /\ M \in Chain
       /\ \A h \in 1..k : Ancestor(M, h) = Ancestor(N, h)
  BY <1>10, GrowsFacts
<1>12. /\ Layout(db.preactivated, M, off2, e2) /\ off2 \in [Nat -> Nat]
       /\ \A h \in 0..k : off2[h] = off[h]
  BY <1>10, Zenon DEF Grows, Layout
<1>13. ReadyFor(M, off2, e2, k)
  BY <1>1, <1>2, <1>10, ReadyToGrow
<1>14. /\ WrittenBuf(M) \in Files
       /\ Holds(FileThen(WrittenBuf(M)), M, off2, e2, k + 1)
       /\ Full(FileThen(WrittenBuf(M)), off2, e2, k + 1)
       /\ MetaFor(M) = Meta(M, off2, k + 1)
  BY <1>1, <1>13, BlockWritten
<1>15. rw' = [height |-> k + 1, txLen |-> off2[k + 1], hdLen |-> k + 1,
              pb |-> InfoOf(off2, e2, k + 1)]
  <2>1. ProcessedRW(M) = [height |-> k + 1, txLen |-> off2[k + 1], hdLen |-> k + 1,
                          pb |-> InfoOf(off2, e2, k + 1)]
    BY <1>1, <1>2, <1>10, ActivatedByBlock
  <2> QED
    BY <1>5, <2>1, Zenon
<1>16. k + 1 \in Nat /\ InfoOf(off2, e2, k + 1) \in Infos /\ off2[k + 1] \in Nat
  <2>1. k + 1 \in Nat
    BY <1>7
  <2> QED
    BY <1>11, <1>12, <2>1, InfoType
<1>17. /\ rw'.height = k + 1 /\ rw'.txLen = off2[k + 1] /\ rw'.hdLen = k + 1
       /\ rw'.pb = InfoOf(off2, e2, k + 1)
  BY <1>15
<1>18. /\ batch' \in [changed : BOOLEAN, pb : Infos]
       /\ rw'.pb = IF batch'.changed THEN batch'.pb ELSE db.pb
  <2>1. rw.pb = IF batch.changed THEN batch.pb ELSE db.pb
    BY <1>3, Zenon DEF Counted
  <2> DEFINE r == rw'
             q == batch'
  <2>2. r.pb \in Infos /\ q = StoredInfo(batch, rw, r)
    BY <1>5, <1>16, <1>17
  <2> HIDE DEF r, q
  <2>3. /\ q \in [changed : BOOLEAN, pb : Infos]
        /\ r.pb = IF q.changed THEN q.pb ELSE db.pb
    BY <1>1, <2>1, <2>2, StoredInfoFacts
  <2> QED
    BY <2>3 DEF r, q
<1>19. BTypeOK'
  <2>1. rw' \in [height : Nat, txLen : Nat, hdLen : Nat, pb : Infos]
    BY <1>15, <1>16
  <2>2. buf' \in Files /\ lastBlock' \in Chain \cup {NoBlock}
    BY <1>5, <1>11, <1>14
  <2>3. blocksNum' \in Nat
    BY <1>2, <1>7
  <2> QED
    BY <1>1, <1>2, <1>18, <2>1, <2>2, <2>3 DEF BTypeOK, Places
<1>20. TopHeight' = k + 1
  <2>1. k = db.height + blocksNum /\ TopHeight' = db'.height + blocksNum'
    BY <1>1 DEF TopHeight
  <2>2. \A i, j \in Nat : i + (j + 1) = (i + j) + 1
    OBVIOUS
  <2> QED
    BY <1>2, <1>7, <2>1, <2>2, Zenon
<1>21. Whole' = FileThen(WrittenBuf(M))
  BY <1>2, <1>5, WholeThen
<1>22. blockInfo' = Metas(M, off2, db.height + 1, k + 1)
  <2>1. blockInfo = Metas(N, off, db.height + 1, k)
    BY <1>1, <1>3, Zenon DEF Counted
  <2> DEFINE i == db.height + 1
  <2>2. i \in Nat \ {0} /\ i \in Nat /\ i <= k + 1 /\ k \in Nat
    BY <1>7
  <2> HIDE DEF i
  <2>3. Metas(M, off2, i, k) = Metas(N, off, i, k)
    <3>1. /\ \A h \in 1..k : Ancestor(M, h) = Ancestor(N, h)
          /\ \A h \in 0..k : off2[h] = off[h]
      BY <1>11, <1>12, Zenon
    <3>2. i \in Nat \ {0} /\ k \in Nat
      BY <2>2
    <3> QED
      BY <3>1, <3>2, MetasSame
  <2>4. Metas(M, off2, i, k) \cup {Meta(M, off2, k + 1)} = Metas(M, off2, i, k + 1)
    BY <2>2, MetasOneMore
  <2> QED
    BY <1>5, <1>14, <2>1, <2>3, <2>4, Zenon DEF i
<1>23. Counted(M, off2, e2)'
  <2>1. Holds(Whole', M, off2, e2, k + 1) /\ Full(Whole', off2, e2, k + 1)
    BY <1>14, <1>21, Zenon
  <2> QED
    BY <1>2, <1>17, <1>18, <1>20, <1>22, <2>1, Zenon DEF Counted
<1>24. Stored(M, off2, e2)'
  <2>1. /\ db.meta = Metas(N, off, 1, db.height) /\ Holds(file, N, off, e, db.height)
        /\ Fits(db.pb, off, e, db.height) \/ Pending(db.pb, e, db.height)
    BY <1>1, <1>3, Zenon DEF StandsFor, Stored
  <2> DEFINE h == db.height
             p == db.pb
  <2>2. /\ h \in 1..k /\ h \in 0..h /\ h \in 0..Len(N) + 1 /\ h \in Nat /\ 1 \in Nat \ {0}
        /\ h # 0
    BY <1>3, <1>7
  <2>3. (\A i \in 1..h : i \in 1..k) /\ (\A i \in 0..h : i \in 0..k)
    BY <1>3, <1>7
  <2>4. /\ \A i \in 1..h : Ancestor(M, i) = Ancestor(N, i)
        /\ \A i \in 0..h : off2[i] = off[i]
    BY <1>11, <1>12, <2>3, Zenon
  <2>5. e2 = e \/ (e >= h /\ e2 >= h)
    BY <1>3, <1>7, <1>11
  <2> HIDE DEF h, p
  <2>6. Metas(M, off2, 1, h) = Metas(N, off, 1, h)
    BY <2>2, <2>4, MetasSame
  <2>7. Holds(file, M, off2, e2, h)
    <3>1. file \in Files /\ Holds(file, N, off, e, h)
      BY <1>1, <2>1 DEF BTypeOK, h
    <3> QED
      BY <1>6, <1>7, <1>11, <1>12, <2>2, <2>4, <2>5, <3>1, HoldsPart
  <2>8. Fits(p, off2, e2, h) \/ Pending(p, e2, h)
    <3>1. Fits(p, off, e, h) \/ Pending(p, e, h)
      BY <2>1 DEF p, h
    <3> QED
      BY <1>7, <1>11, <1>12, <2>2, <3>1, FitsGrown
  <2> QED
    BY <1>2, <2>1, <2>2, <2>6, <2>7, <2>8, Zenon DEF Stored, h, p
<1>25. AtPlace(M, off2, e2)'
  <2>1. rw'.pb = InfoOf(off2, e2, TopHeight') /\ lastBlock' = M
    BY <1>5, <1>17, <1>20, Zenon
  <2> QED
    BY <1>2, <1>23, <2>1 DEF AtPlace, Idle, Counting, Working, Places
<1>26. Layout(db.preactivated, M, off2, e2)' /\ (TopHeight > 0 => Len(M) + 1 = TopHeight)'
  BY <1>2, <1>11, <1>12, <1>20, Zenon
<1>27. StandsFor(M, off2, e2)'
  BY <1>24, <1>25, <1>26 DEF StandsFor
<1> QED
  BY <1>19, <1>27

-----------------------------------------------------------------------------
(* Theorems.                                                               *)

LEMMA StutterStep == BInv /\ UNCHANGED vars => BInv'
<1>1. SUFFICES ASSUME BTypeOK, NEW N, NEW off, NEW e, StandsFor(N, off, e), UNCHANGED vars
               PROVE  BTypeOK' /\ StandsFor(N, off, e)'
  BY DEF BInv
<1>2. /\ file' = file /\ buf' = buf /\ rw' = rw /\ blockInfo' = blockInfo
      /\ batch' = batch /\ blocksNum' = blocksNum /\ lastBlock' = lastBlock
      /\ db' = db /\ pc' = pc
  BY <1>1 DEF vars
<1>3. BTypeOK'
  BY <1>1, <1>2, Zenon DEF BTypeOK
<1>4. TopHeight' = TopHeight /\ Whole' = Whole
  BY <1>2, Zenon DEF TopHeight, Whole
<1>5. Stored(N, off, e)'
  BY <1>1, <1>2, Zenon DEF StandsFor, Stored
<1>6. Counted(N, off, e)' = Counted(N, off, e)
  BY <1>2, <1>4, Zenon DEF Counted
<1>7. Idle' = Idle /\ Counting' = Counting /\ Working' = Working
  BY <1>2, Zenon DEF Idle, Counting, Working
<1>8. AtPlace(N, off, e)'
  <2>1. AtPlace(N, off, e)
    BY <1>1 DEF StandsFor
  <2> QED
    BY <1>2, <1>4, <1>6, <1>7, <2>1 DEF AtPlace
<1>9. Layout(db.preactivated, N, off, e)' /\ (TopHeight > 0 => Len(N) + 1 = TopHeight)'
  BY <1>1, <1>2, <1>4, Zenon DEF StandsFor
<1> QED
  BY <1>3, <1>5, <1>8, <1>9 DEF StandsFor

LEMMA BlockStorageStep ==
    BInv /\ [Next]_vars /\ InfoKept' /\ EdgeHasTransactions' => BInv'
<1> SUFFICES ASSUME BInv, [Next]_vars, InfoKept', EdgeHasTransactions'
             PROVE  BInv'
  OBVIOUS
<1>1. CASE Open
  BY <1>1, OpenStep
<1>2. CASE WriteGenesis
  BY <1>2, WriteGenesisStep
<1>3. CASE FlushGenesis
  BY <1>3, FlushGenesisStep
<1>4. CASE ApplyPreActivatedFeatures
  BY <1>4, ApplyPreActivatedFeaturesStep
<1>5. CASE FinishOpening
  BY <1>5, FinishOpeningStep
<1>6. CASE SyncWithDb
  BY <1>6, SyncWithDbStep
<1>7. CASE \E c \in Contents : ProcessBlock(c)
  BY <1>7, ProcessBlockStep
<1>8. CASE FlushFiles
  BY <1>8, FlushFilesStep
<1>9. CASE FlushDB
  BY <1>9, FlushDBStep
<1>10. CASE AddBlocksFails
  BY <1>10, AddBlocksFailsStep
<1>11. CASE \E h \in 1..MaxHeight : Rollback(h)
  BY <1>11, RollbackStep
<1>12. CASE RollbackFails
  BY <1>12, RollbackFailsStep
<1>13. CASE Crash
  BY <1>13, CrashStep
<1>14. CASE UNCHANGED vars
  BY <1>14, StutterStep
<1> QED
  BY <1>1, <1>2, <1>3, <1>4, <1>5, <1>6, <1>7, <1>8, <1>9, <1>10, <1>11, <1>12,
     <1>13, <1>14 DEF Next

LEMMA BlockStorageInvariant ==
    Spec /\ []InfoKept /\ []EdgeHasTransactions => []BInv
  BY InitInv, BlockStorageStep, PTL DEF Spec

\* Whatever the sizes of the blocks, the voting window and the depth of the
\* rollbacks, and wherever the process crashes or an operation fails: the
\* IDs in the file form one chain, every block of it is found where its meta
\* says and in the format in which it was written, and the database has no
\* other meta (blockReadWriter, stateDB.rollback, syncWithDb).
THEOREM StoredChainAlwaysReadsBack ==
    Spec /\ []InfoKept /\ []EdgeHasTransactions => []StoredChainReadsBack
<1>1. BInv => StoredChainReadsBack
  BY InvReadsBack
<1> QED
  BY <1>1, BlockStorageInvariant, PTL

\* Between two operations the counters of the blockReadWriter are the lengths
\* of the files, so the next block goes where its meta will say.
THEOREM CountersAlwaysMatchFiles ==
    Spec /\ []InfoKept /\ []EdgeHasTransactions => []CountersMatchFiles
<1>1. BInv => CountersMatchFiles
  BY InvCounters
<1> QED
  BY <1>1, BlockStorageInvariant, PTL

-----------------------------------------------------------------------------
(* Blocks stored by a wrong info.                                          *)

\* What FlushDB stores has the format of its version, and the info of the
\* memory goes with it or is there already.
LEMMA FlushIsRight == BInv /\ FlushDB => ~StoresByWrongInfo
<1>1. SUFFICES ASSUME BTypeOK, NEW N, NEW off, NEW e, StandsFor(N, off, e), FlushDB
               PROVE  ~StoresByWrongInfo
  BY DEF BInv
<1>2. pc = "flushing" /\ Working
  BY <1>1 DEF FlushDB, Working
<1>3. Counted(N, off, e) /\ Len(N) + 1 = TopHeight
  BY <1>1, <1>2, WorkingFacts
<1>4. /\ N \in Chain /\ off \in [Nat -> Nat] /\ Edge(db.preactivated, N, e)
      /\ TopHeight \in 0..Len(N) + 1
  BY <1>1, StandsForTypes
<1>5. /\ e \in Nat \ {0} /\ Len(N) \in Nat /\ db.height \in Nat /\ TopHeight \in Nat
  BY <1>1, StandsForNumbers
<1>6. /\ blockInfo = Metas(N, off, db.height + 1, TopHeight)
      /\ Holds(Whole, N, off, e, TopHeight)
      /\ rw.pb = IF batch.changed THEN batch.pb ELSE db.pb
  BY <1>3, Zenon DEF Counted
<1>7. Whole = file
  <2>1. buf = EmptyFiles
    BY <1>1, <1>2 DEF StandsFor, AtPlace
  <2> QED
    BY <1>1, <2>1, WholeIsFile
<1>8. rw.pb = Flushed.pb
  <2>1. db.height + 1 \in Nat \ {0}
    BY <1>5
  <2>2. Metas(N, off, db.height + 1, TopHeight) \subseteq MetaRecs
    BY <1>4, <2>1, MetaType
  <2>3. blockInfo \subseteq MetaRecs
    BY <1>6, <2>2, Zenon
  <2> QED
    BY <1>1, <1>6, <2>3, FlushedFacts, Zenon
<1>9. ASSUME NEW m \in blockInfo
      PROVE  file.hd[m.hdEnd].pb = IsProtobuf(m.block)
  <2>1. PICK h \in db.height + 1..TopHeight : m = Meta(N, off, h)
    BY <1>6 DEF Metas
  <2>2. m.hdEnd = h /\ m.block = Ancestor(N, h)
    BY <2>1 DEF Meta
  <2>3. h \in 1..TopHeight /\ h \in 1..Len(N) + 1
    <3>1. h \in 1..TopHeight
      BY <1>5
    <3> QED
      BY <1>3, <3>1
  <2>4. file.hd[h] = Cell(N, e, h)
    <3>1. Holds(file, N, off, e, TopHeight)
      BY <1>6, <1>7, Zenon
    <3> QED
      BY <2>3, <3>1 DEF Holds, HdHeld
  <2>5. IsProtobuf(Ancestor(N, h)) <=> h > e
    BY <1>4, <1>5, <2>3, ProtobufAboveEdge
  <2>6. IsProtobuf(Ancestor(N, h)) \in BOOLEAN
    BY DEF IsProtobuf
  <2>7. CASE h > e
    <3>1. file.hd[h].pb = TRUE
      BY <2>4, <2>7 DEF Cell
    <3>2. IsProtobuf(Ancestor(N, h)) = TRUE
      BY <2>5, <2>6, <2>7, Zenon
    <3> QED
      BY <2>2, <3>1, <3>2, Zenon
  <2>8. CASE ~(h > e)
    <3>1. file.hd[h].pb = FALSE
      BY <2>4, <2>8 DEF Cell
    <3>2. IsProtobuf(Ancestor(N, h)) = FALSE
      BY <2>5, <2>6, <2>8, Zenon
    <3> QED
      BY <2>2, <3>1, <3>2, Zenon
  <2> QED
    BY <2>7, <2>8
<1> QED
  BY <1>8, <1>9, Zenon DEF StoresByWrongInfo

\* Only FlushDB writes the history variable.
LEMMA MisledStep == BInv /\ NotMisled /\ [Next]_vars => NotMisled'
<1> SUFFICES ASSUME BInv, ~misled, [Next]_vars
             PROVE  ~misled'
  BY DEF NotMisled
<1>1. CASE FlushDB
  <2>1. ~StoresByWrongInfo
    BY <1>1, FlushIsRight
  <2> QED
    BY <1>1, <2>1, Zenon DEF FlushDB
<1>2. CASE Open
  BY <1>2 DEF Open
<1>3. CASE WriteGenesis
  BY <1>3 DEF WriteGenesis
<1>4. CASE FlushGenesis
  BY <1>4 DEF FlushGenesis
<1>5. CASE ApplyPreActivatedFeatures
  BY <1>5 DEF ApplyPreActivatedFeatures
<1>6. CASE FinishOpening
  BY <1>6 DEF FinishOpening
<1>7. CASE SyncWithDb
  BY <1>7 DEF SyncWithDb
<1>8. CASE FlushFiles
  BY <1>8 DEF FlushFiles
<1>9. CASE AddBlocksFails
  BY <1>9 DEF AddBlocksFails
<1>10. CASE RollbackFails
  BY <1>10 DEF RollbackFails
<1>11. CASE Crash
  BY <1>11 DEF Crash
<1>12. CASE \E c \in Contents : ProcessBlock(c)
  <2>1. PICK c \in Contents : ProcessBlock(c)
    BY <1>12
  <2>2. misled' = misled
    BY <2>1 DEF ProcessBlock
  <2> QED
    BY <2>2
<1>13. CASE \E h \in 1..MaxHeight : Rollback(h)
  <2>1. PICK h \in 1..MaxHeight : Rollback(h)
    BY <1>13
  <2>2. misled' = misled
    BY <2>1 DEF Rollback
  <2> QED
    BY <2>2
<1>14. CASE UNCHANGED vars
  BY <1>14 DEF vars
<1> QED
  BY <1>1, <1>2, <1>3, <1>4, <1>5, <1>6, <1>7, <1>8, <1>9, <1>10,
     <1>11, <1>12, <1>13, <1>14 DEF Next

\* Two things only mislead the block storage: a failed operation that drops
\* what the batch says of the protobuf info (setProtobufActivated does not put
\* it there again), and an empty block at the end of the activating period
\* (blockReadWriter.rollback then does not see that the activation is undone).
\* Without them no block is ever stored in the format of the other side of the
\* activation, nor one by an info that the next start will not find.
THEOREM OnlyTwoThingsMislead ==
    Spec /\ []InfoKept /\ []EdgeHasTransactions => []NotMisled
<1>1. Init => NotMisled
  BY DEF Init, NotMisled
<1> QED
  BY <1>1, MisledStep, BlockStorageInvariant, PTL DEF Spec
====
