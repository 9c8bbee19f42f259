----------------------- MODULE HistoryStorage_proofs -----------------------
(***************************************************************************)
(* Theorems about HistoryStorage, for any keys, contents of blocks and     *)
(* depth of rollbacks: records of removed blocks stay removed, and reads   *)
(* of stored and of new histories return what the chain wrote.             *)
(***************************************************************************)
EXTENDS HistoryStorage, FiniteSetTheorems, TLAPS

-----------------------------------------------------------------------------
(* Histories.                                                               *)

\* All records of the history have numbers below n.
Below(s, n) == \A i \in 1..Len(s) : s[i].num < n

\* A nonempty set of natural numbers has a least element.
LEMMA LeastNatural ==
    ASSUME NEW T, T \subseteq Nat, T # {}
    PROVE  \E x \in T : \A y \in T : x <= y
<1>1. PICK x \in T : \A y \in T : ~(<<y, x>> \in OpToRel(<, Nat))
  BY WFMin, NatLessThanWellFounded
<1>2. \A y \in T : ~(y < x)
  BY <1>1 DEF OpToRel
<1> QED BY <1>2

\* Elements of a history.
LEMMA RecordOf ==
    ASSUME NEW s \in Histories, NEW i \in 1..Len(s)
    PROVE  s[i] \in Records /\ s[i].num \in Nat
<1>1. s[i] \in Records
  <2> HIDE DEF Records
  <2> QED BY DEF Histories
<1> QED BY <1>1 DEF Records

\* CountBelow is a number of records, the ones before the first with number n or more.
LEMMA CountBelowIs ==
    ASSUME NEW s \in Histories, NEW n \in Nat
    PROVE  /\ CountBelow(s, n) \in 0..Len(s)
           /\ \A i \in 1..CountBelow(s, n) : s[i].num < n
           /\ CountBelow(s, n) < Len(s) => s[CountBelow(s, n) + 1].num >= n
<1> DEFINE T == {c \in 0..Len(s) : c < Len(s) => s[c + 1].num >= n}
<1>1. Len(s) \in Nat
  BY DEF Histories
<1>2. PICK c \in T : \A d \in T : c <= d
  <2>1. Len(s) \in T /\ T \subseteq Nat
    BY <1>1
  <2> HIDE DEF T
  <2> QED BY <2>1, LeastNatural
<1>3. ASSUME NEW i \in 1..c PROVE s[i].num < n
  <2>1. i - 1 \in 0..Len(s) /\ i - 1 < c /\ i \in 1..Len(s)
    BY <1>1
  <2>2. i - 1 \notin T
    <3>1. c \in Nat
      BY <1>1
    <3> HIDE DEF T
    <3> QED BY <1>2, <2>1, <3>1
  <2>3. ~(s[i].num >= n)
    BY <2>1, <2>2
  <2> QED BY <2>1, <2>3, RecordOf
<1>4. \E x \in 0..Len(s) : /\ \A i \in 1..x : s[i].num < n
                           /\ x < Len(s) => s[x + 1].num >= n
  BY <1>3
<1> QED BY <1>4 DEF CountBelow

\* A part of a history is a history of the same records.
LEMMA PartOf ==
    ASSUME NEW s \in Histories, NEW a \in 1..(Len(s) + 1), NEW b \in 0..Len(s)
    PROVE  /\ SubSeq(s, a, b) \in Histories
           /\ \A n : Below(s, n) => Below(SubSeq(s, a, b), n)
<1>1. Len(s) \in Nat
  BY DEF Histories
<1>2. \A i \in a..b : s[i] \in Records
  BY <1>1, RecordOf
<1>3. /\ SubSeq(s, a, b) \in Seq(Records)
      /\ Len(SubSeq(s, a, b)) = IF a <= b THEN b - a + 1 ELSE 0
      /\ \A i \in 1..(b - a + 1) : SubSeq(s, a, b)[i] = s[a + i - 1]
  BY <1>1, <1>2
<1>4. ASSUME NEW n, Below(s, n), NEW i \in 1..Len(SubSeq(s, a, b))
      PROVE  SubSeq(s, a, b)[i].num < n
  <2>1. i \in 1..(b - a + 1) /\ a + i - 1 \in 1..Len(s)
    BY <1>1, <1>3
  <2> QED BY <1>3, <1>4, <2>1 DEF Below
<1> QED BY <1>3, <1>4 DEF Below, Histories

\* filter keeps a part of the history.
LEMMA FilterOf ==
    ASSUME NEW s \in Histories
    PROVE  /\ Filter(s) \in Histories
           /\ \A n : Below(s, n) => Below(Filter(s), n)
<1>1. Len(s) \in Nat
  BY DEF Histories
<1> DEFINE T == {d \in 0..Len(s) : d < Len(s) => s[Len(s) - d].num \in validNums}
           Fits(n) == /\ n > 0 => s[n].num \in validNums
                      /\ \A i \in n + 1..Len(s) : s[i].num \notin validNums
<1>2. PICK d \in T : \A e \in T : d <= e
  <2>1. Len(s) \in T /\ T \subseteq Nat
    BY <1>1
  <2> HIDE DEF T
  <2> QED BY <2>1, LeastNatural
<1>3. Len(s) - d \in 0..Len(s) /\ d \in Nat
  BY <1>1
<1>4. Fits(Len(s) - d)
  <2>1. Len(s) - d > 0 => s[Len(s) - d].num \in validNums
    BY <1>1
  <2>2. ASSUME NEW i \in (Len(s) - d) + 1..Len(s) PROVE s[i].num \notin validNums
    <3>1. /\ Len(s) - i \in 0..Len(s) /\ Len(s) - i < d /\ Len(s) - i < Len(s)
          /\ Len(s) - (Len(s) - i) = i
      BY <1>1, <1>3
    <3>2. Len(s) - i \notin T
      <4> HIDE DEF T
      <4> QED BY <1>2, <1>3, <3>1
    <3> QED BY <3>1, <3>2
  <2> QED BY <2>1, <2>2
<1>5. PICK n \in 0..Len(s) : Filter(s) = SubSeq(s, 1, n)
  <2>1. \E n \in 0..Len(s) : Fits(n)
    <3> HIDE DEF Fits
    <3> QED BY <1>3, <1>4
  <2> QED BY <2>1 DEF Filter
<1> QED BY <1>1, <1>5, PartOf

\* cut keeps a part of the history.
LEMMA CutOf ==
    ASSUME NEW s \in Histories, MinAcceptableBlockNum \in Nat
    PROVE  /\ Cut(s) \in Histories
           /\ \A n : Below(s, n) => Below(Cut(s), n)
<1> DEFINE old == CountBelow(s, MinAcceptableBlockNum)
<1>1. old \in 0..Len(s) /\ Len(s) \in Nat
  BY CountBelowIs DEF Histories
<1>2. Cut(s) = s \/ (old \in 1..Len(s) /\ Cut(s) = SubSeq(s, old, Len(s)))
  BY <1>1 DEF Cut
<1> HIDE DEF old
<1>3. CASE old \in 1..Len(s) /\ Cut(s) = SubSeq(s, old, Len(s))
  <2>1. old \in 1..(Len(s) + 1) /\ Len(s) \in 0..Len(s)
    BY <1>1, <1>3
  <2>2. /\ SubSeq(s, old, Len(s)) \in Histories
        /\ \A n : Below(s, n) => Below(SubSeq(s, old, Len(s)), n)
    BY <2>1, PartOf
  <2> QED BY <1>3, <2>2
<1> QED BY <1>2, <1>3

\* normalize keeps a part of the stored history.
LEMMA NormalizedOf ==
    ASSUME NEW k \in Keys, hist[k] \in Histories, MinAcceptableBlockNum \in Nat
    PROVE  /\ Normalized(k) \in Histories
           /\ \A n : Below(hist[k], n) => Below(Normalized(k), n)
<1> DEFINE f == IF amend THEN Filter(hist[k]) ELSE hist[k]
<1>1. f \in Histories /\ \A n : Below(hist[k], n) => Below(f, n)
  BY FilterOf
<1>2. Normalized(k) = f \/ Normalized(k) = Cut(f)
  BY DEF Normalized
<1> HIDE DEF f
<1> QED BY <1>1, <1>2, CutOf

\* appendEntry adds or replaces one record.
LEMMA AppendEntryOf ==
    ASSUME NEW s \in Histories, NEW r \in Records, NEW n, Below(s, n), r.num < n
    PROVE  AppendEntry(s, r) \in Histories /\ Below(AppendEntry(s, r), n)
<1>1. s \in Seq(Records) /\ Len(s) \in Nat
  BY DEF Histories
<1> HIDE DEF Records
<1>2. CASE AppendEntry(s, r) = Append(s, r)
  <2>1. /\ Append(s, r) \in Seq(Records) /\ Len(Append(s, r)) = Len(s) + 1
        /\ \A i \in 1..Len(s) : Append(s, r)[i] = s[i]
        /\ Append(s, r)[Len(s) + 1] = r
    BY <1>1
  <2> QED BY <1>1, <1>2, <2>1 DEF Below, Histories
<1>3. CASE s # <<>> /\ AppendEntry(s, r) = [s EXCEPT ![Len(s)] = r]
  <2> DEFINE t == [s EXCEPT ![Len(s)] = r]
  <2>1. s \in [1..Len(s) -> Records]
    BY <1>1
  <2>2. t \in [1..Len(s) -> Records] /\ \A i \in 1..Len(s) : t[i] = s[i] \/ t[i] = r
    BY <2>1
  <2>3. t \in Seq(Records) /\ Len(t) = Len(s)
    <3> HIDE DEF t
    <3> QED BY <1>1, <2>2
  <2> QED BY <1>3, <2>2, <2>3 DEF Below, Histories
<1> QED BY <1>2, <1>3 DEF AppendEntry

\* Two histories one after the other.
LEMMA ConcatOf ==
    ASSUME NEW s \in Histories, NEW t \in Histories, NEW n, Below(s, n), Below(t, n)
    PROVE  s \o t \in Histories /\ Below(s \o t, n)
<1>1. s \in Seq(Records) /\ t \in Seq(Records) /\ Len(s) \in Nat /\ Len(t) \in Nat
  BY DEF Histories
<1> HIDE DEF Records
<1>2. /\ s \o t \in Seq(Records) /\ Len(s \o t) = Len(s) + Len(t)
      /\ \A i \in 1..Len(s) + Len(t) :
            (s \o t)[i] = IF i <= Len(s) THEN s[i] ELSE t[i - Len(s)]
  BY <1>1
<1>3. ASSUME NEW i \in 1..Len(s \o t) PROVE (s \o t)[i].num < n
  <2>1. CASE i <= Len(s)
    BY <1>1, <1>2, <2>1 DEF Below
  <2>2. CASE ~(i <= Len(s))
    <3>1. i - Len(s) \in 1..Len(t)
      BY <1>1, <1>2, <2>2
    <3> QED BY <1>1, <1>2, <2>2, <3>1 DEF Below
  <2> QED BY <2>1, <2>2
<1> QED BY <1>2, <1>3 DEF Below, Histories

-----------------------------------------------------------------------------
(* Blocks.                                                                  *)

\* Ancestors of a block.
LEMMA AncestorOf ==
    ASSUME NEW b \in Blocks, NEW h \in 1..Height(b)
    PROVE  /\ Ancestor(b, h) \in Blocks /\ Height(Ancestor(b, h)) = h
           /\ \A j \in 1..h : Ancestor(Ancestor(b, h), j) = Ancestor(b, j)
<1>1. b \in Seq(Contents) /\ Len(b) \in Nat /\ h \in 1..(Len(b) + 1)
  BY DEF Blocks, Height
<1> DEFINE a == SubSeq(b, 1, h - 1)
<1>2. /\ a \in Seq(Contents) /\ Len(a) = h - 1
      /\ \A i \in 1..(h - 1) : a[i] = b[i]
  BY <1>1
<1>3. ASSUME NEW j \in 1..h PROVE SubSeq(a, 1, j - 1) = SubSeq(b, 1, j - 1)
  BY <1>1, <1>2
<1> QED BY <1>1, <1>2, <1>3 DEF Ancestor, Height, Blocks

\* A block is its own ancestor.
LEMMA AncestorSelf ==
    ASSUME NEW b \in Blocks
    PROVE  Height(b) \in Nat \ {0} /\ Ancestor(b, Height(b)) = b
<1>1. b \in Seq(Contents) /\ Len(b) \in Nat
  BY DEF Blocks
<1>2. SubSeq(b, 1, Len(b)) = b
  BY <1>1
<1> QED BY <1>1, <1>2 DEF Ancestor, Height

\* Ancestors of a new block.
LEMMA AncestorOfNew ==
    ASSUME NEW b \in Blocks, NEW c \in Contents
    PROVE  /\ Append(b, c) \in Blocks /\ Height(Append(b, c)) = Height(b) + 1
           /\ Append(b, c) # <<>> /\ Append(b, c)[Len(Append(b, c))] = c
           /\ \A j \in 1..Height(b) : Ancestor(Append(b, c), j) = Ancestor(b, j)
<1>1. b \in Seq(Contents) /\ Len(b) \in Nat
  BY DEF Blocks
<1> DEFINE a == Append(b, c)
<1>2. /\ a \in Seq(Contents) /\ Len(a) = Len(b) + 1 /\ a[Len(b) + 1] = c
      /\ \A i \in 1..Len(b) : a[i] = b[i]
  BY <1>1
<1>3. ASSUME NEW j \in 1..(Len(b) + 1) PROVE SubSeq(a, 1, j - 1) = SubSeq(b, 1, j - 1)
  <2> HIDE DEF a
  <2> QED BY <1>1, <1>2
<1>4. a # <<>>
  BY <1>1, <1>2
<1> QED BY <1>1, <1>2, <1>3, <1>4 DEF Ancestor, Height, Blocks

-----------------------------------------------------------------------------
(* The inductive invariant.                                                 *)

\* Block numbers that are given to stored or to new blocks lie below this one.
Given == lastNum + Cardinality(DOMAIN newNum)

\* Numbers of valid blocks, of blocks with an ID and of stored records have been
\* given before; new blocks have larger ones.
Numbers ==
    /\ validNums \subseteq Nat /\ \A n \in validNums : n < lastNum
    /\ \A b \in DOMAIN idToNum : idToNum[b] < lastNum
    /\ \A b \in DOMAIN newNum : lastNum <= newNum[b] /\ newNum[b] < Given
    /\ \A k \in Keys : Below(hist[k], lastNum) /\ Below(stor[k], Given)
    /\ \A k \in DOMAIN batch : Below(batch[k], Given)

\* Every block of the stored chain, and of the one being added, has a number, and the
\* height at which histories are cut is on both.  Numbers in memory are of the blocks
\* being added.
Known ==
    /\ \A h \in 1..Height(top) : Ancestor(top, h) \in DOMAIN idToNum
    /\ \A h \in 1..Height(newest) : Ancestor(newest, h) \in DOMAIN idToNum \cup DOMAIN newNum
    /\ \A b \in DOMAIN newNum :
          pc \in {"adding", "flushing"} /\ Height(b) <= Height(newest)
    /\ minHeight <= Height(top) /\ minHeight <= Height(newest)

\* What the block being applied has yet to write is part of its contents.
TodoFits ==
    \A k \in Keys : todo[k] > 0 =>
        pc = "adding" /\ newest # <<>> /\ todo[k] <= newest[Len(newest)][k]

IInv == TypeOK /\ Numbers /\ Known /\ TodoFits

\* The numbers that the operators compute with.
LEMMA NumbersOf ==
    ASSUME IInv
    PROVE  /\ Given \in Nat /\ lastNum \in Nat /\ lastNum <= Given
           /\ MinAcceptableBlockNum \in Nat
           /\ NewestNum(newest) \in Nat /\ NewestNum(newest) < Given
<1>1. Cardinality(DOMAIN newNum) \in Nat /\ lastNum \in Nat
  BY FS_CardinalityType DEF IInv, TypeOK
<1>2. minHeight \in 1..Height(top)
  BY AncestorSelf DEF IInv, TypeOK, Known
<1>3. MinAcceptableBlockNum \in Nat
  BY <1>2 DEF MinAcceptableBlockNum, IInv, TypeOK, Known
<1>4. newest \in DOMAIN idToNum \cup DOMAIN newNum
  BY AncestorSelf DEF IInv, TypeOK, Known
<1>5. NewestNum(newest) \in Nat /\ NewestNum(newest) < lastNum + Cardinality(DOMAIN newNum)
  BY <1>1, <1>4 DEF NewestNum, IInv, TypeOK, Numbers, Given
<1> QED BY <1>1, <1>3, <1>5 DEF Given

\* Larger bounds are bounds.
LEMMA BelowMore ==
    ASSUME NEW s \in Histories, NEW m \in Nat, NEW n \in Nat, m <= n, Below(s, m)
    PROVE  Below(s, n)
  BY RecordOf DEF Below

\* After a reset nothing is in memory.
LEMMA ResetOf ==
    ASSUME NEW b, Reset(b)
    PROVE  /\ newest' = b /\ todo' \in [Keys -> Nat] /\ \A k \in Keys : todo'[k] = 0
           /\ DOMAIN newNum' = {} /\ IsFiniteSet(DOMAIN newNum') /\ Cardinality(DOMAIN newNum') = 0
           /\ DOMAIN batch' = {} /\ stor' \in [Keys -> Histories]
           /\ \A k \in Keys : \A n : Below(stor'[k], n)
<1>1. DOMAIN newNum' = {} /\ DOMAIN batch' = {}
  BY DEF Reset, NoNums
<1>2. IsFiniteSet({}) /\ Cardinality({}) = 0
  BY FS_EmptySet
<1>3. <<>> \in Histories /\ \A n : Below(<<>>, n)
  BY DEF Histories, Below
<1> QED BY <1>1, <1>2, <1>3 DEF Reset, NoWrites, NoHistories

-----------------------------------------------------------------------------
(* Steps.                                                                   *)

\* A process opens the state.
LEMMA OpenStep ==
    ASSUME IInv, NEW flag \in BOOLEAN, Open(flag)
    PROVE  IInv'
<1> USE DEF numVars
<1>1. TypeOK'
  BY DEF IInv, TypeOK, Open, HandleAmendFlag
<1>2. Numbers'
  BY DEF IInv, Numbers, Given, Open
<1>3. Known'
  BY DEF IInv, Known, Open
<1>4. TodoFits'
  BY DEF IInv, TodoFits, Open
<1> QED BY <1>1, <1>2, <1>3, <1>4 DEF IInv

\* A block gets a number.
LEMMA AddBlockStep ==
    ASSUME IInv, NEW c \in Contents, AddBlock(c)
    PROVE  IInv'
<1> USE DEF numVars
<1> DEFINE b == Append(newest, c)
<1>1. /\ b \in Blocks /\ Height(b) = Height(newest) + 1
      /\ b # <<>> /\ b[Len(b)] = c
      /\ \A j \in 1..Height(newest) : Ancestor(b, j) = Ancestor(newest, j)
      /\ Ancestor(b, Height(b)) = b
      /\ Height(newest) \in Nat \ {0}
  BY AncestorOfNew, AncestorSelf DEF IInv, TypeOK
<1>2. /\ newest' = b /\ todo' = c /\ pc' = "adding"
      /\ UNCHANGED <<top, minHeight, lastNum, idToNum, validNums, hist, storedAmend, amend,
                     removes, stor, batch>>
  BY DEF AddBlock
<1> HIDE DEF b
<1>3. /\ DOMAIN newNum \subseteq DOMAIN newNum' /\ DOMAIN newNum' \subseteq DOMAIN newNum \cup {b}
      /\ b \in DOMAIN idToNum \cup DOMAIN newNum'
      /\ IsFiniteSet(DOMAIN newNum') /\ Cardinality(DOMAIN newNum') \in Nat
      /\ Cardinality(DOMAIN newNum) \in Nat
      /\ Cardinality(DOMAIN newNum) <= Cardinality(DOMAIN newNum')
      /\ \A x \in DOMAIN newNum' :
            newNum'[x] \in Nat /\ lastNum <= newNum'[x] /\ newNum'[x] < Given'
  <2>1. IsFiniteSet(DOMAIN newNum) /\ Cardinality(DOMAIN newNum) \in Nat /\ lastNum \in Nat
    BY FS_CardinalityType DEF IInv, TypeOK
  <2>2. CASE b \in DOMAIN idToNum
    <3>1. newNum' = newNum
      BY <2>2 DEF AddBlock, b
    <3> QED BY <1>2, <2>1, <2>2, <3>1 DEF IInv, TypeOK, Numbers, Given
  <2>3. CASE b \notin DOMAIN idToNum
    <3> DEFINE n == lastNum + Cardinality(DOMAIN newNum)
    <3>1. newNum' = Updated(newNum, [x \in {b} |-> n])
      BY <2>3 DEF AddBlock, NewBlockNum, b
    <3>2. /\ DOMAIN newNum' = DOMAIN newNum \cup {b}
          /\ newNum'[b] = n /\ \A x \in DOMAIN newNum : newNum'[x] = n \/ newNum'[x] = newNum[x]
      BY <3>1 DEF Updated
    <3>3. b \notin DOMAIN newNum => Cardinality(DOMAIN newNum') = Cardinality(DOMAIN newNum) + 1
      BY <2>1, <3>2, FS_AddElement
    <3>4. b \notin DOMAIN newNum
      <4>1. Height(b) > Height(newest)
        BY <1>1
      <4> QED BY <1>1, <4>1 DEF IInv, Known
    <3>5. Given' = n + 1
      BY <1>2, <2>1, <3>3, <3>4 DEF Given
    <3>6. ASSUME NEW x \in DOMAIN newNum'
          PROVE  newNum'[x] \in Nat /\ lastNum <= newNum'[x] /\ newNum'[x] < Given'
      <4>1. CASE newNum'[x] = n
        BY <2>1, <3>5, <4>1
      <4>2. CASE x \in DOMAIN newNum /\ newNum'[x] = newNum[x]
        BY <2>1, <3>5, <4>2 DEF IInv, TypeOK, Numbers, Given
      <4> QED BY <3>2, <4>1, <4>2
    <3>7. IsFiniteSet(DOMAIN newNum')
      BY <2>1, <3>2, FS_AddElement
    <3> QED BY <2>1, <3>2, <3>3, <3>4, <3>6, <3>7
  <2> QED BY <2>2, <2>3
<1>4. TypeOK'
  <2>1. todo' \in [Keys -> Nat]
    BY <1>2, HistoryAssumption
  <2>2. DOMAIN newNum' \subseteq Blocks
    BY <1>1, <1>3 DEF IInv, TypeOK
  <2> QED BY <1>1, <1>2, <1>3, <2>1, <2>2 DEF IInv, TypeOK
<1>5. Numbers'
  <2>1. Given \in Nat /\ Given' \in Nat /\ Given <= Given'
    BY <1>2, <1>3, NumbersOf DEF Given
  <2>2. \A k \in Keys : Below(hist[k], lastNum) /\ Below(stor[k], Given')
    BY <2>1, BelowMore DEF IInv, TypeOK, Numbers
  <2>3. \A k \in DOMAIN batch : Below(batch[k], Given')
    BY <2>1, BelowMore DEF IInv, TypeOK, Numbers
  <2> QED BY <1>2, <1>3, <2>2, <2>3 DEF IInv, Numbers
<1>6. Known'
  <2>1. ASSUME NEW h \in 1..Height(b)
        PROVE  Ancestor(b, h) \in DOMAIN idToNum \cup DOMAIN newNum'
    <3>1. h = Height(b) \/ h \in 1..Height(newest)
      BY <1>1
    <3> QED BY <1>1, <1>3, <3>1 DEF IInv, Known
  <2>2. \A x \in DOMAIN newNum' : Height(x) <= Height(b)
    <3>1. \A x \in DOMAIN newNum : Height(x) <= Height(newest) /\ Height(x) \in Nat
      BY AncestorSelf DEF IInv, TypeOK, Known
    <3> QED BY <1>1, <1>3, <3>1
  <2>3. minHeight <= Height(b)
    BY <1>1 DEF IInv, TypeOK, Known
  <2> QED BY <1>2, <2>1, <2>2, <2>3 DEF IInv, Known
<1>7. TodoFits'
  <2>1. \A k \in Keys : c[k] \in Nat
    BY HistoryAssumption
  <2> QED BY <1>1, <1>2, <2>1 DEF TodoFits
<1> QED BY <1>4, <1>5, <1>6, <1>7 DEF IInv

\* A block writes to a key.
LEMMA AddNewEntryStep ==
    ASSUME IInv, NEW k \in Keys, AddNewEntry(k)
    PROVE  IInv'
<1> USE DEF numVars
<1> DEFINE nth == newest[Len(newest)][k] - todo[k] + 1
           r == [data |-> [block |-> newest, nth |-> nth], num |-> NewestNum(newest)]
<1>1. /\ UNCHANGED <<top, minHeight, lastNum, idToNum, validNums, hist, storedAmend, pc, amend,
                     removes, newest, newNum, batch>>
      /\ todo[k] > 0 /\ todo' = [todo EXCEPT ![k] = @ - 1]
      /\ stor' = [stor EXCEPT ![k] = AppendEntry(@, r)]
  BY DEF AddNewEntry
<1>2. r \in Records /\ r.num < Given
  <2>1. newest \in Blocks /\ Len(newest) \in Nat /\ newest # <<>>
    BY <1>1 DEF IInv, TypeOK, TodoFits, Blocks
  <2>2. newest[Len(newest)] \in Contents
    BY <2>1 DEF Blocks
  <2>3. nth \in Nat
    <3>1. newest[Len(newest)][k] \in Nat
      BY <2>2, HistoryAssumption
    <3>2. todo[k] \in Nat /\ todo[k] <= newest[Len(newest)][k]
      BY <1>1 DEF IInv, TypeOK, TodoFits
    <3> QED BY <3>1, <3>2
  <2> HIDE DEF nth
  <2> QED BY <2>1, <2>3, NumbersOf DEF Records
<1> HIDE DEF r, nth
<1>3. AppendEntry(stor[k], r) \in Histories /\ Below(AppendEntry(stor[k], r), Given)
  BY <1>2, AppendEntryOf DEF IInv, TypeOK, Numbers
<1>4. stor' \in [Keys -> Histories] /\ \A x \in Keys : Below(stor'[x], Given)
  BY <1>1, <1>3 DEF IInv, TypeOK, Numbers
<1>5. /\ todo' \in [Keys -> Nat]
      /\ \A x \in Keys : todo'[x] <= todo[x]
  BY <1>1 DEF IInv, TypeOK
<1>6. TypeOK'
  BY <1>1, <1>4, <1>5 DEF IInv, TypeOK
<1>7. Numbers'
  BY <1>1, <1>4 DEF IInv, Numbers, Given
<1>8. Known'
  BY <1>1 DEF IInv, Known
<1>9. TodoFits'
  <2>1. \A x \in Keys : todo[x] \in Nat /\ todo'[x] \in Nat
    BY <1>5 DEF IInv, TypeOK
  <2>2. ASSUME NEW x \in Keys, todo'[x] > 0
        PROVE  pc = "adding" /\ newest # <<>> /\ todo'[x] <= newest[Len(newest)][x]
    <3>1. todo[x] > 0 /\ newest # <<>>
      BY <1>1, <1>5, <2>1, <2>2 DEF IInv, TodoFits
    <3>2. newest[Len(newest)][x] \in Nat
      <4>1. newest[Len(newest)] \in Contents
        BY <3>1 DEF IInv, TypeOK, Blocks
      <4> QED BY <4>1, HistoryAssumption
    <3> QED BY <1>5, <2>1, <3>1, <3>2 DEF IInv, TodoFits
  <2> QED BY <1>1, <2>2 DEF TodoFits
<1> QED BY <1>6, <1>7, <1>8, <1>9 DEF IInv

\* The normalized history of a key is written beside the batch.
LEMMA UpdateHistoryStep ==
    ASSUME IInv, NEW k \in Keys,
           hist' = [hist EXCEPT ![k] = Normalized(k)], UNCHANGED <<numVars, newNum>>
    PROVE  /\ hist' \in [Keys -> Histories]
           /\ \A x \in Keys : Below(hist'[x], lastNum)
<1>1. hist \in [Keys -> Histories] /\ \A x \in Keys : Below(hist[x], lastNum)
  BY DEF IInv, TypeOK, Numbers
<1>2. Normalized(k) \in Histories /\ Below(Normalized(k), lastNum)
  BY <1>1, NumbersOf, NormalizedOf
<1> QED BY <1>1, <1>2

\* getHistory with update.
LEMMA UpdateStep ==
    ASSUME IInv, NEW k \in Keys, UpdateHistory(k)
    PROVE  IInv'
<1>1. /\ UNCHANGED <<top, minHeight, lastNum, idToNum, validNums, storedAmend, pc, amend, removes,
                     newest, todo, newNum, stor, batch>>
      /\ hist' \in [Keys -> Histories] /\ \A x \in Keys : Below(hist'[x], lastNum)
  BY UpdateHistoryStep DEF UpdateHistory, numVars, memVars
<1>2. TypeOK'
  BY <1>1 DEF IInv, TypeOK
<1>3. Numbers'
  BY <1>1 DEF IInv, Numbers, Given
<1>4. Known' /\ TodoFits'
  BY <1>1 DEF IInv, Known, TodoFits
<1> QED BY <1>2, <1>3, <1>4 DEF IInv

\* The history of a key is put into the batch.
LEMMA FlushHistoryStep ==
    ASSUME IInv, NEW k \in Keys, FlushHistory(k)
    PROVE  IInv'
<1>1. /\ UNCHANGED <<top, minHeight, lastNum, idToNum, validNums, storedAmend, amend, removes,
                     newest, todo, newNum, stor>>
      /\ hist' \in [Keys -> Histories] /\ \A x \in Keys : Below(hist'[x], lastNum)
      /\ pc' = "flushing" /\ pc \in {"adding", "flushing"} /\ todo = NoWrites
      /\ batch' = Updated(batch, [x \in {k} |-> FullHistory(k)])
  BY UpdateHistoryStep DEF FlushHistory, numVars
<1>2. FullHistory(k) \in Histories /\ Below(FullHistory(k), Given)
  <2>1. /\ hist[k] \in Histories /\ Below(hist[k], lastNum)
        /\ stor[k] \in Histories /\ Below(stor[k], Given)
    BY DEF IInv, TypeOK, Numbers
  <2>2. Normalized(k) \in Histories /\ Below(Normalized(k), Given)
    BY <2>1, NumbersOf, NormalizedOf, BelowMore
  <2> QED BY <2>1, <2>2, ConcatOf DEF FullHistory
<1>3. /\ DOMAIN batch' = DOMAIN batch \cup {k}
      /\ \A x \in DOMAIN batch' :
            batch'[x] = FullHistory(k) \/ (x \in DOMAIN batch /\ batch'[x] = batch[x])
  BY <1>1 DEF Updated
<1> HIDE DEF FullHistory
<1>4. TypeOK'
  BY <1>1, <1>2, <1>3 DEF IInv, TypeOK
<1>5. Numbers'
  BY <1>1, <1>2, <1>3 DEF IInv, Numbers, Given
<1>6. Known'
  BY <1>1 DEF IInv, Known
<1>7. TodoFits'
  BY <1>1 DEF TodoFits, NoWrites
<1> QED BY <1>4, <1>5, <1>6, <1>7 DEF IInv

\* The batch is written.
LEMMA FlushDBStep ==
    ASSUME IInv, FlushDB
    PROVE  IInv'
<1>1. /\ top' = newest /\ newest' = newest
      /\ todo' \in [Keys -> Nat] /\ \A k \in Keys : todo'[k] = 0
      /\ DOMAIN newNum' = {} /\ IsFiniteSet(DOMAIN newNum') /\ Cardinality(DOMAIN newNum') = 0
      /\ DOMAIN batch' = {} /\ stor' \in [Keys -> Histories]
      /\ \A k \in Keys : \A n : Below(stor'[k], n)
  BY ResetOf DEF FlushDB
<1>2. /\ lastNum' = Given /\ pc' = "idle"
      /\ UNCHANGED <<storedAmend, amend, removes>>
  BY DEF FlushDB, Given
<1>3. /\ DOMAIN idToNum' = DOMAIN idToNum \cup DOMAIN newNum
      /\ \A b \in DOMAIN idToNum' : idToNum'[b] \in Nat /\ idToNum'[b] < Given
  <2>1. idToNum' = Updated(idToNum, newNum)
    BY DEF FlushDB
  <2>2. \A b \in DOMAIN idToNum : idToNum[b] \in Nat /\ idToNum[b] < Given
    BY NumbersOf DEF IInv, TypeOK, Numbers
  <2>3. \A b \in DOMAIN newNum : newNum[b] \in Nat /\ newNum[b] < Given
    BY DEF IInv, TypeOK, Numbers
  <2> QED BY <2>1, <2>2, <2>3 DEF Updated
<1>4. validNums' \subseteq Nat /\ \A n \in validNums' : n < Given
  <2>1. validNums' = validNums \cup {newNum[b] : b \in DOMAIN newNum}
    BY DEF FlushDB
  <2>2. \A n \in validNums : n \in Nat /\ n < Given
    BY NumbersOf DEF IInv, TypeOK, Numbers
  <2>3. \A b \in DOMAIN newNum : newNum[b] \in Nat /\ newNum[b] < Given
    BY DEF IInv, TypeOK, Numbers
  <2> QED BY <2>1, <2>2, <2>3
<1>5. hist' \in [Keys -> Histories] /\ \A k \in Keys : Below(hist'[k], Given)
  <2>1. hist' = Updated(hist, batch) /\ DOMAIN batch \subseteq Keys /\ DOMAIN hist = Keys
    BY DEF FlushDB, IInv, TypeOK
  <2>2. \A k \in Keys : hist[k] \in Histories /\ Below(hist[k], Given)
    BY NumbersOf, BelowMore DEF IInv, TypeOK, Numbers
  <2>3. \A k \in DOMAIN batch : batch[k] \in Histories /\ Below(batch[k], Given)
    BY DEF IInv, TypeOK, Numbers
  <2> QED BY <2>1, <2>2, <2>3 DEF Updated
<1>6. minHeight' \in Nat \ {0} /\ minHeight' <= Height(newest)
  <2>1. minHeight' = NewRollbackMinHeight(Height(newest))
    BY DEF FlushDB
  <2>2. Height(newest) \in Nat /\ minHeight \in Nat \ {0} /\ minHeight <= Height(newest)
    BY AncestorSelf DEF IInv, TypeOK, Known
  <2> QED BY <2>1, <2>2, HistoryAssumption DEF NewRollbackMinHeight
<1>7. TypeOK'
  BY <1>1, <1>2, <1>3, <1>5, <1>6, NumbersOf DEF IInv, TypeOK
<1>8. Numbers'
  BY <1>1, <1>2, <1>3, <1>4, <1>5 DEF Numbers
<1>9. Known'
  BY <1>1, <1>3, <1>6 DEF IInv, Known
<1>10. TodoFits'
  BY <1>1 DEF TodoFits
<1> QED BY <1>7, <1>8, <1>9, <1>10 DEF IInv

\* What is in memory is dropped.
LEMMA ResetStep ==
    ASSUME IInv, AddFails \/ Crash
    PROVE  IInv'
<1>1. /\ newest' = top
      /\ todo' \in [Keys -> Nat] /\ \A k \in Keys : todo'[k] = 0
      /\ DOMAIN newNum' = {} /\ IsFiniteSet(DOMAIN newNum') /\ Cardinality(DOMAIN newNum') = 0
      /\ DOMAIN batch' = {} /\ stor' \in [Keys -> Histories]
      /\ \A k \in Keys : \A n : Below(stor'[k], n)
  BY ResetOf DEF AddFails, Crash
<1>2. /\ UNCHANGED <<top, minHeight, lastNum, idToNum, validNums, hist, storedAmend, amend,
                     removes>>
      /\ pc' \in {"idle", "down"}
  BY DEF AddFails, Crash, numVars
<1>3. TypeOK'
  BY <1>1, <1>2 DEF IInv, TypeOK
<1>4. Numbers'
  BY <1>1, <1>2 DEF IInv, Numbers
<1>5. Known'
  BY <1>1, <1>2 DEF IInv, Known
<1>6. TodoFits'
  BY <1>1 DEF TodoFits
<1> QED BY <1>3, <1>4, <1>5, <1>6 DEF IInv

\* Blocks are removed.
LEMMA RollbackStep ==
    ASSUME IInv, NEW h \in 1..MaxHeight, Rollback(h)
    PROVE  IInv'
<1> DEFINE edge == Ancestor(top, h)
           gone == {Ancestor(top, i) : i \in h + 1..Height(top)}
<1>1. /\ h \in 1..Height(top) /\ minHeight <= h /\ Height(top) \in Nat
      /\ pc = "idle" /\ pc' = pc
      /\ top' = edge /\ newest' = edge
      /\ validNums' = validNums \ {idToNum[b] : b \in gone}
      /\ idToNum' = [b \in DOMAIN idToNum \ gone |-> idToNum[b]]
      /\ UNCHANGED <<minHeight, lastNum, hist, storedAmend, amend, removes,
                     todo, newNum, stor, batch>>
  BY AncestorSelf DEF Rollback, IInv, TypeOK
<1>2. /\ edge \in Blocks /\ Height(edge) = h
      /\ \A j \in 1..h : Ancestor(edge, j) = Ancestor(top, j)
  BY <1>1, AncestorOf DEF IInv, TypeOK
<1>3. \A j \in 1..h : Ancestor(top, j) \in DOMAIN idToNum'
  <2>1. ASSUME NEW j \in 1..h PROVE Ancestor(top, j) \in DOMAIN idToNum \ gone
    <3>1. j \in 1..Height(top) /\ j < h + 1
      BY <1>1
    <3>2. Height(Ancestor(top, j)) = j
      BY <3>1, AncestorOf DEF IInv, TypeOK
    <3>3. \A i \in h + 1..Height(top) : Height(Ancestor(top, i)) = i /\ i # j
      BY <1>1, <3>1, AncestorOf DEF IInv, TypeOK
    <3> QED BY <3>1, <3>2, <3>3 DEF IInv, Known
  <2> QED BY <1>1, <2>1
<1> HIDE DEF edge, gone
<1>4. TypeOK'
  BY <1>1, <1>2 DEF IInv, TypeOK
<1>5. Numbers'
  BY <1>1 DEF IInv, Numbers, Given
<1>6. Known'
  BY <1>1, <1>2, <1>3 DEF IInv, Known
<1>7. TodoFits'
  BY <1>1 DEF IInv, TodoFits
<1> QED BY <1>4, <1>5, <1>6, <1>7 DEF IInv

-----------------------------------------------------------------------------
(* Theorems.                                                                *)

LEMMA IInvInit ==
    ASSUME Init
    PROVE  IInv
<1>1. <<>> \in Histories /\ \A n : Below(<<>>, n)
  BY DEF Histories, Below
<1>2. Genesis \in Blocks /\ Height(Genesis) = 1 /\ Ancestor(Genesis, 1) = Genesis
  <2>1. Genesis \in Blocks /\ Height(Genesis) = 1
    BY DEF Genesis, Blocks, Height
  <2> QED BY <2>1, AncestorSelf
<1>3. DOMAIN newNum = {} /\ DOMAIN batch = {} /\ IsFiniteSet({}) /\ Cardinality({}) = 0
  BY FS_EmptySet DEF Init, NoNums
<1>4. TypeOK
  <2>1. /\ storedAmend \in BOOLEAN /\ amend \in BOOLEAN /\ removes \in BOOLEAN
        /\ pc \in {"down", "idle", "adding", "flushing"}
    BY DEF Init
  <2>2. /\ hist \in [Keys -> Histories] /\ stor \in [Keys -> Histories]
        /\ todo \in [Keys -> Nat]
    BY <1>1 DEF Init, NoHistories, NoWrites
  <2>3. DOMAIN idToNum \subseteq Blocks /\ \A b \in DOMAIN idToNum : idToNum[b] \in Nat
    BY <1>2 DEF Init
  <2>4. top \in Blocks /\ newest \in Blocks /\ minHeight \in Nat \ {0} /\ lastNum \in Nat
    BY <1>2 DEF Init
  <2> QED BY <1>3, <2>1, <2>2, <2>3, <2>4 DEF TypeOK
<1>5. Numbers
  BY <1>1, <1>3 DEF Init, Numbers, Given, NoHistories
<1>6. Known
  BY <1>2, <1>3 DEF Init, Known
<1>7. TodoFits
  BY DEF Init, TodoFits, NoWrites
<1> QED BY <1>4, <1>5, <1>6, <1>7 DEF IInv

LEMMA IInvStep ==
    ASSUME IInv, [Next]_vars
    PROVE  IInv'
<1>1. CASE UNCHANGED vars
  BY <1>1 DEF IInv, TypeOK, Numbers, Given, Known, TodoFits, vars, numVars, memVars
<1> QED BY <1>1, OpenStep, AddBlockStep, AddNewEntryStep, UpdateStep, FlushHistoryStep,
           FlushDBStep, ResetStep, RollbackStep DEF Next

LEMMA IInvHolds == Spec => []IInv
<1>1. Init => IInv
  BY IInvInit
<1>2. IInv /\ [Next]_vars => IInv'
  BY IInvStep
<1> QED BY <1>1, <1>2, PTL DEF Spec

\* All variables keep their types; the height at which histories are cut never wraps
\* around.
THEOREM TypeCorrect == Spec => []TypeOK
<1>1. IInv => TypeOK
  BY DEF IInv
<1> QED BY <1>1, IInvHolds, PTL

\* Every block of the stored chain has a number, so that reads at any height, and the
\* cut of histories, find the number they compare with.
THEOREM ChainIsNumbered ==
    Spec => [](/\ minHeight \in 1..Height(top)
               /\ \A h \in 1..Height(top) : idToNum[Ancestor(top, h)] \in 0..(lastNum - 1))
<1>1. IInv => /\ minHeight \in 1..Height(top)
              /\ \A h \in 1..Height(top) : idToNum[Ancestor(top, h)] \in 0..(lastNum - 1)
  <2> SUFFICES ASSUME IInv
               PROVE  /\ minHeight \in 1..Height(top)
                      /\ \A h \in 1..Height(top) :
                            idToNum[Ancestor(top, h)] \in 0..(lastNum - 1)
    OBVIOUS
  <2>1. minHeight \in 1..Height(top)
    BY AncestorSelf DEF IInv, TypeOK, Known
  <2>2. \A b \in DOMAIN idToNum : idToNum[b] \in 0..(lastNum - 1)
    BY DEF IInv, TypeOK, Numbers
  <2> QED BY <2>1, <2>2 DEF IInv, Known
<1> QED BY <1>1, IInvHolds, PTL

\* No step makes a stored record of a removed block valid again: only numbers that were
\* never given become valid, whatever is rolled back, added again, cut or interrupted.
THEOREM RemovedNeverReturns == Spec => RemovedStaysRemoved
<1> DEFINE A == \A k \in Keys : \A i \in 1..Len(hist[k]) :
                    hist[k][i].num \in validNums' => hist[k][i].num \in validNums
<1>1. ASSUME IInv, [Next]_vars
      PROVE  A
  <2> SUFFICES ASSUME NEW n \in validNums', n \notin validNums
               PROVE  \A k \in Keys : \A i \in 1..Len(hist[k]) : hist[k][i].num # n
    OBVIOUS
  <2>1. FlushDB
    BY <1>1 DEF Next, vars, numVars, Open, AddBlock, AddNewEntry, UpdateHistory, FlushHistory,
                AddFails, Rollback, Crash
  <2>2. \E b \in DOMAIN newNum : n = newNum[b]
    BY <2>1 DEF FlushDB
  <2>3. n \in Nat /\ lastNum \in Nat /\ lastNum <= n
    BY <1>1, <2>2 DEF IInv, TypeOK, Numbers
  <2>4. ASSUME NEW k \in Keys, NEW i \in 1..Len(hist[k])
        PROVE  hist[k][i].num \in Nat /\ hist[k][i].num < lastNum
    BY <1>1, RecordOf DEF IInv, TypeOK, Numbers, Below
  <2> QED BY <2>3, <2>4
<1>2. IInv /\ [Next]_vars => [A]_vars
  BY <1>1
<1> QED BY <1>2, IInvHolds, PTL DEF Spec, RemovedStaysRemoved

-----------------------------------------------------------------------------
(* Histories that tell what the blocks of a chain wrote.                    *)

\* Block numbers grow with the height.
Numbering(num, H) ==
    /\ H \in Nat /\ num \in [1..H -> Nat]
    /\ \A i, j \in 1..H : i < j => num[i] < num[j]

\* The first n records of a history are those of the blocks at heights W, with the
\* values they wrote, in the order of their numbers.  A record may be missing if there
\* is a newer one of a block below height m.
Good(s, n, num, val, W, m) ==
    /\ \A i, j \in 1..n : i < j => s[i].num < s[j].num
    /\ \A i \in 1..n : \E h \in W : s[i].num = num[h] /\ s[i].data = val[h]
    /\ \A h \in W : \E i \in 1..n :
          s[i].num = num[h] \/ (num[h] < s[i].num /\ s[i].num < num[m])

LEMMA NumberingOrder ==
    ASSUME NEW num, NEW H, Numbering(num, H), NEW i \in 1..H, NEW j \in 1..H
    PROVE  /\ num[i] \in Nat /\ num[j] \in Nat
           /\ num[i] < num[j] <=> i < j
           /\ num[i] <= num[j] <=> i <= j
           /\ num[i] = num[j] <=> i = j
<1>1. num[i] \in Nat /\ num[j] \in Nat /\ i \in Nat /\ j \in Nat
  BY DEF Numbering
<1>2. (i < j => num[i] < num[j]) /\ (j < i => num[j] < num[i])
  BY DEF Numbering
<1> QED BY <1>1, <1>2

\* CountBelow counts the records with numbers below x, if numbers ascend.
LEMMA CountSorted ==
    ASSUME NEW s \in Histories, NEW x \in Nat,
           \A i, j \in 1..Len(s) : i < j => s[i].num < s[j].num
    PROVE  /\ CountBelow(s, x) \in 0..Len(s) /\ Len(s) \in Nat
           /\ \A i \in 1..Len(s) : i <= CountBelow(s, x) <=> s[i].num < x
<1> DEFINE c == CountBelow(s, x)
<1>1. Len(s) \in Nat
  BY DEF Histories
<1>2. /\ c \in 0..Len(s) /\ \A i \in 1..c : s[i].num < x
      /\ c < Len(s) => s[c + 1].num >= x
  BY CountBelowIs
<1> HIDE DEF c
<1>3. ASSUME NEW i \in 1..Len(s), ~(i <= c) PROVE ~(s[i].num < x)
  <2>1. c + 1 \in 1..Len(s) /\ c < Len(s) /\ (i = c + 1 \/ c + 1 < i)
    BY <1>1, <1>2, <1>3
  <2>2. s[c + 1].num \in Nat /\ s[i].num \in Nat /\ s[c + 1].num >= x
    BY <1>2, <2>1, RecordOf
  <2>3. i = c + 1 \/ s[c + 1].num < s[i].num
    BY <2>1
  <2> QED BY <2>2, <2>3
<1>4. ASSUME NEW i \in 1..Len(s), i <= c PROVE s[i].num < x
  BY <1>1, <1>2, <1>4
<1> QED BY <1>1, <1>2, <1>3, <1>4 DEF c

\* The last of the heights W up to height h.
LastUpTo(W, h, x) == x \in W /\ x <= h /\ \A y \in W : y <= h => y <= x

\* The first c records are the ones up to height h, and the last of them is of the
\* last block up to h that wrote.
Found(s, num, val, W, h, c) ==
    /\ c \in 0..Len(s)
    /\ \A i \in 1..Len(s) : i <= c <=> s[i].num <= num[h]
    /\ c = 0 => \A y \in W : ~(y <= h)
    /\ c > 0 => \E x \in W : /\ LastUpTo(W, h, x)
                             /\ s[c].data = val[x] /\ s[c].num = num[x]

\* What a read at height h finds.
LEMMA ReadAt ==
    ASSUME NEW s \in Histories, NEW num, NEW H, Numbering(num, H), NEW val, NEW W \in SUBSET (1..H),
           NEW m \in 1..H, Good(s, Len(s), num, val, W, m), NEW h \in m..H,
           NEW c, c = CountBelow(s, num[h] + 1)
    PROVE  Found(s, num, val, W, h, c)
<1>1. H \in Nat /\ h \in 1..H /\ num[h] \in Nat /\ m <= h
  BY DEF Numbering
<1>2. \A i, j \in 1..Len(s) : i < j => s[i].num < s[j].num
  BY DEF Good
<1>3. /\ c \in 0..Len(s) /\ Len(s) \in Nat
      /\ \A i \in 1..Len(s) : i <= c <=> s[i].num < num[h] + 1
  <2>1. num[h] + 1 \in Nat
    BY <1>1
  <2> QED BY <1>2, <2>1, CountSorted
<1>4. \A i \in 1..Len(s) : s[i].num \in Nat
  BY RecordOf
<1>5. \A i \in 1..Len(s) : i <= c <=> s[i].num <= num[h]
  BY <1>1, <1>3, <1>4
<1>6. num[m] <= num[h]
  BY <1>1, NumberingOrder
<1>7. ASSUME NEW y \in W, y <= h
      PROVE  \E i \in 1..Len(s) : i <= c /\ num[y] <= s[i].num
  <2>1. PICK i \in 1..Len(s) : s[i].num = num[y] \/ (num[y] < s[i].num /\ s[i].num < num[m])
    BY DEF Good
  <2>2. num[y] \in Nat /\ num[m] \in Nat /\ num[y] <= num[h]
    BY <1>1, <1>7, NumberingOrder
  <2>3. s[i].num \in Nat
    BY <1>4
  <2>4. s[i].num <= num[h] /\ num[y] <= s[i].num
    BY <1>1, <1>6, <2>1, <2>2, <2>3
  <2> QED BY <1>5, <2>4
<1>8. ASSUME c = 0, NEW y \in W, y <= h PROVE FALSE
  <2>1. PICK i \in 1..Len(s) : i <= c
    BY <1>7, <1>8
  <2> QED BY <1>3, <1>8, <2>1
<1>9. ASSUME c > 0
      PROVE  \E x \in W : LastUpTo(W, h, x) /\ s[c].data = val[x] /\ s[c].num = num[x]
  <2>1. c \in 1..Len(s)
    BY <1>3, <1>9
  <2>2. PICK x \in W : s[c].num = num[x] /\ s[c].data = val[x]
    BY <2>1 DEF Good
  <2>3. x <= h
    <3>1. num[x] <= num[h]
      BY <1>3, <1>5, <2>1, <2>2
    <3> QED BY <1>1, <3>1, NumberingOrder
  <2>4. ASSUME NEW y \in W, y <= h PROVE y <= x
    <3>1. PICK i \in 1..Len(s) : i <= c /\ num[y] <= s[i].num
      BY <1>7, <2>4
    <3>2. i = c \/ s[i].num < s[c].num
      BY <1>2, <1>3, <2>1, <3>1
    <3>3. num[y] <= num[x]
      <4>1. num[y] \in Nat /\ num[x] \in Nat /\ s[i].num \in Nat
        BY <1>4, NumberingOrder
      <4> QED BY <2>2, <3>1, <3>2, <4>1
    <3> QED BY <3>3, NumberingOrder
  <2> QED BY <2>2, <2>3, <2>4 DEF LastUpTo
<1> QED BY <1>3, <1>5, <1>8, <1>9 DEF Found

\* The blocks whose records were in force at some height of a range.
InForce(W, from, to) == {x \in W : \E h \in from..to : LastUpTo(W, h, x)}

\* A read over a range of heights returns the values that were in force there.
RangeFound(s, val, W, from, to, first, last) ==
    {s[i].data : i \in (IF first = 0 THEN 1 ELSE first)..last}
      = {val[x] : x \in InForce(W, from, to)}

LEMMA ReadRange ==
    ASSUME NEW s \in Histories, NEW num, NEW H, Numbering(num, H), NEW val, NEW W \in SUBSET (1..H),
           NEW m \in 1..H, Good(s, Len(s), num, val, W, m), NEW from \in m..H, NEW to \in from..H,
           NEW first, first = CountBelow(s, num[from] + 1),
           NEW last, last = CountBelow(s, num[to] + 1)
    PROVE  RangeFound(s, val, W, from, to, first, last)
<1> DEFINE C(h) == CountBelow(s, num[h] + 1)
           X == {x \in W : \E h \in from..to : LastUpTo(W, h, x)}
<1>1. H \in Nat /\ from \in Nat /\ to \in Nat /\ from <= to /\ to <= H /\ m <= from /\ m >= 1
  BY DEF Numbering
<1>2. \A h \in from..to : h \in m..H /\ h \in 1..H
  BY <1>1
<1>3. ASSUME NEW h \in from..to
      PROVE  /\ C(h) \in 0..Len(s)
             /\ \A i \in 1..Len(s) : i <= C(h) <=> s[i].num <= num[h]
             /\ C(h) = 0 => \A y \in W : ~(y <= h)
             /\ C(h) > 0 => \E x \in W : /\ LastUpTo(W, h, x)
                                         /\ s[C(h)].data = val[x] /\ s[C(h)].num = num[x]
  <2>1. h \in m..H
    BY <1>2
  <2>2. Found(s, num, val, W, h, C(h))
    BY <2>1, ReadAt
  <2> HIDE DEF C
  <2> QED BY <2>2 DEF Found
<1>0. first = C(from) /\ last = C(to)
  OBVIOUS
<1>4. Len(s) \in Nat /\ from \in from..to /\ to \in from..to
  BY <1>1 DEF Histories
<1> HIDE DEF C
<1>5. \A h \in from..to : first <= C(h) /\ C(h) <= last
  <2> SUFFICES ASSUME NEW h \in from..to PROVE first <= C(h) /\ C(h) <= last
    OBVIOUS
  <2>1. num[from] <= num[h] /\ num[h] <= num[to]
    BY <1>1, <1>2, <1>4, NumberingOrder
  <2>2. num[from] \in Nat /\ num[h] \in Nat /\ num[to] \in Nat
    BY <1>2, <1>4, NumberingOrder
  <2>3. \A i \in 1..Len(s) : s[i].num \in Nat
    BY RecordOf
  <2>4. \A i \in 1..Len(s) : (i <= first => i <= C(h)) /\ (i <= C(h) => i <= last)
    <3> SUFFICES ASSUME NEW i \in 1..Len(s)
                 PROVE  (i <= first => i <= C(h)) /\ (i <= C(h) => i <= last)
      OBVIOUS
    <3>1. /\ i <= first <=> s[i].num <= num[from]
          /\ i <= C(h) <=> s[i].num <= num[h]
          /\ i <= last <=> s[i].num <= num[to]
      BY <1>0, <1>3, <1>4
    <3> QED BY <2>1, <2>2, <2>3, <3>1
  <2>5. first \in 0..Len(s) /\ C(h) \in 0..Len(s) /\ last \in 0..Len(s)
    BY <1>0, <1>3, <1>4
  <2> QED BY <1>4, <2>4, <2>5
<1>6. first \in Nat /\ last \in Nat /\ last <= Len(s)
  BY <1>0, <1>3, <1>4
<1>7. ASSUME NEW x \in X
      PROVE  \E i \in (IF first = 0 THEN 1 ELSE first)..last : s[i].data = val[x]
  <2>1. PICK h \in from..to : LastUpTo(W, h, x)
    OBVIOUS
  <2>2. C(h) \in Nat /\ C(h) > 0
    BY <1>3, <1>4, <2>1 DEF LastUpTo
  <2>3. PICK z \in W : s[C(h)].data = val[z] /\ LastUpTo(W, h, z)
    BY <1>3, <2>2
  <2>4. z = x
    <3>1. x \in 1..H /\ z \in 1..H
      OBVIOUS
    <3>2. x <= z /\ z <= x
      BY <2>1, <2>3 DEF LastUpTo
    <3> QED BY <1>1, <3>1, <3>2
  <2>5. C(h) \in (IF first = 0 THEN 1 ELSE first)..last
    BY <1>5, <1>6, <2>2
  <2> QED BY <2>3, <2>4, <2>5
<1>8. ASSUME NEW i \in (IF first = 0 THEN 1 ELSE first)..last
      PROVE  \E x \in X : s[i].data = val[x]
  <2>1. i \in 1..Len(s) /\ i <= last /\ first <= i
    BY <1>6
  <2>2. PICK x \in W : s[i].num = num[x] /\ s[i].data = val[x]
    BY <2>1 DEF Good
  <2>3. x \in 1..H /\ x \in Nat
    BY <1>1
  <2>4. num[x] <= num[to]
    BY <1>0, <1>3, <1>4, <2>1, <2>2
  <2>5. x <= to
    BY <1>2, <1>4, <2>3, <2>4, NumberingOrder
  <2>6. CASE from <= x
    <3>1. x \in from..to
      BY <1>1, <2>3, <2>5, <2>6
    <3>2. LastUpTo(W, x, x)
      BY <2>3 DEF LastUpTo
    <3> QED BY <2>2, <3>1, <3>2
  <2>7. CASE ~(from <= x)
    <3>1. num[x] <= num[from]
      BY <1>1, <1>2, <1>4, <2>3, <2>7, NumberingOrder
    <3>2. i <= first
      BY <1>0, <1>3, <1>4, <2>1, <2>2, <3>1
    <3>3. i = first /\ first > 0
      BY <1>6, <2>1, <3>2
    <3>4. PICK z \in W : s[first].data = val[z] /\ LastUpTo(W, from, z)
      BY <1>0, <1>3, <1>4, <3>3
    <3>5. z \in X
      BY <1>4, <3>4
    <3> QED BY <3>3, <3>4, <3>5
  <2> QED BY <2>6, <2>7
<1>9. X = InForce(W, from, to)
  BY DEF InForce
<1> DEFINE I == (IF first = 0 THEN 1 ELSE first)..last
<1>10. /\ \A x \in X : \E i \in I : s[i].data = val[x]
       /\ \A i \in I : \E x \in X : s[i].data = val[x]
  BY <1>7, <1>8
<1>11. {s[i].data : i \in I} = {val[x] : x \in X}
  <2> HIDE DEF I, X
  <2> QED BY <1>10
<1> HIDE DEF X
<1> QED BY <1>9, <1>11 DEF RangeFound

\* The heights at which the blocks of a chain wrote to a key, and what they wrote.
WritersOf(b, k) == {h \in 2..Height(b) : b[h - 1][k] > 0}
ValuesOf(b, k) == [h \in 2..Height(b) |-> [block |-> Ancestor(b, h), nth |-> b[h - 1][k]]]

\* The reference in terms of heights.
LEMMA ValueAtIs ==
    ASSUME NEW b \in Blocks, NEW k \in Keys, NEW h \in 1..Height(b)
    PROVE  /\ (\A y \in WritersOf(b, k) : ~(y <= h)) => ValueAt(Ancestor(b, h), k) = NoData
           /\ \A x : LastUpTo(WritersOf(b, k), h, x)
                    => ValueAt(Ancestor(b, h), k) = ValuesOf(b, k)[x]
<1> DEFINE a == Ancestor(b, h)
           writers == {i \in 1..Len(a) : a[i][k] > 0}
           top_ == CHOOSE i \in writers : \A j \in writers : j <= i
<1>1. b \in Seq(Contents) /\ Len(b) \in Nat /\ h \in Nat /\ h >= 1 /\ h <= Len(b) + 1
  BY DEF Blocks, Height
<1>2. /\ Len(a) = h - 1 /\ \A i \in 1..(h - 1) : a[i] = b[i]
      /\ \A i \in 1..(h - 1) : SubSeq(a, 1, i) = SubSeq(b, 1, i)
  BY <1>1 DEF Ancestor
<1>3. ValueAt(a, k) = IF writers = {} THEN NoData
                      ELSE [block |-> SubSeq(a, 1, top_), nth |-> a[top_][k]]
  BY DEF ValueAt
<1>4. \A i \in writers : i + 1 \in WritersOf(b, k) /\ i + 1 <= h /\ i \in 1..(h - 1)
  BY <1>1, <1>2 DEF WritersOf, Height
<1>5. \A y \in WritersOf(b, k) : y \in Nat /\ y >= 2 /\ (y <= h => y - 1 \in writers)
  BY <1>1, <1>2 DEF WritersOf, Height
<1> HIDE DEF a, writers, top_
<1>6. (\A y \in WritersOf(b, k) : ~(y <= h)) => ValueAt(a, k) = NoData
  BY <1>3, <1>4
<1>7. ASSUME NEW x, LastUpTo(WritersOf(b, k), h, x)
      PROVE  ValueAt(a, k) = ValuesOf(b, k)[x]
  <2>1. x - 1 \in writers /\ x \in Nat
    BY <1>5, <1>7 DEF LastUpTo
  <2>2. \A j \in writers : j <= x - 1 /\ j \in Nat
    BY <1>4, <1>5, <1>7 DEF LastUpTo
  <2>3. top_ \in writers /\ \A j \in writers : j <= top_
    BY <2>1, <2>2 DEF top_
  <2>4. top_ = x - 1
    BY <2>1, <2>2, <2>3
  <2>5. ValueAt(a, k) = [block |-> SubSeq(a, 1, x - 1), nth |-> a[x - 1][k]]
    BY <1>3, <2>1, <2>4
  <2>6. SubSeq(a, 1, x - 1) = SubSeq(b, 1, x - 1) /\ a[x - 1] = b[x - 1]
    BY <1>2, <1>4, <2>1
  <2>7. ValuesOf(b, k)[x] = [block |-> SubSeq(b, 1, x - 1), nth |-> b[x - 1][k]]
    BY <1>7 DEF LastUpTo, ValuesOf, WritersOf, Ancestor
  <2> QED BY <2>5, <2>6, <2>7
<1> QED BY <1>6, <1>7 DEF a

\* Only the first n records, the numbers and values at heights W and the number at m
\* matter; the window may move up.
LEMMA GoodSame ==
    ASSUME NEW s, NEW t, NEW n \in Nat, NEW num, NEW val, NEW num2, NEW val2, NEW H, NEW W \in SUBSET (1..H),
           NEW m \in 1..H, NEW m2 \in 1..H, m <= m2, Good(s, n, num, val, W, m),
           Numbering(num2, H), \A i \in 1..n : t[i] = s[i] /\ s[i].num \in Nat,
           \A x \in W : num2[x] = num[x] /\ val2[x] = val[x], num2[m] = num[m]
    PROVE  Good(t, n, num2, val2, W, m2)
<1>1. \A i, j \in 1..n : i < j => t[i].num < t[j].num
  BY DEF Good
<1>2. \A i \in 1..n : \E h \in W : t[i].num = num2[h] /\ t[i].data = val2[h]
  BY DEF Good
<1>3. num2[m] \in Nat /\ num2[m2] \in Nat /\ num2[m] <= num2[m2]
  BY NumberingOrder
<1>4. ASSUME NEW h \in W
      PROVE  \E i \in 1..n :
                t[i].num = num2[h] \/ (num2[h] < t[i].num /\ t[i].num < num2[m2])
  <2>1. PICK i \in 1..n : s[i].num = num[h] \/ (num[h] < s[i].num /\ s[i].num < num[m])
    BY DEF Good
  <2>2. num2[h] = num[h] /\ num2[h] \in Nat /\ t[i] = s[i] /\ s[i].num \in Nat
    BY NumberingOrder
  <2> QED BY <1>3, <2>1, <2>2
<1> QED BY <1>1, <1>2, <1>4 DEF Good

\* cut keeps what is needed from height m on.
LEMMA GoodCut ==
    ASSUME NEW s \in Histories, NEW num, NEW H, Numbering(num, H), NEW val, NEW W \in SUBSET (1..H),
           NEW m \in 1..H, Good(s, Len(s), num, val, W, m), NEW old, old = CountBelow(s, num[m]),
           old # 0, NEW t, t = SubSeq(s, old, Len(s))
    PROVE  Good(t, Len(t), num, val, W, m)
<1>1. num[m] \in Nat
  BY NumberingOrder
<1>2. \A i, j \in 1..Len(s) : i < j => s[i].num < s[j].num
  BY DEF Good
<1>3. /\ old \in 0..Len(s) /\ Len(s) \in Nat
      /\ \A i \in 1..Len(s) : i <= old <=> s[i].num < num[m]
  BY <1>1, <1>2, CountSorted
<1>4. old \in 1..Len(s)
  BY <1>3
<1>5. \A i \in 1..Len(s) : s[i].num \in Nat
  BY RecordOf
<1>6. /\ Len(t) = (Len(s) - old) + 1 /\ Len(t) \in Nat
      /\ \A i \in 1..Len(t) : t[i] = s[(old + i) - 1] /\ (old + i) - 1 \in 1..Len(s)
  <2>1. s \in Seq(Records)
    BY DEF Histories
  <2> QED BY <1>3, <1>4, <2>1
<1>7. \A i, j \in 1..Len(t) : i < j => t[i].num < t[j].num
  <2> SUFFICES ASSUME NEW i \in 1..Len(t), NEW j \in 1..Len(t), i < j
               PROVE  t[i].num < t[j].num
    OBVIOUS
  <2>1. (old + i) - 1 < (old + j) - 1
    BY <1>3
  <2> QED BY <1>2, <1>6, <2>1
<1>8. ASSUME NEW i \in 1..Len(t)
      PROVE  \E h \in W : t[i].num = num[h] /\ t[i].data = val[h]
  <2>1. PICK j \in 1..Len(s) : t[i] = s[j]
    BY <1>6
  <2>2. \A j2 \in 1..Len(s) : \E h \in W : s[j2].num = num[h] /\ s[j2].data = val[h]
    BY DEF Good
  <2> QED BY <2>1, <2>2
<1>9. ASSUME NEW h \in W
      PROVE  \E i \in 1..Len(t) :
                t[i].num = num[h] \/ (num[h] < t[i].num /\ t[i].num < num[m])
  <2>1. PICK i \in 1..Len(s) : s[i].num = num[h] \/ (num[h] < s[i].num /\ s[i].num < num[m])
    BY DEF Good
  <2>2. num[h] \in Nat
    BY NumberingOrder
  <2>3. CASE i < old
    <3>1. s[i].num < s[old].num /\ s[old].num < num[m]
      BY <1>2, <1>3, <1>4, <2>3
    <3>2. 1 \in 1..Len(t) /\ t[1] = s[old]
      <4>1. 1 \in 1..Len(t) /\ (old + 1) - 1 = old
        BY <1>3, <1>4, <1>6
      <4> QED BY <1>6, <4>1
    <3>3. num[h] < s[old].num
      BY <1>4, <1>5, <2>1, <2>2, <3>1
    <3> QED BY <3>1, <3>2, <3>3
  <2>4. CASE ~(i < old)
    <3>1. (i - old) + 1 \in 1..Len(t) /\ (old + ((i - old) + 1)) - 1 = i
      BY <1>3, <1>4, <1>6, <2>4
    <3>2. t[(i - old) + 1] = s[i]
      BY <1>6, <3>1
    <3> QED BY <2>1, <3>1, <3>2
  <2> QED BY <2>3, <2>4
<1> QED BY <1>7, <1>8, <1>9 DEF Good

\* The records of the blocks up to height h.
LEMMA GoodPrefix ==
    ASSUME NEW s \in Histories, NEW n \in 0..Len(s), NEW num, NEW H, Numbering(num, H), NEW val,
           NEW W \in SUBSET (1..H), NEW m \in 1..H, Good(s, n, num, val, W, m), NEW h \in m..H
    PROVE  \E c \in 0..n : /\ Good(s, c, num, val, {x \in W : x <= h}, m)
                           /\ \A i \in 1..n : i <= c <=> s[i].num <= num[h]
<1> DEFINE T == {d \in 0..n : d < n => s[d + 1].num > num[h]}
<1>1. Len(s) \in Nat /\ n \in Nat /\ n <= Len(s) /\ H \in Nat /\ h \in 1..H
  BY DEF Histories, Numbering
<1>2. num[h] \in Nat /\ num[m] \in Nat /\ num[m] <= num[h]
  BY <1>1, NumberingOrder
<1>3. \A i \in 1..n : s[i].num \in Nat /\ i \in 1..Len(s)
  BY <1>1, RecordOf
<1>4. PICK c \in T : \A d \in T : c <= d
  <2>1. n \in T /\ T \subseteq Nat
    BY <1>1
  <2> HIDE DEF T
  <2> QED BY <2>1, LeastNatural
<1>5. c \in 0..n /\ c \in Nat /\ (c < n => s[c + 1].num > num[h])
  BY <1>1
<1>6. ASSUME NEW i \in 1..c PROVE s[i].num <= num[h]
  <2>1. i - 1 \in 0..n /\ i - 1 < c /\ i \in 1..n /\ (i - 1) + 1 = i /\ i - 1 < n
    BY <1>1, <1>5
  <2>2. i - 1 \notin T
    <3> HIDE DEF T
    <3> QED BY <1>4, <1>5, <2>1
  <2>3. ~(s[i].num > num[h])
    BY <2>1, <2>2
  <2> QED BY <1>2, <1>3, <2>1, <2>3
<1> HIDE DEF T
<1>7. \A i, j \in 1..n : i < j => s[i].num < s[j].num
  BY DEF Good
<1>8. ASSUME NEW i \in 1..n, ~(i <= c) PROVE ~(s[i].num <= num[h])
  <2>1. c + 1 \in 1..n /\ c < n /\ (i = c + 1 \/ c + 1 < i)
    BY <1>1, <1>5, <1>8
  <2>2. s[c + 1].num > num[h] /\ s[c + 1].num \in Nat /\ s[i].num \in Nat
    BY <1>3, <1>5, <2>1
  <2>3. i = c + 1 \/ s[c + 1].num < s[i].num
    BY <1>7, <2>1
  <2> QED BY <1>2, <2>2, <2>3
<1>9. \A i \in 1..n : i <= c <=> s[i].num <= num[h]
  BY <1>5, <1>6, <1>8
<1>10. \A i \in 1..c : i \in 1..n
  BY <1>1, <1>5
<1>11. ASSUME NEW i \in 1..c
       PROVE  \E x \in {x \in W : x <= h} : s[i].num = num[x] /\ s[i].data = val[x]
  <2>1. PICK x \in W : s[i].num = num[x] /\ s[i].data = val[x]
    BY <1>10 DEF Good
  <2>2. x <= h
    BY <1>1, <1>6, <2>1, NumberingOrder
  <2> QED BY <2>1, <2>2
<1>12. ASSUME NEW x \in {x \in W : x <= h}
       PROVE  \E i \in 1..c :
                 s[i].num = num[x] \/ (num[x] < s[i].num /\ s[i].num < num[m])
  <2>1. PICK i \in 1..n : s[i].num = num[x] \/ (num[x] < s[i].num /\ s[i].num < num[m])
    BY DEF Good
  <2>2. num[x] <= num[h] /\ num[x] \in Nat
    BY <1>1, NumberingOrder
  <2>3. s[i].num <= num[h]
    BY <1>2, <1>3, <2>1, <2>2
  <2>4. i \in 1..c
    BY <1>1, <1>5, <1>9, <2>3
  <2> QED BY <2>1, <2>4
<1>13. Good(s, c, num, val, {x \in W : x <= h}, m)
  BY <1>7, <1>10, <1>11, <1>12 DEF Good
<1> QED BY <1>5, <1>9, <1>13

\* Newer records after older ones.
LEMMA GoodConcat ==
    ASSUME NEW s \in Histories, NEW t \in Histories, NEW num, NEW H, Numbering(num, H), NEW val,
           NEW V \in SUBSET (1..H), NEW W \in SUBSET (1..H), NEW m \in 1..H,
           \A x \in V, y \in W : x < y,
           Good(s, Len(s), num, val, V, m), Good(t, Len(t), num, val, W, 1), NEW u, u = s \o t
    PROVE  Good(u, Len(u), num, val, V \cup W, m)
<1>1. Len(s) \in Nat /\ Len(t) \in Nat /\ H \in Nat /\ 1 \in 1..H
  BY DEF Histories, Numbering
<1>2. /\ Len(u) = Len(s) + Len(t)
      /\ \A i \in 1..Len(s) : i \in 1..Len(u) /\ u[i] = s[i]
      /\ \A i \in 1..Len(t) : Len(s) + i \in 1..Len(u) /\ u[Len(s) + i] = t[i]
      /\ \A i \in 1..Len(u) : i \in 1..Len(s) \/ i - Len(s) \in 1..Len(t)
  <2>1. s \in Seq(Records) /\ t \in Seq(Records)
    BY DEF Histories
  <2> QED BY <1>1, <2>1
<1>3. \A i \in 1..Len(u) : i \in 1..Len(s) \/ \E j \in 1..Len(t) : i = Len(s) + j
  BY <1>1, <1>2
<1>4. /\ \A i \in 1..Len(s) : s[i].num \in Nat
      /\ \A i \in 1..Len(t) : t[i].num \in Nat
  BY RecordOf
<1>5. ASSUME NEW i \in 1..Len(s), NEW j \in 1..Len(t) PROVE s[i].num < t[j].num
  <2>1. PICK x \in V : s[i].num = num[x]
    BY DEF Good
  <2>2. PICK y \in W : t[j].num = num[y]
    BY DEF Good
  <2>3. num[x] < num[y]
    BY NumberingOrder
  <2> QED BY <2>1, <2>2, <2>3
<1>6. ASSUME NEW i \in 1..Len(u), NEW j \in 1..Len(u), i < j PROVE u[i].num < u[j].num
  <2>1. CASE i \in 1..Len(s) /\ j \in 1..Len(s)
    BY <1>2, <1>6, <2>1 DEF Good
  <2>2. CASE i \in 1..Len(s) /\ \E a \in 1..Len(t) : j = Len(s) + a
    BY <1>2, <1>5, <2>2
  <2>3. CASE \E a, b \in 1..Len(t) : i = Len(s) + a /\ j = Len(s) + b
    <3>1. PICK a \in 1..Len(t), b \in 1..Len(t) : i = Len(s) + a /\ j = Len(s) + b
      BY <2>3
    <3>2. a < b
      BY <1>1, <1>6, <3>1
    <3>3. t[a].num < t[b].num
      BY <3>2 DEF Good
    <3> QED BY <1>2, <3>1, <3>3
  <2>4. ~(j \in 1..Len(s) /\ \E a \in 1..Len(t) : i = Len(s) + a)
    BY <1>1, <1>6
  <2> QED BY <1>3, <2>1, <2>2, <2>3, <2>4
<1>7. ASSUME NEW i \in 1..Len(u)
      PROVE  \E h \in V \cup W : u[i].num = num[h] /\ u[i].data = val[h]
  <2>1. CASE i \in 1..Len(s)
    <3>1. PICK x \in V : s[i].num = num[x] /\ s[i].data = val[x]
      BY <2>1 DEF Good
    <3> QED BY <1>2, <2>1, <3>1
  <2>2. CASE \E j \in 1..Len(t) : i = Len(s) + j
    <3>1. PICK j \in 1..Len(t) : i = Len(s) + j
      BY <2>2
    <3>2. PICK x \in W : t[j].num = num[x] /\ t[j].data = val[x]
      BY DEF Good
    <3> QED BY <1>2, <3>1, <3>2
  <2> QED BY <1>3, <2>1, <2>2
<1>8. ASSUME NEW h \in V \cup W
      PROVE  \E i \in 1..Len(u) :
                u[i].num = num[h] \/ (num[h] < u[i].num /\ u[i].num < num[m])
  <2>1. CASE h \in V
    <3>1. PICK i \in 1..Len(s) : s[i].num = num[h] \/ (num[h] < s[i].num /\ s[i].num < num[m])
      BY <2>1 DEF Good
    <3> QED BY <1>2, <3>1
  <2>2. CASE h \in W
    <3>1. PICK i \in 1..Len(t) : t[i].num = num[h] \/ (num[h] < t[i].num /\ t[i].num < num[1])
      BY <2>2 DEF Good
    <3>2. num[1] <= num[h] /\ num[1] \in Nat /\ num[h] \in Nat
      BY <1>1, NumberingOrder
    <3>3. t[i].num = num[h]
      BY <1>4, <3>1, <3>2
    <3> QED BY <1>2, <3>3
  <2> QED BY <2>1, <2>2
<1> QED BY <1>6, <1>7, <1>8 DEF Good

\* The newest block, at height H, writes.
LEMMA GoodAppendEntry ==
    ASSUME NEW s \in Histories, NEW num, NEW H \in Nat \ {0}, Numbering(num, H), NEW val, NEW val2,
           NEW W \in SUBSET (1..H), Good(s, Len(s), num, val, W, 1),
           \A x \in W \ {H} : val2[x] = val[x],
           NEW r \in Records, r.num = num[H], r.data = val2[H],
           NEW t, t = AppendEntry(s, r)
    PROVE  Good(t, Len(t), num, val2, W \cup {H}, 1)
<1>1. Len(s) \in Nat /\ H \in 1..H /\ 1 \in 1..H
  BY DEF Histories
<1>2. \A i \in 1..Len(s) : s[i].num \in Nat
  BY RecordOf
<1>3. ASSUME NEW h \in W PROVE \E i \in 1..Len(s) : s[i].num = num[h]
  <2>1. PICK i \in 1..Len(s) : s[i].num = num[h] \/ (num[h] < s[i].num /\ s[i].num < num[1])
    BY DEF Good
  <2>2. num[1] <= num[h] /\ num[1] \in Nat /\ num[h] \in Nat
    BY <1>1, NumberingOrder
  <2> QED BY <1>2, <2>1, <2>2
<1>4. \A x \in 1..H : num[x] \in Nat /\ (x # H => num[x] < num[H])
  <2> TAKE x \in 1..H
  <2>1. x # H => x < H
    OBVIOUS
  <2> QED BY <1>1, <2>1, NumberingOrder
<1>5. ASSUME NEW i \in 1..Len(s)
      PROVE  \E x \in W : /\ s[i].num = num[x] /\ s[i].data = val[x]
                          /\ (i < Len(s) => x # H)
  <2>1. PICK x \in W : s[i].num = num[x] /\ s[i].data = val[x]
    BY DEF Good
  <2>2. ASSUME i < Len(s), x = H PROVE FALSE
    <3>1. Len(s) \in 1..Len(s)
      BY <1>1, <2>2
    <3>2. s[i].num < s[Len(s)].num
      BY <2>2, <3>1 DEF Good
    <3>3. PICK y \in W : s[Len(s)].num = num[y]
      BY <3>1 DEF Good
    <3>4. num[y] <= num[H]
      BY <1>1, <1>4
    <3> QED BY <1>1, <1>4, <2>1, <2>2, <3>2, <3>3, <3>4
  <2> QED BY <2>1, <2>2
<1>6. s \in Seq(Records)
  BY DEF Histories
<1> HIDE DEF Records
<1>7. CASE s # <<>> /\ s[Len(s)].num = r.num /\ t = [s EXCEPT ![Len(s)] = r]
  <2>1. /\ Len(s) \in 1..Len(s) /\ Len(t) = Len(s)
        /\ t[Len(s)] = r /\ \A i \in 1..Len(s) : i # Len(s) => t[i] = s[i]
    BY <1>1, <1>6, <1>7
  <2>2. \A i \in 1..Len(s) : t[i].num = s[i].num
    BY <1>7, <2>1
  <2>3. ASSUME NEW i \in 1..Len(t), NEW j \in 1..Len(t), i < j PROVE t[i].num < t[j].num
    <3>1. s[i].num < s[j].num
      BY <2>1, <2>3 DEF Good
    <3> QED BY <2>1, <2>2, <3>1
  <2>4. ASSUME NEW i \in 1..Len(t)
        PROVE  \E h \in W \cup {H} : t[i].num = num[h] /\ t[i].data = val2[h]
    <3>1. CASE i = Len(s)
      BY <2>1, <3>1
    <3>2. CASE i # Len(s)
      <4>1. i < Len(s) /\ i \in 1..Len(s)
        BY <1>1, <2>1, <3>2
      <4>2. PICK x \in W : s[i].num = num[x] /\ s[i].data = val[x] /\ x # H
        BY <1>5, <4>1
      <4> QED BY <2>1, <4>1, <4>2
    <3> QED BY <3>1, <3>2
  <2>5. ASSUME NEW h \in W \cup {H} PROVE \E i \in 1..Len(t) : t[i].num = num[h]
    <3>1. CASE h = H
      BY <1>7, <2>1, <3>1
    <3>2. CASE h \in W
      BY <1>3, <2>1, <2>2, <3>2
    <3> QED BY <3>1, <3>2
  <2> QED BY <2>3, <2>4, <2>5 DEF Good
<1>8. CASE ~(s # <<>> /\ s[Len(s)].num = r.num) /\ t = Append(s, r)
  <2>1. /\ Len(t) = Len(s) + 1 /\ t[Len(s) + 1] = r
        /\ \A i \in 1..Len(s) : t[i] = s[i] /\ i \in 1..Len(t)
        /\ \A i \in 1..Len(t) : i \in 1..Len(s) \/ i = Len(s) + 1
        /\ Len(s) + 1 \in 1..Len(t)
    BY <1>1, <1>6, <1>8
  <2>2. ASSUME NEW i \in 1..Len(s)
        PROVE  \E x \in W : s[i].num = num[x] /\ s[i].data = val[x] /\ x # H
    <3>1. PICK x \in W : s[i].num = num[x] /\ s[i].data = val[x] /\ (i < Len(s) => x # H)
      BY <1>5
    <3>2. i = Len(s) => x # H
      <4>1. s # <<>>
        BY <1>1, <1>6
      <4> QED BY <1>8, <3>1, <4>1
    <3>3. i < Len(s) \/ i = Len(s)
      BY <1>1
    <3> QED BY <3>1, <3>2, <3>3
  <2>3. \A i \in 1..Len(s) : s[i].num < r.num
    BY <1>4, <2>2
  <2>4. ASSUME NEW i \in 1..Len(t), NEW j \in 1..Len(t), i < j PROVE t[i].num < t[j].num
    <3>1. i \in 1..Len(s) /\ (j \in 1..Len(s) \/ j = Len(s) + 1)
      BY <1>1, <2>1, <2>4
    <3>2. CASE j \in 1..Len(s)
      BY <2>1, <2>4, <3>1, <3>2 DEF Good
    <3>3. CASE j = Len(s) + 1
      BY <2>1, <2>3, <3>1, <3>3
    <3> QED BY <3>1, <3>2, <3>3
  <2>5. ASSUME NEW i \in 1..Len(t)
        PROVE  \E h \in W \cup {H} : t[i].num = num[h] /\ t[i].data = val2[h]
    <3>1. CASE i = Len(s) + 1
      BY <2>1, <3>1
    <3>2. CASE i \in 1..Len(s)
      <4>1. PICK x \in W : s[i].num = num[x] /\ s[i].data = val[x] /\ x # H
        BY <2>2, <3>2
      <4> QED BY <2>1, <3>2, <4>1
    <3> QED BY <2>1, <3>1, <3>2
  <2>6. ASSUME NEW h \in W \cup {H} PROVE \E i \in 1..Len(t) : t[i].num = num[h]
    <3>1. CASE h = H
      BY <2>1, <3>1
    <3>2. CASE h \in W
      BY <1>3, <2>1, <3>2
    <3> QED BY <3>1, <3>2
  <2> QED BY <2>4, <2>5, <2>6 DEF Good
<1> QED BY <1>7, <1>8 DEF AppendEntry

-----------------------------------------------------------------------------
(* The inductive invariant for what histories tell.                         *)

\* The numbers of the blocks of the stored chain, and of the chain being added, by height.
TopNums == [h \in 1..Height(top) |-> idToNum[Ancestor(top, h)]]
NewestNums == [h \in 1..Height(newest) |-> NewestNum(Ancestor(newest, h))]

\* The lowest height at which the history of a key has to tell the value.
Low(k) == IF k \in NotCut THEN 1 ELSE minHeight

\* How often the block at height h has written to k so far, the blocks being added that
\* have written, and what they wrote last.
WrittenAt(k, h) == newest[h - 1][k] - (IF h = Height(newest) THEN todo[k] ELSE 0)
NewWriters(k) == {h \in Height(top) + 1..Height(newest) : WrittenAt(k, h) > 0}
NewValues(k) ==
    [h \in 2..Height(newest) |-> [block |-> Ancestor(newest, h), nth |-> WrittenAt(k, h)]]

\* IDs and numbers are those of the stored chain, the blocks being added extend it, and
\* numbers grow with the height.
Chained ==
    /\ DOMAIN idToNum = {Ancestor(top, h) : h \in 1..Height(top)}
    /\ Height(top) <= Height(newest) /\ Ancestor(newest, Height(top)) = top
    /\ DOMAIN newNum = {Ancestor(newest, h) : h \in Height(top) + 1..Height(newest)}
    /\ \A i, j \in 1..Height(newest) : i < j => NewestNums[i] < NewestNums[j]
    /\ validNums = {TopNums[h] : h \in 1..Height(top)}

\* A process that removes blocks filters histories, and so does every later one; nothing
\* is in the batch, nor a block on the stored ones, before its time.
Ordered ==
    /\ pc # "down" => amend = storedAmend /\ (removes => amend)
    /\ pc \in {"idle", "down"} => newest = top
    /\ pc = "adding" => Height(newest) > Height(top)
    /\ pc # "flushing" => DOMAIN batch = {}

\* A stored history tells what the stored chain wrote, once the records of removed blocks
\* are taken off its end.  There are none of these before the first removal.
HistoryGood(k) ==
    \E n \in 0..Len(hist[k]) :
        /\ Good(hist[k], n, TopNums, ValuesOf(top, k), WritersOf(top, k), Low(k))
        /\ \A i \in n + 1..Len(hist[k]) : hist[k][i].num \notin validNums
        /\ ~storedAmend => n = Len(hist[k])

\* The records in memory tell what the blocks being added have written.
NewGood(k) == Good(stor[k], Len(stor[k]), NewestNums, NewValues(k), NewWriters(k), 1)

\* The histories in the batch tell what the chain with the blocks being added wrote.
BatchGood(k) ==
    Good(batch[k], Len(batch[k]), NewestNums, ValuesOf(newest, k), WritersOf(newest, k), Low(k))

HInv ==
    /\ IInv /\ Chained /\ Ordered
    /\ \A k \in Keys : HistoryGood(k) /\ NewGood(k)
    /\ \A k \in DOMAIN batch : BatchGood(k)

LEMMA BlockNumbers ==
    ASSUME IInv, Chained
    PROVE  /\ Height(top) \in Nat \ {0} /\ Height(newest) \in Nat \ {0}
           /\ Height(top) <= Height(newest)
           /\ Numbering(NewestNums, Height(newest)) /\ Numbering(TopNums, Height(top))
           /\ \A h \in 1..Height(top) : /\ h \in 1..Height(newest)
                                        /\ Ancestor(newest, h) = Ancestor(top, h)
                                        /\ NewestNums[h] = TopNums[h]
           /\ \A h \in 2..Height(top) : newest[h - 1] = top[h - 1]
           /\ MinAcceptableBlockNum = TopNums[minHeight]
           /\ \A k \in Keys : Low(k) \in 1..Height(top) /\ Low(k) \in 1..Height(newest)
<1>1. /\ Height(top) \in Nat \ {0} /\ Height(newest) \in Nat \ {0}
      /\ Height(top) <= Height(newest) /\ top \in Blocks /\ newest \in Blocks
  BY AncestorSelf DEF IInv, TypeOK, Chained
<1>2. \A h \in 1..Height(top) : h \in 1..Height(newest)
  BY <1>1
<1>3. \A h \in 1..Height(top) : Ancestor(newest, h) = Ancestor(top, h)
  <2>1. Height(top) \in 1..Height(newest)
    BY <1>1
  <2>2. \A j \in 1..Height(top) : Ancestor(Ancestor(newest, Height(top)), j) = Ancestor(newest, j)
    BY <1>1, <2>1, AncestorOf
  <2> QED BY <2>2 DEF Chained
<1>4. \A h \in 1..Height(newest) : NewestNum(Ancestor(newest, h)) \in Nat
  BY DEF IInv, TypeOK, Known, NewestNum
<1>5. Numbering(NewestNums, Height(newest))
  BY <1>1, <1>4 DEF Numbering, NewestNums, Chained
<1>6. \A h \in 1..Height(top) : NewestNums[h] = TopNums[h]
  <2> SUFFICES ASSUME NEW h \in 1..Height(top) PROVE NewestNums[h] = TopNums[h]
    OBVIOUS
  <2>1. Height(Ancestor(newest, h)) = h /\ h \in Nat /\ h <= Height(top)
    BY <1>1, <1>2, AncestorOf
  <2>2. \A i \in Height(top) + 1..Height(newest) :
           i \in 1..Height(newest) /\ i > Height(top) /\ Height(Ancestor(newest, i)) = i
    BY <1>1, AncestorOf
  <2>3. Ancestor(newest, h) \notin DOMAIN newNum
    BY <1>1, <2>1, <2>2 DEF Chained
  <2> QED BY <1>2, <1>3, <2>3 DEF NewestNums, TopNums, NewestNum
<1>7. Numbering(TopNums, Height(top))
  <2>1. \A h \in 1..Height(top) : TopNums[h] \in Nat
    BY <1>2, <1>5, <1>6 DEF Numbering
  <2>2. TopNums \in [1..Height(top) -> Nat]
    <3>1. DOMAIN TopNums = 1..Height(top) /\ TopNums = [h \in 1..Height(top) |-> TopNums[h]]
      BY DEF TopNums
    <3> HIDE DEF TopNums
    <3> QED BY <2>1, <3>1
  <2>3. \A i, j \in 1..Height(top) : i < j => TopNums[i] < TopNums[j]
    BY <1>2, <1>5, <1>6 DEF Numbering
  <2> QED BY <1>1, <2>2, <2>3 DEF Numbering
<1>8. \A h \in 2..Height(top) : newest[h - 1] = top[h - 1]
  <2> DEFINE n == Height(top) - 1
  <2>1. top = SubSeq(newest, 1, n)
    BY DEF Chained, Ancestor
  <2>2. newest \in Seq(Contents) /\ n \in Nat /\ n <= Len(newest)
    BY <1>1 DEF Blocks, Height
  <2>3. \A h \in 2..Height(top) : h - 1 \in 1..n
    BY <1>1
  <2> HIDE DEF n
  <2>4. \A i \in 1..n : SubSeq(newest, 1, n)[i] = newest[i]
    BY <2>2
  <2> QED BY <2>1, <2>3, <2>4
<1>9. minHeight \in 1..Height(top)
  BY <1>1 DEF IInv, TypeOK, Known
<1>10. MinAcceptableBlockNum = TopNums[minHeight]
  BY <1>9 DEF MinAcceptableBlockNum, TopNums
<1>11. \A k \in Keys : Low(k) \in 1..Height(top)
  BY <1>1, <1>9 DEF Low
<1> QED BY <1>1, <1>2, <1>3, <1>5, <1>6, <1>7, <1>8, <1>10, <1>11

LEMMA WritersOfType ==
    ASSUME NEW b \in Blocks, NEW k
    PROVE  WritersOf(b, k) \in SUBSET (1..Height(b))
<1>1. Height(b) \in Nat
  BY AncestorSelf
<1> QED BY <1>1 DEF WritersOf

\* Records of removed blocks are filtered off: the numbers say where they begin.
LEMMA FilterIs ==
    ASSUME NEW s \in Histories, NEW n \in 0..Len(s), n > 0 => s[n].num \in validNums,
           \A i \in n + 1..Len(s) : s[i].num \notin validNums
    PROVE  Filter(s) = SubSeq(s, 1, n)
<1> DEFINE Fits(x) == /\ x > 0 => s[x].num \in validNums
                      /\ \A i \in x + 1..Len(s) : s[i].num \notin validNums
           x0 == CHOOSE x \in 0..Len(s) : Fits(x)
<1>1. Len(s) \in Nat /\ n \in Nat
  BY DEF Histories
<1>2. Fits(n)
  OBVIOUS
<1>3. Filter(s) = SubSeq(s, 1, x0)
  BY DEF Filter
<1>4. x0 \in 0..Len(s) /\ Fits(x0)
  <2> HIDE DEF Fits
  <2> QED BY <1>2
<1> HIDE DEF x0
<1>5. x0 = n
  <2>1. CASE x0 < n
    <3>1. n \in x0 + 1..Len(s) /\ n > 0
      BY <1>1, <1>4, <2>1
    <3> QED BY <1>2, <1>4, <3>1
  <2>2. CASE n < x0
    <3>1. x0 \in n + 1..Len(s) /\ x0 > 0
      BY <1>1, <1>4, <2>2
    <3> QED BY <1>2, <1>4, <3>1
  <2> QED BY <1>1, <1>4, <2>1, <2>2
<1> QED BY <1>3, <1>5

\* What a reader of a history gets.
LEMMA NormalizedGood ==
    ASSUME HInv, pc # "down", NEW k \in Keys
    PROVE  /\ Normalized(k) \in Histories
           /\ Good(Normalized(k), Len(Normalized(k)), TopNums, ValuesOf(top, k), WritersOf(top, k), Low(k))
<1> DEFINE s == hist[k]
           f == IF amend THEN Filter(s) ELSE s
           W == WritersOf(top, k)
           V == ValuesOf(top, k)
           H == Height(top)
<1>1. /\ IInv /\ Chained /\ s \in Histories /\ Len(s) \in Nat /\ amend = storedAmend
      /\ amend \in BOOLEAN
  BY DEF HInv, Ordered, IInv, TypeOK, Histories
<1>2. /\ Numbering(TopNums, H) /\ Low(k) \in 1..H
      /\ MinAcceptableBlockNum = TopNums[minHeight] /\ W \in SUBSET (1..H)
  BY <1>1, BlockNumbers, WritersOfType DEF IInv, TypeOK
<1>3. Normalized(k) \in Histories
  BY <1>1, NumbersOf, NormalizedOf
<1>4. PICK n \in 0..Len(s) :
        /\ Good(s, n, TopNums, V, W, Low(k))
        /\ \A i \in n + 1..Len(s) : s[i].num \notin validNums
        /\ ~storedAmend => n = Len(s)
  BY DEF HInv, HistoryGood
<1>5. n \in Nat /\ \A i \in 1..n : s[i].num \in Nat /\ i \in 1..Len(s)
  BY <1>1, RecordOf
<1>6. f \in Histories /\ Len(f) = n /\ \A i \in 1..n : f[i] = s[i]
  <2>1. CASE ~amend
    BY <1>1, <1>4, <2>1
  <2>2. CASE amend
    <3>1. n > 0 => s[n].num \in validNums
      <4> SUFFICES ASSUME n > 0 PROVE s[n].num \in validNums
        OBVIOUS
      <4>1. n \in 1..n
        BY <1>5
      <4>2. PICK h \in W : s[n].num = TopNums[h]
        BY <1>4, <4>1 DEF Good
      <4> QED BY <1>1, <1>2, <4>2 DEF Chained
    <3>2. Filter(s) = SubSeq(s, 1, n)
      <4> HIDE DEF s
      <4> QED BY <1>1, <1>4, <3>1, FilterIs
    <3>3. Filter(s) \in Histories
      BY <1>1, FilterOf
    <3>4. Len(SubSeq(s, 1, n)) = n /\ \A i \in 1..n : SubSeq(s, 1, n)[i] = s[i]
      <4>1. s \in Seq(Records) /\ n \in Nat /\ n <= Len(s)
        BY <1>1 DEF Histories
      <4> HIDE DEF s
      <4> QED BY <4>1
    <3> QED BY <2>2, <3>2, <3>3, <3>4
  <2> QED BY <2>1, <2>2
<1> HIDE DEF s, W, V, H
<1>7. Good(f, Len(f), TopNums, V, W, Low(k))
  <2> HIDE DEF f
  <2>1. Good(f, n, TopNums, V, W, Low(k))
    BY <1>2, <1>4, <1>5, <1>6, GoodSame
  <2> QED BY <1>6, <2>1
<1>8. CASE k \in NotCut
  <2>1. Normalized(k) = f
    BY <1>8 DEF Normalized, s
  <2> QED BY <1>3, <1>7, <2>1 DEF W, V
<1>9. CASE k \notin NotCut
  <2>1. Normalized(k) = Cut(f) /\ Low(k) = minHeight
    BY <1>9 DEF Normalized, s, Low
  <2> HIDE DEF f
  <2> DEFINE old == CountBelow(f, TopNums[minHeight])
  <2>2. Cut(f) = IF old = 0 THEN f ELSE SubSeq(f, old, Len(f))
    BY <1>2 DEF Cut
  <2>3. old # 0 => Good(Cut(f), Len(Cut(f)), TopNums, V, W, minHeight)
    <3>1. old = CountBelow(f, TopNums[minHeight])
      OBVIOUS
    <3>2. old # 0 => Cut(f) = SubSeq(f, old, Len(f))
      BY <2>2
    <3> HIDE DEF old
    <3> QED BY <1>2, <1>6, <1>7, <2>1, <3>1, <3>2, GoodCut
  <2>4. old = 0 => Cut(f) = f
    BY <2>2
  <2> HIDE DEF old
  <2>5. Good(Cut(f), Len(Cut(f)), TopNums, V, W, minHeight)
    BY <1>7, <2>1, <2>3, <2>4
  <2> QED BY <1>3, <2>1, <2>5 DEF W, V
<1> QED BY <1>8, <1>9

\* How often a block writes to a key.
LEMMA ContentsOf ==
    ASSUME NEW b \in Blocks, NEW k \in Keys, NEW h \in 2..Height(b)
    PROVE  b[h - 1][k] \in Nat /\ h \in Nat /\ h \in 1..Height(b)
<1>1. Len(b) \in Nat /\ h - 1 \in 1..Len(b) /\ h \in 1..Height(b)
  BY DEF Blocks, Height
<1>2. b[h - 1] \in Contents
  BY <1>1 DEF Blocks
<1> QED BY <1>1, <1>2, HistoryAssumption

\* Which blocks of the chain being added wrote to a key.
LEMMA WritersSplit ==
    ASSUME IInv, Chained, NEW k \in Keys
    PROVE  /\ WritersOf(top, k) \in SUBSET (1..Height(newest))
           /\ NewWriters(k) \in SUBSET (1..Height(newest))
           /\ \A x \in WritersOf(top, k), y \in NewWriters(k) : x < y
           /\ \A x \in WritersOf(top, k) : /\ NewestNums[x] = TopNums[x]
                                           /\ ValuesOf(newest, k)[x] = ValuesOf(top, k)[x]
           /\ \A x \in NewWriters(k) : x \in 2..Height(newest)
           /\ todo[k] = 0 =>
                 /\ WritersOf(newest, k) = WritersOf(top, k) \cup NewWriters(k)
                 /\ NewValues(k) = ValuesOf(newest, k)
<1> DEFINE H == Height(top)
           N == Height(newest)
<1>1. /\ H \in Nat \ {0} /\ N \in Nat \ {0} /\ H <= N
      /\ \A h \in 1..H : /\ h \in 1..N /\ Ancestor(newest, h) = Ancestor(top, h)
                         /\ NewestNums[h] = TopNums[h]
      /\ \A h \in 2..H : newest[h - 1] = top[h - 1]
  BY BlockNumbers
<1> HIDE DEF H, N
<1>2. \A x \in WritersOf(top, k) : x \in 2..H /\ x \in 2..N /\ x \in 1..H /\ x \in 1..N
  BY <1>1 DEF WritersOf, H
<1>3. \A y \in NewWriters(k) : y \in H + 1..N /\ y \in 2..N /\ y \in 1..N
  BY <1>1 DEF NewWriters, H, N
<1>4. \A x \in WritersOf(top, k), y \in NewWriters(k) : x < y
  BY <1>1, <1>2, <1>3
<1>5. \A x \in WritersOf(top, k) : /\ NewestNums[x] = TopNums[x]
                                   /\ ValuesOf(newest, k)[x] = ValuesOf(top, k)[x]
  BY <1>1, <1>2 DEF ValuesOf, H, N
<1>6. ASSUME todo[k] = 0
      PROVE  /\ WritersOf(newest, k) = WritersOf(top, k) \cup NewWriters(k)
             /\ NewValues(k) = ValuesOf(newest, k)
  <2>1. \A h \in 2..N : newest[h - 1][k] \in Nat
    BY ContentsOf DEF IInv, TypeOK, N
  <2>2. \A h \in 2..N : WrittenAt(k, h) = newest[h - 1][k]
    BY <1>6, <2>1 DEF WrittenAt
  <2>3. NewValues(k) = ValuesOf(newest, k)
    BY <2>2 DEF NewValues, ValuesOf, N
  <2>4. WritersOf(newest, k) = {h \in 2..N : newest[h - 1][k] > 0}
    BY DEF WritersOf, N
  <2>5. WritersOf(top, k) = {h \in 2..H : top[h - 1][k] > 0}
    BY DEF WritersOf, H
  <2>6. NewWriters(k) = {h \in H + 1..N : WrittenAt(k, h) > 0}
    BY DEF NewWriters, H, N
  <2>7. \A h : h \in 2..N <=> h \in 2..H \/ h \in H + 1..N
    BY <1>1
  <2>8. \A h \in 2..H : newest[h - 1][k] = top[h - 1][k]
    BY <1>1
  <2>9. \A h \in H + 1..N : WrittenAt(k, h) = newest[h - 1][k]
    BY <2>2, <2>7
  <2>10. ASSUME NEW h PROVE h \in WritersOf(newest, k) <=> h \in WritersOf(top, k) \/ h \in NewWriters(k)
    BY <2>4, <2>5, <2>6, <2>7, <2>8, <2>9
  <2> QED BY <2>3, <2>10
<1> QED BY <1>2, <1>3, <1>4, <1>5, <1>6 DEF H, N

\* What a reader of a history with the records in memory gets.
LEMMA FullGood ==
    ASSUME HInv, pc # "down", NEW k \in Keys, todo[k] = 0
    PROVE  /\ FullHistory(k) \in Histories
           /\ Good(FullHistory(k), Len(FullHistory(k)), NewestNums, ValuesOf(newest, k),
                   WritersOf(newest, k), Low(k))
<1> DEFINE s == Normalized(k)
           t == stor[k]
           V == WritersOf(top, k)
           W == NewWriters(k)
           N == Height(newest)
           val == ValuesOf(newest, k)
<1>1. s \in Histories /\ Good(s, Len(s), TopNums, ValuesOf(top, k), V, Low(k))
  BY NormalizedGood
<1>2. t \in Histories /\ Good(t, Len(t), NewestNums, NewValues(k), W, 1)
  BY DEF HInv, NewGood, IInv, TypeOK
<1>3. /\ N \in Nat \ {0} /\ Numbering(NewestNums, N) /\ Low(k) \in 1..N
      /\ NewestNums[Low(k)] = TopNums[Low(k)]
  BY BlockNumbers DEF HInv
<1>4. /\ V \in SUBSET (1..N) /\ W \in SUBSET (1..N) /\ \A x \in V, y \in W : x < y
      /\ \A x \in V : NewestNums[x] = TopNums[x] /\ val[x] = ValuesOf(top, k)[x]
      /\ WritersOf(newest, k) = V \cup W /\ NewValues(k) = val
  BY WritersSplit DEF HInv
<1>5. FullHistory(k) = s \o t
  BY DEF FullHistory
<1>6. Len(s) \in Nat /\ \A i \in 1..Len(s) : s[i] = s[i] /\ s[i].num \in Nat
  BY <1>1, RecordOf DEF Histories
<1>7. FullHistory(k) \in Histories
  <2>1. s \in Seq(Records) /\ t \in Seq(Records)
    BY <1>1, <1>2 DEF Histories
  <2> HIDE DEF s, t
  <2> QED BY <1>5, <2>1 DEF Histories
<1> HIDE DEF s, t, V, W, N, val
<1>8. Low(k) <= Low(k)
  BY <1>3
<1>9. Good(s, Len(s), NewestNums, val, V, Low(k))
  BY <1>1, <1>3, <1>4, <1>6, <1>8, GoodSame
<1>10. Good(FullHistory(k), Len(FullHistory(k)), NewestNums, val, V \cup W, Low(k))
  BY <1>1, <1>2, <1>3, <1>4, <1>5, <1>9, GoodConcat
<1> QED BY <1>4, <1>7, <1>10 DEF val

-----------------------------------------------------------------------------
(* What reads return.                                                       *)

\* The last record of the first c.
LEMMA TopOfPrefix ==
    ASSUME NEW s \in Histories, NEW c \in 0..Len(s)
    PROVE  TopData(SubSeq(s, 1, c)) = IF c = 0 THEN NoData ELSE s[c].data
<1>1. s \in Seq(Records) /\ Len(s) \in Nat /\ c \in Nat /\ c <= Len(s)
  BY DEF Histories
<1>2. Len(SubSeq(s, 1, c)) = c /\ \A i \in 1..c : SubSeq(s, 1, c)[i] = s[i]
  BY <1>1
<1>3. SubSeq(s, 1, c) \in Seq(Records)
  BY <1>1
<1>4. SubSeq(s, 1, c) = <<>> <=> c = 0
  BY <1>1, <1>2, <1>3
<1>5. c # 0 => SubSeq(s, 1, c)[c] = s[c]
  BY <1>1, <1>2
<1> QED BY <1>2, <1>4, <1>5 DEF TopData

\* A history that is good for a chain tells its values at every height of the window.
LEMMA ReadAtIs ==
    ASSUME NEW s \in Histories, NEW b \in Blocks, NEW k \in Keys, NEW num,
           Numbering(num, Height(b)), NEW m \in 1..Height(b),
           Good(s, Len(s), num, ValuesOf(b, k), WritersOf(b, k), m), NEW h \in m..Height(b)
    PROVE  TopData(SubSeq(s, 1, CountBelow(s, num[h] + 1))) = ValueAt(Ancestor(b, h), k)
<1> DEFINE W == WritersOf(b, k)
           val == ValuesOf(b, k)
           c == CountBelow(s, num[h] + 1)
<1>1. W \in SUBSET (1..Height(b)) /\ h \in 1..Height(b)
  BY WritersOfType
<1>2. Found(s, num, val, W, h, c)
  <2>1. c = CountBelow(s, num[h] + 1) /\ Good(s, Len(s), num, val, W, m)
    OBVIOUS
  <2> HIDE DEF c, W, val
  <2> QED BY <1>1, <2>1, ReadAt
<1>3. /\ (\A y \in W : ~(y <= h)) => ValueAt(Ancestor(b, h), k) = NoData
      /\ \A x : LastUpTo(W, h, x) => ValueAt(Ancestor(b, h), k) = val[x]
  BY <1>1, ValueAtIs
<1> HIDE DEF c, W, val
<1>4. c \in 0..Len(s) /\ Len(s) \in Nat
  BY <1>2 DEF Found, Histories
<1>5. TopData(SubSeq(s, 1, c)) = IF c = 0 THEN NoData ELSE s[c].data
  BY <1>4, TopOfPrefix
<1>6. c = 0 \/ c > 0
  BY <1>4
<1>7. TopData(SubSeq(s, 1, c)) = ValueAt(Ancestor(b, h), k)
  <2>1. CASE c = 0
    BY <1>2, <1>3, <1>5, <2>1 DEF Found
  <2>2. CASE c > 0
    BY <1>2, <1>3, <1>5, <2>2 DEF Found
  <2> QED BY <1>6, <2>1, <2>2
<1> QED BY <1>7 DEF c

LEMMA ReadTopIs ==
    ASSUME NEW s \in Histories, NEW b \in Blocks, NEW k \in Keys, NEW num,
           Numbering(num, Height(b)), NEW m \in 1..Height(b),
           Good(s, Len(s), num, ValuesOf(b, k), WritersOf(b, k), m)
    PROVE  TopData(s) = ValueAt(b, k)
<1> DEFINE W == WritersOf(b, k)
           val == ValuesOf(b, k)
           H == Height(b)
           c == CountBelow(s, num[H] + 1)
<1>1. /\ W \in SUBSET (1..H) /\ H \in Nat \ {0} /\ H \in m..H /\ H \in 1..H /\ Ancestor(b, H) = b
  <2>1. H \in Nat \ {0} /\ Ancestor(b, H) = b
    BY AncestorSelf
  <2> QED BY <2>1, WritersOfType
<1>2. TopData(SubSeq(s, 1, c)) = ValueAt(Ancestor(b, H), k)
  BY <1>1, ReadAtIs
<1>3. Found(s, num, val, W, H, c)
  <2>1. /\ c = CountBelow(s, num[H] + 1) /\ Good(s, Len(s), num, val, W, m) /\ Numbering(num, H)
        /\ m \in 1..H
    OBVIOUS
  <2> HIDE DEF c, W, val, H
  <2> QED BY <1>1, <2>1, ReadAt
<1>4. \A i \in 1..Len(s) : \E h \in W : s[i].num = num[h]
  BY DEF Good
<1>5. Numbering(num, H)
  OBVIOUS
<1> HIDE DEF c, W, val, H
<1>6. \A h \in W : num[h] <= num[H]
  <2> SUFFICES ASSUME NEW h \in W PROVE num[h] <= num[H]
    OBVIOUS
  <2>1. h \in 1..H /\ h <= H
    BY <1>1
  <2> QED BY <1>1, <1>5, <2>1, NumberingOrder
<1>7. \A i \in 1..Len(s) : i <= c
  BY <1>3, <1>4, <1>6 DEF Found
<1>8. Len(s) \in Nat /\ c \in 0..Len(s)
  BY <1>3 DEF Found, Histories
<1>9. c = Len(s)
  BY <1>7, <1>8
<1>10. SubSeq(s, 1, Len(s)) = s
  BY DEF Histories
<1> QED BY <1>1, <1>2, <1>9, <1>10

\* A read over a range of heights returns the values of a key there on chain b.
RangeTold(s, b, k, from, to, first, last) ==
    {s[i].data : i \in (IF first = 0 THEN 1 ELSE first)..last}
      = {ValueAt(Ancestor(b, h), k) : h \in from..to} \ {NoData}

LEMMA ReadRangeIs ==
    ASSUME NEW s \in Histories, NEW b \in Blocks, NEW k \in Keys, NEW num,
           Numbering(num, Height(b)), NEW m \in 1..Height(b),
           Good(s, Len(s), num, ValuesOf(b, k), WritersOf(b, k), m),
           NEW from \in m..Height(b), NEW to \in from..Height(b),
           NEW first, first = CountBelow(s, num[from] + 1),
           NEW last, last = CountBelow(s, num[to] + 1)
    PROVE  RangeTold(s, b, k, from, to, first, last)
<1> DEFINE W == WritersOf(b, k)
           val == ValuesOf(b, k)
           X == InForce(W, from, to)
           H == Height(b)
<1>1. W \in SUBSET (1..H) /\ \A h \in from..to : h \in 1..H /\ h \in m..H
  BY AncestorSelf, WritersOfType
<1>2. {s[i].data : i \in (IF first = 0 THEN 1 ELSE first)..last} = {val[x] : x \in X}
  <2>1. /\ Good(s, Len(s), num, val, W, m) /\ Numbering(num, H)
        /\ m \in 1..H /\ from \in m..H /\ to \in from..H
    OBVIOUS
  <2> HIDE DEF W, val, H
  <2>2. RangeFound(s, val, W, from, to, first, last)
    BY <1>1, <2>1, ReadRange
  <2> QED BY <2>2 DEF RangeFound
<1>3. \A h \in from..to :
        /\ (\A y \in W : ~(y <= h)) => ValueAt(Ancestor(b, h), k) = NoData
        /\ \A x : LastUpTo(W, h, x) => ValueAt(Ancestor(b, h), k) = val[x]
  BY <1>1, ValueAtIs
<1>4. \A h \in from..to : (\A y \in W : ~(y <= h)) \/ \E x \in W : LastUpTo(W, h, x)
  <2> SUFFICES ASSUME NEW h \in from..to
               PROVE  (\A y \in W : ~(y <= h)) \/ \E x \in W : LastUpTo(W, h, x)
    OBVIOUS
  <2>1. PICK c : c = CountBelow(s, num[h] + 1)
    OBVIOUS
  <2>2. Good(s, Len(s), num, val, W, m) /\ Numbering(num, H) /\ m \in 1..H /\ h \in m..H
    BY <1>1
  <2> HIDE DEF W, val, H
  <2>3. Found(s, num, val, W, h, c)
    BY <1>1, <2>1, <2>2, ReadAt
  <2>4. c \in 0..Len(s) /\ Len(s) \in Nat
    BY <2>3 DEF Found, Histories
  <2>5. c = 0 \/ c > 0
    BY <2>4
  <2> QED BY <2>3, <2>5 DEF Found
<1>5. \A x \in W : val[x] # NoData
  <2> SUFFICES ASSUME NEW x \in W PROVE val[x] # NoData
    OBVIOUS
  <2>1. x \in 2..Height(b)
    BY DEF WritersOf
  <2>2. Ancestor(b, x) \in Blocks /\ b[x - 1][k] \in Nat
    BY <2>1, ContentsOf, AncestorOf
  <2>3. val[x] = [block |-> Ancestor(b, x), nth |-> b[x - 1][k]]
    BY <2>1 DEF ValuesOf
  <2>4. val[x] \in [block : Seq(Contents), nth : Nat]
    BY <2>2, <2>3 DEF Blocks
  <2> QED BY <2>4, NoDataAssumption
<1> HIDE DEF W, val, H
<1>6. ASSUME NEW x \in X PROVE val[x] \in {ValueAt(Ancestor(b, h), k) : h \in from..to} \ {NoData}
  BY <1>3, <1>5 DEF InForce
<1>7. ASSUME NEW h \in from..to, ValueAt(Ancestor(b, h), k) # NoData
      PROVE  ValueAt(Ancestor(b, h), k) \in {val[x] : x \in X}
  <2>1. PICK x \in W : LastUpTo(W, h, x)
    BY <1>3, <1>4, <1>7
  <2>2. x \in X /\ ValueAt(Ancestor(b, h), k) = val[x]
    BY <1>3, <2>1 DEF InForce
  <2> QED BY <2>2
<1>8. {val[x] : x \in X} = {ValueAt(Ancestor(b, h), k) : h \in from..to} \ {NoData}
  BY <1>6, <1>7
<1> HIDE DEF X
<1> QED BY <1>2, <1>8 DEF RangeTold

\* The last record of a history with the records in memory.
LEMMA TopOfFull ==
    ASSUME NEW s \in Histories, NEW t \in Histories
    PROVE  TopData(s \o t) = IF t # <<>> THEN TopData(t) ELSE TopData(s)
<1>1. s \in Seq(Records) /\ t \in Seq(Records) /\ Len(s) \in Nat /\ Len(t) \in Nat
  BY DEF Histories
<1>2. t = <<>> => s \o t = s
  BY <1>1
<1>3. ASSUME t # <<>>
      PROVE  /\ s \o t # <<>> /\ (s \o t)[Len(s \o t)] = t[Len(t)]
  <2>1. Len(t) \in Nat \ {0} /\ Len(s \o t) = Len(s) + Len(t)
    BY <1>1, <1>3
  <2>2. Len(s \o t) # 0
    BY <1>1, <2>1
  <2>3. (s \o t)[Len(s) + Len(t)] = t[Len(t)]
    BY <1>1, <2>1
  <2> QED BY <2>1, <2>2, <2>3
<1> QED BY <1>2, <1>3 DEF TopData

LEMMA HistoriesTell ==
    ASSUME HInv
    PROVE  HistoriesMatchChain
<1> SUFFICES ASSUME pc # "down", NEW k \in Keys, NEW h \in Window(k, top)
             PROVE  EntryDataAtHeight(k, h) = ValueAt(Ancestor(top, h), k)
  BY DEF HistoriesMatchChain
<1> DEFINE s == Normalized(k)
<1>1. /\ s \in Histories
      /\ Good(s, Len(s), TopNums, ValuesOf(top, k), WritersOf(top, k), Low(k))
  BY NormalizedGood
<1>2. /\ Numbering(TopNums, Height(top)) /\ Low(k) \in 1..Height(top) /\ top \in Blocks
      /\ Height(top) \in Nat
  BY BlockNumbers DEF HInv, IInv, TypeOK
<1>3. h \in Low(k)..Height(top)
  BY DEF Window, Low
<1>4. h \in 1..Height(top) /\ TopNums[h] = idToNum[Ancestor(top, h)]
  BY <1>2, <1>3 DEF TopNums
<1>5. EntryDataAtHeight(k, h) = TopData(SubSeq(s, 1, CountBelow(s, TopNums[h] + 1)))
  BY <1>4 DEF EntryDataAtHeight
<1> HIDE DEF s
<1> QED BY <1>1, <1>2, <1>3, <1>5, ReadAtIs

LEMMA NewestTell ==
    ASSUME HInv
    PROVE  NewestMatchesChain
<1> SUFFICES ASSUME pc # "down", NEW k \in Keys, todo[k] = 0
             PROVE  /\ NewestTopEntryData(k) = ValueAt(newest, k)
                    /\ \A from \in Window(k, newest) : \A to \in from..Height(newest) :
                          NewestEntriesDataInHeightRange(k, from, to)
                            = {ValueAt(Ancestor(newest, h), k) : h \in from..to} \ {NoData}
  BY DEF NewestMatchesChain
<1> DEFINE s == FullHistory(k)
<1>1. /\ s \in Histories
      /\ Good(s, Len(s), NewestNums, ValuesOf(newest, k), WritersOf(newest, k), Low(k))
  BY FullGood
<1>2. /\ Numbering(NewestNums, Height(newest)) /\ Low(k) \in 1..Height(newest) /\ newest \in Blocks
      /\ Height(newest) \in Nat
  BY BlockNumbers DEF HInv, IInv, TypeOK
<1>3. NewestTopEntryData(k) = ValueAt(newest, k)
  <2>1. Normalized(k) \in Histories /\ stor[k] \in Histories
    BY NormalizedGood DEF HInv, IInv, TypeOK
  <2>2. NewestTopEntryData(k) = TopData(s)
    BY <2>1, TopOfFull DEF NewestTopEntryData, FullHistory
  <2> HIDE DEF s
  <2>3. TopData(s) = ValueAt(newest, k)
    BY <1>1, <1>2, ReadTopIs
  <2> QED BY <2>2, <2>3
<1>4. ASSUME NEW from \in Window(k, newest), NEW to \in from..Height(newest)
      PROVE  NewestEntriesDataInHeightRange(k, from, to)
               = {ValueAt(Ancestor(newest, h), k) : h \in from..to} \ {NoData}
  <2>1. from \in Low(k)..Height(newest)
    BY DEF Window, Low
  <2>2. /\ from \in 1..Height(newest) /\ NewestNums[from] = NewestNum(Ancestor(newest, from))
        /\ to \in 1..Height(newest) /\ NewestNums[to] = NewestNum(Ancestor(newest, to))
    BY <1>2, <2>1 DEF NewestNums
  <2>3. PICK first : first = CountBelow(s, NewestNums[from] + 1)
    OBVIOUS
  <2>4. PICK last : last = CountBelow(s, NewestNums[to] + 1)
    OBVIOUS
  <2>5. NewestEntriesDataInHeightRange(k, from, to)
          = {s[i].data : i \in (IF first = 0 THEN 1 ELSE first)..last}
    BY <2>2, <2>3, <2>4 DEF NewestEntriesDataInHeightRange
  <2> HIDE DEF s
  <2>6. RangeTold(s, newest, k, from, to, first, last)
    BY <1>1, <1>2, <2>1, <2>3, <2>4, ReadRangeIs
  <2> QED BY <2>5, <2>6 DEF RangeTold
<1> QED BY <1>3, <1>4

-----------------------------------------------------------------------------
(* The steps.                                                               *)

\* No record is needed where nothing was written.
LEMMA GoodEmpty ==
    ASSUME NEW num, NEW val, NEW m
    PROVE  Good(<<>>, Len(<<>>), num, val, {}, m)
BY DEF Good

\* Memory that holds nothing, and the parts of the invariant that this decides.
Empty ==
    /\ IInv /\ \A k \in Keys : stor[k] = <<>>
    /\ newest = top /\ DOMAIN newNum = {} /\ DOMAIN batch = {}
EmptyGood ==
    /\ \A k \in Keys : NewGood(k)
    /\ \A k \in DOMAIN batch : BatchGood(k)
    /\ NewestNums = TopNums
    /\ Height(top) <= Height(newest) /\ Ancestor(newest, Height(top)) = top
    /\ DOMAIN newNum = {Ancestor(newest, h) : h \in Height(top) + 1..Height(newest)}

LEMMA MemoryEmpty == Empty => EmptyGood
<1> SUFFICES ASSUME Empty PROVE EmptyGood
  OBVIOUS
<1>1. Height(top) \in Nat \ {0} /\ Ancestor(top, Height(top)) = top
  BY AncestorSelf DEF Empty, IInv, TypeOK
<1>2. Height(top) + 1..Height(newest) = {}
  BY <1>1 DEF Empty
<1>3. \A k \in Keys : NewWriters(k) = {}
  BY <1>2 DEF NewWriters
<1>4. \A k \in Keys : NewGood(k)
  BY <1>3, GoodEmpty DEF Empty, NewGood
<1>5. NewestNums = TopNums
  BY DEF Empty, NewestNums, TopNums, NewestNum
<1> QED BY <1>1, <1>2, <1>3, <1>4, <1>5 DEF Empty, EmptyGood

LEMMA HInvInit ==
    ASSUME Init
    PROVE  HInv
<1>1. IInv
  BY IInvInit
<1>2. /\ top = <<>> /\ newest = top /\ DOMAIN newNum = {} /\ DOMAIN batch = {} /\ minHeight = 1
      /\ \A k \in Keys : stor[k] = <<>> /\ hist[k] = <<>>
      /\ pc = "down" /\ idToNum = [b \in {<<>>} |-> 0] /\ validNums = {0} /\ storedAmend = FALSE
  BY DEF Init, Genesis, NoNums, NoHistories
<1>3. Height(top) = 1 /\ Ancestor(top, 1) = top
  <2>1. Height(top) = 1
    BY <1>2 DEF Height
  <2>2. Ancestor(top, Height(top)) = top
    BY <1>1, AncestorSelf DEF IInv, TypeOK
  <2> QED BY <2>1, <2>2
<1>4. EmptyGood
  BY <1>1, <1>2, MemoryEmpty DEF Empty
<1>5. TopNums = [h \in 1..1 |-> 0] /\ 1..1 = {1}
  BY <1>2, <1>3 DEF TopNums
<1>6. Chained
  BY <1>2, <1>3, <1>4, <1>5 DEF Chained, EmptyGood
<1>7. Ordered
  BY <1>2 DEF Ordered
<1>8. ASSUME NEW k \in Keys PROVE HistoryGood(k)
  <2>1. WritersOf(top, k) = {}
    BY <1>3 DEF WritersOf
  <2>2. Good(hist[k], 0, TopNums, ValuesOf(top, k), WritersOf(top, k), Low(k))
    BY <2>1 DEF Good
  <2>3. Len(hist[k]) = 0
    BY <1>2
  <2> QED BY <2>2, <2>3 DEF HistoryGood
<1> QED BY <1>1, <1>4, <1>6, <1>7, <1>8 DEF HInv, EmptyGood

\* What a step leaves alone stays good.
LEMMA ChainedSame ==
    ASSUME Chained, UNCHANGED <<top, idToNum, validNums, newest, newNum>>
    PROVE  Chained'
<1>1. TopNums' = TopNums /\ NewestNums' = NewestNums
  BY DEF TopNums, NewestNums, NewestNum
<1> QED BY <1>1 DEF Chained

LEMMA StoredSame ==
    ASSUME NEW k \in Keys, UNCHANGED <<top, minHeight, idToNum, validNums>>, hist'[k] = hist[k],
           storedAmend => storedAmend', HistoryGood(k)
    PROVE  HistoryGood(k)'
<1>1. TopNums' = TopNums /\ Low(k)' = Low(k)
  BY DEF TopNums, Low
<1>2. PICK n \in 0..Len(hist[k]) :
        /\ Good(hist[k], n, TopNums, ValuesOf(top, k), WritersOf(top, k), Low(k))
        /\ \A i \in n + 1..Len(hist[k]) : hist[k][i].num \notin validNums
        /\ ~storedAmend => n = Len(hist[k])
  BY DEF HistoryGood
<1>3. /\ Good(hist'[k], n, TopNums', ValuesOf(top', k), WritersOf(top', k), Low(k)')
      /\ \A i \in n + 1..Len(hist'[k]) : hist'[k][i].num \notin validNums'
      /\ ~storedAmend' => n = Len(hist'[k]) /\ n \in 0..Len(hist'[k])
  BY <1>1, <1>2
<1> QED BY <1>2, <1>3 DEF HistoryGood

LEMMA MemorySame ==
    ASSUME NEW k \in Keys, UNCHANGED <<top, idToNum, newest, newNum>>, todo'[k] = todo[k],
           stor'[k] = stor[k], NewGood(k)
    PROVE  NewGood(k)'
<1>1. NewestNums' = NewestNums /\ NewValues(k)' = NewValues(k) /\ NewWriters(k)' = NewWriters(k)
  BY DEF NewestNums, NewestNum, NewValues, NewWriters, WrittenAt
<1> QED BY <1>1 DEF NewGood

LEMMA BatchSame ==
    ASSUME NEW k \in Keys, UNCHANGED <<minHeight, idToNum, newest, newNum>>, batch'[k] = batch[k],
           BatchGood(k)
    PROVE  BatchGood(k)'
<1>1. NewestNums' = NewestNums /\ Low(k)' = Low(k)
  BY DEF NewestNums, NewestNum, Low
<1> QED BY <1>1 DEF BatchGood

\* Opening the state.
LEMMA HOpenStep ==
    ASSUME HInv, IInv', NEW flag \in BOOLEAN, Open(flag)
    PROVE  HInv'
<1>1. /\ pc = "down" /\ pc' = "idle" /\ amend' = (storedAmend \/ flag) /\ storedAmend' = amend'
      /\ removes' = flag /\ newest' = top
      /\ UNCHANGED <<top, minHeight, idToNum, validNums, hist, todo, newNum, stor, batch>>
  BY DEF Open, HandleAmendFlag, numVars
<1>2. newest' = newest /\ DOMAIN batch' = {} /\ storedAmend \in BOOLEAN
  BY <1>1 DEF HInv, Ordered, IInv, TypeOK
<1>3. Chained'
  BY <1>1, <1>2, ChainedSame DEF HInv
<1>4. Ordered'
  BY <1>1, <1>2 DEF Ordered
<1>5. \A k \in Keys : HistoryGood(k)' /\ NewGood(k)'
  BY <1>1, <1>2, StoredSame, MemorySame DEF HInv
<1> QED BY <1>2, <1>3, <1>4, <1>5 DEF HInv

\* The normalized history is put to the database.
LEMMA NormalizedStored ==
    ASSUME HInv, pc # "down", NEW k \in Keys, hist' = [hist EXCEPT ![k] = Normalized(k)],
           UNCHANGED <<top, minHeight, idToNum, validNums, storedAmend>>
    PROVE  \A x \in Keys : HistoryGood(x)'
<1>1. hist \in [Keys -> Histories]
  BY DEF HInv, IInv, TypeOK
<1>2. \A x \in Keys \ {k} : HistoryGood(x)'
  BY <1>1, StoredSame DEF HInv
<1>3. HistoryGood(k)'
  <2>1. hist'[k] = Normalized(k) /\ TopNums' = TopNums /\ Low(k)' = Low(k)
    BY <1>1 DEF TopNums, Low
  <2>2. /\ Len(Normalized(k)) \in Nat
        /\ Good(Normalized(k), Len(Normalized(k)), TopNums, ValuesOf(top, k), WritersOf(top, k), Low(k))
    BY NormalizedGood DEF Histories
  <2>3. Good(hist'[k], Len(hist'[k]), TopNums', ValuesOf(top', k), WritersOf(top', k), Low(k)')
    BY <2>1, <2>2
  <2>4. Len(hist'[k]) \in 0..Len(hist'[k]) /\ Len(hist'[k]) + 1..Len(hist'[k]) = {}
    BY <2>1, <2>2
  <2> QED BY <2>3, <2>4 DEF HistoryGood
<1> QED BY <1>2, <1>3

\* getHistory with update.
LEMMA HUpdateStep ==
    ASSUME HInv, IInv', NEW k \in Keys, UpdateHistory(k)
    PROVE  HInv'
<1>1. /\ pc # "down" /\ hist' = [hist EXCEPT ![k] = Normalized(k)]
      /\ UNCHANGED <<top, minHeight, idToNum, validNums, storedAmend, pc, amend, removes,
                     newest, todo, newNum, stor, batch>>
  BY DEF UpdateHistory, numVars, memVars
<1>2. Chained'
  BY <1>1, ChainedSame DEF HInv
<1>3. Ordered'
  BY <1>1 DEF Ordered, HInv
<1>4. \A x \in Keys : HistoryGood(x)'
  BY <1>1, NormalizedStored
<1>5. \A x \in Keys : NewGood(x)'
  BY <1>1, MemorySame DEF HInv
<1>6. \A x \in DOMAIN batch' : BatchGood(x)'
  BY <1>1, BatchSame DEF HInv, IInv, TypeOK
<1> QED BY <1>2, <1>3, <1>4, <1>5, <1>6 DEF HInv

\* historyStorage.flush, one key.
LEMMA HFlushHistoryStep ==
    ASSUME HInv, IInv', NEW k \in Keys, FlushHistory(k)
    PROVE  HInv'
<1>1. /\ pc \in {"adding", "flushing"} /\ todo[k] = 0
      /\ hist' = [hist EXCEPT ![k] = Normalized(k)]
      /\ batch' = Updated(batch, [x \in {k} |-> FullHistory(k)])
      /\ pc' = "flushing"
      /\ UNCHANGED <<top, minHeight, idToNum, validNums, storedAmend, amend, removes,
                     newest, todo, newNum, stor>>
  BY DEF FlushHistory, NoWrites, numVars
<1>2. Chained'
  BY <1>1, ChainedSame DEF HInv
<1>3. Ordered'
  BY <1>1 DEF Ordered, HInv
<1>4. \A x \in Keys : HistoryGood(x)'
  BY <1>1, NormalizedStored
<1>5. \A x \in Keys : NewGood(x)'
  BY <1>1, MemorySame DEF HInv
<1>6. /\ DOMAIN batch' = DOMAIN batch \cup {k} /\ batch'[k] = FullHistory(k)
      /\ \A x \in DOMAIN batch \ {k} : batch'[x] = batch[x]
  BY <1>1 DEF Updated
<1>7. \A x \in DOMAIN batch \ {k} : BatchGood(x)'
  BY <1>1, <1>6, BatchSame DEF HInv, IInv, TypeOK
<1>8. BatchGood(k)'
  <2>1. NewestNums' = NewestNums /\ Low(k)' = Low(k)
    BY <1>1 DEF NewestNums, NewestNum, Low
  <2>2. Good(FullHistory(k), Len(FullHistory(k)), NewestNums, ValuesOf(newest, k),
             WritersOf(newest, k), Low(k))
    BY <1>1, FullGood
  <2> QED BY <1>1, <1>6, <2>1, <2>2 DEF BatchGood
<1> QED BY <1>2, <1>3, <1>4, <1>5, <1>6, <1>7, <1>8 DEF HInv

\* What is in memory is dropped.
LEMMA HResetStep ==
    ASSUME HInv, IInv', AddFails \/ Crash
    PROVE  HInv'
<1>1. /\ Reset(top) /\ pc' \in {"idle", "down"} /\ (pc' # "down" => pc # "down")
      /\ UNCHANGED <<top, minHeight, idToNum, validNums, hist, storedAmend, amend, removes>>
  BY DEF AddFails, Crash, numVars
<1>2. /\ newest' = top' /\ DOMAIN newNum' = {} /\ DOMAIN batch' = {}
      /\ \A k \in Keys : stor'[k] = <<>>
  BY <1>1 DEF Reset, NoNums, NoHistories
<1>3. Empty'
  BY <1>2 DEF Empty
<1>4. EmptyGood'
  BY <1>3, MemoryEmpty, PTL
<1>5. TopNums' = TopNums
  BY <1>1 DEF TopNums
<1>6. Chained'
  <2>1. \A i, j \in 1..Height(top) : i < j => TopNums[i] < TopNums[j]
    BY BlockNumbers DEF HInv, Numbering
  <2> QED BY <1>1, <1>2, <1>4, <1>5, <2>1 DEF HInv, Chained, EmptyGood
<1>7. Ordered'
  BY <1>1, <1>2 DEF HInv, Ordered
<1>8. \A k \in Keys : HistoryGood(k)'
  BY <1>1, StoredSame DEF HInv
<1> QED BY <1>4, <1>6, <1>7, <1>8 DEF HInv, EmptyGood

\* A block writes to a key.
LEMMA HAddNewEntryStep ==
    ASSUME HInv, IInv', NEW k \in Keys, AddNewEntry(k)
    PROVE  HInv'
<1> DEFINE N == Height(newest)
           nth == newest[Len(newest)][k] - todo[k] + 1
           r == [data |-> [block |-> newest, nth |-> nth], num |-> NewestNum(newest)]
<1>1. /\ pc = "adding" /\ todo[k] > 0 /\ todo' = [todo EXCEPT ![k] = @ - 1]
      /\ stor' = [stor EXCEPT ![k] = AppendEntry(@, r)]
      /\ UNCHANGED <<top, minHeight, idToNum, validNums, hist, storedAmend, pc, amend, removes,
                     newest, newNum, batch>>
  BY DEF AddNewEntry, numVars
<1>2. /\ IInv /\ Chained /\ todo \in [Keys -> Nat] /\ stor \in [Keys -> Histories]
      /\ newest \in Blocks /\ newest # <<>> /\ todo[k] <= newest[Len(newest)][k]
      /\ Height(top) < N /\ Height(top) \in Nat \ {0} /\ N \in Nat \ {0}
  BY <1>1, BlockNumbers DEF HInv, IInv, TypeOK, TodoFits, Ordered
<1>3. Chained' /\ Ordered' /\ \A x \in Keys : HistoryGood(x)'
  BY <1>1, ChainedSame, StoredSame DEF HInv, Ordered
<1>4. \A x \in Keys \ {k} : NewGood(x)'
  BY <1>1, <1>2, MemorySame DEF HInv
<1>5. NewGood(k)'
  <2>1. /\ N = Len(newest) + 1 /\ Len(newest) \in Nat /\ N \in 2..N /\ N - 1 = Len(newest)
        /\ N \in Height(top) + 1..N /\ Height(newest') = N /\ Height(top') = Height(top)
        /\ Ancestor(newest, N) = newest
    <3>1. N = Len(newest) + 1 /\ Len(newest) \in Nat
      BY <1>2 DEF Blocks, Height
    <3>2. Ancestor(newest, N) = newest
      BY <1>2, AncestorSelf
    <3>3. Height(newest') = N /\ Height(top') = Height(top)
      BY <1>1
    <3> HIDE DEF N
    <3>4. N \in 2..N /\ N - 1 = Len(newest) /\ N \in Height(top) + 1..N
      BY <1>2, <3>1
    <3> QED BY <3>1, <3>2, <3>3, <3>4
  <2>2. /\ newest[Len(newest)][k] \in Nat /\ todo[k] \in Nat /\ todo'[k] = todo[k] - 1
        /\ nth \in Nat /\ nth > 0 /\ newest[Len(newest)][k] - (todo[k] - 1) = nth
    <3>1. newest[N - 1][k] \in Nat
      BY <1>2, <2>1, ContentsOf
    <3>2. newest[Len(newest)][k] \in Nat /\ todo[k] \in Nat /\ todo'[k] = todo[k] - 1
      BY <1>1, <1>2, <2>1, <3>1
    <3>3. \A a, b \in Nat : b > 0 /\ b <= a =>
             a - b + 1 \in Nat /\ a - b + 1 > 0 /\ a - (b - 1) = a - b + 1
      OBVIOUS
    <3> QED BY <1>1, <1>2, <3>2, <3>3
  <2>3. NewestNums' = NewestNums /\ NewestNums[N] = NewestNum(newest)
    BY <1>1, <1>2, <2>1 DEF NewestNums, NewestNum
  <2>4. \A h : h = N => WrittenAt(k, h)' = nth
    BY <1>1, <2>1, <2>2 DEF WrittenAt
  <2>5. \A h \in 2..N : h # N => WrittenAt(k, h)' = WrittenAt(k, h)
    BY <1>1, <2>1 DEF WrittenAt
  <2>6. NewValues(k)'[N] = r.data /\ \A h \in 2..N : h # N => NewValues(k)'[h] = NewValues(k)[h]
    BY <1>1, <2>1, <2>4, <2>5 DEF NewValues
  <2>7. NewWriters(k)' = NewWriters(k) \cup {N}
    <3>1. NewWriters(k) = {h \in Height(top) + 1..N : WrittenAt(k, h) > 0}
      BY DEF NewWriters
    <3>2. NewWriters(k)' = {h \in Height(top) + 1..N : WrittenAt(k, h)' > 0}
      BY <1>1, <2>1 DEF NewWriters
    <3>3. \A h \in Height(top) + 1..N : h \in 2..N
      BY <1>2
    <3> HIDE DEF N, nth
    <3>4. \A h : h \in NewWriters(k)' <=> h \in NewWriters(k) \/ h = N
      <4> SUFFICES ASSUME NEW h PROVE h \in NewWriters(k)' <=> h \in NewWriters(k) \/ h = N
        OBVIOUS
      <4>1. CASE h = N
        BY <2>1, <2>2, <2>4, <3>2, <4>1
      <4>2. CASE h # N
        BY <2>5, <3>1, <3>2, <3>3, <4>2
      <4> QED BY <4>1, <4>2
    <3> QED BY <3>4
  <2>8. r \in Records /\ r.num = NewestNums[N]
    BY <1>2, <2>2, <2>3, NumbersOf DEF Records
  <2>9. /\ Numbering(NewestNums, N) /\ NewWriters(k) \in SUBSET (1..N)
        /\ \A x \in NewWriters(k) : x \in 2..N
        /\ stor[k] \in Histories
        /\ Good(stor[k], Len(stor[k]), NewestNums, NewValues(k), NewWriters(k), 1)
    BY <1>2, BlockNumbers, WritersSplit DEF HInv, NewGood
  <2>10. stor'[k] = AppendEntry(stor[k], r)
    BY <1>1, <1>2
  <2> HIDE DEF N, r, nth
  <2>11. \A x \in NewWriters(k) \ {N} : NewValues(k)'[x] = NewValues(k)[x]
    BY <2>6, <2>9
  <2>12. Good(stor'[k], Len(stor'[k]), NewestNums, NewValues(k)', NewWriters(k) \cup {N}, 1)
    BY <1>2, <2>6, <2>8, <2>9, <2>10, <2>11, GoodAppendEntry
  <2> QED BY <2>3, <2>7, <2>12 DEF NewGood
<1>6. DOMAIN batch' = {}
  BY <1>1 DEF HInv, Ordered
<1> QED BY <1>3, <1>4, <1>5, <1>6 DEF HInv

\* A block is added: it gets a new number, and has written nothing yet.
LEMMA HAddBlockStep ==
    ASSUME HInv, IInv', NEW c \in Contents, AddBlock(c)
    PROVE  HInv'
<1> DEFINE b == Append(newest, c)
           N == Height(newest)
           H == Height(top)
<1>1. /\ pc \in {"idle", "adding"} /\ todo = NoWrites /\ newest' = b /\ todo' = c /\ pc' = "adding"
      /\ newNum' = IF b \in DOMAIN idToNum THEN newNum
                   ELSE Updated(newNum, [x \in {b} |-> NewBlockNum(b)])
      /\ UNCHANGED <<top, minHeight, idToNum, validNums, hist, storedAmend, amend, removes,
                     stor, batch>>
  BY DEF AddBlock, numVars
<1>2. /\ IInv /\ Chained /\ top \in Blocks /\ newest \in Blocks
      /\ H \in Nat \ {0} /\ N \in Nat \ {0} /\ H <= N
      /\ Numbering(NewestNums, N)
      /\ DOMAIN idToNum = {Ancestor(top, h) : h \in 1..H}
      /\ DOMAIN newNum = {Ancestor(newest, h) : h \in H + 1..N}
      /\ Ancestor(newest, H) = top
  BY BlockNumbers DEF HInv, IInv, TypeOK, Chained
<1>3. /\ b \in Blocks /\ Height(b) = N + 1 /\ Ancestor(b, N + 1) = b
      /\ \A h \in 1..N : Ancestor(b, h) = Ancestor(newest, h) /\ Height(Ancestor(newest, h)) = h
      /\ \A h \in 1..H : Height(Ancestor(top, h)) = h
  <2>1. b \in Blocks /\ Height(b) = N + 1 /\ \A h \in 1..N : Ancestor(b, h) = Ancestor(newest, h)
    BY <1>2, AncestorOfNew
  <2>2. Ancestor(b, Height(b)) = b
    BY <2>1, AncestorSelf
  <2>3. /\ \A h \in 1..N : Height(Ancestor(newest, h)) = h
        /\ \A h \in 1..H : Height(Ancestor(top, h)) = h
    BY <1>2, AncestorOf
  <2> HIDE DEF b, N, H
  <2> QED BY <2>1, <2>2, <2>3
<1> HIDE DEF b, N, H
<1>4. \A h \in 1..N : Ancestor(newest, h) # b
  BY <1>2, <1>3
<1>5. b \notin DOMAIN idToNum
  BY <1>2, <1>3
<1>6. b \notin DOMAIN newNum
  <2>1. \A h \in H + 1..N : h \in 1..N
    BY <1>2
  <2> QED BY <1>2, <1>4, <2>1
<1>7. /\ DOMAIN newNum' = DOMAIN newNum \cup {b} /\ newNum'[b] = Given
      /\ \A a \in DOMAIN newNum : newNum'[a] = newNum[a]
  BY <1>1, <1>5, <1>6 DEF Updated, NewBlockNum, Given
<1>8. Height(newest') = N + 1 /\ Height(top') = H
  BY <1>1, <1>3 DEF H
<1>9. NewestNums' \in [1..(N + 1) -> {NewestNums'[h] : h \in 1..(N + 1)}]
  BY <1>8 DEF NewestNums
<1>10. \A h \in 1..N : NewestNums'[h] = NewestNums[h]
  <2> SUFFICES ASSUME NEW h \in 1..N PROVE NewestNums'[h] = NewestNums[h]
    OBVIOUS
  <2>1. h \in 1..(N + 1) /\ h \in 1..Height(newest)
    BY <1>2 DEF N
  <2>2. NewestNums'[h] = IF Ancestor(newest', h) \in DOMAIN newNum' THEN newNum'[Ancestor(newest', h)]
                         ELSE idToNum'[Ancestor(newest', h)]
    BY <1>8, <2>1 DEF NewestNums, NewestNum
  <2>3. Ancestor(newest', h) = Ancestor(newest, h) /\ Ancestor(newest, h) # b
    BY <1>1, <1>3, <1>4
  <2>4. PICK a : a = Ancestor(newest, h)
    OBVIOUS
  <2>5. NewestNum(a)' = NewestNum(a)
    BY <1>1, <1>7, <2>3, <2>4 DEF NewestNum
  <2>6. NewestNums'[h] = IF a \in DOMAIN newNum' THEN newNum'[a] ELSE idToNum'[a]
    BY <2>2, <2>3, <2>4
  <2>7. NewestNums[h] = NewestNum(a)
    BY <2>1, <2>4 DEF NewestNums
  <2> QED BY <2>5, <2>6, <2>7 DEF NewestNum
<1>11. NewestNums'[N + 1] = Given
  <2>1. N + 1 \in 1..(N + 1) /\ Ancestor(newest', N + 1) = b
    BY <1>1, <1>2, <1>3
  <2>2. \A h \in 1..(N + 1) :
           NewestNums'[h] = IF Ancestor(newest', h) \in DOMAIN newNum' THEN newNum'[Ancestor(newest', h)]
                            ELSE idToNum'[Ancestor(newest', h)]
    BY <1>8 DEF NewestNums, NewestNum
  <2> QED BY <1>7, <2>1, <2>2
<1>12. \A h \in 1..N : NewestNums[h] < Given /\ NewestNums[h] \in Nat
  <2> SUFFICES ASSUME NEW h \in 1..N PROVE NewestNums[h] < Given /\ NewestNums[h] \in Nat
    OBVIOUS
  <2>1. NewestNums[h] = NewestNum(Ancestor(newest, h)) /\ NewestNums[h] \in Nat
    BY <1>2 DEF NewestNums, N, Numbering
  <2>2. Ancestor(newest, h) \in DOMAIN idToNum \cup DOMAIN newNum
    BY <1>2 DEF IInv, Known, N
  <2>3. Given \in Nat /\ lastNum \in Nat /\ lastNum <= Given
    BY <1>2, NumbersOf
  <2>4. CASE Ancestor(newest, h) \in DOMAIN newNum
    BY <1>2, <2>1, <2>4 DEF NewestNum, IInv, Numbers
  <2>5. CASE Ancestor(newest, h) \notin DOMAIN newNum
    <3>1. NewestNums[h] = idToNum[Ancestor(newest, h)] /\ NewestNums[h] < lastNum
      BY <1>2, <2>1, <2>2, <2>5 DEF NewestNum, IInv, Numbers
    <3> QED BY <2>1, <2>3, <3>1
  <2> QED BY <2>4, <2>5
<1>13. Numbering(NewestNums', N + 1)
  <2>0. Given \in Nat
    BY <1>2, NumbersOf
  <2>1. \A h \in 1..(N + 1) : h \in 1..N \/ h = N + 1
    BY <1>2
  <2>2. \A h \in 1..(N + 1) : NewestNums'[h] \in Nat
    BY <1>10, <1>11, <1>12, <2>0, <2>1
  <2>3. NewestNums' \in [1..(N + 1) -> Nat]
    BY <1>9, <2>2
  <2>4. \A i, j \in 1..(N + 1) : i < j => NewestNums'[i] < NewestNums'[j]
    <3> SUFFICES ASSUME NEW i \in 1..(N + 1), NEW j \in 1..(N + 1), i < j
                 PROVE  NewestNums'[i] < NewestNums'[j]
      OBVIOUS
    <3>1. i \in 1..N /\ (j \in 1..N \/ j = N + 1)
      BY <1>2
    <3>2. CASE j \in 1..N
      BY <1>2, <1>10, <3>1, <3>2 DEF Numbering
    <3>3. CASE j = N + 1
      BY <1>10, <1>11, <1>12, <3>1, <3>3
    <3> QED BY <3>1, <3>2, <3>3
  <2> QED BY <1>2, <2>3, <2>4 DEF Numbering
<1>14. TopNums' = TopNums
  BY <1>1 DEF TopNums
<1>15. Chained'
  <2>1. H <= N + 1 /\ H \in 1..N
    BY <1>2
  <2>2. Ancestor(newest', H) = top
    BY <1>1, <1>2, <1>3, <2>1
  <2>3. {Ancestor(newest', h) : h \in H + 1..N + 1} = DOMAIN newNum \cup {b}
    <3>1. \A h : h \in H + 1..N + 1 <=> h \in H + 1..N \/ h = N + 1
      BY <1>2
    <3>2. \A h \in H + 1..N : Ancestor(newest', h) = Ancestor(newest, h)
      <4>1. \A h \in H + 1..N : h \in 1..N
        BY <1>2
      <4> QED BY <1>1, <1>3, <4>1
    <3>3. Ancestor(newest', N + 1) = b
      BY <1>1, <1>3
    <3> QED BY <1>2, <3>1, <3>2, <3>3
  <2>4. DOMAIN newNum' = {Ancestor(newest', h) : h \in Height(top') + 1..Height(newest')}
    BY <1>7, <1>8, <2>3
  <2>5. \A i, j \in 1..Height(newest') : i < j => NewestNums'[i] < NewestNums'[j]
    BY <1>8, <1>13 DEF Numbering
  <2>6. Height(top') <= Height(newest') /\ Ancestor(newest', Height(top')) = top'
    BY <1>1, <1>8, <2>1, <2>2
  <2>7. /\ DOMAIN idToNum' = {Ancestor(top', h) : h \in 1..Height(top')}
        /\ validNums' = {TopNums'[h] : h \in 1..Height(top')}
    BY <1>1, <1>2, <1>14 DEF Chained, H
  <2> QED BY <2>4, <2>5, <2>6, <2>7 DEF Chained
<1>16. Ordered'
  <2>1. Height(top') < Height(newest')
    BY <1>2, <1>8
  <2>2. DOMAIN batch' = {}
    BY <1>1 DEF HInv, Ordered
  <2> QED BY <1>1, <1>2, <1>8, <2>1, <2>2 DEF HInv, Ordered
<1>17. \A k \in Keys : HistoryGood(k)'
  BY <1>1, StoredSame DEF HInv
<1>18. ASSUME NEW k \in Keys PROVE NewGood(k)'
  <2>1. todo[k] = 0 /\ c[k] \in Nat /\ Len(newest) \in Nat /\ N = Len(newest) + 1
    BY <1>1, <1>2, HistoryAssumption DEF NoWrites, N, Height, Blocks
  <2>2. /\ \A i \in 1..Len(newest) : b[i] = newest[i]
        /\ b[Len(newest) + 1] = c
    BY <1>2 DEF b, Blocks
  <2>3. \A h \in 2..N : WrittenAt(k, h) = newest[h - 1][k] /\ newest[h - 1][k] \in Nat
    <3>1. \A h \in 2..N : newest[h - 1][k] \in Nat
      BY <1>2, ContentsOf DEF N
    <3> QED BY <2>1, <3>1 DEF WrittenAt
  <2>4. \A h \in 2..N : WrittenAt(k, h)' = newest[h - 1][k]
    <3> SUFFICES ASSUME NEW h \in 2..N PROVE WrittenAt(k, h)' = newest[h - 1][k]
      OBVIOUS
    <3>1. h - 1 \in 1..Len(newest) /\ h # N + 1
      BY <1>2, <2>1
    <3>2. newest'[h - 1] = newest[h - 1]
      BY <1>1, <2>2, <3>1
    <3> QED BY <1>8, <2>3, <3>1, <3>2 DEF WrittenAt
  <2>5. \A h : h = N + 1 => WrittenAt(k, h)' = 0
    <3> SUFFICES ASSUME NEW h, h = N + 1 PROVE WrittenAt(k, h)' = 0
      OBVIOUS
    <3>1. h - 1 = Len(newest) + 1
      BY <1>2, <2>1
    <3>2. newest'[h - 1][k] = c[k] /\ todo'[k] = c[k]
      BY <1>1, <2>1, <2>2, <3>1
    <3> QED BY <1>8, <2>1, <3>2 DEF WrittenAt
  <2>6. NewWriters(k)' = NewWriters(k)
    <3>1. NewWriters(k)' = {h \in H + 1..N + 1 : WrittenAt(k, h)' > 0}
      BY <1>8 DEF NewWriters
    <3>2. NewWriters(k) = {h \in H + 1..N : WrittenAt(k, h) > 0}
      BY DEF NewWriters, H, N
    <3>3. \A h : h \in H + 1..N + 1 <=> h \in H + 1..N \/ h = N + 1
      BY <1>2
    <3>4. \A h \in H + 1..N : h \in 2..N
      BY <1>2
    <3>5. ASSUME NEW h PROVE h \in NewWriters(k)' <=> h \in NewWriters(k)
      <4>1. CASE h = N + 1
        <5>1. h \notin H + 1..N
          BY <1>2, <4>1
        <5> QED BY <2>5, <3>1, <3>2, <4>1, <5>1
      <4>2. CASE h # N + 1
        BY <2>3, <2>4, <3>1, <3>2, <3>3, <3>4, <4>2
      <4> QED BY <4>1, <4>2
    <3> QED BY <3>5
  <2>7. \A h \in 2..N : NewValues(k)'[h] = NewValues(k)[h]
    <3> SUFFICES ASSUME NEW h \in 2..N PROVE NewValues(k)'[h] = NewValues(k)[h]
      OBVIOUS
    <3>1. h \in 1..N /\ h \in 2..(N + 1)
      BY <1>2
    <3>2. NewValues(k)[h] = [block |-> Ancestor(newest, h), nth |-> WrittenAt(k, h)]
      BY DEF NewValues, N
    <3>3. NewValues(k)'[h] = [block |-> Ancestor(newest', h), nth |-> WrittenAt(k, h)']
      BY <1>8, <3>1 DEF NewValues
    <3> QED BY <1>1, <1>3, <2>3, <2>4, <3>1, <3>2, <3>3
  <2>8. /\ NewWriters(k) \in SUBSET (1..N) /\ \A x \in NewWriters(k) : x \in 2..N
        /\ stor[k] \in Histories
        /\ Good(stor[k], Len(stor[k]), NewestNums, NewValues(k), NewWriters(k), 1)
    BY <1>2, WritersSplit DEF HInv, NewGood, IInv, TypeOK, N
  <2>9. Len(stor[k]) \in Nat /\ \A i \in 1..Len(stor[k]) : stor[k][i] = stor[k][i] /\ stor[k][i].num \in Nat
    BY <2>8, RecordOf DEF Histories
  <2>10. /\ NewWriters(k) \in SUBSET (1..(N + 1)) /\ 1 \in 1..(N + 1) /\ 1 <= 1 /\ 1 \in 1..N
    BY <1>2, <2>8
  <2>11. /\ \A x \in NewWriters(k) : NewestNums'[x] = NewestNums[x] /\ NewValues(k)'[x] = NewValues(k)[x]
         /\ NewestNums'[1] = NewestNums[1]
    BY <1>10, <2>7, <2>8, <2>10
  <2>12. Good(stor[k], Len(stor[k]), NewestNums', NewValues(k)', NewWriters(k), 1)
    BY <1>13, <2>8, <2>9, <2>10, <2>11, GoodSame
  <2> QED BY <1>1, <2>6, <2>12 DEF NewGood
<1>19. DOMAIN batch' = {}
  BY <1>1 DEF HInv, Ordered
<1> QED BY <1>15, <1>16, <1>17, <1>18, <1>19 DEF HInv

\* Histories in the order of block numbers that tell of no block are empty.
LEMMA GoodNone ==
    ASSUME NEW s \in Histories, NEW num, NEW val, NEW m
    PROVE  /\ Good(s, Len(s), num, val, {}, m) => s = <<>>
           /\ \A W : Good(<<>>, Len(<<>>), num, val, W, m) => W = {}
<1>1. Len(s) \in Nat /\ (Len(s) = 0 => s = <<>>)
  BY DEF Histories
<1>2. ASSUME Good(s, Len(s), num, val, {}, m) PROVE Len(s) = 0
  <2>1. 1..Len(s) = {}
    BY <1>2 DEF Good
  <2> QED BY <1>1, <2>1
<1>3. ASSUME NEW W, Good(<<>>, Len(<<>>), num, val, W, m) PROVE W = {}
  <2>1. 1..Len(<<>>) = {}
    OBVIOUS
  <2> QED BY <1>3, <2>1 DEF Good
<1> QED BY <1>1, <1>2, <1>3

\* The batch is written.
LEMMA HFlushDBStep ==
    ASSUME HInv, IInv', FlushDB
    PROVE  HInv'
<1> DEFINE N == Height(newest)
           H == Height(top)
<1>1. /\ pc \in {"adding", "flushing"} /\ todo = NoWrites /\ pc' = "idle"
      /\ \A k \in Keys : stor[k] # <<>> => k \in DOMAIN batch
      /\ top' = newest /\ minHeight' = NewRollbackMinHeight(N)
      /\ idToNum' = Updated(idToNum, newNum)
      /\ validNums' = validNums \cup {newNum[b] : b \in DOMAIN newNum}
      /\ hist' = Updated(hist, batch) /\ Reset(newest)
      /\ UNCHANGED <<storedAmend, amend, removes>>
  BY DEF FlushDB
<1>2. /\ IInv /\ Chained /\ newest \in Blocks
      /\ H \in Nat \ {0} /\ N \in Nat \ {0} /\ H <= N
      /\ Numbering(NewestNums, N)
      /\ \A h \in 1..H : /\ Ancestor(newest, h) = Ancestor(top, h)
                         /\ NewestNums[h] = TopNums[h]
      /\ DOMAIN idToNum = {Ancestor(top, h) : h \in 1..H}
      /\ DOMAIN newNum = {Ancestor(newest, h) : h \in H + 1..N}
      /\ validNums = {TopNums[h] : h \in 1..H}
  BY BlockNumbers DEF HInv, IInv, TypeOK, Chained
<1>3. /\ newest' = top' /\ DOMAIN newNum' = {} /\ DOMAIN batch' = {}
      /\ \A k \in Keys : stor'[k] = <<>>
  BY <1>1 DEF Reset, NoNums, NoHistories
<1>4. Empty'
  BY <1>3 DEF Empty
<1>5. EmptyGood'
  BY <1>4, MemoryEmpty, PTL
<1>6. Height(top') = N
  BY <1>1
<1>7. minHeight' \in Nat \ {0} /\ minHeight' <= N /\ minHeight <= minHeight' /\ minHeight \in Nat \ {0}
  <2>1. minHeight' \in Nat \ {0} /\ minHeight' <= N
    BY <1>6 DEF IInv, TypeOK, Known
  <2>2. minHeight \in Nat \ {0} /\ MaxRollback \in Nat
    BY <1>2, HistoryAssumption DEF IInv, TypeOK
  <2> HIDE DEF N
  <2> QED BY <1>1, <1>2, <2>1, <2>2 DEF NewRollbackMinHeight
<1> HIDE DEF N, H
<1>8. TopNums' = NewestNums
  <2>1. TopNums' = [h \in 1..N |-> idToNum'[Ancestor(newest, h)]]
    BY <1>1, <1>6 DEF TopNums
  <2>2. \A h \in 1..N : Ancestor(newest, h) \in DOMAIN idToNum \cup DOMAIN newNum
    BY <1>2 DEF IInv, Known, N
  <2>3. \A h \in 1..N : idToNum'[Ancestor(newest, h)] = NewestNum(Ancestor(newest, h))
    BY <1>1, <2>2 DEF Updated, NewestNum
  <2> QED BY <2>1, <2>3 DEF NewestNums, N
<1>9. \A h : h \in 1..N <=> h \in 1..H \/ h \in H + 1..N
  BY <1>2
<1>10. DOMAIN idToNum' = {Ancestor(newest, h) : h \in 1..N}
  BY <1>1, <1>2, <1>9 DEF Updated
<1>11. validNums' = {NewestNums[h] : h \in 1..N}
  <2>1. \A h \in H + 1..N : /\ Ancestor(newest, h) \in DOMAIN newNum
                            /\ NewestNums[h] = newNum[Ancestor(newest, h)]
    BY <1>2, <1>9 DEF NewestNums, NewestNum, N
  <2>2. {newNum[b] : b \in DOMAIN newNum} = {NewestNums[h] : h \in H + 1..N}
    BY <1>2, <2>1
  <2>3. validNums = {NewestNums[h] : h \in 1..H}
    BY <1>2
  <2> QED BY <1>1, <1>9, <2>2, <2>3
<1>12. Chained'
  <2>1. DOMAIN idToNum' = {Ancestor(top', h) : h \in 1..Height(top')}
    BY <1>1, <1>6, <1>10
  <2>2. validNums' = {TopNums'[h] : h \in 1..Height(top')}
    BY <1>6, <1>8, <1>11
  <2>3. \A i, j \in 1..Height(newest') : i < j => NewestNums'[i] < NewestNums'[j]
    <3>1. NewestNums' = NewestNums /\ Height(newest') = N
      BY <1>3, <1>5, <1>6, <1>8 DEF EmptyGood
    <3> QED BY <1>2, <3>1 DEF Numbering
  <2> QED BY <1>5, <2>1, <2>2, <2>3 DEF Chained, EmptyGood
<1>13. Ordered'
  BY <1>1, <1>3 DEF HInv, Ordered
<1>14. ASSUME NEW k \in Keys PROVE HistoryGood(k)'
  <2>1. Low(k) \in 1..N /\ Low(k)' \in 1..N /\ Low(k) <= Low(k)' /\ Low(k) \in 1..H
    <3>1. Low(k) \in 1..N /\ Low(k) \in 1..H
      BY <1>2, BlockNumbers DEF N, H
    <3> QED BY <1>2, <1>7, <3>1 DEF Low
  <2>2. WritersOf(newest, k) \in SUBSET (1..N)
    BY <1>2, WritersOfType DEF N
  <2>3. hist'[k] = IF k \in DOMAIN batch THEN batch[k] ELSE hist[k]
    BY <1>1, <1>2 DEF Updated, IInv, TypeOK
  <2>4. CASE k \in DOMAIN batch
    <3> DEFINE s == batch[k]
    <3>1. /\ s \in Histories /\ hist'[k] = s
          /\ Good(s, Len(s), NewestNums, ValuesOf(newest, k), WritersOf(newest, k), Low(k))
      BY <1>2, <2>3, <2>4 DEF HInv, BatchGood, IInv, TypeOK
    <3>2. Len(s) \in Nat /\ \A i \in 1..Len(s) : s[i] = s[i] /\ s[i].num \in Nat
      BY <3>1, RecordOf DEF Histories
    <3> HIDE DEF s
    <3>3. Good(s, Len(s), NewestNums, ValuesOf(newest, k), WritersOf(newest, k), Low(k)')
      BY <1>2, <2>1, <2>2, <3>1, <3>2, GoodSame
    <3>4. Good(hist'[k], Len(hist'[k]), TopNums', ValuesOf(top', k), WritersOf(top', k), Low(k)')
      BY <1>1, <1>8, <3>1, <3>3
    <3>5. Len(hist'[k]) \in 0..Len(hist'[k]) /\ Len(hist'[k]) + 1..Len(hist'[k]) = {}
      BY <3>1, <3>2
    <3> QED BY <3>4, <3>5 DEF HistoryGood
  <2>5. CASE k \notin DOMAIN batch
    <3> DEFINE s == hist[k]
               W == WritersOf(top, k)
    <3>1. s \in Histories /\ hist'[k] = s /\ Len(s) \in Nat /\ Below(s, lastNum) /\ lastNum \in Nat
      BY <1>2, <2>3, <2>5 DEF IInv, TypeOK, Histories, Numbers
    <3>2. NewWriters(k) = {}
      <4>1. stor[k] = <<>>
        BY <1>1, <2>5
      <4>2. Good(<<>>, Len(<<>>), NewestNums, NewValues(k), NewWriters(k), 1)
        BY <4>1 DEF HInv, NewGood
      <4> QED BY <3>1, <4>2, GoodNone
    <3>3. /\ W \in SUBSET (1..N) /\ WritersOf(newest, k) = W
          /\ \A x \in W : NewestNums[x] = TopNums[x] /\ ValuesOf(newest, k)[x] = ValuesOf(top, k)[x]
      BY <1>1, <1>2, <3>2, WritersSplit DEF N, NoWrites
    <3>4. PICK n \in 0..Len(s) :
            /\ Good(s, n, TopNums, ValuesOf(top, k), W, Low(k))
            /\ \A i \in n + 1..Len(s) : s[i].num \notin validNums
            /\ ~storedAmend => n = Len(s)
      BY DEF HInv, HistoryGood
    <3>5. n \in Nat /\ \A i \in 1..n : s[i] = s[i] /\ s[i].num \in Nat
      BY <3>1, RecordOf
    <3>6. NewestNums[Low(k)] = TopNums[Low(k)]
      BY <1>2, <2>1
    <3> HIDE DEF s, W
    <3>7. Good(s, n, NewestNums, ValuesOf(newest, k), W, Low(k)')
      BY <1>2, <2>1, <3>3, <3>4, <3>5, <3>6, GoodSame
    <3>8. \A i \in n + 1..Len(s) : s[i].num \notin validNums'
      <4> SUFFICES ASSUME NEW i \in n + 1..Len(s) PROVE s[i].num \notin validNums'
        OBVIOUS
      <4>1. i \in 1..Len(s)
        BY <3>1, <3>5
      <4>2. s[i].num < lastNum /\ s[i].num \in Nat
        BY <3>1, <4>1, RecordOf DEF Below
      <4>3. \A b \in DOMAIN newNum : newNum[b] \in Nat /\ lastNum <= newNum[b]
        BY <1>2 DEF IInv, TypeOK, Numbers
      <4>4. \A b \in DOMAIN newNum : newNum[b] # s[i].num
        BY <3>1, <4>2, <4>3
      <4> QED BY <1>1, <3>4, <4>4
    <3>9. Good(hist'[k], n, TopNums', ValuesOf(top', k), WritersOf(top', k), Low(k)')
      BY <1>1, <1>8, <3>1, <3>3, <3>7
    <3>10. n \in 0..Len(hist'[k]) /\ (~storedAmend' => n = Len(hist'[k]))
      BY <1>1, <3>1, <3>4
    <3>11. \A i \in n + 1..Len(hist'[k]) : hist'[k][i].num \notin validNums'
      BY <3>1, <3>8
    <3> QED BY <3>9, <3>10, <3>11 DEF HistoryGood
  <2> QED BY <2>4, <2>5
<1> QED BY <1>5, <1>12, <1>13, <1>14 DEF HInv, EmptyGood

\* Memory holds nothing unless blocks are added.
LEMMA IdleEmpty ==
    ASSUME HInv, pc = "idle"
    PROVE  newest = top /\ DOMAIN newNum = {} /\ DOMAIN batch = {} /\ \A k \in Keys : stor[k] = <<>>
<1>1. newest = top /\ DOMAIN batch = {} /\ IInv /\ Chained
  BY DEF HInv, Ordered
<1>2. Height(top) + 1..Height(newest) = {}
  BY <1>1, BlockNumbers
<1>3. DOMAIN newNum = {}
  BY <1>1, <1>2 DEF Chained
<1>4. ASSUME NEW k \in Keys PROVE stor[k] = <<>>
  <2>1. NewWriters(k) = {} /\ stor[k] \in Histories
    BY <1>1, <1>2 DEF NewWriters, IInv, TypeOK
  <2>2. Good(stor[k], Len(stor[k]), NewestNums, NewValues(k), {}, 1)
    BY <2>1 DEF HInv, NewGood
  <2> QED BY <2>1, <2>2, GoodNone
<1> QED BY <1>1, <1>3, <1>4

\* Blocks are removed, histories are left as they are.
LEMMA HRollbackStep ==
    ASSUME HInv, IInv', NEW h \in 1..MaxHeight, Rollback(h)
    PROVE  HInv'
<1> DEFINE H == Height(top)
           edge == Ancestor(top, h)
           gone == {Ancestor(top, i) : i \in h + 1..H}
<1>1. /\ pc = "idle" /\ removes /\ h \in minHeight..H /\ top' = edge /\ newest' = edge
      /\ validNums' = validNums \ {idToNum[b] : b \in gone}
      /\ idToNum' = [b \in DOMAIN idToNum \ gone |-> idToNum[b]]
      /\ UNCHANGED <<minHeight, hist, storedAmend, pc, amend, removes, newNum, stor, batch>>
  BY DEF Rollback
<1>2. /\ IInv /\ Chained /\ top \in Blocks /\ H \in Nat \ {0} /\ minHeight \in Nat \ {0}
      /\ Numbering(TopNums, H)
      /\ DOMAIN idToNum = {Ancestor(top, i) : i \in 1..H}
      /\ validNums = {TopNums[i] : i \in 1..H}
  BY BlockNumbers DEF HInv, IInv, TypeOK, Chained
<1>3. h \in 1..H /\ h \in Nat /\ h <= H
  BY <1>1, <1>2
<1>4. /\ edge \in Blocks /\ Height(edge) = h
      /\ \A j \in 1..h : Ancestor(edge, j) = Ancestor(top, j)
      /\ \A j \in 1..H : Height(Ancestor(top, j)) = j
  BY <1>2, <1>3, AncestorOf
<1>5. Empty'
  BY <1>1, IdleEmpty DEF Empty
<1>6. EmptyGood'
  BY <1>5, MemoryEmpty, PTL
<1> HIDE DEF H, edge, gone
<1>7. Height(top') = h
  BY <1>1, <1>4
<1>8. \A i : i \in 1..H <=> i \in 1..h \/ i \in h + 1..H
  BY <1>2, <1>3
<1>9. \A j \in 1..h : j \in 1..H /\ Ancestor(top, j) \notin gone /\ Ancestor(top, j) \in DOMAIN idToNum
  <2>1. \A j \in 1..h, i \in h + 1..H : j # i /\ j \in 1..H /\ i \in 1..H
    BY <1>2, <1>3
  <2>2. \A j \in 1..h : j \in 1..H
    BY <1>8
  <2> QED BY <1>2, <1>4, <2>1, <2>2 DEF gone
<1>10. \A j \in 1..h : TopNums'[j] = TopNums[j]
  <2> SUFFICES ASSUME NEW j \in 1..h PROVE TopNums'[j] = TopNums[j]
    OBVIOUS
  <2>1. TopNums'[j] = idToNum'[Ancestor(top', j)]
    BY <1>7 DEF TopNums
  <2>2. TopNums[j] = idToNum[Ancestor(top, j)]
    BY <1>9 DEF TopNums, H
  <2> QED BY <1>1, <1>4, <1>9, <2>1, <2>2
<1>11. DOMAIN idToNum' = {Ancestor(top', j) : j \in 1..h}
  <2>1. DOMAIN idToNum \ gone = {Ancestor(top, j) : j \in 1..h}
    <3>1. \A i \in h + 1..H : Ancestor(top, i) \in gone
      BY DEF gone
    <3> QED BY <1>2, <1>8, <1>9, <3>1
  <2> QED BY <1>1, <1>4, <2>1
<1>12. {idToNum[b] : b \in gone} = {TopNums[i] : i \in h + 1..H}
  <2>1. \A i \in h + 1..H : TopNums[i] = idToNum[Ancestor(top, i)]
    BY <1>8 DEF TopNums, H
  <2> QED BY <2>1 DEF gone
<1>13. validNums' = {TopNums[j] : j \in 1..h}
  <2>1. \A j \in 1..h, i \in h + 1..H : TopNums[j] # TopNums[i]
    <3> SUFFICES ASSUME NEW j \in 1..h, NEW i \in h + 1..H PROVE TopNums[j] # TopNums[i]
      OBVIOUS
    <3>1. j \in 1..H /\ i \in 1..H /\ j # i
      BY <1>2, <1>3
    <3> QED BY <1>2, <3>1, NumberingOrder
  <2>2. validNums' = {TopNums[i] : i \in 1..H} \ {TopNums[i] : i \in h + 1..H}
    BY <1>1, <1>2, <1>12
  <2> QED BY <1>8, <2>1, <2>2
<1>14. Numbering(TopNums', h)
  <2>1. \A j \in 1..h : j \in 1..H /\ TopNums'[j] \in Nat
    BY <1>2, <1>9, <1>10 DEF Numbering
  <2>2. TopNums' \in [1..h -> Nat]
    <3>1. TopNums' = [j \in 1..h |-> TopNums'[j]]
      BY <1>7 DEF TopNums
    <3> QED BY <2>1, <3>1
  <2>3. \A i, j \in 1..h : i < j => TopNums'[i] < TopNums'[j]
    BY <1>2, <1>10, <2>1 DEF Numbering
  <2> QED BY <1>3, <2>2, <2>3 DEF Numbering
<1>15. Chained'
  <2>1. DOMAIN idToNum' = {Ancestor(top', j) : j \in 1..Height(top')}
    BY <1>7, <1>11
  <2>2. validNums' = {TopNums'[j] : j \in 1..Height(top')}
    BY <1>7, <1>10, <1>13
  <2>3. \A i, j \in 1..Height(newest') : i < j => NewestNums'[i] < NewestNums'[j]
    <3>1. NewestNums' = TopNums' /\ Height(newest') = h
      BY <1>1, <1>6, <1>7 DEF EmptyGood
    <3> QED BY <1>14, <3>1 DEF Numbering
  <2> QED BY <1>6, <2>1, <2>2, <2>3 DEF Chained, EmptyGood
<1>16. Ordered' /\ storedAmend /\ storedAmend'
  BY <1>1, <1>5 DEF HInv, Ordered, Empty
<1>17. ASSUME NEW k \in Keys PROVE HistoryGood(k)'
  <2> DEFINE s == hist[k]
             W == WritersOf(top, k)
             V == {x \in W : x <= h}
             m == Low(k)
  <2>1. s \in Histories /\ hist'[k] = s /\ Len(s) \in Nat
    BY <1>1, <1>2 DEF IInv, TypeOK, Histories
  <2>2. m \in 1..H /\ h \in m..H /\ m \in 1..h /\ Low(k)' = m
    <3>1. Low(k) \in 1..H
      BY <1>2, BlockNumbers DEF H
    <3> QED BY <1>1, <1>2, <1>3, <3>1 DEF Low
  <2>3. W \in SUBSET (1..H)
    BY <1>2, WritersOfType DEF H
  <2>4. PICK n \in 0..Len(s) :
          /\ Good(s, n, TopNums, ValuesOf(top, k), W, m)
          /\ \A i \in n + 1..Len(s) : s[i].num \notin validNums
    BY DEF HInv, HistoryGood
  <2>5. V = WritersOf(edge, k) /\ \A x \in V : ValuesOf(edge, k)[x] = ValuesOf(top, k)[x]
    <3>1. \A x \in 2..h : x \in 1..h /\ x \in 2..H /\ x - 1 \in 1..(h - 1)
      BY <1>2, <1>3
    <3>2. \A x \in 2..h : edge[x - 1] = top[x - 1]
      <4>1. top \in Seq(Contents) /\ h - 1 \in Nat /\ h - 1 <= Len(top)
        BY <1>2, <1>3 DEF Blocks, H, Height
      <4>2. \A i \in 1..(h - 1) : SubSeq(top, 1, h - 1)[i] = top[i]
        BY <4>1
      <4> QED BY <3>1, <4>2 DEF edge, Ancestor
    <3>3. WritersOf(edge, k) = {x \in 2..h : edge[x - 1][k] > 0}
      BY <1>4 DEF WritersOf
    <3>4. W = {x \in 2..H : top[x - 1][k] > 0}
      BY DEF WritersOf, H
    <3>5. \A x : x \in 2..h <=> x \in 2..H /\ x <= h
      BY <1>2, <1>3
    <3>6. V = WritersOf(edge, k)
      <4> HIDE DEF W
      <4> QED BY <3>2, <3>3, <3>4, <3>5
    <3>7. \A x \in 2..h : ValuesOf(edge, k)[x] = ValuesOf(top, k)[x]
      BY <1>4, <3>1, <3>2 DEF ValuesOf, H
    <3>8. \A x \in V : x \in 2..h
      BY <3>3, <3>6
    <3> QED BY <3>6, <3>7, <3>8
  <2>6. PICK c \in 0..n : /\ Good(s, c, TopNums, ValuesOf(top, k), V, m)
                          /\ \A i \in 1..n : i <= c <=> s[i].num <= TopNums[h]
    <3> HIDE DEF s, W, m
    <3> QED BY <1>2, <2>1, <2>2, <2>3, <2>4, GoodPrefix
  <2>7. c \in Nat /\ n \in Nat /\ \A i \in 1..Len(s) : s[i].num \in Nat
    BY <2>1, RecordOf
  <2>8. V \in SUBSET (1..h)
    BY <1>2, <1>3, <2>3
  <2> HIDE DEF s, W, V, m
  <2>9. Good(s, c, TopNums', ValuesOf(edge, k), V, m)
    <3>1. \A i \in 1..c : s[i] = s[i] /\ s[i].num \in Nat
      BY <2>1, <2>7
    <3>2. \A x \in V : TopNums'[x] = TopNums[x] /\ ValuesOf(edge, k)[x] = ValuesOf(top, k)[x]
      BY <1>10, <2>5, <2>8
    <3>3. TopNums'[m] = TopNums[m] /\ m <= m
      BY <1>10, <2>2
    <3> QED BY <1>14, <2>2, <2>6, <2>7, <2>8, <3>1, <3>2, <3>3, GoodSame
  <2>10. \A i \in c + 1..Len(s) : s[i].num \notin validNums'
    <3> SUFFICES ASSUME NEW i \in c + 1..Len(s) PROVE s[i].num \notin validNums'
      OBVIOUS
    <3>1. CASE i \in n + 1..Len(s)
      BY <1>1, <2>4, <3>1
    <3>2. CASE i \in 1..n
      <4>1. ~(i <= c) /\ i \in 1..Len(s)
        BY <2>1, <2>7, <3>2
      <4>2. ~(s[i].num <= TopNums[h]) /\ s[i].num \in Nat
        BY <2>6, <2>7, <3>2, <4>1
      <4>3. \A j \in 1..h : TopNums[j] <= TopNums[h]
        <5> SUFFICES ASSUME NEW j \in 1..h PROVE TopNums[j] <= TopNums[h]
          OBVIOUS
        <5>1. j \in 1..H /\ j <= h
          BY <1>2, <1>3
        <5> QED BY <1>2, <1>3, <5>1, NumberingOrder
      <4> QED BY <1>13, <4>2, <4>3
    <3>3. i \in n + 1..Len(s) \/ i \in 1..n
      BY <2>1, <2>7
    <3> QED BY <3>1, <3>2, <3>3
  <2>11. Good(hist'[k], c, TopNums', ValuesOf(top', k), WritersOf(top', k), Low(k)')
    BY <1>1, <2>1, <2>2, <2>5, <2>9
  <2>12. c \in 0..Len(hist'[k]) /\ \A i \in c + 1..Len(hist'[k]) : hist'[k][i].num \notin validNums'
    BY <2>1, <2>7, <2>10
  <2> QED BY <1>16, <2>11, <2>12 DEF HistoryGood
<1> QED BY <1>6, <1>15, <1>16, <1>17 DEF HInv, EmptyGood

LEMMA HInvStep ==
    ASSUME HInv, [Next]_vars
    PROVE  HInv'
<1>1. IInv'
  BY IInvStep DEF HInv
<1>2. CASE UNCHANGED vars
  <2>1. UNCHANGED <<top, minHeight, idToNum, validNums, hist, storedAmend, pc, amend, removes,
                    newest, todo, newNum, stor, batch>>
    BY <1>2 DEF vars, numVars, memVars
  <2>2. Chained' /\ Ordered' /\ \A k \in Keys : HistoryGood(k)' /\ NewGood(k)'
    BY <2>1, ChainedSame, StoredSame, MemorySame DEF HInv, Ordered
  <2>3. \A k \in DOMAIN batch' : BatchGood(k)'
    BY <2>1, BatchSame DEF HInv, IInv, TypeOK
  <2> QED BY <1>1, <2>2, <2>3 DEF HInv
<1>3. CASE Next
  BY <1>1, <1>3, HOpenStep, HAddBlockStep, HAddNewEntryStep, HUpdateStep, HFlushHistoryStep,
     HFlushDBStep, HResetStep, HRollbackStep DEF Next
<1> QED BY <1>2, <1>3

LEMMA HInvHolds == Spec => []HInv
<1>1. Init => HInv
  BY HInvInit
<1>2. HInv /\ [Next]_vars => HInv'
  BY HInvStep
<1> QED BY <1>1, <1>2, PTL DEF Spec

\* Whatever was rolled back, cut, added in part or interrupted before, a read at a height
\* to which the state could still be rolled back returns what the stored chain wrote.
THEOREM HistoriesTellTheChain == Spec => []HistoriesMatchChain
<1>1. HInv => HistoriesMatchChain
  BY HistoriesTell
<1> QED BY <1>1, HInvHolds, PTL

\* While blocks are added, the newest value of a key and its values over a range of
\* heights are those of the chain that the new blocks make.
THEOREM NewestTellsTheChain == Spec => []NewestMatchesChain
<1>1. HInv => NewestMatchesChain
  BY NewestTell
<1> QED BY <1>1, HInvHolds, PTL
=============================================================================
