------------------------------- MODULE Chains -------------------------------
(***************************************************************************)
(* Blocks and chains of blocks.  A block is known by its ID; its header    *)
(* fixes the block it refers to (Parent) and its share of the score        *)
(* (Weight, computed from BaseTarget).  A chain is the sequence of the     *)
(* blocks at heights 1, 2, ...                                             *)
(***************************************************************************)
EXTENDS Integers, SequencesExt

CONSTANTS
    Blocks,      \* block identifiers
    Genesis,     \* the block at height 1
    NoBlock,     \* "no such block"
    Parent,      \* the block each block refers to
    Weight,      \* the score each block adds
    Base,        \* for a block completed by a microblock: the version the
                 \* microblock refers to; NoBlock for a key block
    Valid        \* the blocks that pass validation on top of their parent

ASSUME ChainsAssumption ==
    /\ Genesis \in Blocks
    /\ NoBlock \notin Blocks
    /\ Valid \subseteq Blocks
    /\ Genesis \in Valid
    /\ Parent \in [Blocks -> Blocks \cup {NoBlock}]
    /\ Parent[Genesis] = NoBlock
    /\ \A b \in Blocks \ {Genesis} : Parent[b] \in Blocks
    /\ Weight \in [Blocks -> Nat \ {0}]
    /\ Base \in [Blocks -> Blocks \cup {NoBlock}]
    /\ \A b \in Blocks : Base[b] # NoBlock =>
          Parent[b] = Parent[Base[b]] /\ Weight[b] = Weight[Base[b]]

\* A microblock names the version it completes by its ID, a hash: no version completes,
\* through others, itself.
ASSUME VersionsAssumption ==
    \A S \in SUBSET Blocks : S # {} => \E b \in S : Base[b] \notin S

KeyBlocks == {b \in Blocks \ {Genesis} : Base[b] = NoBlock}
MicroVersions == {b \in Blocks : Base[b] # NoBlock}

\* calcMultipleScore: the scores of the blocks are summed.
Score(blocks) ==
    LET sum[n \in 0 .. Len(blocks)] ==
            IF n = 0 THEN 0 ELSE sum[n - 1] + Weight[blocks[n]]
    IN sum[Len(blocks)]

\* The blocks refer to one another, the first one to "top".
Linked(top, blocks) ==
    \A i \in 1 .. Len(blocks) :
        Parent[blocks[i]] = IF i = 1 THEN top ELSE blocks[i - 1]

\* What a correct ledger is.
IsChain(blocks) ==
    /\ blocks # << >>
    /\ blocks[1] = Genesis
    /\ Linked(NoBlock, blocks)
    /\ Range(blocks) \subseteq Valid

UpTo(blocks, height) == SubSeq(blocks, 1, height)
=============================================================================
