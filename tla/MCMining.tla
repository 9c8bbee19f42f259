----------------------------- MODULE MCMining ------------------------------
(***************************************************************************)
(* Mining with three transactions, of which the limit takes the two small  *)
(* ones or the large one alone, microblocks of at most two transactions,   *)
(* and enough versions of blocks for an own block with two microblocks     *)
(* that competes with another node's block.                                *)
(***************************************************************************)
EXTENDS Mining

CONSTANTS t1, t2, t3

\* Transactions of the same size are alike.
MCSymmetry == Permutations({t1, t2})

\* No action and no invariant reads refused: it tells a property what the last step did,
\* and states that differ in it alone go on alike.
MCView == <<loop, top, created, timers, firing, mine, minerVars, tasks, micro, txVars>>

MCSizeOf == [t \in Txs |-> IF t = t3 THEN 2 ELSE 1]
=============================================================================
