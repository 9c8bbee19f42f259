-------------------------- MODULE MCBlocksApplier --------------------------
(***************************************************************************)
(* A tree of blocks for TLC; the digit is the height above genesis:        *)
(*                                                                         *)
(*   g - a1 - a2 - a3 - a4      m1 is a1 completed by a microblock, n1 is  *)
(*   g - a1 - m2                m1 completed by another one, m2 is a2      *)
(*   g - a1 - x2                completed by one: a key block refers to    *)
(*   g - m1 - c2                the top or to an earlier version of it.    *)
(*   g - n1                                                                *)
(*   g - b1 - b2                                                           *)
(*                                                                         *)
(* b1 outweighs a1, a2 and ties with a1, a2, a3.  x2 is heavy but invalid, *)
(* so it fails after the rollback of a2; so does y1, an invalid version of *)
(* a1.                                                                     *)
(***************************************************************************)
EXTENDS BlocksApplier

AllBlocks ==
    {"g", "a1", "m1", "n1", "y1", "a2", "m2", "a3", "a4", "c2", "b1", "b2", "x2"}

ParentOf ==
    [b \in AllBlocks |->
        CASE b = "g" -> "none"
          [] b \in {"a1", "m1", "n1", "y1", "b1"} -> "g"
          [] b \in {"a2", "m2", "x2"} -> "a1"
          [] b = "c2" -> "m1"
          [] b = "a3" -> "a2"
          [] b = "a4" -> "a3"
          [] b = "b2" -> "b1"]

WeightOf == [b \in AllBlocks |-> IF b \in {"b1", "b2", "x2"} THEN 3 ELSE 1]

BaseOf ==
    [b \in AllBlocks |->
        CASE b \in {"m1", "y1"} -> "a1"
          [] b = "n1" -> "m1"
          [] b = "m2" -> "a2"
          [] OTHER -> "none"]

ValidBlocks == AllBlocks \ {"x2", "y1"}
=============================================================================
