----------------------------- MODULE MCUtxPool -----------------------------
(***************************************************************************)
(* UtxPool with three transactions of different size and fee, a size limit *)
(* that admits the smaller one with a larger one, and two cleaning         *)
(* goroutines.                                                             *)
(***************************************************************************)
EXTENDS UtxPool

CONSTANTS t1, t2, t3

MCSize == [t \in Txs |-> IF t = t1 THEN 1 ELSE 2]
MCFee == [t \in Txs |-> IF t = t1 THEN 1 ELSE IF t = t2 THEN 5 ELSE 4]
=============================================================================
