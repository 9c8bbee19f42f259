----------------------------- MODULE ForkChoice -----------------------------
(***************************************************************************)
(* What the block applier promises: the ledger only moves to a chain with  *)
(* a strictly higher score that branches off at most MaxRollbackDelta      *)
(* blocks below the top, to another version of its last block (completed   *)
(* by a microblock, or the version the next key block refers to), or back  *)
(* to one of its own prefixes (a rollback ordered by the operator, a crash *)
(* or a storage failure in the middle of a reorganization).                *)
(***************************************************************************)
EXTENDS Chains

CONSTANT MaxRollbackDelta

VARIABLE ledger

Adopt ==
    /\ IsChain(ledger')
    /\ Score(ledger') > Score(ledger)
    /\ \E common \in 1 .. Len(ledger) :
          /\ common >= Len(ledger) - MaxRollbackDelta
          /\ IsPrefix(UpTo(ledger, common), ledger')

ReplaceTop(block) ==
    /\ block \in Valid
    /\ Parent[block] = Parent[Last(ledger)]
    /\ Weight[block] = Weight[Last(ledger)]
    /\ ledger' = Append(Front(ledger), block)

Cut(height) == ledger' = UpTo(ledger, height)

Init == IsChain(ledger)

Next ==
    \/ Adopt
    \/ \E block \in Blocks : ReplaceTop(block)
    \/ \E height \in 1 .. Len(ledger) : Cut(height)

Spec == Init /\ [][Next]_ledger
=============================================================================
