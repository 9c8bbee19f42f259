-------------------------- MODULE MCHistoryStorage --------------------------
(***************************************************************************)
(* HistoryStorage for TLC: a balance, whose history is cut, and a vote,    *)
(* whose history is not.  A block writes to nothing, to the vote, or twice *)
(* to the balance.                                                         *)
(***************************************************************************)
EXTENDS HistoryStorage

AllKeys == {"balance", "vote"}

AllContents ==
    {[balance |-> 0, vote |-> 0], [balance |-> 0, vote |-> 1], [balance |-> 2, vote |-> 0]}
=============================================================================
