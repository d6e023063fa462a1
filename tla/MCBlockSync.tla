---------------------------- MODULE MCBlockSync -----------------------------
(* Instances of BlockSync for TLC: a chain a1 a2 a3 a4, and the branch      *)
(* b4 b5 that leaves it after a3.  A reorganisation rolls back to a2, so    *)
(* that locators are left, and a rollback that goes wrong may leave fewer   *)
(* of them.                                                                 *)
EXTENDS BlockSync, TLC

CONSTANTS a1, a2, a3, a4, b4, b5, t1, t2, t3, t4, t5, c1, c2, c3, c4

LineBlocks == {a1, a2, a3, a4}
LineParent == a1 :> Genesis @@ a2 :> a1 @@ a3 :> a2 @@ a4 :> a3
LineHeight == a1 :> 1 @@ a2 :> 2 @@ a3 :> 3 @@ a4 :> 4
LineTxsIn == a1 :> {t1} @@ a2 :> {} @@ a3 :> {t2} @@ a4 :> {t4, t5}

ForkBlocks == LineBlocks \cup {b4, b5}
ForkParent == LineParent @@ b4 :> a3 @@ b5 :> b4
ForkHeight == LineHeight @@ b4 :> 4 @@ b5 :> 5

\* t4 is mined in a4 and again in b5; t3 of b4 spends what t5 of a4 spends.
\* Coinbase transactions are left out.
ForkTxsIn == LineTxsIn @@ b4 :> {t3} @@ b5 :> {t4}

AllTxs == {t1, t2, t3, t4, t5}
AllCoins == {c1, c2, c3, c4}
TxMints == t1 :> {c1, c2} @@ t2 :> {c3} @@ t3 :> {c4} @@ t4 :> {} @@ t5 :> {}
TxSpends ==
    t1 :> {} @@ t2 :> {c1} @@ t3 :> {c3} @@ t4 :> {c2} @@ t5 :> {c3}
=============================================================================
