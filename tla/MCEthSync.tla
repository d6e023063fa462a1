----------------------------- MODULE MCEthSync ------------------------------
(* An instance of EthSync for TLC.  s and t have the same nonce; s is mined *)
(* in two branches, t in a third one.                                       *)
EXTENDS EthSync, TLC

CONSTANTS g, a1, a2, a3, b2, b3, c3, c4, s, t

\* Three blocks are stored above the first one; branch c leaves them one block
\* below the last one, b two blocks below.  A branch may be the heavier one and
\* the shorter.
MCParent == g :> None @@ a1 :> g @@ a2 :> a1 @@ a3 :> a2
              @@ b2 :> a1 @@ b3 :> b2 @@ c3 :> a2 @@ c4 :> c3
MCHeight == g :> 0 @@ a1 :> 1 @@ a2 :> 2 @@ a3 :> 3
              @@ b2 :> 2 @@ b3 :> 3 @@ c3 :> 3 @@ c4 :> 4
MCWeight == g :> 0 @@ a1 :> 1 @@ a2 :> 2 @@ a3 :> 3
              @@ c3 :> 4 @@ b2 :> 5 @@ b3 :> 6 @@ c4 :> 7
MCTxsIn == [b \in Blocks |->
    CASE b \in {a3, c4} -> {s} [] b = b3 -> {t} [] OTHER -> {}]

MCSlot == s :> 1 @@ t :> 1
=============================================================================
