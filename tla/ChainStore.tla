----------------------------- MODULE ChainStore -----------------------------
(***************************************************************************)
(* What the block synchronisation promises to everything that reads the    *)
(* database: the processed blocks are one chain from the block after the   *)
(* genesis block up, which grows by one block at its tip or is cut back,   *)
(* as long as the peers' answers can be trusted to be in time.  Module     *)
(* BlockSync refines it.                                                   *)
(***************************************************************************)
EXTENDS Naturals, FiniteSets

CONSTANTS Blocks, Genesis, Parent

VARIABLES
    chain,    \* the set of processed blocks
    trusted   \* no late answer has been taken

Init ==
    /\ chain = {}
    /\ trusted = TRUE

\* b comes on top of its parent, and nothing else does.
Grow(b) ==
    /\ b \notin chain
    /\ Parent[b] = Genesis \/ Parent[b] \in chain
    /\ \A a \in chain : Parent[a] # Parent[b]
    /\ chain' = chain \cup {b}

\* What is left is closed under parents.
CutBack(left) ==
    /\ left \subseteq chain
    /\ \A b \in left : Parent[b] = Genesis \/ Parent[b] \in left
    /\ chain' = left

Next ==
    \/ /\ trusted /\ trusted' = trusted
       /\ \/ \E b \in Blocks : Grow(b)
          \/ \E left \in SUBSET chain : CutBack(left)
    \/ trusted' = FALSE   \* nothing is promised any more

Spec == Init /\ [][Next]_<<chain, trusted>>
=============================================================================
