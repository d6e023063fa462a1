---------------------------- MODULE MCCoinStore -----------------------------
(* Instances of CoinStore for TLC: a and b spend the same coin of f, a also *)
(* another one, and c spends what a mints.                                  *)
EXTENDS CoinStore, TLC

CONSTANTS f, a, b, c, f1, f2, a1, b1, c1, r1, r2

TxMints == f :> {f1, f2} @@ a :> {a1} @@ b :> {b1} @@ c :> {c1}
TxSpends == f :> {} @@ a :> {f1, f2} @@ b :> {f1} @@ c :> {a1}
OneAddress == [x \in Coins |-> "other"]

Running == {j \in Jobs : job[j] # Idle}

\* Bounds: two jobs at the same time, after a rollback not the pruner and
\* another one, and after a crash one after the other and no new pruning, but
\* for what arrives during a rollback; where there was a rollback and a crash
\* nothing more comes.
FewJobs ==
    IF job["block"].stage = "undo" THEN Cardinality(Running) <= 2
    ELSE /\ Cardinality(Running) <= IF crashes = 0 THEN 2 ELSE 1
         /\ reorgs = 1 /\ job["pruner"] # Idle => Running = {"pruner"}
         /\ crashes = 1 => job["pruner"].stage # "relate"
         /\ reorgs + crashes = 2 => Running = {}

SameRelays == Permutations(Relays)
=============================================================================
