--------------------------- MODULE MCWalletImport ---------------------------
(***************************************************************************)
(* An instance of WalletImport for TLC: f pays x and y, a spends the one   *)
(* and pays y again, and b spends it too and pays x.  The chain has none   *)
(* of them yet, so that f can be relayed late and a follow it.             *)
(***************************************************************************)
EXTENDS WalletImport, TLC

CONSTANTS f, a, b, f1, f2, a1, b1, x, y, w1, w2

TxMints == f :> {f1, f2} @@ a :> {a1} @@ b :> {b1}
TxSpends == f :> {} @@ a :> {f1} @@ b :> {f1}
PaidTo == f1 :> x @@ f2 :> y @@ a1 :> y @@ b1 :> x

OneOrBoth == {<<x>>, <<x, y>>}

Running == {j \in Jobs : job[j] # Idle}
Called == {w \in Calls : call[w] # NoCall}

\* Bound: two jobs and requests at the same time.
FewJobs == Cardinality(Running) + Cardinality(Called) <= 2

\* Bound: requests, crashes and rollbacks together.
FewAccidents == calls + crashes + reorgs <= 2

\* Bound: b comes where f is mined; then there is one request, and nothing
\* crashes or is rolled back.
FewRivals ==
    b \in inv \cup importing \cup disturbed \cup deprived
        \/ txs[b] # None =>
        f \in OnChain /\ calls <= 1 /\ crashes + reorgs = 0

SameCalls == Permutations(Calls)
=============================================================================
