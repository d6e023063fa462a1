---------------------------- MODULE MCWalletJoin ----------------------------
(* An instance of WalletJoin for TLC. *)
EXTENDS WalletJoin, TLC

CONSTANT w1

MCSize == [w \in Wallets |-> IF w = w1 THEN 2 ELSE 1]

Interchangeable ==
    {p @@ q @@ s :
        p \in Permutations(Requests), q \in Permutations(Copayers),
                   s \in Permutations(Keys)}

\* Bound: the run looks no further once two things have gone wrong that the
\* properties make an exception for, or two locks are left behind.
FewAccidents ==
    /\ Cardinality(shared) + Cardinality(interrupted) + Cardinality(recreated)
          + Cardinality(robbed) + Cardinality(missed) <= 1
    /\ Cardinality({w \in Wallets : lock[w] = Orphan}) <= 1

=============================================================================
