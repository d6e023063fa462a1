-------------------------- MODULE MCUtxoSelection --------------------------
(* An instance of UtxoSelection for TLC. *)
EXTENDS UtxoSelection, Sequences

Kind(satoshis, confirmations, status) ==
    [satoshis |-> satoshis, confirmations |-> confirmations, status |-> status]

\* Outputs that differ in what they are worth only, and some that differ in how
\* well they are confirmed and whether they may be used.
Values == <<1, 2, 3, 5, 8, 13, 40>>
Worth == [i \in 1 .. 7 |-> Kind(Values[i], 6, "free")]
Various ==
    [i \in 1 .. 12 |-> Kind(<<3, 5, 8, 40>>[((i - 1) \div 3) + 1],
                            <<0, 1, 6>>[((i - 1) % 3) + 1], "free")]
      \o <<Kind(5, 6, "locked"), Kind(40, 6, "locked"),
           Kind(5, 6, "excluded"), Kind(40, 6, "excluded")>>

\* All wallets of at most n outputs of these kinds: 0 is no output.
WalletsOf(kinds, n) ==
    LET Sorted == {f \in [1 .. n -> 0 .. Len(kinds)] :
                      \A i \in 1 .. n - 1 : f[i] <= f[i + 1]}
        Output(i, k) == [id |-> i, satoshis |-> k.satoshis,
                         confirmations |-> k.confirmations, status |-> k.status]
    IN  {{Output(i, kinds[f[i]]) : i \in {j \in 1 .. n : f[j] > 0}} : f \in Sorted}

MCWallets == WalletsOf(Worth, 5) \cup WalletsOf(Various, 3)

=============================================================================
