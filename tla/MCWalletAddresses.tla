------------------------- MODULE MCWalletAddresses -------------------------
(* Instances of WalletAddresses for TLC. *)
EXTENDS WalletAddresses, TLC

\* Requests are interchangeable.
Interchangeable == Permutations(Requests)

MCMaxIndex == [main |-> 2, change |-> 1]

\* Where the run stops looking: behind a write or an insert that has lost
\* something, for which the properties make an exception.
NothingLost == ~overwritten /\ ~cut

\* Bounds: one main address is paid; scans run one at a time, in a wallet whose
\* second address is in use.
FewPayments == active["change"] = {} /\ Cardinality(active["main"]) <= 1

FewScans ==
    LET scans == {r \in Requests : req[r].op = "scan"}
    IN  scans # {} => Cardinality(scans) = 1 /\ active["main"] = {1}

=============================================================================
