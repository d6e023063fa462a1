--------------------------- MODULE MCTxProposals ---------------------------
(* Instances of TxProposals for TLC. *)
EXTENDS TxProposals, TLC

\* Copayers, requests, proposals and outputs are interchangeable.
Interchangeable ==
    Permutations(Copayers) \cup Permutations(Requests)
        \cup Permutations(Proposals) \cup Permutations(Utxos)

\* Where a run with two proposals stops looking: what follows an overwrite or
\* a stolen lock is the subject of the run with one proposal.
NothingSpoiled == ~overwritten /\ ~robbed

\* Bound: behind the first expired lock two requests at a time, and no
\* broadcast that the service has ceased to look back at.
OneAccident ==
    clearing => past = {} /\ Cardinality({r \in Requests : req[r] # Idle}) <= 2

\* The run with one proposal is about votes: which broadcasts the service
\* looks back at matters to the selection of outputs only.
NothingForgotten == past = {}

=============================================================================
