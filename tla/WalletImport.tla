---------------------------- MODULE WalletImport ----------------------------
(***************************************************************************)
(* Addresses are added to a wallet of bitcore-node: updateCoins of         *)
(* models/walletAddress.ts, called by the API processes while the          *)
(* synchronising process imports blocks and mempool transactions (module   *)
(* CoinStore).  Coins and transactions carry the wallet in a tag, which    *)
(* the queries for balances, coins and history go by.  The imports tag     *)
(* what they write, updateCoins what is stored already.                    *)
(*                                                                         *)
(* There is one wallet, and a call's addresses are one batch.              *)
(***************************************************************************)
EXTENDS CoinStore

CONSTANTS
    Calls,          \* requests that may run at the same time
    Batches,        \* the lists of addresses they may be about
    MaxCalls        \* bound: how many requests there are

ASSUME BatchAssumption ==
    /\ Batches \subseteq Seq(Addresses)
    /\ MaxCalls \in Nat

VARIABLES
    call,       \* call[w]: where request w is
    calls,
    lagging,    \* history: transactions that were being imported when a
                \* request added one of their addresses or tagged them, and
                \* what spends from those
    dropped     \* history: addresses an insert stopped at a duplicate has
                \* left out

allVars == <<vars, call, calls, lagging, dropped>>

NoCall == [stage |-> "idle", batch |-> <<>>, txids |-> {}]

InBatch(w) == {call[w].batch[i] : i \in DOMAIN call[w].batch}

CoinsAt(X) == {c \in Coins : coins[c] # None /\ AddressOf[c] \in X}

\* Transactions under import that have to do with the addresses X.
Touching(X) ==
    {t \in Unsettled : \E c \in Mints[t] \cup Spends[t] : AddressOf[c] \in X}

Move(w, stage) == call' = [call EXCEPT ![w].stage = stage]

\* FilterExistingAddressesStream drops the addresses that are processed.
Request(w, batch) ==
    /\ call[w] = NoCall
    /\ calls < MaxCalls
    /\ LET rest == SelectSeq(batch, LAMBDA x : addresses[x] # "processed")
       IN  call' = [call EXCEPT ![w] =
                       IF rest = <<>> THEN NoCall
                       ELSE [NoCall EXCEPT !.stage = "add", !.batch = rest]]
    /\ calls' = calls + 1
    /\ UNCHANGED <<vars, lagging, dropped>>

\* The insert is ordered ("{ ordered: false }" belongs to no call) and stops
\* at the first duplicate, which is ignored as an error.
Added(w) ==
    {call[w].batch[i] : i \in
        {k \in DOMAIN call[w].batch :
            \A n \in 1 .. k : addresses[call[w].batch[n]] = "none"}}

AddAddresses(w) ==
    /\ call[w].stage = "add"
    /\ addresses' = [x \in Addresses |->
                        IF x \in Added(w) THEN "added" ELSE addresses[x]]
    /\ lagging' = lagging \cup Touching(Added(w))
    /\ dropped' = dropped \cup {x \in InBatch(w) : addresses'[x] = "none"}
    /\ Move(w, "coins")
    /\ UNCHANGED <<coins, txs, node, job, history, calls>>

\* UpdateCoinsStream
TagCoins(w) ==
    /\ call[w].stage = "coins"
    /\ coins' = [c \in Coins |-> IF c \in CoinsAt(InBatch(w))
                                 THEN [coins[c] EXCEPT !.tag = TRUE]
                                 ELSE coins[c]]
    /\ Move(w, "read")
    /\ UNCHANGED <<txs, addresses, node, job, history, calls, lagging,
                   dropped>>

\* Mutant: the transactions that spend the coins are left out.
TxidsMinting(X) == {t \in Txs : \E c \in CoinsAt(X) : c \in Mints[t]}

\* UpdatedTxidsStream: what minted the coins and what spends them.
Txids(X) ==
    {t \in Txs : \E c \in CoinsAt(X) : c \in Mints[t] \/ coins[c].by = t}

ReadTxids(w) ==
    /\ call[w].stage = "read"
    /\ call' = [call EXCEPT ![w].stage = "txs",
                            ![w].txids = Txids(InBatch(w))]
    /\ UNCHANGED <<vars, calls, lagging, dropped>>

\* TxUpdaterStream, one transaction after the other.
TagTx(w, t) ==
    /\ call[w].stage = "txs"
    /\ t \in call[w].txids
    /\ txs' = IF txs[t] = None THEN txs ELSE [txs EXCEPT ![t].tag = TRUE]
    /\ call' = [call EXCEPT ![w].txids = @ \ {t}]
    /\ lagging' = lagging \cup ({t} \cap Unsettled)
    /\ UNCHANGED <<coins, addresses, node, job, history, calls, dropped>>

\* MarkProcessedStream
MarkProcessed(w) ==
    /\ call[w].stage = "txs"
    /\ call[w].txids = {}
    /\ addresses' = [x \in Addresses |->
                        IF x \in InBatch(w) /\ addresses[x] = "added"
                        THEN "processed" ELSE addresses[x]]
    /\ call' = [call EXCEPT ![w] = NoCall]
    /\ UNCHANGED <<coins, txs, node, job, history, calls, lagging,
                   dropped>>

\* The API process dies; every request that runs in it is lost.
ApiCrashes ==
    /\ crashes < MaxCrashes
    /\ \E w \in Calls : call[w] # NoCall
    /\ crashes' = crashes + 1
    /\ call' = [w \in Calls |-> NoCall]
    /\ UNCHANGED <<store, chain, importing, inv, reorgs, job, history,
                   calls, lagging, dropped>>

WalletStep ==
    \/ \E w \in Calls :
          \/ \E batch \in Batches : Request(w, batch)
          \/ AddAddresses(w)
          \/ TagCoins(w)
          \/ ReadTxids(w)
          \/ \E t \in Txs : TagTx(w, t)
          \/ MarkProcessed(w)
    \/ ApiCrashes

\* What spends a coin of such a transaction that has no tag: its own tag goes
\* by the coin's, and nothing returns to it when the coin gets one.
Heirs ==
    {t \in Txs : \E j \in Jobs :
        /\ job[j].stage = "spend" /\ job'[j].stage = "write"
        /\ t \in job[j].txs
        /\ \E c \in Outputs(lagging \cup importing) :
              /\ coins'[c] # None /\ coins'[c].by = t
              /\ ~coins'[c].tag /\ addresses[AddressOf[c]] # "none"}

\* The import of a block looks for the wallets of its transactions again and
\* overwrites their tags, as a relay that is still at one of them will do.
Resolved ==
    IF job["block"] # Idle THEN {}
    ELSE job'["block"].txs \ UNION {job[r].txs : r \in Relays}

NodeStep ==
    /\ Next
    /\ lagging' = (lagging \ Resolved) \cup Heirs
    /\ UNCHANGED <<call, calls, dropped>>

WalletInit ==
    /\ Init
    /\ call = [w \in Calls |-> NoCall]
    /\ calls = 0
    /\ lagging = {}
    /\ dropped = {}

WalletSpec == WalletInit /\ [][WalletStep \/ NodeStep]_allVars

-----------------------------------------------------------------------------
(* Properties                                                              *)

\* Once an address is processed, every coin paid to it, every transaction that
\* pays it and every one that spends from it are the wallet's, whichever of
\* updateCoins and an import came first, whatever crashed and was repeated -
\* except transactions whose import was under way when the address was added
\* or tagged, pending ones that spend from those, those that two jobs were at
\* at once or a crash cut off, those that were imported without getting all
\* they spend or have lost some of it since, conflicting ones as far as they
\* spend, and addresses that an earlier request was given and left out.
WalletComplete ==
    AtRest /\ (\A w \in Calls : call[w] = NoCall) =>
        \A x \in Addresses \ dropped : addresses[x] = "processed" =>
            \A c \in CoinsAt({x}), t \in Txs \ (lagging \cup disturbed \cup deprived) :
                /\ c \in Mints[t] => coins[c].tag
                /\ /\ txs[t] # None
                   /\ \/ c \in Mints[t]
                      \/ /\ coins[c].by = t /\ coins[c].tag
                         /\ txs[t].height # Conflicting
                   => txs[t].tag

=============================================================================
