----------------------------- MODULE CoinStore ------------------------------
(***************************************************************************)
(* The coins and transactions of one chain in bitcore-node, written by     *)
(* everything that runs at the same time: the import of blocks and their   *)
(* rollback (models/block.ts), the imports of mempool transactions, each   *)
(* started by a message of a peer (modules/bitcoin/p2p.ts), which share    *)
(* batchImport (models/transaction.ts), and the pruning service            *)
(* (services/pruning.ts), a process of its own.                            *)
(*                                                                         *)
(* What a job reads and what it writes from it are different actions, as   *)
(* there is an await between them; one bulk write is one action.  Module   *)
(* BlockSync is about which blocks are imported and how a crash is         *)
(* repaired; here they come in some valid order, after the initial         *)
(* synchronisation, without their coinbase.                                *)
(***************************************************************************)
EXTENDS Integers, Sequences, FiniteSets

CONSTANTS
    Txs, Coins,
    Mints,        \* Mints[t]: the outputs of transaction t
    Spends,       \* Spends[t]: the coins its inputs spend
    Addresses,
    AddressOf,    \* AddressOf[c]: the address coin c is paid to
    Base,         \* transactions of the block the chain starts with
    Relays,       \* mempool imports that may run at the same time
    MaxHeight, MaxReorgs, MaxCrashes,     \* bounds
    None

ASSUME CoinAssumption ==
    /\ Mints \in [Txs -> SUBSET Coins]
    /\ Spends \in [Txs -> SUBSET Coins]
    /\ AddressOf \in [Coins -> Addresses]
    /\ Base \subseteq Txs /\ \A t \in Base : Spends[t] = {}
    /\ \A c \in Coins : \A s, t \in Txs :
          c \in Mints[s] /\ c \in Mints[t] => s = t
    /\ Relays \cap {"block", "pruner"} = {}
    /\ {MaxHeight, MaxReorgs, MaxCrashes} \subseteq Nat /\ MaxHeight > 0

Pending == -1
Unspent == -2
Conflicting == -3

Heights == {Conflicting, Pending} \cup 1 .. MaxHeight

CoinDocs == [mint : Heights, spent : {Unspent, Pending} \cup 1 .. MaxHeight,
             by : Txs \cup {None}, tag : BOOLEAN]
TxDocs == [height : Heights, tag : BOOLEAN]

ASSUME NoneAssumption ==
    None \notin Txs /\ None \notin CoinDocs /\ None \notin TxDocs

VARIABLES
    coins,      \* coins[c]: the document of coin c, or None
    txs,        \* txs[t]: the document of transaction t, or None
    addresses,  \* walletaddresses: "none", "added" or "processed"
    chain,      \* the processed blocks, each a set of transactions
    importing,  \* the block whose import has begun and not ended
    inv,        \* invCache: transactions this process has seen
    job,        \* job[j]: where each running import or pruning is
    reorgs, crashes,
    disturbed,  \* history: transactions two jobs have worked on at once, or
                \* whose import or update was cut off by a crash
    deprived    \* history: transactions that were imported without getting all
                \* they spend, or have lost some of it since

vars == <<coins, txs, addresses, chain, importing, inv, job,
          reorgs, crashes, disturbed, deprived>>

Jobs == Relays \cup {"block", "pruner"}

Idle == [stage |-> "idle", txs |-> {}, height |-> Pending, found |-> {},
         todo |-> {}, walk |-> {}, seen |-> {}, related |-> {},
         marks |-> {}, tagged |-> {}]

Height == Len(chain)
OnChain == UNION {chain[h] : h \in 1 .. Height}

Inputs(T) == UNION {Spends[t] : t \in T}
Outputs(T) == UNION {Mints[t] : t \in T}
SpenderIn(T, c) == CHOOSE t \in T : c \in Spends[t]

NewCoin(c, h) ==
    [mint |-> h, spent |-> Unspent, by |-> None, tag |-> FALSE]

Init ==
    /\ coins = [c \in Coins |->
                   IF c \in Outputs(Base) THEN NewCoin(c, 1) ELSE None]
    /\ txs = [t \in Txs |->
                 IF t \in Base THEN [height |-> 1, tag |-> FALSE] ELSE None]
    /\ addresses = [x \in Addresses |-> "none"]
    /\ chain = <<Base>>
    /\ importing = {}
    /\ inv = {}
    /\ job = [j \in Jobs |-> Idle]
    /\ reorgs = 0
    /\ crashes = 0
    /\ disturbed = {}
    /\ deprived = {}

Goto(j, stage) == job' = [job EXCEPT ![j].stage = stage]

\* Transactions that are being imported, or were when the process died.
Unsettled == importing \cup UNION {job[r].txs : r \in Relays}

\* An update that has been made in one of two collections only.
HalfMarked(J) ==
    UNION {job[j].related : j \in {k \in J : Cardinality(job[k].marks) = 1}}

store == <<coins, txs, addresses>>
node == <<chain, importing, inv, reorgs, crashes>>
history == <<disturbed, deprived>>

-----------------------------------------------------------------------------
(* Blocks and transactions arrive                                          *)

\* T can be the next block: nothing in it is spent twice, and it comes after
\* what it spends.
ValidBlock(T) ==
    /\ T # {}
    /\ T \cap OnChain = {}
    /\ Inputs(T) \subseteq Outputs(OnChain \cup T)
    /\ Inputs(T) \cap Inputs(OnChain) = {}
    /\ \A s, t \in T : s # t => Spends[s] \cap Spends[t] = {}

\* The first thing an import does is to ask for the wallets of the addresses
\* (tagMintBatch).
Begin(j, T, h) ==
    job' = [job EXCEPT ![j] =
        [Idle EXCEPT
            !.stage = "mint", !.txs = T, !.height = h,
            !.found = {AddressOf[c] : c \in
                          {d \in Outputs(T) : addresses[AddressOf[d]] # "none"}}]]

\* getBlockOp, for the block after the last one.
NewHeight == Height + 1

\* peerblock caches the transactions; addBlock finds nothing to roll back.
\* A block that was cut off by a crash is imported again.
BlockArrives(T) ==
    /\ job["block"] = Idle
    /\ Height < MaxHeight
    /\ IF importing = {} THEN ValidBlock(T) ELSE T = importing
    /\ importing' = T
    /\ inv' = inv \cup T
    /\ Begin("block", T, NewHeight)
    /\ disturbed' = disturbed \ T
    /\ deprived' = deprived \ T
    /\ UNCHANGED <<store, chain, reorgs, crashes>>

\* What a transaction that was not stored has left behind is imported again.
Afresh(t) == txs[t] = None /\ \A c \in Mints[t] :
                 coins[c] = None \/ coins[c].mint # Conflicting

\* A rollback has still to delete what is stored of t.
RollingBack(t) ==
    /\ job["block"].stage = "undo"
    /\ \/ txs[t] # None /\ txs[t].height > Height
       \/ \E c \in Mints[t] : coins[c] # None /\ coins[c].mint > Height

\* peertx: processTransaction, once for each transaction.  Peers announce what
\* is not mined.
TxArrives(r, t) ==
    /\ job[r] = Idle
    /\ t \notin inv \cup OnChain
    /\ inv' = inv \cup {t}
    /\ Begin(r, {t}, Pending)
    /\ disturbed' = IF t \in HalfMarked(Jobs) \/ RollingBack(t)
                    THEN disturbed \cup {t}
                    ELSE IF Afresh(t) THEN disturbed \ {t}
                    ELSE disturbed
    /\ deprived' = IF Afresh(t) THEN deprived \ {t} ELSE deprived
    /\ UNCHANGED <<store, chain, importing, reorgs, crashes>>

-----------------------------------------------------------------------------
(* batchImport: minting                                                    *)

\* Mutant: mempool imports overwrite what is stored.
MintedAlways(c, h, found) ==
    IF coins[c] = None
    THEN [NewCoin(c, h) EXCEPT !.tag = AddressOf[c] \in found]
    ELSE [coins[c] EXCEPT
             !.mint = h,
             !.tag = IF found = {} THEN @ ELSE AddressOf[c] \in found]

\* The upsert of a mint.  toMempoolSafeUpsert leaves out what would overwrite
\* a stored coin; a batch in which no wallet was found leaves wallets alone.
Minted(c, h, found) ==
    IF coins[c] = None
    THEN [NewCoin(c, h) EXCEPT !.tag = AddressOf[c] \in found]
    ELSE IF h = Pending
    THEN coins[c]
    ELSE [coins[c] EXCEPT
             !.mint = h,
             !.tag = IF found = {} THEN @ ELSE AddressOf[c] \in found]

Mint(j) ==
    /\ job[j].stage = "mint"
    /\ coins' = [c \in Coins |->
                    IF c \in Outputs(job[j].txs)
                    THEN Minted(c, job[j].height, job[j].found)
                    ELSE coins[c]]
    /\ Goto(j, "find")
    /\ UNCHANGED <<txs, addresses, node, history>>

-----------------------------------------------------------------------------
(* batchImport: pruneMempool, then spending                                *)

\* Mutant: pruneMempool asks for coins that are minted by a pending transaction,
\* and not for those spent by one.
RivalsByMint(T) ==
    {coins[c].by : c \in {d \in Inputs(T) :
                             /\ coins[d] # None
                             /\ coins[d].mint = Pending
                             /\ coins[d].by \notin {None, SpenderIn(T, d)}}}

\* Pending transactions that spend an input of T and are not in T for it.
Rivals(T) ==
    {coins[c].by : c \in {d \in Inputs(T) :
                             /\ coins[d] # None
                             /\ coins[d].spent = Pending
                             /\ coins[d].by # SpenderIn(T, d)}}

\* The next transaction to invalidate, or on to the spends.
Continued(r) ==
    IF r.todo = {}
    THEN {[r EXCEPT !.stage = "spend", !.related = {}]}
    ELSE {[r EXCEPT !.stage = "relate", !.todo = @ \ {root},
                    !.walk = {root}, !.seen = {}, !.related = {root}]
              : root \in r.todo}

FindRivals(j) ==
    /\ job[j].stage = "find"
    /\ \E r \in Continued([job[j] EXCEPT !.todo = Rivals(job[j].txs)]) :
          job' = [job EXCEPT ![j] = r]
    /\ UNCHANGED <<store, node, history>>

\* getOutputs
OutputsOf(t) ==
    {c \in Mints[t] : coins[c] # None /\ coins[c].mint # Conflicting}

\* One read of findAllRelatedOutputs: the outputs of t, and their spenders.
Walked(j, t) ==
    LET spenders == {coins[c].by : c \in OutputsOf(t)} \ {None}
        seen == job[j].seen \cup IF OutputsOf(t) = {} THEN {} ELSE {t}
        walk == (job[j].walk \ {t}) \cup (spenders \ seen)
        done == walk = {}
    IN  [job[j] EXCEPT !.stage = IF done THEN "mark" ELSE "relate",
                       !.walk = walk,
                       !.seen = IF done THEN {} ELSE seen,
                       !.related = @ \cup spenders,
                       !.marks = IF done THEN {"txs", "coins"} ELSE {}]

\* processOldMempoolTxs and processAllInvalidTxs stop at a confirmed coin.
Confirmed(c) == coins[c].mint >= 0 \/ coins[c].spent >= 0

Relate(j, t) ==
    /\ job[j].stage = "relate"
    /\ t \in job[j].walk
    /\ job' = [job EXCEPT ![j] =
                  IF j = "pruner" /\ \E c \in OutputsOf(t) : Confirmed(c)
                  THEN Idle
                  ELSE Walked(j, t)]
    /\ UNCHANGED <<store, node, history>>

\* The parallel updates of pruneMempool, clearInvalid and removeOldMempool.
\* Only the last of them asks whether the transaction is still pending.
MarkedTx(t, old) ==
    IF txs[t] = None THEN None
    ELSE IF ~old THEN [txs[t] EXCEPT !.height = Conflicting]
    ELSE IF txs[t].height = Pending THEN None
    ELSE txs[t]

\* Mutant: removeOldMempool leaves the coins.
MarkedCoinKept(c, old) ==
    IF coins[c] = None \/ old THEN coins[c]
    ELSE [coins[c] EXCEPT !.mint = Conflicting]

MarkedCoin(c, old) ==
    IF coins[c] = None THEN None
    ELSE IF ~old THEN [coins[c] EXCEPT !.mint = Conflicting]
    ELSE IF coins[c].mint = Pending THEN None
    ELSE coins[c]

\* What an update of j gets wrong because of its age or of its two halves:
\* transactions that are being imported, have been mined or have had others
\* added below them since the look-up, or which another update is hitting.
Overtaken(j, old) ==
    LET hit == job[j].related
    IN  (IF job["block"].stage = "undo" THEN hit ELSE {})
        \cup (hit \cap (Unsettled \cup HalfMarked(Jobs \ {j})))
        \cup (IF old THEN {} ELSE hit \cap OnChain)

Mark(j, m) ==
    LET old == j = "pruner" /\ job[j].height = Pending
        left == job[j].marks \ {m}
        hit == job[j].related
    IN  /\ job[j].stage = "mark"
        /\ m \in job[j].marks
        /\ IF m = "txs"
           THEN /\ txs' = [t \in Txs |->
                              IF t \in hit THEN MarkedTx(t, old) ELSE txs[t]]
                /\ UNCHANGED coins
           ELSE /\ coins' = [c \in Coins |->
                                IF c \in Outputs(hit)
                                THEN MarkedCoin(c, old) ELSE coins[c]]
                /\ UNCHANGED txs
        /\ disturbed' = disturbed \cup Overtaken(j, old)
        /\ \E r \in IF left # {} THEN {[job[j] EXCEPT !.marks = left]}
                   ELSE IF j = "pruner" THEN {Idle}
                   ELSE Continued([job[j] EXCEPT !.marks = {}]) :
              job' = [job EXCEPT ![j] = r]
        /\ UNCHANGED <<addresses, node, deprived>>

\* The filter of a spend: spentHeight below SpentHeightIndicators.minimum.
Spendable(c) == coins[c] # None /\ coins[c].spent < 0

\* Another job has read the outputs of this transaction for an update that
\* it has still to make.
BeingMarked(j, s) ==
    \E k \in Jobs \ {j} : s \in job[k].related \ job[k].walk

\* Another import, which has looked for the rivals of its transactions, has
\* still to spend what t spends.
Crossed(j, t) ==
    \E k \in (Relays \cup {"block"}) \ {j} :
        /\ job[k].stage \in {"relate", "mark", "spend"}
        /\ t \notin job[k].txs
        /\ Spends[t] \cap Inputs(job[k].txs) # {}

\* A transaction that spends a coin which is not stored, conflicts, is about
\* to or is spent by the chain is stored all the same, and so is one that
\* crosses another.
Losers(j) ==
    LET lost(c) == \/ ~Spendable(c)
                   \/ coins[c].mint = Conflicting
                   \/ \E s \in Txs : c \in Mints[s] /\ BeingMarked(j, s)
    IN  {t \in job[j].txs : Crossed(j, t) \/ \E c \in Spends[t] : lost(c)}

SpentBy(T, h) ==
    [c \in Coins |-> IF c \in Inputs(T) /\ Spendable(c)
                     THEN [coins[c] EXCEPT !.spent = h, !.by = SpenderIn(T, c)]
                     ELSE coins[c]]

\* The spends, and the read of them with which streamTxOps goes on, for the
\* wallets of the coins.
Spend(j) ==
    LET T == job[j].txs
        h == job[j].height
        mine(c) == /\ coins'[c] # None
                   /\ IF h > 0 THEN coins'[c].spent = h
                               ELSE coins'[c].by \in T
    IN  /\ job[j].stage = "spend"
        /\ coins' = SpentBy(T, h)
        /\ job' = [job EXCEPT
              ![j].stage = "write",
              ![j].tagged = {coins'[c].by : c \in {d \in Coins :
                                                      mine(d) /\ coins'[d].tag}}]
        /\ deprived' = deprived \cup Losers(j)
        /\ UNCHANGED <<txs, addresses, node, disturbed>>

-----------------------------------------------------------------------------
(* batchImport: the transactions                                           *)

Written(j, t) ==
    IF txs[t] # None /\ job[j].height = Pending
    THEN txs[t]
    ELSE [height |-> job[j].height,
          tag |-> \/ t \in job[j].tagged
                  \/ \E c \in Mints[t] : AddressOf[c] \in job[j].found]

\* The upserts of the transactions; then the block is marked processed.
WriteTxs(j) ==
    /\ job[j].stage = "write"
    /\ txs' = [t \in Txs |->
                  IF t \in job[j].txs THEN Written(j, t) ELSE txs[t]]
    /\ job' = [job EXCEPT ![j] = Idle]
    /\ IF j = "block"
       THEN /\ chain' = Append(chain, job[j].txs)
            /\ importing' = {}
       ELSE UNCHANGED <<chain, importing>>
    /\ UNCHANGED <<coins, addresses, inv, reorgs, crashes, history>>

-----------------------------------------------------------------------------
(* handleReorg                                                             *)

\* The blocks from height h on are left, the common ancestor among them.
Reorg(h) ==
    /\ job["block"] = Idle
    /\ importing = {}
    /\ reorgs < MaxReorgs
    /\ chain' = SubSeq(chain, 1, h - 1)
    /\ job' = [job EXCEPT !["block"] =
                  [Idle EXCEPT !.stage = "undo", !.height = h,
                               !.marks = {"txs", "coins"}]]
    /\ reorgs' = reorgs + 1
    /\ disturbed' = disturbed
           \cup (Unsettled \cap UNION {chain[i] : i \in h .. Height})
    /\ UNCHANGED <<store, importing, inv, crashes, deprived>>

\* The parallel deletes.  What depends on a deleted coin knows nothing of it.
UndoMined(m) ==
    LET h == job["block"].height
        gone == {c \in Coins : coins[c] # None /\ coins[c].mint >= h}
    IN  /\ job["block"].stage = "undo"
        /\ m \in job["block"].marks
        /\ IF m = "txs"
           THEN /\ txs' = [t \in Txs |->
                              IF txs[t] # None /\ txs[t].height >= h
                              THEN None ELSE txs[t]]
                /\ UNCHANGED <<coins, deprived>>
           ELSE /\ coins' = [c \in Coins |->
                                IF c \in gone THEN None ELSE coins[c]]
                /\ deprived' = deprived
                       \cup ({coins[c].by : c \in gone} \ {None})
                /\ UNCHANGED txs
        /\ job' = [job EXCEPT !["block"].marks = @ \ {m}]
        /\ UNCHANGED <<addresses, node, disturbed>>

UndoSpends ==
    LET h == job["block"].height IN
    /\ job["block"].stage = "undo"
    /\ job["block"].marks = {}
    /\ coins' = [c \in Coins |->
                    IF coins[c] # None /\ coins[c].spent >= h
                    THEN [coins[c] EXCEPT !.spent = Unspent, !.by = None]
                    ELSE coins[c]]
    /\ job' = [job EXCEPT !["block"] = Idle]
    /\ UNCHANGED <<txs, addresses, node, history>>

-----------------------------------------------------------------------------
(* services/pruning.ts                                                     *)

\* Any pending transaction may have become old.  The cursor's documents are
\* taken one after the other.
PruneTx(t) ==
    /\ job["pruner"] = Idle
    /\ txs[t] # None
    /\ txs[t].height \in {Pending, Conflicting}
    /\ job' = [job EXCEPT !["pruner"] =
                  [Idle EXCEPT !.stage = "relate", !.height = txs[t].height,
                               !.walk = {t}, !.related = {t}]]
    /\ UNCHANGED <<store, node, history>>

-----------------------------------------------------------------------------
(* Crashes                                                                 *)

\* The synchronising process dies; module BlockSync is about a rollback that
\* is cut off.
NodeCrashes ==
    /\ crashes < MaxCrashes
    /\ job["block"].stage # "undo"
    /\ \E j \in Jobs \ {"pruner"} : job[j] # Idle
    /\ crashes' = crashes + 1
    /\ inv' = {}
    /\ disturbed' = disturbed \cup HalfMarked(Jobs \ {"pruner"})
                        \cup UNION {job[r].txs : r \in Relays}
    /\ job' = [j \in Jobs |-> IF j = "pruner" THEN job[j] ELSE Idle]
    /\ UNCHANGED <<store, chain, importing, reorgs, deprived>>

PrunerCrashes ==
    /\ crashes < MaxCrashes
    /\ job["pruner"] # Idle
    /\ crashes' = crashes + 1
    /\ disturbed' = disturbed \cup HalfMarked({"pruner"})
    /\ job' = [job EXCEPT !["pruner"] = Idle]
    /\ UNCHANGED <<store, chain, importing, inv, reorgs, deprived>>

-----------------------------------------------------------------------------

Import(j) ==
    \/ Mint(j)
    \/ FindRivals(j)
    \/ Spend(j)
    \/ WriteTxs(j)

Prune(j) ==
    \/ \E t \in Txs : Relate(j, t)
    \/ \E m \in {"txs", "coins"} : Mark(j, m)

Next ==
    \/ \E T \in SUBSET Txs : BlockArrives(T)
    \/ \E r \in Relays, t \in Txs : TxArrives(r, t)
    \/ \E j \in Relays \cup {"block"} : Import(j)
    \/ \E j \in Jobs : Prune(j)
    \/ \E h \in 2 .. Height : Reorg(h)
    \/ \E m \in {"txs", "coins"} : UndoMined(m)
    \/ UndoSpends
    \/ \E t \in Txs : PruneTx(t)
    \/ NodeCrashes
    \/ PrunerCrashes

Spec == Init /\ [][Next]_vars

-----------------------------------------------------------------------------
(* Properties                                                              *)

JobDocs ==
    [stage : {"idle", "mint", "find", "relate", "mark", "spend", "write", "undo"},
     txs : SUBSET Txs, height : Heights, found : SUBSET Addresses,
     todo : SUBSET Txs, walk : SUBSET Txs, seen : SUBSET Txs,
     related : SUBSET Txs, marks : SUBSET {"txs", "coins"},
     tagged : SUBSET Txs]

\* The documents, the jobs and the bounds have their types; a coin has a
\* spender when it is spent.
TypeOK ==
    /\ coins \in [Coins -> CoinDocs \cup {None}]
    /\ \A c \in Coins : coins[c] # None =>
          (coins[c].spent = Unspent <=> coins[c].by = None)
    /\ txs \in [Txs -> TxDocs \cup {None}]
    /\ addresses \in [Addresses -> {"none", "added", "processed"}]
    /\ chain \in Seq(SUBSET Txs) /\ Len(chain) <= MaxHeight
    /\ importing \subseteq Txs /\ inv \subseteq Txs
    /\ disturbed \subseteq Txs /\ deprived \subseteq Txs
    /\ job \in [Jobs -> JobDocs]
    /\ reorgs \in 0 .. MaxReorgs /\ crashes \in 0 .. MaxCrashes

BlocksAtRest == job["block"] = Idle /\ importing = {}
AtRest == BlocksAtRest /\ \A j \in Jobs : job[j] = Idle

StoredAt(t, h) ==
    /\ txs[t] # None /\ txs[t].height = h
    /\ \A c \in Mints[t] : coins[c] # None /\ coins[c].mint = h

\* What the chain spends is stored as spent by it, whatever mempool imports
\* and pruning are doing or have done, and its transactions and coins stand
\* at their heights, unless an update that was looked up before the block
\* was there has hit them.
ConfirmedStands ==
    BlocksAtRest => \A h \in 1 .. Height : \A t \in chain[h] :
        /\ \A c \in Spends[t] : /\ coins[c] # None
                                /\ coins[c].spent = h
                                /\ coins[c].by = t
        /\ t \in disturbed \/ StoredAt(t, h)

\* A transaction that is shown as pending has all it spends reserved for it: no
\* import that came later, mined or not, has taken an input and left it pending
\* (pruneMempool marks it and all that depends on it), and none of its inputs
\* belongs to a transaction that conflicts.  Excepted are a transaction one of
\* whose inputs was not stored, was spent by the chain, or was of a conflicting
\* transaction, when it was itself imported; one that two imports, or an import
\* and an update, have come upon at once; one whose input a rollback has
\* deleted; and one whose import or update a crash has cut off.
PendingHoldsInputs ==
    AtRest => \A t \in Txs \ (disturbed \cup deprived) :
        txs[t] # None /\ txs[t].height = Pending =>
            \A c \in Spends[t] : /\ coins[c] # None
                                 /\ coins[c].spent = Pending
                                 /\ coins[c].by = t
                                 /\ coins[c].mint # Conflicting

\* The two collections, which are never written together, tell the same of a
\* transaction, stored or not, mined, pending or conflicting, through
\* rollbacks, re-imports and pruning - except a transaction that an import and
\* an update, two updates, or an import and a rollback have worked on at the
\* same time, and one whose import or update a crash has cut off.
CollectionsAgree ==
    AtRest => \A t \in Txs \ disturbed : \A c \in Mints[t] :
        /\ (coins[c] = None) <=> (txs[t] = None)
        /\ coins[c] # None => coins[c].mint = txs[t].height

=============================================================================
