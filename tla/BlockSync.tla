----------------------------- MODULE BlockSync ------------------------------
(***************************************************************************)
(* One bitcore-node worker keeps the blocks, coins and transactions of a   *)
(* Bitcoin-like chain in step with its peers: modules/bitcoin/p2p.ts,      *)
(* models/block.ts and the block import of models/transaction.ts.          *)
(*                                                                         *)
(* Every await between two database writes is a place where the process    *)
(* may die, so each write is an action of its own.  The worker is the only *)
(* writer (module SyncingNode is about who that is); what it reads between *)
(* two writes belongs to the action that uses it.  Mempool transactions    *)
(* are left out here.                                                      *)
(***************************************************************************)
EXTENDS Integers, Sequences, FiniteSets, FiniteSetsExt

CONSTANTS
    Blocks,       \* every block any peer may ever have on its chain
    Genesis,      \* their common ancestor, which is never stored
    Parent,       \* Parent[b]: prevHash
    Height,       \* Height[b]: b's distance from Genesis
    Txs, Coins,
    TxsIn,        \* TxsIn[b]: the transactions of block b
    Mints,        \* Mints[t]: the outputs of transaction t
    Spends,       \* Spends[t]: the coins its inputs spend
    Peers,        \* trustedPeers
    MaxHeaders,   \* headers in one answer (2000 in the protocol)
    MaxCrashes,   \* bound: how often the process dies or a write fails
    MaxRetries,   \* bound: how often getHeaders repeats its question
    None

ASSUME TreeAssumption ==
    /\ Genesis \notin Blocks
    /\ None \notin Blocks
    /\ Parent \in [Blocks -> Blocks \cup {Genesis}]
    /\ Height \in [Blocks -> Nat \ {0}]
    /\ \A b \in Blocks :
          Height[b] = IF Parent[b] = Genesis THEN 1 ELSE Height[Parent[b]] + 1

ASSUME DataAssumption ==
    /\ TxsIn \in [Blocks -> SUBSET Txs]
    /\ Mints \in [Txs -> SUBSET Coins]
    /\ Spends \in [Txs -> SUBSET Coins]
    /\ MaxHeaders \in Nat \ {0}
    /\ MaxCrashes \in Nat
    /\ MaxRetries \in Nat

Unspent == -2     \* SpentHeightIndicators.unspent

\* The documents of the three collections.
BlockDocs ==
    [height : Nat \ {0}, processed : BOOLEAN, next : Blocks \cup {None}]
CoinDocs ==
    [mint : Nat \ {0}, spent : {Unspent} \cup Nat, by : Txs \cup {None}]
TxDocs == [height : Nat \ {0}, block : Blocks]

ASSUME NoneAssumption ==
    None \notin BlockDocs /\ None \notin CoinDocs /\ None \notin TxDocs

VARIABLES
    blocks,   \* blocks[b]: the document of block b, or None
    coins,    \* coins[c]: the document of coin c, or None
    txs,      \* txs[t]: the document of transaction t, or None
    best,     \* best[p]: the tip of peer p's chain
    wire,     \* wire[p]: messages from p, in the order of the connection
    cached,   \* invCache: block hashes received since the process started
    at,       \* what the worker's sync() is about to do
    todo,     \* the headers it still has to process, the current one first
    from,     \* handleReorg: the height it rolls back to
    undo,     \* handleReorg: the parallel deletes that have not been made
    crashes, retries,
    late,     \* history: sync() took an answer to an earlier question
    torn      \* history: a rollback stopped between two of its writes

db == <<blocks, coins, txs>>
worker == <<at, todo, from, undo>>
history == <<late, torn>>
vars == <<blocks, coins, txs, best, wire, cached, at, todo, from, undo,
          crashes, retries, late, torn>>

Stages == {"off", "rest", "ask", "headers", "check", "undo", "unspend",
           "block", "link", "mint", "spend", "txs", "mark"}

Deletes == {"blocks", "txs", "coins"}

Stored(b) == b \in Blocks /\ blocks[b] # None
Processed == {b \in Blocks : Stored(b) /\ blocks[b].processed}

\* getLocalTip: a processed block of the greatest height.
IsTip(b) ==
    /\ b \in Processed
    /\ \A a \in Processed : blocks[a].height <= blocks[b].height

Current == Head(todo)

\* getBlockOp: (previousBlock && previousBlock.height + 1) || 1
NewHeight(b) == IF Stored(Parent[b]) THEN blocks[Parent[b]].height + 1 ELSE 1

Init ==
    /\ blocks = [b \in Blocks |-> None]
    /\ coins = [c \in Coins |-> None]
    /\ txs = [t \in Txs |-> None]
    /\ best \in [Peers -> Blocks]
    /\ wire = [p \in Peers |-> <<>>]
    /\ cached = {}
    /\ at = "off"
    /\ todo = <<>>
    /\ from = 0
    /\ undo = {}
    /\ crashes = 0
    /\ retries = 0
    /\ late = FALSE
    /\ torn = FALSE

-----------------------------------------------------------------------------
(* The peers                                                               *)

\* b and all below it: the least set with b and its members' parents.
Ancestors ==
    [b \in Blocks |->
        {a \in Blocks : \A S \in SUBSET Blocks :
            b \in S /\ (\A s \in S : Parent[s] \in S \cup {Genesis}) => a \in S}]

\* What the peers have verified of every branch: a transaction is on it once,
\* no coin is minted or spent twice, and none is spent before it is minted.
ASSUME BranchAssumption ==
    \A b \in Blocks :
        /\ \A a \in Ancestors[b] \ {b} :
              /\ TxsIn[a] \cap TxsIn[b] = {}
              /\ \A t \in TxsIn[a], u \in TxsIn[b] :
                    Mints[t] \cap Mints[u] = {} /\ Spends[t] \cap Spends[u] = {}
        /\ \A t, u \in TxsIn[b] : t # u => Spends[t] \cap Spends[u] = {}
        /\ \A t \in TxsIn[b] : \A c \in Spends[t] :
              \E a \in Ancestors[b] : \E u \in TxsIn[a] : c \in Mints[u]

AncestorAt(b, h) == CHOOSE a \in Ancestors[b] : Height[a] = h

\* getLocatorHashes sends the processed blocks, or zeros when there are fewer
\* than two.  The peer answers with what follows the last one on its chain.
Known(b) ==
    IF Cardinality(Processed) < 2 THEN {} ELSE Processed \cap Ancestors[b]

Answer(p) ==
    LET common == Max({0} \cup {Height[a] : a \in Known(best[p])})
        n == Min({MaxHeaders, Height[best[p]] - common})
    IN  [type |-> "headers", asked |-> Processed,
         list |-> [i \in 1 .. n |-> AncestorAt(best[p], common + i)]]

\* p finds a chain with more work and announces its tip.  The inventory and
\* the block that the worker then asks for are one message.
PeerAdvances(p, b) ==
    /\ Height[b] > Height[best[p]]
    /\ best' = [best EXCEPT ![p] = b]
    /\ wire' = IF at = "off" THEN wire
               ELSE [wire EXCEPT ![p] =
                        Append(@, [type |-> "block", asked |-> {},
                                    list |-> <<b>>])]
    /\ UNCHANGED <<db, cached, worker, crashes, retries, history>>

-----------------------------------------------------------------------------
(* sync: asking for headers                                                *)

Start ==
    /\ at = "off"
    /\ at' = "ask"
    /\ UNCHANGED <<db, best, wire, cached, todo, from, undo, crashes, retries,
                   history>>

\* pool.sendMessage asks every peer.
SendQuestion == wire' = [p \in Peers |-> Append(wire[p], Answer(p))]

AskHeaders ==
    /\ at = "ask"
    /\ SendQuestion
    /\ at' = "headers"
    /\ UNCHANGED <<db, best, cached, todo, from, undo, crashes, retries,
                   history>>

\* No answer within a second.
AskAgain ==
    /\ at = "headers"
    /\ retries < MaxRetries
    /\ SendQuestion
    /\ retries' = retries + 1
    /\ UNCHANGED <<db, best, cached, worker, crashes, history>>

\* peerheaders: the first answer from anybody is taken, whichever question
\* it belongs to; without a question it is dropped.  An empty answer ends
\* the synchronisation.
ReceiveHeaders(p) ==
    /\ wire[p] # <<>>
    /\ Head(wire[p]).type = "headers"
    /\ wire' = [wire EXCEPT ![p] = Tail(@)]
    /\ IF at = "headers"
       THEN /\ todo' = Head(wire[p]).list
            /\ at' = IF todo' = <<>> THEN "rest" ELSE "check"
            /\ late' = (late \/ Head(wire[p]).asked # Processed)
       ELSE UNCHANGED <<at, todo, late>>
    /\ UNCHANGED <<db, best, cached, from, undo, crashes, retries, torn>>

\* Mutant: a new block does not start a synchronisation.
ReceiveBlockQuietly(p) ==
    /\ wire[p] # <<>>
    /\ Head(wire[p]).type = "block"
    /\ wire' = [wire EXCEPT ![p] = Tail(@)]
    /\ cached' = cached \cup {Head(Head(wire[p]).list)}
    /\ UNCHANGED <<db, best, at, todo, from, undo, crashes, retries, history>>

\* peerblock: a block that is not in the cache starts a synchronisation,
\* unless one is going on.
ReceiveBlock(p) ==
    /\ wire[p] # <<>>
    /\ Head(wire[p]).type = "block"
    /\ wire' = [wire EXCEPT ![p] = Tail(@)]
    /\ LET b == Head(Head(wire[p]).list)
       IN  /\ cached' = cached \cup {b}
           /\ at' = IF b \notin cached /\ at = "rest" THEN "ask" ELSE at
    /\ UNCHANGED <<db, best, todo, from, undo, crashes, retries, history>>

-----------------------------------------------------------------------------
(* addBlock: handleReorg                                                   *)

\* getBlock waits until the block has come, then handleReorg reads the tip.
NoReorg ==
    /\ at = "check"
    /\ Processed = {} \/ IsTip(Parent[Current])
    /\ cached' = cached \cup {Current}
    /\ at' = "block"
    /\ UNCHANGED <<db, best, wire, todo, from, undo, crashes, retries, history>>

\* From the previous block if it is stored, else from the tip.
Reorg ==
    /\ at = "check"
    /\ \E tip \in Blocks \ {Parent[Current]} :
          /\ IsTip(tip)
          /\ from' = blocks[IF Stored(Parent[Current])
                            THEN Parent[Current] ELSE tip].height
    /\ cached' = cached \cup {Current}
    /\ undo' = Deletes
    /\ at' = "undo"
    /\ UNCHANGED <<db, best, wire, todo, crashes, retries, history>>

\* Promise.all(reorgOps): three deletes in any order.
UndoOne(d) ==
    /\ at = "undo"
    /\ d \in undo
    /\ undo' = undo \ {d}
    /\ at' = IF undo' = {} THEN "unspend" ELSE "undo"
    /\ UNCHANGED <<best, wire, cached, todo, from, crashes, retries, history>>

\* Mutant: the blocks above the one at this height stay.
UndoOneBlock ==
    /\ UndoOne("blocks")
    /\ blocks' = [b \in Blocks |->
          IF Stored(b) /\ blocks[b].height = from THEN None ELSE blocks[b]]
    /\ UNCHANGED <<coins, txs>>

UndoBlocks ==
    /\ UndoOne("blocks")
    /\ blocks' = [b \in Blocks |->
          IF Stored(b) /\ blocks[b].height >= from THEN None ELSE blocks[b]]
    /\ UNCHANGED <<coins, txs>>

UndoTxs ==
    /\ UndoOne("txs")
    /\ txs' = [t \in Txs |->
          IF txs[t] # None /\ txs[t].height >= from THEN None ELSE txs[t]]
    /\ UNCHANGED <<blocks, coins>>

UndoCoins ==
    /\ UndoOne("coins")
    /\ coins' = [c \in Coins |->
          IF coins[c] # None /\ coins[c].mint >= from THEN None ELSE coins[c]]
    /\ UNCHANGED <<blocks, txs>>

\* Mutant: what the removed blocks spent stays spent.
UnspendNothing ==
    /\ at = "unspend"
    /\ at' = "ask"
    /\ todo' = <<>>
    /\ UNCHANGED <<db, best, wire, cached, from, undo, crashes, retries,
                   history>>

\* Coins spent by what was removed are unspent again; addBlock rejects and
\* sync() starts over.
Unspend ==
    /\ at = "unspend"
    /\ coins' = [c \in Coins |->
          IF coins[c] # None /\ coins[c].spent >= from
          THEN [coins[c] EXCEPT !.spent = Unspent, !.by = None]
          ELSE coins[c]]
    /\ at' = "ask"
    /\ todo' = <<>>
    /\ UNCHANGED <<blocks, txs, best, wire, cached, from, undo, crashes,
                   retries, history>>

-----------------------------------------------------------------------------
(* addBlock: processBlock                                                  *)

Step(this, next) ==
    /\ at = this
    /\ at' = next
    /\ UNCHANGED <<best, wire, cached, todo, from, undo, crashes, retries,
                   history>>

\* Mutant: the block counts as processed from the start.
WriteBlockProcessed ==
    /\ Step("block", "link")
    /\ blocks' = [blocks EXCEPT ![Current] =
          [height |-> NewHeight(Current), processed |-> TRUE, next |-> None]]
    /\ UNCHANGED <<coins, txs>>

\* bulkWrite([blockOp]): an upsert by hash that also resets nextBlockHash.
WriteBlock ==
    /\ Step("block", "link")
    /\ blocks' = [blocks EXCEPT ![Current] =
          [height |-> NewHeight(Current), processed |-> FALSE, next |-> None]]
    /\ UNCHANGED <<coins, txs>>

LinkPrevious ==
    /\ Step("link", "mint")
    /\ blocks' = IF Stored(Parent[Current])
                 THEN [blocks EXCEPT ![Parent[Current]].next = Current]
                 ELSE blocks
    /\ UNCHANGED <<coins, txs>>

BlockHeight == blocks[Current].height

Minted(b) == UNION {Mints[t] : t \in TxsIn[b]}

\* streamMintOps: an upsert; spentHeight is only set on insert.
MintCoins ==
    /\ Step("mint", "spend")
    /\ coins' = [c \in Coins |->
          IF c \notin Minted(Current) THEN coins[c]
          ELSE IF coins[c] = None
          THEN [mint |-> BlockHeight, spent |-> Unspent, by |-> None]
          ELSE [coins[c] EXCEPT !.mint = BlockHeight]]
    /\ UNCHANGED <<blocks, txs>>

Spender(c) == CHOOSE t \in TxsIn[Current] : c \in Spends[t]

\* streamSpendOps: only coins with spentHeight < 0 are updated.
SpendCoins ==
    /\ Step("spend", "txs")
    /\ coins' = [c \in Coins |->
          IF /\ \E t \in TxsIn[Current] : c \in Spends[t]
             /\ coins[c] # None
             /\ coins[c].spent < 0
          THEN [coins[c] EXCEPT !.spent = BlockHeight, !.by = Spender(c)]
          ELSE coins[c]]
    /\ UNCHANGED <<blocks, txs>>

\* streamTxOps
StoreTxs ==
    /\ Step("txs", "mark")
    /\ txs' = [t \in Txs |->
          IF t \in TxsIn[Current]
          THEN [height |-> BlockHeight, block |-> Current] ELSE txs[t]]
    /\ UNCHANGED <<blocks, coins>>

\* The block is complete; on to the next header, or for more headers.
MarkProcessed ==
    /\ at = "mark"
    /\ blocks' = [blocks EXCEPT ![Current].processed = TRUE]
    /\ todo' = Tail(todo)
    /\ at' = IF todo' = <<>> THEN "ask" ELSE "check"
    /\ UNCHANGED <<coins, txs, best, wire, cached, from, undo, crashes,
                   retries, history>>

-----------------------------------------------------------------------------
(* Failures                                                                *)

\* A rollback is interrupted when some of its four writes are still missing.
Interrupted ==
    /\ crashes < MaxCrashes
    /\ crashes' = crashes + 1
    /\ torn' = (torn \/ at \in {"undo", "unspend"})

\* The process dies: the connections and the cache are gone.
Crash ==
    /\ at # "off"
    /\ Interrupted
    /\ at' = "off"
    /\ todo' = <<>>
    /\ undo' = {}
    /\ wire' = [p \in Peers |-> <<>>]
    /\ cached' = {}
    /\ UNCHANGED <<db, best, from, retries, late>>

\* A read or write of addBlock rejects; sync() catches it and starts over.
\* Of the parallel deletes, those that have not been made fail together.  An
\* error of a stream of batchImport is not caught and ends the process.
StepFails ==
    /\ at \in {"check", "undo", "unspend", "block", "link", "mark"}
    /\ Interrupted
    /\ at' = "ask"
    /\ todo' = <<>>
    /\ undo' = {}
    /\ UNCHANGED <<db, best, wire, cached, from, retries, late>>

-----------------------------------------------------------------------------

Work ==
    \/ AskHeaders
    \/ \E p \in Peers : ReceiveHeaders(p) \/ ReceiveBlock(p)
    \/ NoReorg
    \/ Reorg
    \/ UndoBlocks
    \/ UndoTxs
    \/ UndoCoins
    \/ Unspend
    \/ WriteBlock
    \/ LinkPrevious
    \/ MintCoins
    \/ SpendCoins
    \/ StoreTxs
    \/ MarkProcessed

Next ==
    \/ Start
    \/ Work
    \/ AskAgain
    \/ Crash
    \/ StepFails
    \/ \E p \in Peers, b \in Blocks : PeerAdvances(p, b)

Spec == Init /\ [][Next]_vars

\* The process is restarted, the database answers and peers deliver.
FairSpec == Spec /\ WF_vars(Start) /\ WF_vars(Work)

-----------------------------------------------------------------------------
(* Properties                                                              *)

TypeOK ==
    /\ blocks \in [Blocks -> {None} \cup BlockDocs]
    /\ coins \in [Coins -> {None} \cup CoinDocs]
    /\ txs \in [Txs -> {None} \cup TxDocs]
    /\ best \in [Peers -> Blocks]
    /\ wire \in [Peers -> Seq([type : {"headers", "block"},
                              asked : SUBSET Blocks, list : Seq(Blocks)])]
    /\ cached \subseteq Blocks
    /\ at \in Stages
    /\ todo \in Seq(Blocks)
    /\ from \in Nat
    /\ undo \subseteq Deletes
    /\ crashes \in 0 .. MaxCrashes
    /\ retries \in 0 .. MaxRetries
    /\ late \in BOOLEAN
    /\ torn \in BOOLEAN

\* The processed blocks are one chain: every one has its true height and its
\* parent below it, no two have the same height, and nextBlockHash leads up
\* the chain.  No reorganisation, crash or failed write breaks this, wherever
\* it stops the worker; only an answer to an earlier question does.
ProcessedChain ==
    late \/
    \A b \in Processed :
        /\ blocks[b].height = Height[b]
        /\ Parent[b] # Genesis =>
              /\ Parent[b] \in Processed
              /\ blocks[Parent[b]].next = b
        /\ \A a \in Processed : Height[a] = Height[b] => a = b

\* What a coin and a transaction must look like when the processed blocks are
\* all that ever happened.
CoinOf(c) ==
    IF \A b \in Processed : c \notin Minted(b) THEN None
    ELSE LET m == CHOOSE b \in Processed : c \in Minted(b)
             spenders == {t \in UNION {TxsIn[b] : b \in Processed} :
                              c \in Spends[t]}
         IN  IF spenders = {}
             THEN [mint |-> Height[m], spent |-> Unspent, by |-> None]
             ELSE LET t == CHOOSE u \in spenders : TRUE
                      s == CHOOSE b \in Processed : t \in TxsIn[b]
                  IN  [mint |-> Height[m], spent |-> Height[s], by |-> t]

TxDocOf(t) ==
    IF \A b \in Processed : t \notin TxsIn[b] THEN None
    ELSE LET b == CHOOSE a \in Processed : t \in TxsIn[a]
         IN  [height |-> Height[b], block |-> b]

\* A block whose import stopped half-way and that no later import completed.
LeftBehind == \E b \in Blocks : Stored(b) /\ ~blocks[b].processed

\* After a synchronisation the coins and the transactions are exactly those
\* of the processed chain: nothing of a block that was rolled back is left,
\* and nothing of a block that stayed or came back is missing.  A crash may
\* have left any part of a block behind, as long as the chain comes back to
\* that block or below it.
StoreMatchesChain ==
    at = "rest" /\ ~late /\ ~torn /\ ~LeftBehind =>
        /\ \A c \in Coins : coins[c] = CoinOf(c)
        /\ \A t \in Txs : txs[t] = TxDocOf(t)

\* The processed blocks only grow at the tip or are cut back to a shorter
\* chain, until the worker takes a late answer.
Store == INSTANCE ChainStore WITH chain <- Processed, trusted <- ~late

IsChainStore == Store!Spec

\* A chain of a single block is excepted: getLocatorHashes asks for
\* everything as long as there are fewer than two blocks, so the worker
\* removes and adds that block for ever.
InStep(p) == Height[best[p]] >= 2 => IsTip(best[p])

\* When a peer has found its last block, the worker ends up with the same
\* tip, whatever reorganisations, crashes and failures came before.
CatchesUp == \A p \in Peers : <>[](late \/ InStep(p))

=============================================================================
