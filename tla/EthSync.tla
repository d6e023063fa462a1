------------------------------ MODULE EthSync -------------------------------
(***************************************************************************)
(* The worker that follows an account-based chain: modules/ethereum and    *)
(* modules/ducatusx (p2p/p2p.ts, models/block.ts, models/transaction.ts),  *)
(* which are the same code.                                                *)
(*                                                                         *)
(* It asks one node for blocks by height, from its own tip on, and is      *)
(* woken by the node's block headers.  A rollback deletes the parent of    *)
(* the new block together with everything above it; what is missing is     *)
(* found by comparing neighbours among the stored blocks, and the          *)
(* synchronisation starts again from the tip.  Meanwhile the node's        *)
(* pending transactions are stored as they are announced.                  *)
(*                                                                         *)
(* An action is one write of the database or one answer of the node, with  *)
(* the reads of the worker's own data before it: there is no election, and *)
(* the worker is taken to be alone.                                        *)
(***************************************************************************)
EXTENDS Integers

CONSTANTS
    Blocks,
    Genesis,      \* the block at height 0
    Parent,       \* Parent[b], None for the first block
    Height,
    Weight,       \* total difficulty: the node follows the heaviest branch
    Txs,
    TxsIn,        \* TxsIn[b]: the transactions of block b
    Slot,         \* Slot[t]: the sender of t and its nonce
    Base,         \* the block up to which the chain is stored at first
    MaxEvents,    \* bound: announcements, crashes, and errors of the node or
                  \* the database
    None

ASSUME TreeAssumption ==
    /\ {Genesis, Base} \subseteq Blocks /\ None \notin Blocks
    /\ Parent \in [Blocks -> Blocks \cup {None}]
    /\ Height \in [Blocks -> Nat] /\ Weight \in [Blocks -> Nat]
    /\ TxsIn \in [Blocks -> SUBSET Txs]
    /\ DOMAIN Slot = Txs
    /\ Parent[Genesis] = None /\ Height[Genesis] = 0
    /\ \A b \in Blocks \ {Genesis} :
          /\ Parent[b] \in Blocks
          /\ Height[b] = Height[Parent[b]] + 1
          /\ Weight[b] > Weight[Parent[b]]
    /\ MaxEvents \in Nat

VARIABLES
    head,      \* the node's best block
    header,    \* a header of the node is on its way to the worker
    blocks,    \* blocks[b]: the document of block b, or None
    txs,       \* txs[t]: None, Pending, Conflicting or the block it is in
    complete,  \* state.initialSyncComplete has this chain
    sync,      \* sync(): where it is and what it remembers
    relay,     \* relay[t]: the import of an announced transaction
    inv,       \* invCache
    sent,      \* pruneMempool: the transactions whose update nobody waits for is
               \* on its way; two for the same one count as one
    events,
    astray,    \* history: a rollback reached the first block, or took a block
               \* that a failure had left unprocessed for one to build on
    torn,      \* history: a rollback stopped between its two deletes
    early,     \* history: transactions stored as mined on the node's word,
               \* before their block
    missed,    \* history: a header came after the last question for the height
    raced,     \* history: transactions stored as pending after the update for a
               \* mined rival, or mined before the initial synchronisation ended
    lost       \* history: transactions whose last update was lost

db == <<blocks, txs, complete>>
node == <<head, header>>
mempool == <<relay, inv, sent>>
history == <<astray, torn, early, missed, raced, lost>>
vars == <<node, db, sync, mempool, events, history>>

Pending == "pending"
Conflicting == "conflicting"

ASSUME NameAssumption ==
    /\ {Pending, Conflicting, "none", "told"} \cap (Blocks \cup {None}) = {}
    /\ \A p \in BOOLEAN, n \in Blocks \cup {None} :
          [processed |-> p, next |-> n] # None

Stages == {"begin", "idle", "fetch", "locate", "check", "undo",
           "write", "link", "import", "mark", "next"}

Resting(stage) ==
    [stage |-> stage, at |-> 0, best |-> 0, block |-> None, pruning |-> FALSE,
     from |-> 0, marks |-> {}, then |-> "begin"]

Stored(b) == b # None /\ blocks[b] # None
Processed == {b \in Blocks : Stored(b) /\ blocks[b].processed}

Highest(S) == CHOOSE b \in S : \A a \in S : Height[a] <= Height[b]
Lowest(S) == CHOOSE b \in S : \A a \in S : Height[b] <= Height[a]

\* getLocalTip
Tip == LET P == Processed IN IF P = {} THEN None ELSE Highest(P)

\* The chain that ends with b: the least set with b and every block's parent.
Line ==
    [b \in Blocks \cup {None} |->
        {a \in Blocks : \A S \in SUBSET Blocks :
            /\ b \in S \cup {None}
            /\ \A c \in S : Parent[c] \in S \cup {None}
            => a \in S}]

NodeTxs == UNION {TxsIn[b] : b \in Line[head]}

Rivals(t) == {s \in Txs \ {t} : Slot[s] = Slot[t]}

\* What the nodes agree on: on one chain a nonce is used once.
ASSUME NonceAssumption ==
    \A b \in Blocks : \A a, c \in Line[b] :
        \A s \in TxsIn[a], t \in TxsIn[c] :
            Slot[s] = Slot[t] => s = t /\ a = c

Above(b) == IF b = Base THEN None ELSE CHOOSE a \in Line[Base] : Parent[a] = b

\* The worker starts with a chain it has stored before, in an initial
\* synchronisation that was finished or not.
Init ==
    /\ head = Base
    /\ header = FALSE
    /\ blocks = [b \in Blocks |->
                    IF b \notin Line[Base] THEN None
                    ELSE [processed |-> TRUE, next |-> Above(b)]]
    /\ txs = [t \in Txs |->
                 IF \E b \in Line[Base] : t \in TxsIn[b]
                 THEN CHOOSE b \in Line[Base] : t \in TxsIn[b] ELSE None]
    /\ complete \in BOOLEAN
    /\ sync = Resting("begin")
    /\ relay = [t \in Txs |-> "none"]
    /\ inv = {}
    /\ sent = {}
    /\ events = 0
    /\ astray = FALSE
    /\ torn = FALSE
    /\ early = {}
    /\ missed = FALSE
    /\ raced = {}
    /\ lost = {}

-----------------------------------------------------------------------------
(* The node                                                                *)

\* newBlockHeaders
NodeAdvances(b) ==
    /\ Weight[b] > Weight[head]
    /\ head' = b
    /\ header' = TRUE
    /\ UNCHANGED <<db, sync, mempool, events, history>>

\* A header starts sync() unless it is running.
HearHeader ==
    /\ header
    /\ header' = FALSE
    /\ sync' = IF sync.stage = "idle" THEN Resting("begin") ELSE sync
    /\ missed' = (sync.stage # "idle")
    /\ UNCHANGED <<head, db, mempool, events, astray, torn, early, raced, lost>>

-----------------------------------------------------------------------------
(* sync                                                                    *)

Goto(stage) == sync' = [sync EXCEPT !.stage = stage]

\* Mutant: it goes on above the tip.
BeginAbove ==
    /\ sync.stage = "begin"
    /\ sync' = [Resting("fetch") EXCEPT
                   !.at = IF Tip = None THEN 0 ELSE Height[Tip] + 1,
                   !.best = Height[head],
                   !.pruning = complete]
    /\ missed' = FALSE
    /\ UNCHANGED <<node, db, mempool, events, astray, torn, early, raced, lost>>

\* It goes on from the tip, which it imports once more.
Begin ==
    /\ sync.stage = "begin"
    /\ sync' = [Resting("fetch") EXCEPT
                   !.at = IF Tip = None THEN 0 ELSE Height[Tip],
                   !.best = Height[head],
                   !.pruning = complete]
    /\ missed' = FALSE
    /\ UNCHANGED <<node, db, mempool, events, astray, torn, early, raced, lost>>

\* SYNCDONE
End ==
    /\ sync.stage = "fetch"
    /\ sync.at > sync.best
    /\ sync' = Resting("idle")
    /\ complete' = TRUE
    /\ UNCHANGED <<node, blocks, txs, mempool, events, history>>

\* getBlock asks for a height and waits as long as the node has none.
GetBlock ==
    /\ sync.stage = "fetch"
    /\ sync.at <= sync.best
    /\ \E b \in Line[head] :
          /\ Height[b] = sync.at
          /\ sync' = [sync EXCEPT !.stage = "locate", !.block = b]
    /\ UNCHANGED <<node, db, mempool, events, history>>

\* Nothing is left to roll back to.
Bottomed(b) == Tip \in {None, Genesis} \ {Parent[b], b}

\* handleReorg of a block: what is deleted, if anything, and whether addBlock
\* is to be given up.  The parent is deleted too, and then nothing given up.
Reorg(b, onward) ==
    LET base == IF Stored(Parent[b]) THEN Parent[b] ELSE Tip
    IN  IF Tip = None \/ Tip \in {Parent[b], b} \/ Tip = Genesis
        THEN Goto(onward) /\ astray' = (astray \/ Bottomed(b))
        ELSE /\ sync' = [sync EXCEPT
                    !.stage = "undo",
                    !.from = Height[base],
                    !.marks = {"blocks", "txs"},
                    !.then = IF base = Parent[b] THEN onward ELSE "begin"]
             /\ astray' = (astray \/ base = Genesis \/ base \notin Processed)

\* validateLocatorHashes: the processed blocks which their neighbours do not
\* know, by either link.
Joined(a, b) == blocks[a].next = b /\ Parent[b] = a

Mismatched ==
    LET Unjoined(b) ==
            LET below == {a \in Processed : Height[a] < Height[b]}
                under == Highest(below)
            IN  IF below = {} \/ Joined(under, b) THEN {} ELSE {under, b}
    IN  UNION {Unjoined(b) : b \in Processed}

ValidateLocators ==
    /\ sync.stage = "locate"
    /\ IF Mismatched = {} THEN Goto("check") /\ UNCHANGED astray
       ELSE Reorg(Lowest(Mismatched), "check")
    /\ UNCHANGED <<node, db, mempool, events, torn, early, missed, raced, lost>>

CheckReorg ==
    /\ sync.stage = "check"
    /\ Reorg(sync.block, "write")
    /\ UNCHANGED <<node, db, mempool, events, torn, early, missed, raced, lost>>

\* Mutant: the transactions of the lowest height stay.
UndoAbove(m) ==
    /\ sync.stage = "undo" /\ m \in sync.marks
    /\ blocks' = [b \in Blocks |->
           IF m = "blocks" /\ Height[b] >= sync.from THEN None ELSE blocks[b]]
    /\ txs' = [t \in Txs |->
           IF m = "txs" /\ txs[t] \in Blocks /\ Height[txs[t]] > sync.from
           THEN None ELSE txs[t]]
    /\ sync' = [sync EXCEPT !.marks = @ \ {m},
                            !.stage = IF sync.marks = {m} THEN sync.then ELSE @]
    /\ UNCHANGED <<node, complete, mempool, events, history>>

\* The parallel deletes.
Undo(m) ==
    /\ sync.stage = "undo" /\ m \in sync.marks
    /\ blocks' = [b \in Blocks |->
           IF m = "blocks" /\ Height[b] >= sync.from THEN None ELSE blocks[b]]
    /\ txs' = [t \in Txs |->
           IF m = "txs" /\ txs[t] \in Blocks /\ Height[txs[t]] >= sync.from
           THEN None ELSE txs[t]]
    /\ sync' = [sync EXCEPT !.marks = @ \ {m},
                            !.stage = IF sync.marks = {m} THEN sync.then ELSE @]
    /\ UNCHANGED <<node, complete, mempool, events, history>>

\* getBlockOp
NewBlock == [processed |-> FALSE, next |-> None]

\* processBlock: the upsert of the block, also of one that is stored.
WriteBlock ==
    /\ sync.stage = "write"
    /\ blocks' = [blocks EXCEPT ![sync.block] = NewBlock]
    /\ Goto("link")
    /\ UNCHANGED <<node, txs, complete, mempool, events, history>>

LinkPrevious ==
    LET p == Parent[sync.block]
    IN  /\ sync.stage = "link"
        /\ blocks' = IF Stored(p) THEN [blocks EXCEPT ![p].next = sync.block]
                     ELSE blocks
        /\ sync' = [sync EXCEPT !.stage = "import", !.marks = {"prune", "write"}]
        /\ UNCHANGED <<node, txs, complete, mempool, events, history>>

\* batchImport of a block: pruneMempool, which the initial synchronisation
\* leaves out, beside the upserts.  The updates of pruneMempool are not
\* acknowledged (w: 0): they are sent, and the import goes on.
Import(m) ==
    LET T == TxsIn[sync.block]
        left == sync.marks \ {m}
        pruned == IF m = "prune" /\ sync.pruning THEN T ELSE {}
    IN  /\ sync.stage = "import"
        /\ m \in sync.marks
        /\ txs' = IF m = "write"
                  THEN [t \in Txs |-> IF t \in T THEN sync.block ELSE txs[t]]
                  ELSE txs
        /\ sync' = [sync EXCEPT !.marks = left,
                                !.stage = IF left = {} THEN "mark" ELSE @]
        /\ sent' = sent \cup pruned
        /\ lost' = lost \ pruned
        /\ early' = IF m = "write" THEN early \ T ELSE early
        /\ raced' = IF m = "prune" /\ ~sync.pruning THEN raced \cup T ELSE raced
        /\ UNCHANGED <<node, blocks, complete, relay, inv, events>>
        /\ UNCHANGED <<astray, torn, missed>>

MarkProcessed ==
    /\ sync.stage = "mark"
    /\ blocks' = [blocks EXCEPT ![sync.block].processed = TRUE]
    /\ Goto("next")
    /\ UNCHANGED <<node, txs, complete, mempool, events, history>>

\* Mutant: it goes on with the tip.
NextSame ==
    /\ sync.stage = "next"
    /\ sync' = [sync EXCEPT
                   !.stage = "fetch",
                   !.at = IF Tip = None THEN 0 ELSE Height[Tip],
                   !.best = IF sync.at = @ THEN Height[head] ELSE @]
    /\ UNCHANGED <<node, db, mempool, events, history>>

\* The node is asked for its height again when the last block has been stored.
NextHeight ==
    /\ sync.stage = "next"
    /\ sync' = [sync EXCEPT
                   !.stage = "fetch",
                   !.at = IF Tip = None THEN 0 ELSE Height[Tip] + 1,
                   !.best = IF sync.at = @ THEN Height[head] ELSE @]
    /\ missed' = (missed /\ ~(sync.at = sync.best /\ Height[head] > sync.best))
    /\ UNCHANGED <<node, db, mempool, events, astray, torn, early, raced, lost>>

-----------------------------------------------------------------------------
(* Pending transactions                                                    *)

\* The node announces what it could mine.
Announce(t) ==
    /\ t \notin inv
    /\ events < MaxEvents
    /\ events' = events + 1
    /\ ({t} \cup Rivals(t)) \cap NodeTxs = {}
    /\ inv' = inv \cup {t}
    /\ relay' = [relay EXCEPT ![t] = "told"]
    /\ UNCHANGED <<node, db, sync, sent, history>>

\* getTransaction, for one that may have been mined or dropped since; the
\* update of pruneMempool is sent at once.
GetTransaction(t) ==
    LET mined == {b \in Line[head] : t \in TxsIn[b]}
    IN  /\ relay[t] = "told"
        /\ IF mined = {} /\ Rivals(t) \cap NodeTxs # {}
           THEN /\ relay' = [relay EXCEPT ![t] = "none"]
                /\ UNCHANGED <<sent, lost>>
           ELSE /\ \E w \in IF mined = {} THEN {Pending} ELSE mined :
                      relay' = [relay EXCEPT ![t] = w]
                /\ sent' = sent \cup {t}
                /\ lost' = lost \ {t}
        /\ UNCHANGED <<node, db, sync, inv, events>>
        /\ UNCHANGED <<astray, torn, early, missed, raced>>

\* Mutant: the update selects the transaction itself instead of the others.
PrunedSelf(T) ==
    [t \in Txs |-> IF txs[t] = Pending /\ t \in T THEN Conflicting ELSE txs[t]]

\* What else spends the nonces of T conflicts with it.
Pruned(T) ==
    [t \in Txs |-> IF txs[t] = Pending /\ Rivals(t) \cap T # {}
                   THEN Conflicting ELSE txs[t]]

\* The database applies an update of pruneMempool.
Prune(t) ==
    /\ t \in sent
    /\ sent' = sent \ {t}
    /\ txs' = Pruned({t})
    /\ UNCHANGED <<node, blocks, complete, sync, relay, inv, events, history>>

\* The running import will not look for rivals of s again.
BeingMined(s) ==
    /\ sync.stage = "import" /\ "prune" \notin sync.marks
    /\ s \in TxsIn[sync.block]

\* toMempoolSafeUpsert leaves alone what is stored.  The height is the one the
\* node has told.
InsertTx(t) ==
    /\ relay[t] \in Blocks \cup {Pending}
    /\ relay' = [relay EXCEPT ![t] = "none"]
    /\ IF txs[t] # None THEN UNCHANGED <<txs, early, raced>>
       ELSE /\ txs' = [txs EXCEPT ![t] = relay[t]]
            /\ early' = IF relay[t] \in Blocks THEN early \cup {t} ELSE early
            /\ raced' = IF \E s \in Rivals(t) \ sent :
                                  txs[s] \in Blocks \/ BeingMined(s)
                        THEN raced \cup {t} ELSE raced
    /\ UNCHANGED <<node, blocks, complete, sync, inv, sent, events>>
    /\ UNCHANGED <<astray, torn, missed, lost>>

-----------------------------------------------------------------------------
(* Failures                                                                *)

Tearing == sync.stage = "undo" /\ sync.marks # {"blocks", "txs"}

\* An error of the node or of the database: sync() starts again.
SyncFails ==
    /\ sync.stage \notin {"begin", "idle"}
    /\ events < MaxEvents
    /\ events' = events + 1
    /\ sync' = Resting("begin")
    /\ torn' = (torn \/ Tearing)
    /\ UNCHANGED <<node, db, mempool, astray, early, missed, raced, lost>>

\* An update that was not acknowledged fails, and nobody sees it.
PruneLost(t) ==
    /\ t \in sent
    /\ sent' = sent \ {t}
    /\ lost' = lost \cup {t}
    /\ UNCHANGED <<node, db, sync, relay, inv, events, astray, torn, early, missed, raced>>

\* start() begins with sync().  Of what has been sent some may be lost.
Crash ==
    /\ events < MaxEvents
    /\ events' = events + 1
    /\ sync' = Resting("begin")
    /\ header' = FALSE
    /\ relay' = [t \in Txs |-> "none"]
    /\ inv' = {}
    /\ \E L \in SUBSET sent : sent' = sent \ L /\ lost' = lost \cup L
    /\ torn' = (torn \/ Tearing)
    /\ UNCHANGED <<head, db, astray, early, missed, raced>>

-----------------------------------------------------------------------------

Sync ==
    \/ Begin \/ End \/ GetBlock \/ ValidateLocators \/ CheckReorg
    \/ \E m \in {"blocks", "txs"} : Undo(m)
    \/ WriteBlock \/ LinkPrevious
    \/ \E m \in {"prune", "write"} : Import(m)
    \/ MarkProcessed \/ NextHeight

Next ==
    \/ \E b \in Blocks : NodeAdvances(b)
    \/ HearHeader
    \/ Sync
    \/ \E t \in Txs : \/ Announce(t) \/ GetTransaction(t) \/ InsertTx(t)
                     \/ Prune(t) \/ PruneLost(t)
    \/ SyncFails
    \/ Crash

Spec == Init /\ [][Next]_vars

\* The worker goes on as long as the node and the database answer.
FairSpec == Spec /\ WF_vars(Sync)

-----------------------------------------------------------------------------
(* Properties                                                              *)

TypeOK ==
    /\ head \in Blocks
    /\ header \in BOOLEAN
    /\ blocks \in [Blocks -> {None} \cup [processed : BOOLEAN,
                                           next : Blocks \cup {None}]]
    /\ txs \in [Txs -> Blocks \cup {None, Pending, Conflicting}]
    /\ complete \in BOOLEAN
    /\ sync.stage \in Stages
    /\ sync.block \in Blocks \cup {None}
    /\ relay \in [Txs -> Blocks \cup {Pending, "none", "told"}]
    /\ inv \subseteq Txs /\ sent \subseteq Txs
    /\ events \in 0 .. MaxEvents
    /\ {astray, torn, missed} \subseteq BOOLEAN
    /\ early \subseteq Txs /\ raced \subseteq Txs /\ lost \subseteq Txs

AtRest == sync.stage = "idle" /\ ~header

\* At rest the processed blocks are one chain and end at the node's best block,
\* whatever the node has reorganised, and whatever has failed, meanwhile.  But
\* for: the parent of a block that replaced another one of its height, which
\* the next block brings back; a rollback that went astray; a header that was
\* ignored because the synchronisation was about to end; and a best block below
\* the worker's, which it does not look at.
FollowsNode ==
    AtRest =>
        /\ astray \/ Processed \in {Line[Tip], Line[Tip] \ {Parent[Tip]}}
        /\ missed \/ head \in Processed \/ Height[head] < Height[Tip]

\* At rest the transactions of a processed block are stored as mined in it, and
\* what is stored as mined is in a stored block: unless only one of the two
\* deletes of a rollback was done, a rollback went astray, or the node had told
\* the block before it was imported.
TxsFollowBlocks ==
    AtRest /\ ~torn =>
        /\ astray \/ \A b \in Processed : \A t \in TxsIn[b] : txs[t] = b
        /\ \A t \in Txs \ early : txs[t] \in Blocks => Stored(txs[t])

\* No update of pruneMempool for t was applied: t was imported in the initial
\* synchronisation, or the update is under way, or it was lost.
Unpruned(t) == t \in raced \cup sent \cup lost

\* A nonce is used once: when a transaction t is mined in a processed block, each
\* other transaction r with its sender and nonce is gone or conflicting at rest.
\* The exceptions: t was imported during the initial synchronisation, which does
\* not prune, its update is still under way, or the last one was lost, which
\* nobody sees; r was stored after the update for t had been applied; r is stored
\* as mined in a block that is not processed, because the node told so before
\* that block was imported, or because the import of that block was broken off
\* and another block took its place; and rollbacks that stopped half-way or went
\* astray.
NonceOnce ==
    AtRest /\ ~torn /\ ~astray =>
        \A b \in Processed : \A t \in TxsIn[b] : Unpruned(t) \/
            \A r \in Rivals(t) \ raced :
                \/ txs[r] \in {None, Conflicting}
                \/ /\ txs[r] \in Blocks \ Processed
                   /\ r \in early \/ Stored(txs[r])

\* It is asked for a block that the node had and has no more.
Awaiting == sync.stage = "fetch" /\ Height[head] < sync.at /\ sync.at <= sync.best

\* Every synchronisation ends: the rollbacks and the attempts that follow one
\* another do not go round in circles.  But for a node that has changed to a
\* shorter branch, which the worker waits for to grow.
SyncEnds == []<>(sync.stage = "idle" \/ Awaiting)

=============================================================================
