---------------------------- MODULE TxProposals ----------------------------
(***************************************************************************)
(* The life of the transaction proposals of one complete m-of-n wallet in  *)
(* the wallet service (server.ts, model/txproposal.ts, storage.ts).        *)
(*                                                                         *)
(* Every API call is a request: it reads documents, waits for MongoDB or   *)
(* for the blockchain explorer, and writes a whole document back.  Only    *)
(* createTx, publishTx and removePendingTx hold the wallet's lock          *)
(* (_runLocked); signTx, rejectTx, broadcastTx and getPendingTxs do not,   *)
(* so their writes may land on a document that has changed meanwhile.      *)
(*                                                                         *)
(* An action runs from one wait of the code to the next.  A proposal's raw *)
(* transaction is identified by the copayers whose signatures it carries:  *)
(* the id of a P2SH transaction covers its signatures.                     *)
(***************************************************************************)
EXTENDS Naturals, FiniteSets, SequencesExt

CONSTANTS
    Copayers,           \* the wallet's copayers, all of them joined
    RequiredSignatures, \* wallet.m
    Proposals,          \* proposal ids
    Utxos,              \* outputs paid to the wallet, dust left out
    Requests,           \* requests the service handles at the same time
    Free, Orphan,       \* the lock: nobody's, or left behind by a crash
    None                \* findOne found nothing, or nobody asks

ASSUME WalletAssumption ==
    /\ IsFiniteSet(Copayers)
    /\ RequiredSignatures \in 1 .. Cardinality(Copayers)

ASSUME LockValuesAssumption ==
    /\ Free # Orphan
    /\ Free \notin Requests
    /\ Orphan \notin Requests

VARIABLES
    stored,     \* stored[t]: the document fetchTx finds for proposal t
    twins,      \* twins[t]: further documents with the same id, behind it
    aged,       \* proposals older than DELETE_LOCKTIME
    lock,       \* the wallet's document in the locks collection
    clearing,   \* calls of clearExpiredLock have found the lock expired and
                \* are still to delete it, however many
    net,        \* transactions the coin's network has accepted
    seen,       \* those of them the explorer has indexed
    past,       \* broadcast documents that fetchBroadcastedTxs leaves out
    req,        \* req[r]: what request r has read, and where it waits
    overwritten, \* history: some storeTx replaced a document that was no
                \* longer the one its request had read
    robbed      \* history: a late delete has taken the lock from a request
                \* that held it

late == <<clearing, robbed>>

vars == <<stored, twins, aged, lock, net, seen, past, req, overwritten, late>>

-----------------------------------------------------------------------------
(* Documents                                                               *)

\* Mutant: one rejection too many.
RequiredRejectionsOneMore ==
    LET others == Cardinality(Copayers) - RequiredSignatures + 2
    IN  IF RequiredSignatures < others THEN RequiredSignatures ELSE others

\* txproposal.ts create: requiredRejections = min(m, n - m + 1)
RequiredRejections ==
    LET others == Cardinality(Copayers) - RequiredSignatures + 1
    IN  IF RequiredSignatures < others THEN RequiredSignatures ELSE others

Statuses == {"temporary", "pending", "accepted", "rejected", "broadcasted"}

Action == [copayer : Copayers, type : {"accept", "reject"}]

Doc == [id : Proposals, creator : Copayers, status : Statuses,
        actions : Seq(Action), inputs : SUBSET Utxos,
        signers : SUBSET Copayers]

ASSUME NoneAssumption == None \notin Doc

Tx == [id : Proposals, signers : SUBSET Copayers, inputs : SUBSET Utxos]

\* The entries of actions that _.countBy(actions, 'type') counts for a type.
Votes(doc, type) == {i \in DOMAIN doc.actions : doc.actions[i].type = type}

HasVoted(doc, c) == \E i \in DOMAIN doc.actions : doc.actions[i].copayer = c

Approvers(doc) == {doc.actions[i].copayer : i \in Votes(doc, "accept")}

IsPending(doc) == doc.status \notin {"temporary", "broadcasted", "rejected"}

IsAccepted(doc) == Cardinality(Votes(doc, "accept")) >= RequiredSignatures

IsRejected(doc) == Cardinality(Votes(doc, "reject")) >= RequiredRejections

NewDoc(t, c, chosen) ==
    [id |-> t, creator |-> c, status |-> "temporary", actions |-> <<>>,
     inputs |-> chosen, signers |-> {}]

\* _updateStatus: a rejection quorum is looked for first.
UpdateStatus(doc) ==
    CASE doc.status = "pending" /\ IsRejected(doc) ->
            [doc EXCEPT !.status = "rejected"]
      [] doc.status = "pending" /\ ~IsRejected(doc) /\ IsAccepted(doc) ->
            [doc EXCEPT !.status = "accepted"]
      [] OTHER -> doc

Voted(doc, c, type) ==
    [doc EXCEPT !.actions = Append(@, [copayer |-> c, type |-> type])]

\* addAction
WithAction(doc, c, type) == UpdateStatus(Voted(doc, c, type))

\* sign: the action, then raw and txid once the proposal is accepted.
Signed(doc, c) ==
    LET voted == WithAction(doc, c, "accept")
    IN  IF voted.status = "accepted"
        THEN [voted EXCEPT !.signers = Approvers(voted)]
        ELSE voted

Broadcasted(doc) == [doc EXCEPT !.status = "broadcasted"]

TxOf(doc) == [id |-> doc.id, signers |-> doc.signers, inputs |-> doc.inputs]

Exists(t) == stored[t] # None

\* All documents of the collection, in the two states queries ask for.
AllDocs == {stored[t] : t \in {u \in Proposals : Exists(u)}}
              \cup UNION {twins[t] : t \in Proposals}
PendingDocs == {d \in AllDocs : IsPending(d)}
BroadcastedDocs == {d \in AllDocs : d.status = "broadcasted"}

InputsOf(docs) == UNION {d.inputs : d \in docs}

-----------------------------------------------------------------------------
(* Requests                                                                *)

Ops == {"none", "create", "publish", "sign", "reject", "broadcast",
        "remove", "list"}
LockedOps == {"create", "publish", "remove"}
Waits == {"idle", "utxos", "pending", "settle", "store", "send", "check",
          "delete"}

\* by: the copayer whose vote a request casts, None in the other requests;
\* list: what getPendingTxs will answer; todo: its accepted proposals whose
\* transaction has still to be looked up.
Request ==
    [at : Waits, op : Ops, by : Copayers \cup {None}, doc : Doc \cup {None},
     utxos : SUBSET Utxos, list : SUBSET Doc, todo : SUBSET Doc]

Waiting(at, op, c, doc) ==
    [at |-> at, op |-> op, by |-> c, doc |-> doc,
     utxos |-> {}, list |-> {}, todo |-> {}]

Idle == Waiting("idle", "none", None, None)

Begin(r, op, c, doc, at) ==
    /\ req[r].at = "idle"
    /\ req' = [req EXCEPT ![r] = Waiting(at, op, c, doc)]

\* runLocked answers and then releases: by key, whoever the owner is.
Finish(r) ==
    /\ req' = [req EXCEPT ![r] = Idle]
    /\ lock' = IF req[r].op \in LockedOps THEN Free ELSE lock

\* storeTx: replaceOne(id, walletId) with upsert.  read is the document the
\* request started from.
Store(t, doc, read) ==
    /\ stored' = [stored EXCEPT ![t] = doc]
    /\ past' = past \ {doc}
    /\ overwritten' = (overwritten \/ stored[t] # read)

Init ==
    /\ stored = [t \in Proposals |-> None]
    /\ twins = [t \in Proposals |-> {}]
    /\ aged = {}
    /\ lock = Free
    /\ clearing = FALSE
    /\ net = {}
    /\ seen = {}
    /\ past = {}
    /\ req = [r \in Requests |-> Idle]
    /\ overwritten = FALSE
    /\ robbed = FALSE

-----------------------------------------------------------------------------
(* createTx and publishTx: under the lock                                  *)

\* createTx up to the first explorer call.  A proposal that exists already
\* is returned as it is, which changes nothing.
StartCreate(r, c, t) ==
    /\ lock = Free
    /\ ~Exists(t)
    /\ lock' = r
    /\ Begin(r, "create", None, NewDoc(t, c, {}), "utxos")
    /\ UNCHANGED <<stored, twins, aged, net, seen, past, overwritten, late>>

\* Mutant: the status of the proposal is not looked at.
StartPublishAgain(r, t) ==
    /\ lock = Free
    /\ Exists(t)
    /\ lock' = r
    /\ Begin(r, "publish", None, stored[t], "utxos")
    /\ UNCHANGED <<stored, twins, aged, net, seen, past, overwritten, late>>

\* publishTx up to checkTxUTXOs.  A proposal that is not temporary is
\* returned as it is.
StartPublish(r, t) ==
    /\ lock = Free
    /\ Exists(t)
    /\ stored[t].status = "temporary"
    /\ lock' = r
    /\ Begin(r, "publish", None, stored[t], "utxos")
    /\ UNCHANGED <<stored, twins, aged, net, seen, past, overwritten, late>>

\* getUtxosForCurrentWallet, bc.getUtxos: what the explorer believes unspent.
ReadUtxos(r) ==
    /\ req[r].at = "utxos"
    /\ req' = [req EXCEPT ![r].utxos = Utxos \ InputsOf(seen),
                          ![r].at = "pending"]
    /\ UNCHANGED <<stored, twins, aged, lock, net, seen, past, overwritten,
                   late>>

\* getPendingTxs, fetchPendingTxs: called by a client, or from
\* getUtxosForCurrentWallet.
ReadPending(r) ==
    /\ req[r].at = "pending"
    /\ req' = [req EXCEPT ![r].list = PendingDocs,
                          ![r].todo = {d \in PendingDocs : d.status = "accepted"},
                          ![r].at = "settle"]
    /\ UNCHANGED <<stored, twins, aged, lock, net, seen, past, overwritten,
                   late>>

StartList(r) ==
    /\ Begin(r, "list", None, None, "pending")
    /\ UNCHANGED <<stored, twins, aged, lock, net, seen, past, overwritten,
                   late>>

\* getPendingTxs, _checkTxInBlockchain and _processBroadcast of one accepted
\* proposal of the list.  The explorer never forgets a transaction, so the
\* look-up and the write are one step.
SettleThirdParty(r, d) ==
    /\ req[r].at = "settle"
    /\ d \in req[r].todo
    /\ IF TxOf(d) \in seen
       THEN /\ Store(d.id, Broadcasted(d), d)
            /\ req' = [req EXCEPT ![r].list = @ \ {d}, ![r].todo = @ \ {d}]
       ELSE /\ req' = [req EXCEPT ![r].todo = @ \ {d}]
            /\ UNCHANGED <<stored, past, overwritten>>
    /\ UNCHANGED <<twins, aged, lock, net, seen, late>>

AnswerList(r) ==
    /\ req[r].at = "settle"
    /\ req[r].todo = {}
    /\ req[r].op = "list"
    /\ Finish(r)
    /\ UNCHANGED <<stored, twins, aged, net, seen, past, overwritten, late>>

\* Mutant: proposals broadcast a moment ago are forgotten.
ReadBroadcastedNot(r) ==
    /\ req[r].at = "settle"
    /\ req[r].todo = {}
    /\ req[r].op \in {"create", "publish"}
    /\ req' = [req EXCEPT ![r].utxos = @ \ InputsOf(req[r].list),
                          ![r].list = {},
                          ![r].at = "store"]
    /\ UNCHANGED <<stored, twins, aged, lock, net, seen, past, overwritten,
                   late>>

\* getUtxosForCurrentWallet, the rest: inputs of pending proposals are
\* locked, inputs of the latest hundred broadcasts of the last day are spent.
ReadBroadcasted(r) ==
    /\ req[r].at = "settle"
    /\ req[r].todo = {}
    /\ req[r].op \in {"create", "publish"}
    /\ req' = [req EXCEPT ![r].utxos =
                   @ \ InputsOf(req[r].list \cup (BroadcastedDocs \ past)),
                          ![r].list = {},
                          ![r].at = "store"]
    /\ UNCHANGED <<stored, twins, aged, lock, net, seen, past, overwritten,
                   late>>

\* createTx, storeTx: a non-empty choice among usable stands for the coin
\* selection.
StoreChosen(r, usable) ==
    /\ \E chosen \in (SUBSET usable) \ {{}} :
          Store(req[r].doc.id, [req[r].doc EXCEPT !.inputs = chosen], None)
    /\ Finish(r)
    /\ UNCHANGED <<twins, aged, net, seen, late>>

\* selectTxInputs takes the inputs that the caller gives as they are.
StoreGiven(r) ==
    /\ req[r].at = "utxos"
    /\ req[r].op = "create"
    /\ StoreChosen(r, Utxos)

\* Without them it selects among the outputs it has found to be free.
StoreNew(r) ==
    /\ req[r].at = "store"
    /\ req[r].op = "create"
    /\ StoreChosen(r, req[r].utxos)

\* Mutant: checkTxUTXOs is left out.
StorePublishedUnchecked(r) ==
    /\ req[r].at = "store"
    /\ req[r].op = "publish"
    /\ Store(req[r].doc.id, [req[r].doc EXCEPT !.status = "pending"],
             req[r].doc)
    /\ Finish(r)
    /\ UNCHANGED <<twins, aged, net, seen, late>>

\* publishTx after checkTxUTXOs: no input may be missing or locked.
StorePublished(r) ==
    /\ req[r].at = "store"
    /\ req[r].op = "publish"
    /\ req[r].doc.inputs \subseteq req[r].utxos
    /\ Store(req[r].doc.id, [req[r].doc EXCEPT !.status = "pending"],
             req[r].doc)
    /\ Finish(r)
    /\ UNCHANGED <<twins, aged, net, seen, late>>

-----------------------------------------------------------------------------
(* signTx, rejectTx and broadcastTx: no lock                               *)

\* Mutant: a copayer may sign again.
StartSignAgain(r, c, t) ==
    /\ Exists(t)
    /\ IsPending(stored[t])
    /\ Cardinality(Votes(stored[t], "accept")) < RequiredSignatures
    /\ Begin(r, "sign", c, stored[t], "store")
    /\ UNCHANGED <<stored, twins, aged, lock, net, seen, past, overwritten,
                   late>>

\* signTx up to txp.sign.  IsPending includes accepted proposals; a multisig
\* input that has all its signatures refuses another one (BAD_SIGNATURES).
StartSign(r, c, t) ==
    /\ Exists(t)
    /\ ~HasVoted(stored[t], c)
    /\ IsPending(stored[t])
    /\ Cardinality(Votes(stored[t], "accept")) < RequiredSignatures
    /\ Begin(r, "sign", c, stored[t], "store")
    /\ UNCHANGED <<stored, twins, aged, lock, net, seen, past, overwritten,
                   late>>

StoreSigned(r) ==
    /\ req[r].at = "store"
    /\ req[r].op = "sign"
    /\ Store(req[r].doc.id, Signed(req[r].doc, req[r].by), req[r].doc)
    /\ Finish(r)
    /\ UNCHANGED <<twins, aged, net, seen, late>>

StartReject(r, c, t) ==
    /\ Exists(t)
    /\ ~HasVoted(stored[t], c)
    /\ stored[t].status = "pending"
    /\ Begin(r, "reject", c, stored[t], "store")
    /\ UNCHANGED <<stored, twins, aged, lock, net, seen, past, overwritten,
                   late>>

StoreRejected(r) ==
    /\ req[r].at = "store"
    /\ req[r].op = "reject"
    /\ Store(req[r].doc.id, WithAction(req[r].doc, req[r].by, "reject"),
             req[r].doc)
    /\ Finish(r)
    /\ UNCHANGED <<twins, aged, net, seen, late>>

\* Mutant: any pending proposal may be broadcast.
StartBroadcastEarly(r, t) ==
    /\ Exists(t)
    /\ IsPending(stored[t])
    /\ Begin(r, "broadcast", None, stored[t], "send")
    /\ UNCHANGED <<stored, twins, aged, lock, net, seen, past, overwritten,
                   late>>

\* broadcastTx up to _broadcastRawTx.
StartBroadcast(r, t) ==
    /\ Exists(t)
    /\ stored[t].status = "accepted"
    /\ Begin(r, "broadcast", None, stored[t], "send")
    /\ UNCHANGED <<stored, twins, aged, lock, net, seen, past, overwritten,
                   late>>

\* The node takes the transaction: no other one spends its inputs.  The
\* answer may be lost, and the service then asks the explorer.
NodeAccepts(r) ==
    /\ req[r].at = "send"
    /\ \A tx \in net :
          tx.inputs \cap req[r].doc.inputs # {} => tx = TxOf(req[r].doc)
    /\ net' = net \cup {TxOf(req[r].doc)}
    /\ \E next \in {"store", "check"} : req' = [req EXCEPT ![r].at = next]
    /\ UNCHANGED <<stored, twins, aged, lock, seen, past, overwritten, late>>

\* The node refuses it, or the call fails before it gets there.
NodeRefuses(r) ==
    /\ req[r].at = "send"
    /\ req' = [req EXCEPT ![r].at = "check"]
    /\ UNCHANGED <<stored, twins, aged, lock, net, seen, past, overwritten,
                   late>>

\* _checkTxInBlockchain found it: somebody else has broadcast it.
FoundInChain(r) ==
    /\ req[r].at = "check"
    /\ TxOf(req[r].doc) \in seen
    /\ req' = [req EXCEPT ![r].at = "store"]
    /\ UNCHANGED <<stored, twins, aged, lock, net, seen, past, overwritten,
                   late>>

\* _processBroadcast
StoreBroadcasted(r) ==
    /\ req[r].at = "store"
    /\ req[r].op = "broadcast"
    /\ Store(req[r].doc.id, Broadcasted(req[r].doc), req[r].doc)
    /\ Finish(r)
    /\ UNCHANGED <<twins, aged, net, seen, late>>

-----------------------------------------------------------------------------
(* removePendingTx                                                         *)

\* getRemainingDeleteLockTime(txp) = 0 for copayer c.
DeleteLockPassed(doc, c) ==
    \/ doc.id \in aged
    \/ doc.creator = c /\ Approvers(doc) \subseteq {c}

StartRemove(r, c, t) ==
    /\ lock = Free
    /\ Exists(t)
    /\ IsPending(stored[t])
    /\ DeleteLockPassed(stored[t], c)
    /\ lock' = r
    /\ Begin(r, "remove", None, stored[t], "delete")
    /\ UNCHANGED <<stored, twins, aged, net, seen, past, overwritten, late>>

\* removeTx deletes the first document with that id, as it is by now; a
\* twin comes to the front.
Delete(r) ==
    LET t == req[r].doc.id
    IN  /\ req[r].at = "delete"
        /\ IF twins[t] = {}
           THEN /\ stored' = [stored EXCEPT ![t] = None]
                /\ aged' = aged \ {t}
                /\ UNCHANGED twins
           ELSE \E d \in twins[t] :
                   /\ stored' = [stored EXCEPT ![t] = d]
                   /\ twins' = [twins EXCEPT ![t] = @ \ {d}]
                   /\ UNCHANGED aged
        /\ Finish(r)
        /\ UNCHANGED <<net, seen, past, overwritten, late>>

-----------------------------------------------------------------------------
(* Errors, crashes, time, the explorer and the blockchain monitor          *)

\* Every error exit: the explorer or the database fails, an input is not
\* available, nothing can be selected, the transaction is not in the chain.
\* The error is answered and the lock released.
RequestFails(r) ==
    /\ req[r].at # "idle"
    /\ Finish(r)
    /\ UNCHANGED <<stored, twins, aged, net, seen, past, overwritten, late>>

\* The server process dies: nobody is left to release the lock.
Crash(r) ==
    /\ req[r].at # "idle"
    /\ req' = [req EXCEPT ![r] = Idle]
    /\ lock' = IF lock = r THEN Orphan ELSE lock
    /\ UNCHANGED <<stored, twins, aged, net, seen, past, overwritten, late>>

\* clearExpiredLock, called by a request that finds the lock taken and waits
\* for no answer: its findOne, LOCK_EXE_TIME after the crash.  Tasks are taken
\* to end within that time; module WalletLock says what happens when they do
\* not.
FindExpiredLock ==
    /\ lock = Orphan
    /\ clearing' = TRUE
    /\ UNCHANGED <<stored, twins, aged, lock, net, seen, past, req,
                   overwritten,
                   robbed>>

\* Its releaseLock, later: the lock is deleted by its key, whoever has it now.
DeleteExpiredLock ==
    /\ clearing
    /\ lock' = Free
    /\ clearing' \in BOOLEAN
    /\ robbed' = (robbed \/ lock \in Requests)
    /\ UNCHANGED <<stored, twins, aged, net, seen, past, req, overwritten>>

\* DELETE_LOCKTIME has passed since createdOn.  A proposal that is created
\* anew under an id, or that a late write brings back, starts again.
Age(t) ==
    /\ Exists(t)
    /\ t \notin aged
    /\ aged' = aged \cup {t}
    /\ UNCHANGED <<stored, twins, lock, net, seen, past, req, overwritten,
                   late>>

ExplorerIndexes(tx) ==
    /\ tx \in net \ seen
    /\ seen' = seen \cup {tx}
    /\ UNCHANGED <<stored, twins, aged, lock, net, past, req, overwritten,
                   late>>

\* A document drops out of what fetchBroadcastedTxs returns: its broadcast is
\* a day old, or a hundred proposals broadcast within the day were created after
\* it.  One that the limit lets in again is taken to stay out.
FallsBehind(doc) ==
    /\ doc \notin past
    /\ past' = past \cup {doc}
    /\ UNCHANGED <<stored, twins, aged, lock, net, seen, req, overwritten,
                   late>>

\* _handleThirdPartyBroadcasts: the monitor hears of a transaction and finds
\* the accepted proposal by its txid.  It calls storeTx with this.walletId,
\* which a BlockchainMonitor never sets: the filter matches no document, and
\* the upsert inserts the document anew.
MonitorSettles(tx) ==
    /\ tx \in seen
    /\ Exists(tx.id)
    /\ stored[tx.id].status = "accepted"
    /\ TxOf(stored[tx.id]) = tx
    /\ twins' = [twins EXCEPT ![tx.id] =
                    @ \cup {Broadcasted(stored[tx.id])}]
    /\ past' = past \ {Broadcasted(stored[tx.id])}
    /\ UNCHANGED <<stored, aged, lock, net, seen, req, overwritten, late>>

-----------------------------------------------------------------------------

Call(r) ==
    \/ \E c \in Copayers, t \in Proposals :
          \/ StartCreate(r, c, t)
          \/ StartSign(r, c, t)
          \/ StartReject(r, c, t)
          \/ StartRemove(r, c, t)
    \/ \E t \in Proposals :
          \/ StartPublish(r, t)
          \/ StartBroadcast(r, t)
    \/ StartList(r)

Proceed(r) ==
    \/ ReadUtxos(r)
    \/ ReadPending(r)
    \/ \E d \in req[r].todo : SettleThirdParty(r, d)
    \/ AnswerList(r)
    \/ ReadBroadcasted(r)
    \/ StoreGiven(r)
    \/ StoreNew(r)
    \/ StorePublished(r)
    \/ StoreSigned(r)
    \/ StoreRejected(r)
    \/ NodeAccepts(r)
    \/ NodeRefuses(r)
    \/ FoundInChain(r)
    \/ StoreBroadcasted(r)
    \/ Delete(r)
    \/ RequestFails(r)

Environment ==
    \/ \E r \in Requests : Crash(r)
    \/ FindExpiredLock
    \/ DeleteExpiredLock
    \/ \E doc \in BroadcastedDocs : FallsBehind(doc)
    \/ \E t \in Proposals : Age(t)
    \/ \E tx \in net : ExplorerIndexes(tx)
    \/ \E tx \in seen : MonitorSettles(tx)

Next ==
    \/ \E r \in Requests : Call(r) \/ Proceed(r)
    \/ Environment

Spec == Init /\ [][Next]_vars

-----------------------------------------------------------------------------
(* Properties                                                              *)

\* What a request holds while it waits.
RequestOK(q) ==
    /\ q.op \notin {"none", "list"} => q.doc \in Doc
    /\ q.op \in {"sign", "reject"} => q.by \in Copayers
    /\ q.at \in {"send", "check"} => q.op = "broadcast"
    /\ q.at = "delete" => q.op = "remove"
    /\ q.at = "utxos" => q.op \in {"create", "publish"}
    /\ q.at \in {"pending", "settle"} => q.op \in {"create", "publish", "list"}
    /\ q.todo \subseteq q.list

\* Documents are proposals of this wallet under their own id, transactions
\* come from the network, and a request waits where its operation can.
TypeOK ==
    /\ stored \in [Proposals -> Doc \cup {None}]
    /\ \A t \in Proposals : Exists(t) => stored[t].id = t
    /\ twins \in [Proposals -> SUBSET Doc]
    /\ \A t \in Proposals : \A d \in twins[t] : d.id = t
    /\ aged \subseteq Proposals
    /\ lock \in Requests \cup {Free, Orphan}
    /\ clearing \in BOOLEAN
    /\ net \subseteq Tx
    /\ seen \subseteq net
    /\ req \in [Requests -> Request]
    /\ \A r \in Requests : RequestOK(req[r])
    /\ past \subseteq Doc
    /\ overwritten \in BOOLEAN
    /\ robbed \in BOOLEAN

\* What a document's votes say about its status.
OneVoteEach(doc) ==
    \A i, j \in DOMAIN doc.actions :
        doc.actions[i].copayer = doc.actions[j].copayer => i = j

StatusFromVotes(doc) ==
    /\ doc.status = "temporary" => doc.actions = <<>>
    /\ doc.status = "pending" => ~IsAccepted(doc) /\ ~IsRejected(doc)
    /\ doc.status = "rejected" => IsRejected(doc) /\ ~IsAccepted(doc)
    /\ doc.status \in {"accepted", "broadcasted"} =>
          /\ Cardinality(Votes(doc, "accept")) = RequiredSignatures
          /\ doc.signers = Approvers(doc)

\* Whatever races the unlocked calls run, every document ever stored counts
\* each copayer once and has the status its votes give it.  A write replaces
\* the whole document, so a lost update loses votes but never mixes them.
VotesDecide ==
    \A doc \in AllDocs : OneVoteEach(doc) /\ StatusFromVotes(doc)

\* The two quotas of TxProposal.create leave no tie: as long as a proposal is
\* pending, some copayer has not voted, so it can still be decided.
NeverTied ==
    \A doc \in AllDocs :
        doc.status = "pending" => \E c \in Copayers : ~HasVoted(doc, c)

\* No transaction reaches the network without the signatures of m different
\* copayers, whatever the interleaving of signTx, rejectTx and broadcastTx.
NetworkQuorum ==
    \A tx \in net : Cardinality(tx.signers) = RequiredSignatures

\* Two proposals that wait for signatures or for their broadcast never plan
\* to spend the same output.
ReservedInputs ==
    \A t, u \in Proposals :
        /\ t # u
        /\ Exists(t) /\ IsPending(stored[t])
        /\ Exists(u) /\ IsPending(stored[u])
        => stored[t].inputs \cap stored[u].inputs = {}

\* checkTxUTXOs under the wallet's lock keeps ReservedInputs, crashes
\* included, with two exceptions: an unlocked call has overwritten a document
\* that changed under it, or the late delete of a clearExpiredLock has taken
\* the lock from its owner, so that two requests ran under it.
InputsReserved == overwritten \/ robbed \/ ReservedInputs

\* At the moment createTx or publishTx writes, the outputs it takes for free
\* are still not in use by any pending proposal, nor by a broadcast one that
\* fetchBroadcastedTxs returns, although its three reads were made one after
\* the other while other calls went on and the explorer may not know of the
\* latest transactions.  The exceptions are those of InputsReserved, and the
\* broadcasts the service does not look back at: for them it relies on the
\* explorer.
FreshSelection ==
    overwritten \/ robbed \/
    \A r \in Requests, t \in Proposals :
        /\ req[r].at = "store" /\ req[r].op \in {"create", "publish"}
        /\ t # req[r].doc.id
        /\ Exists(t)
        /\ \/ IsPending(stored[t])
           \/ stored[t].status = "broadcasted" /\ stored[t] \notin past
        => req[r].utxos \cap stored[t].inputs = {}

Rank == [temporary |-> 0, pending |-> 1, accepted |-> 2, rejected |-> 3,
         broadcasted |-> 3]

\* A stored proposal only moves forward and keeps every vote cast on it, even
\* when two requests run under the lock, but for a write that overwrites what
\* its request did not see.
DecisionsStand ==
    [][\A t \in Proposals :
          /\ Exists(t) /\ stored'[t] # None
          /\ stored'[t] # stored[t]
          => \/ overwritten'
             \/ /\ Rank[stored[t].status] < Rank[stored'[t].status]
                      \/ stored[t].status = stored'[t].status
                /\ IsPrefix(stored[t].actions, stored'[t].actions)]_vars

=============================================================================
