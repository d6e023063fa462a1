------------------------- MODULE TxProposalsProofs -------------------------
(***************************************************************************)
(* What holds of TxProposals for every wallet, every set of proposals and  *)
(* any number of concurrent requests: its types, what the votes of a       *)
(* proposal decide, and that outputs are reserved and decisions stand; and *)
(* of UtxoSelection, which selects the outputs of a proposal, for every    *)
(* wallet, amount and threshold.                                           *)
(***************************************************************************)
EXTENDS TxProposals, UtxoSelection, FiniteSetTheorems, SequenceTheorems,
        WellFoundedInduction, TLAPS

-----------------------------------------------------------------------------
(* Type correctness                                                        *)

LEMMA VotedType ==
  ASSUME NEW doc \in Doc, NEW c \in Copayers,
         NEW type \in {"accept", "reject"}
  PROVE  /\ Voted(doc, c, type) \in Doc
         /\ Voted(doc, c, type).id = doc.id
<1>1. [copayer |-> c, type |-> type] \in Action
  BY DEF Action
<1>2. Append(doc.actions, [copayer |-> c, type |-> type]) \in Seq(Action)
  BY <1>1 DEF Doc
<1>3. QED
  BY <1>2 DEF Doc, Voted

LEMMA UpdateStatusType ==
  ASSUME NEW doc \in Doc
  PROVE  UpdateStatus(doc) \in Doc /\ UpdateStatus(doc).id = doc.id
<1>1. UpdateStatus(doc) \in {doc, [doc EXCEPT !.status = "rejected"],
                                  [doc EXCEPT !.status = "accepted"]}
  BY DEF UpdateStatus
<1>2. QED
  BY <1>1 DEF Doc, Statuses

LEMMA WithActionType ==
  ASSUME NEW doc \in Doc, NEW c \in Copayers,
         NEW type \in {"accept", "reject"}
  PROVE  /\ WithAction(doc, c, type) \in Doc
         /\ WithAction(doc, c, type).id = doc.id
BY VotedType, UpdateStatusType DEF WithAction

LEMMA ApproversType ==
  ASSUME NEW doc \in Doc
  PROVE  Approvers(doc) \subseteq Copayers
<1>1. doc.actions \in Seq(Action)
  BY DEF Doc
<1>2. \A i \in DOMAIN doc.actions : doc.actions[i].copayer \in Copayers
  <2> SUFFICES ASSUME NEW i \in DOMAIN doc.actions
               PROVE  doc.actions[i].copayer \in Copayers
    OBVIOUS
  <2>1. doc.actions[i] \in Action
    BY <1>1
  <2>2. QED
    BY <2>1 DEF Action
<1>3. QED
  BY <1>2 DEF Approvers, Votes

LEMMA SignedType ==
  ASSUME NEW doc \in Doc, NEW c \in Copayers
  PROVE  Signed(doc, c) \in Doc /\ Signed(doc, c).id = doc.id
<1> DEFINE voted == WithAction(doc, c, "accept")
<1>1. voted \in Doc /\ voted.id = doc.id
  BY WithActionType
<1>2. Approvers(voted) \subseteq Copayers
  BY <1>1, ApproversType
<1>3. Signed(doc, c) \in {voted, [voted EXCEPT !.signers = Approvers(voted)]}
  BY DEF Signed
<1> HIDE DEF voted
<1>4. QED
  BY <1>1, <1>2, <1>3 DEF Doc

LEMMA BroadcastedType ==
  ASSUME NEW doc \in Doc
  PROVE  Broadcasted(doc) \in Doc /\ Broadcasted(doc).id = doc.id
BY DEF Broadcasted, Doc, Statuses

LEMMA TxOfType == \A doc \in Doc : TxOf(doc) \in Tx
BY DEF TxOf, Tx, Doc

LEMMA AllDocsType ==
  ASSUME TypeOK
  PROVE  AllDocs \subseteq Doc
BY DEF TypeOK, AllDocs, Exists

LEMMA InputsOfType ==
  ASSUME NEW docs \in SUBSET Doc
  PROVE  InputsOf(docs) \subseteq Utxos
BY DEF InputsOf, Doc

\* The three ways a step changes the state that matters for typing.
LEMMA StoreType ==
  ASSUME TypeOK, NEW t \in Proposals, NEW doc \in Doc, doc.id = t, NEW read,
         Store(t, doc, read)
  PROVE  /\ stored' \in [Proposals -> Doc \cup {None}]
         /\ \A u \in Proposals : Exists(u)' => stored'[u].id = u
         /\ past' \subseteq Doc
         /\ overwritten' \in BOOLEAN
BY DEF Store, TypeOK, Exists

LEMMA IdleType == Idle \in Request /\ RequestOK(Idle)
BY DEF Idle, Waiting, Request, Waits, Ops, RequestOK

LEMMA FinishType ==
  ASSUME TypeOK, NEW r \in Requests, Finish(r)
  PROVE  /\ req' \in [Requests -> Request]
         /\ \A q \in Requests : RequestOK(req'[q])
         /\ lock' \in Requests \cup {Free, Orphan}
BY IdleType DEF Finish, TypeOK

LEMMA BeginType ==
  ASSUME TypeOK, NEW r \in Requests, NEW op \in Ops \ {"none"},
         NEW c \in Copayers \cup {None}, NEW doc \in Doc \cup {None},
         NEW at \in Waits,
         Begin(r, op, c, doc, at),
         op # "list" => doc \in Doc,
         op \in {"sign", "reject"} => c \in Copayers,
         \/ at \in {"utxos"} /\ op \in {"create", "publish"}
         \/ at = "pending" /\ op = "list"
         \/ at = "store" /\ op \in {"sign", "reject"}
         \/ at = "send" /\ op = "broadcast"
         \/ at = "delete" /\ op = "remove"
  PROVE  /\ req' \in [Requests -> Request]
         /\ \A q \in Requests : RequestOK(req'[q])
<1> DEFINE new == Waiting(at, op, c, doc)
<1>1. new \in Request
  BY DEF Waiting, Request
<1>2. RequestOK(new)
  BY DEF Waiting, RequestOK
<1>3. QED
  BY <1>1, <1>2 DEF Begin, TypeOK

\* A request that goes on with one of its fields changed.
LEMMA ProceedType ==
  ASSUME TypeOK, NEW r \in Requests, NEW new \in Request, RequestOK(new),
         req' = [req EXCEPT ![r] = new]
  PROVE  /\ req' \in [Requests -> Request]
         /\ \A q \in Requests : RequestOK(req'[q])
BY DEF TypeOK

LEMMA InitType == Init => TypeOK
BY IdleType DEF Init, TypeOK, Exists

\* The parts of TypeOK that a step which only moves requests leaves alone.
LEMMA RequestStepType ==
  ASSUME TypeOK,
         UNCHANGED <<stored, twins, aged, net, seen, past, overwritten, late>>,
         lock' \in Requests \cup {Free, Orphan},
         req' \in [Requests -> Request],
         \A q \in Requests : RequestOK(req'[q])
  PROVE  TypeOK'
BY DEF TypeOK, Exists, late

LEMMA CallType ==
  ASSUME TypeOK, NEW r \in Requests, Call(r)
  PROVE  TypeOK'
<1>1. ASSUME NEW c \in Copayers, NEW t \in Proposals, StartCreate(r, c, t)
      PROVE  TypeOK'
  <2>1. NewDoc(t, c, {}) \in Doc
    BY EmptySeq DEF NewDoc, Doc, Statuses
  <2>2. /\ req' \in [Requests -> Request]
        /\ \A q \in Requests : RequestOK(req'[q])
    BY <1>1, <2>1, BeginType DEF StartCreate, Ops, Waits
  <2>3. QED
    BY <1>1, <2>2, RequestStepType DEF StartCreate
<1>2. ASSUME NEW t \in Proposals, Exists(t)
      PROVE  stored[t] \in Doc
  BY <1>2 DEF TypeOK, Exists
<1>3. ASSUME NEW t \in Proposals, StartPublish(r, t)
      PROVE  TypeOK'
  <2>1. /\ req' \in [Requests -> Request]
        /\ \A q \in Requests : RequestOK(req'[q])
    BY <1>2, <1>3, BeginType DEF StartPublish, Ops, Waits
  <2>2. QED
    BY <1>3, <2>1, RequestStepType DEF StartPublish
<1>4. ASSUME NEW c \in Copayers, NEW t \in Proposals, StartSign(r, c, t)
      PROVE  TypeOK'
  <2>1. /\ req' \in [Requests -> Request]
        /\ \A q \in Requests : RequestOK(req'[q])
    BY <1>2, <1>4, BeginType DEF StartSign, Ops, Waits
  <2>2. lock' \in Requests \cup {Free, Orphan}
    BY <1>4 DEF StartSign, TypeOK
  <2>3. QED
    BY <1>4, <2>1, <2>2, RequestStepType DEF StartSign
<1>5. ASSUME NEW c \in Copayers, NEW t \in Proposals, StartReject(r, c, t)
      PROVE  TypeOK'
  <2>1. /\ req' \in [Requests -> Request]
        /\ \A q \in Requests : RequestOK(req'[q])
    BY <1>2, <1>5, BeginType DEF StartReject, Ops, Waits
  <2>2. lock' \in Requests \cup {Free, Orphan}
    BY <1>5 DEF StartReject, TypeOK
  <2>3. QED
    BY <1>5, <2>1, <2>2, RequestStepType DEF StartReject
<1>6. ASSUME NEW t \in Proposals, StartBroadcast(r, t)
      PROVE  TypeOK'
  <2>1. /\ req' \in [Requests -> Request]
        /\ \A q \in Requests : RequestOK(req'[q])
    BY <1>2, <1>6, BeginType DEF StartBroadcast, Ops, Waits
  <2>2. lock' \in Requests \cup {Free, Orphan}
    BY <1>6 DEF StartBroadcast, TypeOK
  <2>3. QED
    BY <1>6, <2>1, <2>2, RequestStepType DEF StartBroadcast
<1>7. ASSUME NEW c \in Copayers, NEW t \in Proposals, StartRemove(r, c, t)
      PROVE  TypeOK'
  <2>1. /\ req' \in [Requests -> Request]
        /\ \A q \in Requests : RequestOK(req'[q])
    BY <1>2, <1>7, BeginType DEF StartRemove, Ops, Waits
  <2>2. QED
    BY <1>7, <2>1, RequestStepType DEF StartRemove
<1>8. ASSUME StartList(r)
      PROVE  TypeOK'
  <2>1. /\ req' \in [Requests -> Request]
        /\ \A q \in Requests : RequestOK(req'[q])
    BY <1>8, BeginType DEF StartList, Ops, Waits
  <2>2. lock' \in Requests \cup {Free, Orphan}
    BY <1>8 DEF StartList, TypeOK
  <2>3. QED
    BY <1>8, <2>1, <2>2, RequestStepType DEF StartList
<1>9. QED
  BY <1>1, <1>3, <1>4, <1>5, <1>6, <1>7, <1>8 DEF Call

\* A step that writes one well-typed document and ends its request.
LEMMA StoreStepType ==
  ASSUME TypeOK, NEW r \in Requests, NEW t \in Proposals, NEW doc \in Doc,
         doc.id = t, NEW read, Store(t, doc, read), Finish(r),
         UNCHANGED <<twins, aged, net, seen, late>>
  PROVE  TypeOK'
<1>1. /\ stored' \in [Proposals -> Doc \cup {None}]
      /\ \A u \in Proposals : Exists(u)' => stored'[u].id = u
      /\ past' \subseteq Doc
      /\ overwritten' \in BOOLEAN
  BY StoreType
<1>2. /\ req' \in [Requests -> Request]
      /\ \A q \in Requests : RequestOK(req'[q])
      /\ lock' \in Requests \cup {Free, Orphan}
  BY FinishType
<1>3. QED
  BY <1>1, <1>2 DEF TypeOK, late

LEMMA ProceedStepType ==
  ASSUME TypeOK, NEW r \in Requests, Proceed(r)
  PROVE  TypeOK'
<1> DEFINE q == req[r]
           doc == q.doc
<1>1. q \in Request /\ RequestOK(q)
  BY DEF TypeOK
<1>2. lock \in Requests \cup {Free, Orphan}
  BY DEF TypeOK
<1>3. PendingDocs \subseteq Doc /\ BroadcastedDocs \subseteq Doc
  BY AllDocsType DEF PendingDocs, BroadcastedDocs
\* Steps that only move the request on.
<1>4. ASSUME NEW new \in Request, RequestOK(new),
             req' = [req EXCEPT ![r] = new],
             UNCHANGED <<stored, twins, aged, lock, net, seen, past,
                         overwritten, late>>
      PROVE  TypeOK'
  <2>1. /\ req' \in [Requests -> Request]
        /\ \A p \in Requests : RequestOK(req'[p])
    BY <1>4, ProceedType
  <2>2. QED
    BY <1>2, <1>4, <2>1, RequestStepType
<1>5. CASE ReadUtxos(r)
  <2> DEFINE new == [q EXCEPT !.utxos = Utxos \ InputsOf(seen), !.at = "pending"]
  <2>1. new \in Request /\ RequestOK(new)
    BY <1>1, <1>5 DEF ReadUtxos, Request, RequestOK, Waits
  <2>2. QED
    BY <1>4, <1>5, <2>1 DEF ReadUtxos
<1>6. CASE ReadPending(r)
  <2> DEFINE new == [q EXCEPT !.list = PendingDocs,
                        !.todo = {d \in PendingDocs : d.status = "accepted"},
                        !.at = "settle"]
  <2>1. new \in Request /\ RequestOK(new)
    BY <1>1, <1>3, <1>6 DEF ReadPending, Request, RequestOK, Waits
  <2>2. QED
    BY <1>4, <1>6, <2>1 DEF ReadPending
<1>7. ASSUME NEW d \in q.todo, SettleThirdParty(r, d)
      PROVE  TypeOK'
  <2>1. d \in Doc
    BY <1>1 DEF Request
  <2>2. Broadcasted(d) \in Doc /\ Broadcasted(d).id = d.id
    BY <2>1, BroadcastedType
  <2>3. CASE TxOf(d) \in seen
    <3> DEFINE new == [q EXCEPT !.list = @ \ {d}, !.todo = @ \ {d}]
    <3>1. new \in Request /\ RequestOK(new)
      BY <1>1, <1>7 DEF Request, RequestOK
    <3>2. req' = [req EXCEPT ![r] = new]
      BY <1>7, <2>3 DEF SettleThirdParty
    <3>3. /\ req' \in [Requests -> Request]
          /\ \A p \in Requests : RequestOK(req'[p])
      BY <3>1, <3>2, ProceedType
    <3>4. d.id \in Proposals /\ Store(d.id, Broadcasted(d), d)
      BY <1>7, <2>1, <2>3 DEF SettleThirdParty, Doc
    <3>5. /\ stored' \in [Proposals -> Doc \cup {None}]
          /\ \A u \in Proposals : Exists(u)' => stored'[u].id = u
          /\ past' \subseteq Doc
          /\ overwritten' \in BOOLEAN
      BY <2>2, <3>4, StoreType
    <3>6. QED
      BY <1>7, <3>3, <3>5 DEF SettleThirdParty, TypeOK, late
  <2>4. CASE TxOf(d) \notin seen
    <3> DEFINE new == [q EXCEPT !.todo = @ \ {d}]
    <3>1. new \in Request /\ RequestOK(new)
      BY <1>1, <1>7 DEF Request, RequestOK
    <3>2. QED
      BY <1>4, <1>7, <2>4, <3>1 DEF SettleThirdParty
  <2>5. QED
    BY <2>3, <2>4
<1>8. CASE AnswerList(r)
  <2>1. /\ req' \in [Requests -> Request]
        /\ \A p \in Requests : RequestOK(req'[p])
        /\ lock' \in Requests \cup {Free, Orphan}
    BY <1>8, FinishType DEF AnswerList
  <2>2. QED
    BY <1>8, <2>1, RequestStepType DEF AnswerList
<1>9. CASE ReadBroadcasted(r)
  <2> DEFINE new == [q EXCEPT
                !.utxos = @ \ InputsOf(q.list \cup (BroadcastedDocs \ past)),
                !.list = {}, !.at = "store"]
  <2>1. new \in Request /\ RequestOK(new)
    BY <1>1, <1>9 DEF ReadBroadcasted, Request, RequestOK, Waits
  <2>2. QED
    BY <1>4, <1>9, <2>1 DEF ReadBroadcasted
<1>10. CASE StoreGiven(r) \/ StoreNew(r)
  <2>1. doc \in Doc
    BY <1>1, <1>10 DEF StoreGiven, StoreNew, RequestOK
  <2>2. PICK chosen \in SUBSET Utxos :
           /\ Store(doc.id, [doc EXCEPT !.inputs = chosen], None)
           /\ Finish(r)
           /\ UNCHANGED <<twins, aged, net, seen, late>>
    BY <1>1, <1>10 DEF StoreGiven, StoreNew, StoreChosen, Request
  <2>3. /\ [doc EXCEPT !.inputs = chosen] \in Doc
        /\ [doc EXCEPT !.inputs = chosen].id = doc.id
        /\ doc.id \in Proposals
    BY <2>1 DEF Doc
  <2>4. QED
    BY <2>2, <2>3, StoreStepType
<1>11. CASE StorePublished(r)
  <2>1. doc \in Doc
    BY <1>1, <1>11 DEF StorePublished, RequestOK
  <2>2. /\ [doc EXCEPT !.status = "pending"] \in Doc
        /\ [doc EXCEPT !.status = "pending"].id = doc.id
        /\ doc.id \in Proposals
    BY <2>1 DEF Doc, Statuses
  <2>3. QED
    BY <1>11, <2>2, StoreStepType DEF StorePublished
<1>12. CASE StoreSigned(r)
  <2>1. doc \in Doc /\ q.by \in Copayers
    BY <1>1, <1>12 DEF StoreSigned, RequestOK
  <2>2. /\ Signed(doc, q.by) \in Doc
        /\ Signed(doc, q.by).id = doc.id
        /\ doc.id \in Proposals
    BY <2>1, SignedType DEF Doc
  <2>3. QED
    BY <1>12, <2>2, StoreStepType DEF StoreSigned
<1>13. CASE StoreRejected(r)
  <2>1. doc \in Doc /\ q.by \in Copayers
    BY <1>1, <1>13 DEF StoreRejected, RequestOK
  <2>2. /\ WithAction(doc, q.by, "reject") \in Doc
        /\ WithAction(doc, q.by, "reject").id = doc.id
        /\ doc.id \in Proposals
    BY <2>1, WithActionType DEF Doc
  <2>3. QED
    BY <1>13, <2>2, StoreStepType DEF StoreRejected
<1>14. CASE NodeAccepts(r)
  <2>1. doc \in Doc
    BY <1>1, <1>14 DEF NodeAccepts, RequestOK
  <2>2. net' \subseteq Tx
    BY <1>14, <2>1, TxOfType DEF NodeAccepts, TypeOK
  <2>3. PICK next \in {"store", "check"} : req' = [req EXCEPT ![r].at = next]
    BY <1>14 DEF NodeAccepts
  <2> DEFINE new == [q EXCEPT !.at = next]
  <2>4. new \in Request /\ RequestOK(new)
    BY <1>1, <1>14 DEF NodeAccepts, Request, RequestOK, Waits
  <2>5. /\ req' \in [Requests -> Request]
        /\ \A p \in Requests : RequestOK(req'[p])
    BY <2>3, <2>4, ProceedType
  <2>6. QED
    BY <1>14, <2>2, <2>5 DEF NodeAccepts, TypeOK, Exists, late
<1>15. CASE NodeRefuses(r)
  <2> DEFINE new == [q EXCEPT !.at = "check"]
  <2>1. new \in Request /\ RequestOK(new)
    BY <1>1, <1>15 DEF NodeRefuses, Request, RequestOK, Waits
  <2>2. QED
    BY <1>4, <1>15, <2>1 DEF NodeRefuses
<1>16. CASE FoundInChain(r)
  <2> DEFINE new == [q EXCEPT !.at = "store"]
  <2>1. new \in Request /\ RequestOK(new)
    BY <1>1, <1>16 DEF FoundInChain, Request, RequestOK, Waits
  <2>2. QED
    BY <1>4, <1>16, <2>1 DEF FoundInChain
<1>17. CASE StoreBroadcasted(r)
  <2>1. doc \in Doc
    BY <1>1, <1>17 DEF StoreBroadcasted, RequestOK
  <2>2. /\ Broadcasted(doc) \in Doc
        /\ Broadcasted(doc).id = doc.id
        /\ doc.id \in Proposals
    BY <2>1, BroadcastedType DEF Doc
  <2>3. QED
    BY <1>17, <2>2, StoreStepType DEF StoreBroadcasted
<1>18. CASE Delete(r)
  <2>1. doc \in Doc
    BY <1>1, <1>18 DEF Delete, RequestOK
  <2>2. doc.id \in Proposals
    BY <2>1 DEF Doc
  <2>3. /\ req' \in [Requests -> Request]
        /\ \A p \in Requests : RequestOK(req'[p])
        /\ lock' \in Requests \cup {Free, Orphan}
        /\ aged' \subseteq Proposals
    BY <1>18, FinishType DEF Delete, TypeOK
  <2>4. CASE twins[doc.id] = {}
    BY <1>18, <2>2, <2>3, <2>4 DEF Delete, TypeOK, Exists, late
  <2>5. CASE twins[doc.id] # {}
    <3>1. PICK d \in twins[doc.id] :
             /\ stored' = [stored EXCEPT ![doc.id] = d]
             /\ twins' = [twins EXCEPT ![doc.id] = @ \ {d}]
      BY <1>18, <2>5 DEF Delete
    <3>2. d \in Doc /\ d.id = doc.id
      BY <2>2, <3>1 DEF TypeOK
    <3>3. QED
      BY <1>18, <2>2, <2>3, <3>1, <3>2 DEF Delete, TypeOK, Exists, late
  <2>6. QED
    BY <2>4, <2>5
<1>19. CASE RequestFails(r)
  <2>1. /\ req' \in [Requests -> Request]
        /\ \A p \in Requests : RequestOK(req'[p])
        /\ lock' \in Requests \cup {Free, Orphan}
    BY <1>19, FinishType DEF RequestFails
  <2>2. QED
    BY <1>19, <2>1, RequestStepType DEF RequestFails
<1>20. QED
  BY <1>5, <1>6, <1>7, <1>8, <1>9, <1>10, <1>11, <1>12, <1>13, <1>14, <1>15,
     <1>16, <1>17, <1>18, <1>19 DEF Proceed

LEMMA EnvironmentType ==
  ASSUME TypeOK, Environment
  PROVE  TypeOK'
<1>1. ASSUME NEW r \in Requests, Crash(r)
      PROVE  TypeOK'
  <2>1. /\ req' \in [Requests -> Request]
        /\ \A p \in Requests : RequestOK(req'[p])
        /\ lock' \in Requests \cup {Free, Orphan}
    BY <1>1, IdleType DEF Crash, TypeOK
  <2>2. QED
    BY <1>1, <2>1, RequestStepType DEF Crash
<1>2. CASE FindExpiredLock \/ DeleteExpiredLock
  BY <1>2 DEF FindExpiredLock, DeleteExpiredLock, TypeOK, Exists
<1>3. ASSUME NEW t \in Proposals, Age(t)
      PROVE  TypeOK'
  BY <1>3 DEF Age, TypeOK, Exists, late
<1>4. ASSUME NEW tx \in net, ExplorerIndexes(tx)
      PROVE  TypeOK'
  BY <1>4 DEF ExplorerIndexes, TypeOK, Exists, late
<1>5. ASSUME NEW tx \in seen, MonitorSettles(tx)
      PROVE  TypeOK'
  <2>1. tx.id \in Proposals
    BY <1>5 DEF TypeOK, Tx
  <2>2. stored[tx.id] \in Doc /\ stored[tx.id].id = tx.id
    BY <1>5, <2>1 DEF MonitorSettles, TypeOK, Exists
  <2>3. /\ Broadcasted(stored[tx.id]) \in Doc
        /\ Broadcasted(stored[tx.id]).id = tx.id
    BY <2>2, BroadcastedType
  <2>4. QED
    BY <1>5, <2>1, <2>3 DEF MonitorSettles, TypeOK, Exists, late
<1>6. ASSUME NEW doc \in BroadcastedDocs, FallsBehind(doc)
      PROVE  TypeOK'
  <2>1. doc \in Doc
    BY AllDocsType DEF BroadcastedDocs
  <2>2. QED
    BY <1>6, <2>1 DEF FallsBehind, TypeOK, Exists, late
<1>7. QED
  BY <1>1, <1>2, <1>3, <1>4, <1>5, <1>6 DEF Environment

LEMMA StutterType ==
  ASSUME TypeOK, UNCHANGED vars
  PROVE  TypeOK'
BY DEF TypeOK, vars, Exists, late

\* Every reachable state is well typed: in particular every request waits
\* where its operation can, with a document of this wallet in its hands.
THEOREM TypeCorrect == Spec => []TypeOK
<1>1. Init => TypeOK
  BY InitType
<1>2. TypeOK /\ [Next]_vars => TypeOK'
  BY CallType, ProceedStepType, EnvironmentType, StutterType DEF Next
<1>3. QED
  BY <1>1, <1>2, PTL DEF Spec

-----------------------------------------------------------------------------
(***************************************************************************)
(* The votes of a proposal: for every m-of-n wallet, every document ever   *)
(* stored has the status its votes give it, can still be decided while it  *)
(* is pending, and reaches the network with m signatures only.             *)
(***************************************************************************)

WellVoted(doc) == OneVoteEach(doc) /\ StatusFromVotes(doc)

\* What a request relies on when it writes: the document it has read is
\* consistent, and the checks the handler made on it still hold of it.
RequestVotes(q) ==
    /\ q.op \notin {"none", "list"} => WellVoted(q.doc)
    /\ q.op \in {"create", "publish"} => q.doc.status = "temporary"
    /\ q.op \in {"sign", "reject"} =>
          ~HasVoted(q.doc, q.by) /\ q.doc.status = "pending"
    /\ q.op = "broadcast" => q.doc.status = "accepted"
    /\ \A d \in q.list : WellVoted(d)
    /\ \A d \in q.todo : d.status = "accepted"

VotesInv ==
    /\ VotesDecide
    /\ \A r \in Requests : RequestVotes(req[r])
    /\ NetworkQuorum

-----------------------------------------------------------------------------
(* Counting votes                                                          *)

LEMMA Quotas ==
  /\ RequiredSignatures \in Nat \ {0}
  /\ RequiredRejections \in Nat \ {0}
  /\ Cardinality(Copayers) \in Nat
  /\ RequiredRejections <= Cardinality(Copayers) - RequiredSignatures + 1
BY WalletAssumption, FS_CardinalityType DEF RequiredRejections

LEMMA VotesFinite ==
  ASSUME NEW doc \in Doc, NEW type
  PROVE  /\ Votes(doc, type) \subseteq 1 .. Len(doc.actions)
         /\ IsFiniteSet(Votes(doc, type))
         /\ Cardinality(Votes(doc, type)) \in Nat
<1>1. Len(doc.actions) \in Nat /\ DOMAIN doc.actions = 1 .. Len(doc.actions)
  BY DEF Doc
<1>2. Votes(doc, type) \in SUBSET (1 .. Len(doc.actions))
  BY <1>1 DEF Votes
<1>3. IsFiniteSet(1 .. Len(doc.actions))
  BY <1>1, FS_Interval
<1>4. QED
  BY <1>2, <1>3, FS_Subset, FS_CardinalityType

\* A vote is counted once, for its own type.
LEMMA VotedCounts ==
  ASSUME NEW doc \in Doc, NEW c \in Copayers,
         NEW type \in {"accept", "reject"}
  PROVE  LET new == Voted(doc, c, type)
         IN  /\ Cardinality(Votes(new, type)) = Cardinality(Votes(doc, type)) + 1
             /\ \A other : other # type => Votes(new, other) = Votes(doc, other)
<1> DEFINE new == Voted(doc, c, type)
           n == Len(doc.actions)
           vote == [copayer |-> c, type |-> type]
<1>1. vote \in Action /\ doc.actions \in Seq(Action)
  BY DEF Action, Doc
<1>2. new.actions = Append(doc.actions, vote)
  BY DEF Voted, Doc
<1>3. /\ Len(new.actions) = n + 1
      /\ n \in Nat
      /\ DOMAIN new.actions = 1 .. n + 1
      /\ DOMAIN doc.actions = 1 .. n
      /\ \A i \in 1 .. n : new.actions[i] = doc.actions[i]
      /\ new.actions[n + 1] = vote
  BY <1>1, <1>2, AppendProperties
<1> HIDE DEF new
<1>4. Votes(new, type) = Votes(doc, type) \cup {n + 1}
  BY <1>3 DEF Votes
<1>5. n + 1 \notin Votes(doc, type)
  BY <1>3 DEF Votes
<1>6. Cardinality(Votes(new, type)) = Cardinality(Votes(doc, type)) + 1
  BY <1>4, <1>5, VotesFinite, FS_AddElement
<1>7. \A other : other # type => Votes(new, other) = Votes(doc, other)
  BY <1>3 DEF Votes
<1>8. QED
  BY <1>6, <1>7 DEF new

LEMMA VotedOnce ==
  ASSUME NEW doc \in Doc, NEW c \in Copayers,
         NEW type \in {"accept", "reject"},
         OneVoteEach(doc), ~HasVoted(doc, c)
  PROVE  OneVoteEach(Voted(doc, c, type))
<1> DEFINE new == Voted(doc, c, type)
           n == Len(doc.actions)
           vote == [copayer |-> c, type |-> type]
<1>1. vote \in Action /\ doc.actions \in Seq(Action)
  BY DEF Action, Doc
<1>2. new.actions = Append(doc.actions, vote)
  BY DEF Voted, Doc
<1>3. /\ n \in Nat
      /\ DOMAIN new.actions = 1 .. n + 1
      /\ DOMAIN doc.actions = 1 .. n
      /\ \A i \in 1 .. n : new.actions[i] = doc.actions[i]
      /\ new.actions[n + 1].copayer = c
  BY <1>1, <1>2, AppendProperties
<1> HIDE DEF new
<1>4. SUFFICES ASSUME NEW i \in 1 .. n + 1, NEW j \in 1 .. n + 1,
                      new.actions[i].copayer = new.actions[j].copayer
               PROVE  i = j
  BY <1>3 DEF OneVoteEach, new
<1>5. CASE i \in 1 .. n /\ j \in 1 .. n
  BY <1>3, <1>4, <1>5 DEF OneVoteEach
<1>6. CASE i = n + 1 /\ j \in 1 .. n
  BY <1>3, <1>4, <1>6 DEF HasVoted
<1>7. CASE i \in 1 .. n /\ j = n + 1
  BY <1>3, <1>4, <1>7 DEF HasVoted
<1>8. QED
  BY <1>3, <1>5, <1>6, <1>7

\* m votes of different copayers are m approvers.
LEMMA ApproversCount ==
  ASSUME NEW doc \in Doc, OneVoteEach(doc)
  PROVE  Cardinality(Approvers(doc)) = Cardinality(Votes(doc, "accept"))
<1> DEFINE V == Votes(doc, "accept")
           f == [i \in V |-> doc.actions[i].copayer]
<1>1. f \in Injection(V, Approvers(doc))
  BY DEF Injection, IsInjective, Approvers, OneVoteEach, Votes
<1>2. f \in Surjection(V, Approvers(doc))
  BY DEF Surjection, Approvers
<1>3. IsFiniteSet(V)
  BY VotesFinite
<1>4. QED
  BY <1>1, <1>2, <1>3, FS_Surjection

LEMMA EmptyWellVoted ==
  ASSUME NEW doc \in Doc, doc.actions = <<>>,
         doc.status \in {"temporary", "pending"}
  PROVE  WellVoted(doc)
<1>1. \A type : Votes(doc, type) = {}
  BY DEF Votes
<1>2. ~IsAccepted(doc) /\ ~IsRejected(doc)
  <2>1. /\ Cardinality(Votes(doc, "accept")) = 0
        /\ Cardinality(Votes(doc, "reject")) = 0
    BY <1>1, FS_EmptySet
  <2>2. QED
    BY <2>1, Quotas DEF IsAccepted, IsRejected
<1>3. OneVoteEach(doc)
  BY DEF OneVoteEach
<1>4. QED
  BY <1>2, <1>3 DEF WellVoted, StatusFromVotes

\* A status change does not touch the votes.
LEMMA SameVotes ==
  ASSUME NEW doc, NEW new, new.actions = doc.actions
  PROVE  /\ \A type : Votes(new, type) = Votes(doc, type)
         /\ IsAccepted(new) = IsAccepted(doc)
         /\ IsRejected(new) = IsRejected(doc)
         /\ Approvers(new) = Approvers(doc)
         /\ OneVoteEach(new) = OneVoteEach(doc)
BY DEF Votes, IsAccepted, IsRejected, Approvers, OneVoteEach

LEMMA BroadcastedWellVoted ==
  ASSUME NEW doc \in Doc, WellVoted(doc), doc.status = "accepted"
  PROVE  WellVoted(Broadcasted(doc))
<1> DEFINE new == Broadcasted(doc)
<1>1. /\ new.actions = doc.actions
      /\ new.status = "broadcasted"
      /\ new.signers = doc.signers
  BY DEF Broadcasted, Doc
<1> HIDE DEF new
<1>2. QED
  BY <1>1, SameVotes DEF WellVoted, StatusFromVotes, new

LEMMA RejectedWellVoted ==
  ASSUME NEW doc \in Doc, WellVoted(doc), doc.status = "pending",
         NEW c \in Copayers, ~HasVoted(doc, c)
  PROVE  WellVoted(WithAction(doc, c, "reject"))
<1> DEFINE voted == Voted(doc, c, "reject")
           new == WithAction(doc, c, "reject")
<1>1. voted \in Doc /\ OneVoteEach(voted)
  BY VotedType, VotedOnce DEF WellVoted
<1>2. ~IsAccepted(voted)
  BY VotedCounts DEF WellVoted, StatusFromVotes, IsAccepted
<1>3. voted.status = "pending"
  BY DEF Voted, Doc
<1>4. CASE IsRejected(voted)
  <2>1. new = [voted EXCEPT !.status = "rejected"]
    BY <1>3, <1>4 DEF WithAction, UpdateStatus
  <2>2. new.actions = voted.actions /\ new.status = "rejected"
    BY <1>1, <2>1 DEF Doc
  <2> HIDE DEF new, voted
  <2>3. QED
    BY <1>1, <1>2, <1>4, <2>2, SameVotes DEF WellVoted, StatusFromVotes, new
<1>5. CASE ~IsRejected(voted)
  <2>1. new = voted
    BY <1>2, <1>5 DEF WithAction, UpdateStatus
  <2>2. QED
    BY <1>1, <1>2, <1>3, <1>5, <2>1 DEF WellVoted, StatusFromVotes
<1>6. QED
  BY <1>4, <1>5

LEMMA SignedWellVoted ==
  ASSUME NEW doc \in Doc, WellVoted(doc), doc.status = "pending",
         NEW c \in Copayers, ~HasVoted(doc, c)
  PROVE  WellVoted(Signed(doc, c))
<1> DEFINE voted == Voted(doc, c, "accept")
           acted == WithAction(doc, c, "accept")
           new == Signed(doc, c)
<1>1. voted \in Doc /\ OneVoteEach(voted)
  BY VotedType, VotedOnce DEF WellVoted
<1>2. /\ Cardinality(Votes(voted, "accept")) =
             Cardinality(Votes(doc, "accept")) + 1
      /\ Votes(voted, "reject") = Votes(doc, "reject")
  BY VotedCounts
<1>3. ~IsRejected(voted)
  BY <1>2 DEF WellVoted, StatusFromVotes, IsRejected
<1>4. Cardinality(Votes(voted, "accept")) <= RequiredSignatures
  <2>1. ~(Cardinality(Votes(doc, "accept")) >= RequiredSignatures)
    BY DEF WellVoted, StatusFromVotes, IsAccepted
  <2>2. Cardinality(Votes(doc, "accept")) \in Nat
    BY VotesFinite
  <2>3. QED
    BY <1>2, <2>1, <2>2, Quotas
<1>5. voted.status = "pending"
  BY DEF Voted, Doc
<1>6. CASE IsAccepted(voted)
  <2>1. acted = [voted EXCEPT !.status = "accepted"]
    BY <1>3, <1>5, <1>6 DEF WithAction, UpdateStatus
  <2>2. acted \in Doc /\ acted.actions = voted.actions /\ acted.status = "accepted"
    BY <1>1, <2>1 DEF Doc, Statuses
  <2>3. new = [acted EXCEPT !.signers = Approvers(acted)]
    BY <2>2 DEF Signed
  <2>4. /\ new.actions = voted.actions
        /\ new.status = "accepted"
        /\ new.signers = Approvers(acted)
    BY <2>2, <2>3 DEF Doc
  <2> HIDE DEF new, acted, voted
  <2>5. Approvers(acted) = Approvers(voted) /\ Approvers(new) = Approvers(voted)
    BY <2>2, <2>4, SameVotes
  <2>6. Cardinality(Votes(voted, "accept")) = RequiredSignatures
    <3>1. Cardinality(Votes(voted, "accept")) \in Nat
      BY <1>1, VotesFinite
    <3>2. QED
      BY <1>4, <1>6, <3>1, Quotas DEF IsAccepted
  <2>7. /\ OneVoteEach(new)
        /\ Votes(new, "accept") = Votes(voted, "accept")
    BY <1>1, <2>4, SameVotes
  <2>8. QED
    BY <2>4, <2>5, <2>6, <2>7 DEF WellVoted, StatusFromVotes, new
<1>7. CASE ~IsAccepted(voted)
  <2>1. acted = voted
    BY <1>3, <1>7 DEF WithAction, UpdateStatus
  <2>2. new = voted
    BY <1>5, <2>1 DEF Signed
  <2>3. QED
    BY <1>1, <1>3, <1>5, <1>7, <2>2 DEF WellVoted, StatusFromVotes
<1>8. QED
  BY <1>6, <1>7

-----------------------------------------------------------------------------
(* The invariant is inductive                                              *)

LEMMA VotesDecideByDoc ==
  VotesDecide <=> /\ \A t \in Proposals : Exists(t) => WellVoted(stored[t])
                  /\ \A t \in Proposals : \A d \in twins[t] : WellVoted(d)
BY DEF VotesDecide, AllDocs, WellVoted

LEMMA IdleVotes == RequestVotes(Idle)
BY DEF RequestVotes, Idle, Waiting

\* Steps that only move one request.
LEMMA RequestStepVotes ==
  ASSUME TypeOK, VotesInv, NEW r \in Requests, NEW new, RequestVotes(new),
         req' = [req EXCEPT ![r] = new], UNCHANGED <<stored, twins, net>>
  PROVE  VotesInv'
<1>1. \A q \in Requests : RequestVotes(req'[q])
  BY DEF TypeOK, VotesInv
<1>2. VotesDecide'
  BY DEF VotesInv, VotesDecide, AllDocs, Exists
<1>3. NetworkQuorum'
  BY DEF VotesInv, NetworkQuorum
<1>4. QED
  BY <1>1, <1>2, <1>3 DEF VotesInv

\* Steps that write one consistent document and end their request.
LEMMA StoreStepVotes ==
  ASSUME TypeOK, VotesInv, NEW r \in Requests, NEW t \in Proposals,
         NEW doc, WellVoted(doc), NEW read, Store(t, doc, read),
         NEW new, RequestVotes(new), req' = [req EXCEPT ![r] = new],
         UNCHANGED <<twins, net>>
  PROVE  VotesInv'
<1>1. \A q \in Requests : RequestVotes(req'[q])
  BY DEF TypeOK, VotesInv
<1>2. \A u \in Proposals : Exists(u)' => WellVoted(stored'[u])
  BY VotesDecideByDoc DEF VotesInv, Store, TypeOK, Exists
<1>3. \A u \in Proposals : \A d \in twins'[u] : WellVoted(d)
  BY VotesDecideByDoc DEF VotesInv
<1>4. VotesDecide'
  BY <1>2, <1>3 DEF VotesDecide, AllDocs, WellVoted
<1>5. NetworkQuorum'
  BY DEF VotesInv, NetworkQuorum
<1>6. QED
  BY <1>1, <1>4, <1>5 DEF VotesInv

LEMMA CallVotes ==
  ASSUME TypeOK, VotesInv, NEW r \in Requests, Call(r)
  PROVE  VotesInv'
<1>1. \A t \in Proposals : Exists(t) => stored[t] \in Doc /\ WellVoted(stored[t])
  BY VotesDecideByDoc DEF VotesInv, TypeOK, Exists
\* What Begin stores is consistent when the document it has read is.
<1>2. ASSUME NEW op \in Ops \ {"none", "list"}, NEW c, NEW doc, NEW at,
             WellVoted(doc),
             op \in {"create", "publish"} => doc.status = "temporary",
             op \in {"sign", "reject"} =>
                ~HasVoted(doc, c) /\ doc.status = "pending",
             op = "broadcast" => doc.status = "accepted"
      PROVE  RequestVotes(Waiting(at, op, c, doc))
  BY <1>2 DEF RequestVotes, Waiting
<1>3. ASSUME NEW c \in Copayers, NEW t \in Proposals, StartCreate(r, c, t)
      PROVE  VotesInv'
  <2> DEFINE doc == NewDoc(t, c, {})
  <2>1. doc \in Doc /\ doc.actions = <<>> /\ doc.status = "temporary"
    BY EmptySeq DEF NewDoc, Doc, Statuses
  <2>2. WellVoted(doc)
    BY <2>1, EmptyWellVoted
  <2> HIDE DEF doc
  <2>3. RequestVotes(Waiting("utxos", "create", None, doc))
    BY <1>2, <2>1, <2>2 DEF Ops
  <2>4. QED
    BY <1>3, <2>3, RequestStepVotes DEF StartCreate, Begin, doc
<1>4. ASSUME NEW t \in Proposals, StartPublish(r, t)
      PROVE  VotesInv'
  <2>1. RequestVotes(Waiting("utxos", "publish", None, stored[t]))
    BY <1>1, <1>2, <1>4 DEF StartPublish, Ops
  <2>2. QED
    BY <1>4, <2>1, RequestStepVotes DEF StartPublish, Begin
<1>5. ASSUME NEW c \in Copayers, NEW t \in Proposals, StartSign(r, c, t)
      PROVE  VotesInv'
  <2>1. stored[t] \in Doc /\ WellVoted(stored[t]) /\ IsPending(stored[t])
    BY <1>1, <1>5 DEF StartSign
  <2>2. stored[t].status # "accepted"
    <3>1. Cardinality(Votes(stored[t], "accept")) # RequiredSignatures
      <4>1. Cardinality(Votes(stored[t], "accept")) < RequiredSignatures
        BY <1>5 DEF StartSign
      <4>2. QED
        BY <2>1, <4>1, VotesFinite, Quotas
    <3>2. QED
      BY <2>1, <3>1 DEF WellVoted, StatusFromVotes
  <2>3. stored[t].status = "pending"
    BY <2>1, <2>2 DEF IsPending, Doc, Statuses
  <2>4. RequestVotes(Waiting("store", "sign", c, stored[t]))
    BY <1>2, <1>5, <2>1, <2>3 DEF StartSign, Ops
  <2>5. QED
    BY <1>5, <2>4, RequestStepVotes DEF StartSign, Begin
<1>6. ASSUME NEW c \in Copayers, NEW t \in Proposals, StartReject(r, c, t)
      PROVE  VotesInv'
  <2>1. RequestVotes(Waiting("store", "reject", c, stored[t]))
    BY <1>1, <1>2, <1>6 DEF StartReject, Ops
  <2>2. QED
    BY <1>6, <2>1, RequestStepVotes DEF StartReject, Begin
<1>7. ASSUME NEW t \in Proposals, StartBroadcast(r, t)
      PROVE  VotesInv'
  <2>1. RequestVotes(Waiting("send", "broadcast", None, stored[t]))
    BY <1>1, <1>2, <1>7 DEF StartBroadcast, Ops
  <2>2. QED
    BY <1>7, <2>1, RequestStepVotes DEF StartBroadcast, Begin
<1>8. ASSUME NEW c \in Copayers, NEW t \in Proposals, StartRemove(r, c, t)
      PROVE  VotesInv'
  <2>1. RequestVotes(Waiting("delete", "remove", None, stored[t]))
    BY <1>1, <1>2, <1>8 DEF StartRemove, Ops
  <2>2. QED
    BY <1>8, <2>1, RequestStepVotes DEF StartRemove, Begin
<1>9. CASE StartList(r)
  <2>1. RequestVotes(Waiting("pending", "list", None, None))
    BY DEF RequestVotes, Waiting
  <2>2. QED
    BY <1>9, <2>1, RequestStepVotes DEF StartList, Begin
<1>10. QED
  BY <1>3, <1>4, <1>5, <1>6, <1>7, <1>8, <1>9 DEF Call

LEMMA ProceedVotes ==
  ASSUME TypeOK, VotesInv, NEW r \in Requests, Proceed(r)
  PROVE  VotesInv'
<1> DEFINE q == req[r]
           doc == q.doc
<1>1. q \in Request /\ RequestOK(q) /\ RequestVotes(q)
  BY DEF TypeOK, VotesInv
<1>2. \A d \in PendingDocs : WellVoted(d)
  BY DEF VotesInv, VotesDecide, PendingDocs, WellVoted
<1>3. CASE ReadUtxos(r)
  <2>1. RequestVotes([q EXCEPT !.utxos = Utxos \ InputsOf(seen),
                               !.at = "pending"])
    BY <1>1 DEF RequestVotes, Request
  <2>2. QED
    BY <1>3, <2>1, RequestStepVotes DEF ReadUtxos
<1>4. CASE ReadPending(r)
  <2>1. RequestVotes([q EXCEPT !.list = PendingDocs,
                        !.todo = {d \in PendingDocs : d.status = "accepted"},
                        !.at = "settle"])
    BY <1>1, <1>2 DEF RequestVotes, Request
  <2>2. QED
    BY <1>4, <2>1, RequestStepVotes DEF ReadPending
<1>5. ASSUME NEW d \in q.todo, SettleThirdParty(r, d)
      PROVE  VotesInv'
  <2>1. d \in Doc /\ d.id \in Proposals /\ WellVoted(d) /\ d.status = "accepted"
    BY <1>1 DEF Request, RequestOK, RequestVotes, Doc
  <2>2. CASE TxOf(d) \in seen
    <3>1. WellVoted(Broadcasted(d))
      BY <2>1, BroadcastedWellVoted
    <3>2. RequestVotes([q EXCEPT !.list = @ \ {d}, !.todo = @ \ {d}])
      BY <1>1 DEF RequestVotes, Request
    <3>3. QED
      BY <1>5, <2>1, <2>2, <3>1, <3>2, StoreStepVotes DEF SettleThirdParty
  <2>3. CASE TxOf(d) \notin seen
    <3>1. RequestVotes([q EXCEPT !.todo = @ \ {d}])
      BY <1>1 DEF RequestVotes, Request
    <3>2. QED
      BY <1>5, <2>3, <3>1, RequestStepVotes DEF SettleThirdParty
  <2>4. QED
    BY <2>2, <2>3
<1>6. CASE AnswerList(r)
  BY <1>6, IdleVotes, RequestStepVotes DEF AnswerList, Finish
<1>7. CASE ReadBroadcasted(r)
  <2>1. RequestVotes([q EXCEPT
                !.utxos = @ \ InputsOf(q.list \cup (BroadcastedDocs \ past)),
                !.list = {}, !.at = "store"])
    BY <1>1, <1>7 DEF RequestVotes, Request, ReadBroadcasted
  <2>2. QED
    BY <1>7, <2>1, RequestStepVotes DEF ReadBroadcasted
<1>8. CASE StoreGiven(r) \/ StoreNew(r)
  <2>1. doc \in Doc /\ WellVoted(doc) /\ doc.status = "temporary"
    BY <1>1, <1>8 DEF StoreGiven, StoreNew, RequestOK, RequestVotes
  <2>2. PICK chosen \in SUBSET Utxos :
           /\ Store(doc.id, [doc EXCEPT !.inputs = chosen], None)
           /\ Finish(r)
           /\ UNCHANGED <<twins, aged, net, seen, late>>
    BY <1>1, <1>8 DEF StoreGiven, StoreNew, StoreChosen, Request
  <2> DEFINE new == [doc EXCEPT !.inputs = chosen]
  <2>3. /\ doc.id \in Proposals
        /\ new \in Doc
        /\ new.actions = <<>>
        /\ new.status = "temporary"
    BY <2>1 DEF Doc, WellVoted, StatusFromVotes
  <2>4. WellVoted(new)
    <3> HIDE DEF new
    <3>1. QED
      BY <2>3, EmptyWellVoted
  <2>5. QED
    BY <2>2, <2>3, <2>4, IdleVotes, StoreStepVotes DEF Finish
<1>9. CASE StorePublished(r)
  <2>1. doc \in Doc /\ WellVoted(doc) /\ doc.status = "temporary"
    BY <1>1, <1>9 DEF StorePublished, RequestOK, RequestVotes
  <2> DEFINE new == [doc EXCEPT !.status = "pending"]
  <2>2. /\ doc.id \in Proposals
        /\ new \in Doc
        /\ new.actions = <<>>
        /\ new.status = "pending"
    BY <1>1, <2>1 DEF Doc, Statuses, WellVoted, StatusFromVotes
  <2> HIDE DEF new
  <2>3. WellVoted(new)
    BY <2>2, EmptyWellVoted
  <2>4. QED
    BY <1>9, <2>2, <2>3, IdleVotes, StoreStepVotes
       DEF StorePublished, Finish, new
<1>10. CASE StoreSigned(r)
  <2>1. /\ doc \in Doc /\ doc.id \in Proposals /\ WellVoted(doc)
        /\ doc.status = "pending"
        /\ q.by \in Copayers
        /\ ~HasVoted(doc, q.by)
    BY <1>1, <1>10 DEF StoreSigned, RequestOK, RequestVotes, Doc
  <2>2. WellVoted(Signed(doc, q.by))
    BY <2>1, SignedWellVoted
  <2>3. QED
    BY <1>10, <2>1, <2>2, IdleVotes, StoreStepVotes DEF StoreSigned, Finish
<1>11. CASE StoreRejected(r)
  <2>1. /\ doc \in Doc /\ doc.id \in Proposals /\ WellVoted(doc)
        /\ doc.status = "pending"
        /\ q.by \in Copayers
        /\ ~HasVoted(doc, q.by)
    BY <1>1, <1>11 DEF StoreRejected, RequestOK, RequestVotes, Doc
  <2>2. WellVoted(WithAction(doc, q.by, "reject"))
    BY <2>1, RejectedWellVoted
  <2>3. QED
    BY <1>11, <2>1, <2>2, IdleVotes, StoreStepVotes DEF StoreRejected, Finish
<1>12. CASE NodeAccepts(r)
  <2>1. doc \in Doc /\ WellVoted(doc) /\ doc.status = "accepted"
    BY <1>1, <1>12 DEF NodeAccepts, RequestOK, RequestVotes
  <2>2. Cardinality(doc.signers) = RequiredSignatures
    BY <2>1, ApproversCount DEF WellVoted, StatusFromVotes
  <2>3. NetworkQuorum'
    BY <1>12, <2>2 DEF NodeAccepts, NetworkQuorum, VotesInv, TxOf
  <2>4. PICK next \in {"store", "check"} : req' = [req EXCEPT ![r].at = next]
    BY <1>12 DEF NodeAccepts
  <2>5. RequestVotes([q EXCEPT !.at = next])
    BY <1>1 DEF RequestVotes, Request
  <2>6. \A p \in Requests : RequestVotes(req'[p])
    BY <2>4, <2>5 DEF TypeOK, VotesInv
  <2>7. VotesDecide'
    BY <1>12 DEF NodeAccepts, VotesInv, VotesDecide, AllDocs, Exists
  <2>8. QED
    BY <2>3, <2>6, <2>7 DEF VotesInv
<1>13. CASE NodeRefuses(r)
  <2>1. RequestVotes([q EXCEPT !.at = "check"])
    BY <1>1 DEF RequestVotes, Request
  <2>2. QED
    BY <1>13, <2>1, RequestStepVotes DEF NodeRefuses
<1>14. CASE FoundInChain(r)
  <2>1. RequestVotes([q EXCEPT !.at = "store"])
    BY <1>1 DEF RequestVotes, Request
  <2>2. QED
    BY <1>14, <2>1, RequestStepVotes DEF FoundInChain
<1>15. CASE StoreBroadcasted(r)
  <2>1. /\ doc \in Doc /\ doc.id \in Proposals /\ WellVoted(doc)
        /\ doc.status = "accepted"
    BY <1>1, <1>15 DEF StoreBroadcasted, RequestOK, RequestVotes, Doc
  <2>2. WellVoted(Broadcasted(doc))
    BY <2>1, BroadcastedWellVoted
  <2>3. QED
    BY <1>15, <2>1, <2>2, IdleVotes, StoreStepVotes
       DEF StoreBroadcasted, Finish
<1>16. CASE Delete(r)
  <2>1. doc.id \in Proposals
    BY <1>1, <1>16 DEF Delete, RequestOK, Doc
  <2>2. VotesDecide'
    <3>1. /\ \A t \in Proposals : Exists(t)' => WellVoted(stored'[t])
          /\ \A t \in Proposals : \A d \in twins'[t] : WellVoted(d)
      <4>1. /\ \A t \in Proposals : Exists(t) => WellVoted(stored[t])
            /\ \A t \in Proposals : \A d \in twins[t] : WellVoted(d)
        BY VotesDecideByDoc DEF VotesInv
      <4>2. CASE twins[doc.id] = {}
        BY <1>16, <2>1, <4>1, <4>2 DEF Delete, TypeOK, Exists
      <4>3. CASE twins[doc.id] # {}
        <5>1. PICK d \in twins[doc.id] :
                 /\ stored' = [stored EXCEPT ![doc.id] = d]
                 /\ twins' = [twins EXCEPT ![doc.id] = @ \ {d}]
          BY <1>16, <4>3 DEF Delete
        <5>2. QED
          BY <2>1, <4>1, <5>1 DEF TypeOK, Exists
      <4>4. QED
        BY <4>2, <4>3
    <3>2. QED
      BY <3>1 DEF VotesDecide, AllDocs, WellVoted
  <2>3. \A p \in Requests : RequestVotes(req'[p])
    BY <1>16, IdleVotes DEF Delete, Finish, TypeOK, VotesInv
  <2>4. NetworkQuorum'
    BY <1>16 DEF Delete, VotesInv, NetworkQuorum
  <2>5. QED
    BY <2>2, <2>3, <2>4 DEF VotesInv
<1>17. CASE RequestFails(r)
  BY <1>17, IdleVotes, RequestStepVotes DEF RequestFails, Finish
<1>18. QED
  BY <1>3, <1>4, <1>5, <1>6, <1>7, <1>8, <1>9, <1>10, <1>11, <1>12, <1>13,
     <1>14, <1>15, <1>16, <1>17 DEF Proceed

LEMMA InitVotes ==
  ASSUME Init
  PROVE  VotesInv
BY IdleVotes DEF Init, VotesInv, VotesDecide, AllDocs, Exists, NetworkQuorum

LEMMA EnvironmentVotes ==
  ASSUME TypeOK, VotesInv, Environment
  PROVE  VotesInv'
<1>1. ASSUME NEW r \in Requests, Crash(r)
      PROVE  VotesInv'
  BY <1>1, IdleVotes, RequestStepVotes DEF Crash
<1>2. ASSUME UNCHANGED <<stored, twins, net, req>>
      PROVE  VotesInv'
  BY <1>2 DEF VotesInv, VotesDecide, AllDocs, Exists, NetworkQuorum
<1>3. ASSUME NEW tx \in seen, MonitorSettles(tx)
      PROVE  VotesInv'
  <2> DEFINE t == tx.id
  <2>1. t \in Proposals
    BY DEF TypeOK, Tx
  <2>2. stored[t] \in Doc /\ WellVoted(stored[t]) /\ stored[t].status = "accepted"
    BY <1>3, <2>1, VotesDecideByDoc
       DEF MonitorSettles, VotesInv, TypeOK, Exists
  <2>3. WellVoted(Broadcasted(stored[t]))
    BY <2>2, BroadcastedWellVoted
  <2>4. /\ \A u \in Proposals : Exists(u) => WellVoted(stored[u])
        /\ \A u \in Proposals : \A d \in twins[u] : WellVoted(d)
    BY VotesDecideByDoc DEF VotesInv
  <2>5. /\ \A u \in Proposals : Exists(u)' => WellVoted(stored'[u])
        /\ \A u \in Proposals : \A d \in twins'[u] : WellVoted(d)
    BY <1>3, <2>1, <2>3, <2>4 DEF MonitorSettles, TypeOK, Exists
  <2>6. VotesDecide'
    BY <2>5 DEF VotesDecide, AllDocs, WellVoted
  <2>7. QED
    BY <1>3, <2>6 DEF MonitorSettles, VotesInv, NetworkQuorum
<1>4. QED
  BY <1>1, <1>2, <1>3
     DEF Environment, FindExpiredLock, DeleteExpiredLock, Age,
         ExplorerIndexes, FallsBehind

LEMMA VotesStep ==
  ASSUME TypeOK, VotesInv, [Next]_vars
  PROVE  VotesInv'
<1>1. CASE UNCHANGED vars
  BY <1>1 DEF vars, VotesInv, VotesDecide, AllDocs, Exists, NetworkQuorum
<1>2. QED
  BY <1>1, CallVotes, ProceedVotes, EnvironmentVotes DEF Next

\* The quotas leave no tie: n votes that reach neither of them would need
\* n <= (m - 1) + (n - m).
LEMMA PendingHasVoter ==
  ASSUME NEW doc \in Doc, WellVoted(doc), doc.status = "pending"
  PROVE  \E c \in Copayers : ~HasVoted(doc, c)
<1> DEFINE A == Votes(doc, "accept")
           R == Votes(doc, "reject")
           D == DOMAIN doc.actions
           f == [i \in D |-> doc.actions[i].copayer]
<1>1. SUFFICES ASSUME \A c \in Copayers : HasVoted(doc, c)
               PROVE  FALSE
  OBVIOUS
<1>2. doc.actions \in Seq(Action) /\ D = 1 .. Len(doc.actions)
  BY DEF Doc
<1>3. \A i \in D : doc.actions[i] \in Action
  BY <1>2
<1>4. D = A \cup R /\ A \cap R = {}
  BY <1>3 DEF Votes, Action
<1>5. /\ IsFiniteSet(D)
      /\ Cardinality(D) = Cardinality(A) + Cardinality(R)
  <2>1. /\ IsFiniteSet(A) /\ Cardinality(A) \in Nat
        /\ IsFiniteSet(R) /\ Cardinality(R) \in Nat
    BY VotesFinite
  <2>2. Cardinality(A \cap R) = 0
    BY <1>4, FS_EmptySet
  <2>3. IsFiniteSet(A \cup R) /\ Cardinality(A \cup R) =
               Cardinality(A) + Cardinality(R) - Cardinality(A \cap R)
    BY <2>1, FS_Union
  <2>4. QED
    BY <1>4, <2>1, <2>2, <2>3
<1>6. f \in Surjection(D, Copayers)
  <2>1. f \in [D -> Copayers]
    BY <1>3 DEF Action
  <2>2. \A c \in Copayers : \E i \in D : f[i] = c
    BY <1>1 DEF HasVoted
  <2>3. QED
    BY <2>1, <2>2 DEF Surjection
<1>7. Cardinality(Copayers) <= Cardinality(D)
  BY <1>5, <1>6, FS_Surjection
<1>8. /\ ~(Cardinality(A) >= RequiredSignatures)
      /\ ~(Cardinality(R) >= RequiredRejections)
  BY DEF WellVoted, StatusFromVotes, IsAccepted, IsRejected
<1>9. Cardinality(A) \in Nat /\ Cardinality(R) \in Nat
  BY VotesFinite
<1>10. QED
  BY <1>5, <1>7, <1>8, <1>9, Quotas

-----------------------------------------------------------------------------

LEMMA VotesInvAlways == Spec => []VotesInv
<1>1. Init => VotesInv
  BY InitVotes
<1>2. TypeOK /\ VotesInv /\ [Next]_vars => VotesInv'
  BY VotesStep
<1>3. QED
  BY <1>1, <1>2, TypeCorrect, PTL DEF Spec

\* Whatever signTx, rejectTx, broadcastTx, getPendingTxs and the blockchain
\* monitor overwrite, every stored document counts each copayer once and has
\* the status that _updateStatus derives from its votes.
THEOREM VotesDecideAlways == Spec => []VotesDecide
<1>1. VotesInv => VotesDecide
  BY DEF VotesInv
<1>2. QED
  BY <1>1, VotesInvAlways, PTL

\* Every transaction that broadcastTx sends carries the signatures of exactly
\* m copayers.
THEOREM NetworkQuorumAlways == Spec => []NetworkQuorum
<1>1. VotesInv => NetworkQuorum
  BY DEF VotesInv
<1>2. QED
  BY <1>1, VotesInvAlways, PTL

\* requiredRejections = min(m, n - m + 1) never leaves a proposal pending
\* with everybody's vote cast.
THEOREM NeverTiedAlways == Spec => []NeverTied
<1>1. TypeOK /\ VotesInv => NeverTied
  <2>1. ASSUME TypeOK, NEW doc \in AllDocs
        PROVE  doc \in Doc
    BY <2>1 DEF TypeOK, AllDocs, Exists
  <2>2. ASSUME VotesInv, NEW doc \in AllDocs
        PROVE  WellVoted(doc)
    BY <2>2 DEF VotesInv, VotesDecide, WellVoted
  <2>3. QED
    BY <2>1, <2>2, PendingHasVoter DEF NeverTied
<1>2. QED
  BY <1>1, TypeCorrect, VotesInvAlways, PTL

-----------------------------------------------------------------------------
(***************************************************************************)
(* The outputs of a wallet are reserved by one proposal at a time: what    *)
(* createTx and publishTx read before they write is still right when they  *)
(* write, because only the owner of the wallet's lock makes a proposal     *)
(* pending, and the other calls only move a proposal forward.  This holds  *)
(* until one of them overwrites a document it has not seen, or the late    *)
(* delete of a clearExpiredLock takes the lock from its owner.  The last   *)
(* part is about the decisions, which stand until something is overwritten.*)
(***************************************************************************)

\* docs and gone stand for stored and past before a step or after it.
Pends(docs, t) == docs[t] # None /\ IsPending(docs[t])

Lives(docs, gone, t) ==
    /\ docs[t] # None
    /\ \/ IsPending(docs[t])
       \/ docs[t].status = "broadcasted" /\ docs[t] \notin gone

Disjoint(docs) ==
    \A t, u \in Proposals :
        t # u /\ Pends(docs, t) /\ Pends(docs, u)
            => docs[t].inputs \cap docs[u].inputs = {}

\* Every pending proposal is in the list that getPendingTxs has read, or has
\* been settled since.
Covered(q, docs) ==
    \A t \in Proposals :
        Pends(docs, t) =>
            \E d \in q.list : d.id = t /\ d.inputs = docs[t].inputs

\* No output taken for free is used by a proposal.
Fresh(q, docs, gone) ==
    \A t \in Proposals :
        Lives(docs, gone, t) => q.utxos \cap docs[t].inputs = {}

RequestReserves(q, docs, gone) ==
    q.op \in {"create", "publish"} =>
        /\ q.at = "settle" => Covered(q, docs)
        /\ q.at = "store" => Fresh(q, docs, gone)

Reserved(docs, gone, requests) ==
    /\ Disjoint(docs)
    /\ \A r \in Requests : RequestReserves(requests[r], docs, gone)

\* createTx, publishTx and removePendingTx run one at a time.
LockOwner == \A r \in Requests : req[r].op \in LockedOps => lock = r

TwinsBroadcasted ==
    \A t \in Proposals : \A d \in twins[t] : d.status = "broadcasted"

\* What holds as long as the lock keeps its owner.
OrderInv ==
    /\ LockOwner
    /\ TwinsBroadcasted
    /\ overwritten \/ Reserved(stored, past, req)

ReservationInv == TwinsBroadcasted /\ (robbed \/ OrderInv)

-----------------------------------------------------------------------------
(* Steps that make no proposal pending                                     *)

FewerPend(docs, new) ==
    \A t \in Proposals :
        Pends(new, t) => Pends(docs, t) /\ new[t].inputs = docs[t].inputs

FewerLive(docs, gone, new, left) ==
    \A t \in Proposals :
        Lives(new, left, t) => Lives(docs, gone, t) /\ new[t].inputs = docs[t].inputs

LEMMA DisjointKept ==
  ASSUME NEW docs, NEW new, FewerPend(docs, new), Disjoint(docs)
  PROVE  Disjoint(new)
BY DEF FewerPend, Disjoint

LEMMA RequestReservesKept ==
  ASSUME NEW docs, NEW gone, NEW new, NEW left, FewerPend(docs, new),
         FewerLive(docs, gone, new, left),
         NEW q, RequestReserves(q, docs, gone)
  PROVE  RequestReserves(q, new, left)
BY DEF FewerPend, FewerLive, RequestReserves, Covered, Fresh

\* The step of one request that leaves the others' grounds alone.
LEMMA ReservedKept ==
  ASSUME NEW docs, NEW gone, NEW new, NEW left, FewerPend(docs, new),
         FewerLive(docs, gone, new, left),
         NEW requests \in [Requests -> Request],
         Reserved(docs, gone, requests),
         NEW r \in Requests, NEW q, RequestReserves(q, new, left)
  PROVE  Reserved(new, left, [requests EXCEPT ![r] = q])
<1>1. Disjoint(new)
  BY DisjointKept DEF Reserved
<1>2. \A p \in Requests : RequestReserves(requests[p], new, left)
  BY RequestReservesKept DEF Reserved
<1>3. QED
  BY <1>1, <1>2 DEF Reserved

LEMMA SameDocs ==
  ASSUME NEW docs, NEW gone
  PROVE  FewerPend(docs, docs) /\ FewerLive(docs, gone, docs, gone)
BY DEF FewerPend, FewerLive

\* A write that overwrites nothing and neither changes the inputs nor brings
\* a proposal back.
LEMMA StoreKeeps ==
  ASSUME TypeOK, NEW t \in Proposals, NEW new, NEW read,
         Store(t, new, read), ~overwritten', new.id = t,
         IsPending(new) \/ new.status = "broadcasted" =>
             read # None /\ IsPending(read) /\ new.inputs = read.inputs
  PROVE  /\ ~overwritten
         /\ FewerPend(stored, stored')
         /\ FewerLive(stored, past, stored', past')
<1>1. /\ stored' = [stored EXCEPT ![t] = new]
      /\ ~overwritten
      /\ stored[t] = read
      /\ stored \in [Proposals -> Doc \cup {None}]
      /\ past' = past \ {new}
  BY DEF Store, TypeOK
<1>2. ASSUME NEW u \in Proposals, u # t, stored[u] # None
      PROVE  stored[u] # new
  BY <1>2 DEF TypeOK, Exists
<1>3. QED
  BY <1>1, <1>2 DEF FewerPend, FewerLive, Pends, Lives

LEMMA IdleReserves == \A docs, gone : RequestReserves(Idle, docs, gone)
BY DEF RequestReserves, Idle, Waiting

-----------------------------------------------------------------------------
(* The lock                                                                *)

LEMMA LockedAlone ==
  ASSUME LockOwner, NEW r \in Requests, NEW p \in Requests, p # r,
         req[r].op \in LockedOps
  PROVE  req[p].op \notin LockedOps
BY DEF LockOwner

LEMMA LockOwnerMoves ==
  ASSUME TypeOK, LockOwner, NEW r \in Requests, NEW q,
         req' = [req EXCEPT ![r] = q], lock' = lock,
         q.op = req[r].op \/ q.op \notin LockedOps
  PROVE  LockOwner'
BY DEF LockOwner, TypeOK

LEMMA LockOwnerBegins ==
  ASSUME TypeOK, LockOwner, NEW r \in Requests, NEW q,
         req' = [req EXCEPT ![r] = q], lock = Free, lock' = r
  PROVE  LockOwner'
BY LockValuesAssumption DEF LockOwner, TypeOK

LEMMA LockOwnerEnds ==
  ASSUME TypeOK, LockOwner, NEW r \in Requests,
         req' = [req EXCEPT ![r] = Idle],
         req[r].op \notin LockedOps => lock' = lock
  PROVE  LockOwner'
BY DEF LockOwner, TypeOK, Idle, Waiting, LockedOps

LEMMA LockOwnerDies ==
  ASSUME TypeOK, LockOwner, NEW r \in Requests,
         req' = [req EXCEPT ![r] = Idle],
         lock' = IF lock = r THEN Orphan ELSE lock
  PROVE  LockOwner'
BY DEF LockOwner, TypeOK, Idle, Waiting, LockedOps

LEMMA LockOwnerFinishes ==
  ASSUME TypeOK, LockOwner, NEW r \in Requests, Finish(r)
  PROVE  LockOwner'
BY LockOwnerEnds DEF Finish

-----------------------------------------------------------------------------
(* Steps of one request                                                    *)

LEMMA QuietStep ==
  ASSUME TypeOK, OrderInv, NEW r \in Requests, NEW q,
         ~overwritten => RequestReserves(q, stored, past),
         req' = [req EXCEPT ![r] = q], LockOwner',
         UNCHANGED <<stored, twins, past, overwritten>>
  PROVE  OrderInv'
<1>1. req \in [Requests -> Request]
  BY DEF TypeOK
<1>2. TwinsBroadcasted'
  BY DEF OrderInv, TwinsBroadcasted
<1>3. ~overwritten => Reserved(stored', past', req')
  BY <1>1, SameDocs, ReservedKept DEF OrderInv
<1>4. QED
  BY <1>2, <1>3 DEF OrderInv

LEMMA StoreStep ==
  ASSUME TypeOK, OrderInv, NEW r \in Requests, NEW q,
         NEW t \in Proposals, NEW new, NEW read, Store(t, new, read),
         new.id = t,
         IsPending(new) \/ new.status = "broadcasted" =>
             read # None /\ IsPending(read) /\ new.inputs = read.inputs,
         ~overwritten' => RequestReserves(q, stored', past'),
         req' = [req EXCEPT ![r] = q], LockOwner', UNCHANGED twins
  PROVE  OrderInv'
<1>1. req \in [Requests -> Request]
  BY DEF TypeOK
<1>2. TwinsBroadcasted'
  BY DEF OrderInv, TwinsBroadcasted
<1>3. ASSUME ~overwritten'
      PROVE  Reserved(stored', past', req')
  <2>1. /\ ~overwritten
        /\ FewerPend(stored, stored')
        /\ FewerLive(stored, past, stored', past')
    BY <1>3, StoreKeeps
  <2>2. Reserved(stored, past, req)
    BY <2>1 DEF OrderInv
  <2>3. QED
    BY <1>1, <1>3, <2>1, <2>2, ReservedKept
<1>4. QED
  BY <1>2, <1>3 DEF OrderInv

LEMMA BeginReserves ==
  ASSUME TypeOK, OrderInv, NEW r \in Requests, NEW op, NEW c, NEW doc,
         NEW at, Begin(r, op, c, doc, at), at \notin {"settle", "store"}
             \/ op \notin {"create", "publish"},
         \/ op \in LockedOps /\ lock = Free /\ lock' = r
         \/ op \notin LockedOps /\ lock' = lock,
         UNCHANGED <<stored, twins, past, overwritten>>
  PROVE  OrderInv'
<1> DEFINE q == Waiting(at, op, c, doc)
<1>1. req' = [req EXCEPT ![r] = q]
  BY DEF Begin
<1>2. q.op = op /\ q.at = at
  BY DEF Waiting
<1> HIDE DEF q
<1>3. LockOwner'
  BY <1>1, <1>2, LockOwnerMoves, LockOwnerBegins DEF OrderInv
<1>4. RequestReserves(q, stored, past)
  BY <1>2 DEF RequestReserves
<1>5. QED
  BY <1>1, <1>3, <1>4, QuietStep

LEMMA CallReserves ==
  ASSUME TypeOK, OrderInv, NEW r \in Requests, Call(r)
  PROVE  OrderInv'
<1>1. ASSUME NEW c \in Copayers, NEW t \in Proposals, StartCreate(r, c, t)
      PROVE  OrderInv'
  BY <1>1, BeginReserves DEF StartCreate, LockedOps
<1>2. ASSUME NEW c \in Copayers, NEW t \in Proposals, StartSign(r, c, t)
      PROVE  OrderInv'
  BY <1>2, BeginReserves DEF StartSign, LockedOps
<1>3. ASSUME NEW c \in Copayers, NEW t \in Proposals, StartReject(r, c, t)
      PROVE  OrderInv'
  BY <1>3, BeginReserves DEF StartReject, LockedOps
<1>4. ASSUME NEW c \in Copayers, NEW t \in Proposals, StartRemove(r, c, t)
      PROVE  OrderInv'
  BY <1>4, BeginReserves DEF StartRemove, LockedOps
<1>5. ASSUME NEW t \in Proposals, StartPublish(r, t)
      PROVE  OrderInv'
  BY <1>5, BeginReserves DEF StartPublish, LockedOps
<1>6. ASSUME NEW t \in Proposals, StartBroadcast(r, t)
      PROVE  OrderInv'
  BY <1>6, BeginReserves DEF StartBroadcast, LockedOps
<1>7. CASE StartList(r)
  BY <1>7, BeginReserves DEF StartList, LockedOps
<1>8. QED
  BY <1>1, <1>2, <1>3, <1>4, <1>5, <1>6, <1>7 DEF Call

LEMMA EnvironmentReserves ==
  ASSUME TypeOK, OrderInv, Environment, ~robbed'
  PROVE  OrderInv'
<1>1. ASSUME NEW r \in Requests, Crash(r)
      PROVE  OrderInv'
  <2>1. LockOwner'
    BY <1>1, LockOwnerDies DEF Crash, OrderInv
  <2>2. QED
    BY <1>1, <2>1, IdleReserves, QuietStep DEF Crash
<1>2. ASSUME DeleteExpiredLock, ~robbed'
      PROVE  OrderInv'
  <2>1. lock \notin Requests
    BY <1>2 DEF DeleteExpiredLock
  <2>2. LockOwner'
    BY <1>2, <2>1 DEF DeleteExpiredLock, OrderInv, LockOwner
  <2>3. QED
    BY <1>2, <2>2 DEF DeleteExpiredLock, OrderInv, TwinsBroadcasted
<1>3. ASSUME UNCHANGED <<stored, twins, lock, past, req, overwritten>>
      PROVE  OrderInv'
  BY <1>3 DEF OrderInv, LockOwner, TwinsBroadcasted
<1>4. ASSUME NEW tx \in seen, MonitorSettles(tx)
      PROVE  OrderInv'
  <2>1. tx.id \in Proposals
    BY DEF TypeOK, Tx
  <2>2. stored[tx.id] \in Doc
    BY <1>4, <2>1 DEF MonitorSettles, TypeOK, Exists
  <2>3. Broadcasted(stored[tx.id]).status = "broadcasted"
    BY <2>2 DEF Broadcasted, Doc
  <2>4. TwinsBroadcasted'
    BY <1>4, <2>1, <2>3
       DEF MonitorSettles, OrderInv, TwinsBroadcasted, TypeOK
  <2>5. FewerLive(stored, past, stored', past')
    <3>1. stored[tx.id].status = "accepted"
      BY <1>4 DEF MonitorSettles
    <3>2. /\ stored' = stored
          /\ past' = past \ {Broadcasted(stored[tx.id])}
      BY <1>4 DEF MonitorSettles
    <3>3. ASSUME NEW t \in Proposals, t # tx.id, stored[t] # None
          PROVE  stored[t] # Broadcasted(stored[tx.id])
      <4>1. Broadcasted(stored[tx.id]).id = tx.id /\ stored[t].id = t
        BY <1>4, <2>1, <2>2, <3>3, BroadcastedType
           DEF MonitorSettles, TypeOK, Exists
      <4>2. QED
        BY <3>3, <4>1
    <3>4. IsPending(stored[tx.id])
      BY <3>1 DEF IsPending
    <3>5. QED
      BY <2>1, <3>2, <3>3, <3>4 DEF FewerLive, Lives
  <2>6. overwritten \/ Reserved(stored', past', req')
    BY <1>4, <2>5, SameDocs, RequestReservesKept
       DEF MonitorSettles, OrderInv, Reserved
  <2>7. QED
    BY <1>4, <2>4, <2>6 DEF MonitorSettles, OrderInv, LockOwner
<1>5. ASSUME NEW doc \in BroadcastedDocs, FallsBehind(doc)
      PROVE  OrderInv'
  <2>1. FewerLive(stored, past, stored', past')
    BY <1>5 DEF FallsBehind, FewerLive, Lives
  <2>2. overwritten \/ Reserved(stored', past', req')
    BY <1>5, <2>1, SameDocs, RequestReservesKept
       DEF FallsBehind, OrderInv, Reserved
  <2>3. QED
    BY <1>5, <2>2 DEF FallsBehind, OrderInv, LockOwner, TwinsBroadcasted
<1>6. QED
  BY <1>1, <1>2, <1>3, <1>4, <1>5
     DEF Environment, Age, ExplorerIndexes, FindExpiredLock

\* signTx, rejectTx and the broadcasts leave the id and the inputs as they are.
LEMMA SameInputs ==
  ASSUME NEW doc \in Doc, NEW c, NEW type
  PROVE  /\ WithAction(doc, c, type).inputs = doc.inputs
         /\ Signed(doc, c).inputs = doc.inputs
         /\ Broadcasted(doc).inputs = doc.inputs
         /\ WithAction(doc, c, type).id = doc.id
         /\ Signed(doc, c).id = doc.id
         /\ Broadcasted(doc).id = doc.id
BY DEF WithAction, Signed, Broadcasted, UpdateStatus, Voted, Doc

\* The requests that hold no lock write what they have read, moved forward.
LEMMA UnlockedStoreReserves ==
  ASSUME TypeOK, OrderInv, NEW r \in Requests, NEW new,
         NEW read \in Doc, IsPending(read), new.inputs = read.inputs,
         NEW t \in Proposals, Store(t, new, read), new.id = t, Finish(r),
         UNCHANGED twins
  PROVE  OrderInv'
<1>1. read # None
  BY NoneAssumption
<1>2. LockOwner'
  BY LockOwnerFinishes DEF OrderInv
<1>3. req' = [req EXCEPT ![r] = Idle]
  BY DEF Finish
<1>4. QED
  BY <1>1, <1>2, <1>3, IdleReserves, StoreStep

LEMMA ProceedReserves ==
  ASSUME TypeOK, VotesInv, OrderInv, NEW r \in Requests, Proceed(r)
  PROVE  OrderInv'
<1> DEFINE q == req[r]
           doc == q.doc
<1>1. q \in Request /\ RequestOK(q) /\ RequestVotes(q)
  BY DEF TypeOK, VotesInv
<1>2. LockOwner
  BY DEF OrderInv
<1>3. CASE ReadUtxos(r)
  <2> DEFINE new == [q EXCEPT !.utxos = Utxos \ InputsOf(seen), !.at = "pending"]
  <2>1. new.op = q.op /\ new.at = "pending" /\ req' = [req EXCEPT ![r] = new]
    BY <1>1, <1>3 DEF ReadUtxos, Request
  <2> HIDE DEF new
  <2>2. RequestReserves(new, stored, past)
    BY <2>1 DEF RequestReserves
  <2>3. LockOwner'
    BY <1>2, <1>3, <2>1, LockOwnerMoves DEF ReadUtxos
  <2>4. QED
    BY <1>3, <2>1, <2>2, <2>3, QuietStep DEF ReadUtxos
<1>4. CASE ReadPending(r)
  <2> DEFINE new == [q EXCEPT !.list = PendingDocs,
                        !.todo = {d \in PendingDocs : d.status = "accepted"},
                        !.at = "settle"]
  <2>1. /\ new.op = q.op /\ new.at = "settle" /\ new.list = PendingDocs
        /\ req' = [req EXCEPT ![r] = new]
    BY <1>1, <1>4 DEF ReadPending, Request
  <2> HIDE DEF new
  <2>2. ASSUME NEW t \in Proposals, Pends(stored, t)
        PROVE  stored[t] \in PendingDocs /\ stored[t].id = t
    BY <2>2 DEF Pends, PendingDocs, AllDocs, Exists, TypeOK
  <2>3. RequestReserves(new, stored, past)
    BY <2>1, <2>2 DEF RequestReserves, Covered
  <2>4. LockOwner'
    BY <1>2, <1>4, <2>1, LockOwnerMoves DEF ReadPending
  <2>5. QED
    BY <1>4, <2>1, <2>3, <2>4, QuietStep DEF ReadPending
<1>5. ASSUME NEW d \in q.todo, SettleThirdParty(r, d)
      PROVE  OrderInv'
  <2>1. d \in Doc /\ d.id \in Proposals /\ d.status = "accepted"
    BY <1>1 DEF Request, RequestVotes, Doc
  <2>2. d # None /\ IsPending(d)
    BY <2>1, NoneAssumption DEF IsPending
  <2>3. q.at = "settle"
    BY <1>5 DEF SettleThirdParty
  <2>4. ~overwritten => RequestReserves(q, stored, past)
    BY DEF OrderInv, Reserved
  <2>5. CASE TxOf(d) \in seen
    <3> DEFINE new == [q EXCEPT !.list = @ \ {d}, !.todo = @ \ {d}]
    <3>1. /\ new.op = q.op /\ new.at = q.at /\ new.list = q.list \ {d}
          /\ req' = [req EXCEPT ![r] = new]
      BY <1>1, <1>5, <2>5 DEF SettleThirdParty, Request
    <3> HIDE DEF new
    <3>2. LockOwner'
      BY <1>2, <1>5, <3>1, LockOwnerMoves DEF SettleThirdParty
    <3>3. Store(d.id, Broadcasted(d), d) /\ UNCHANGED twins
      BY <1>5, <2>5 DEF SettleThirdParty
    <3>4. /\ Broadcasted(d).status = "broadcasted"
          /\ Broadcasted(d).inputs = d.inputs
          /\ Broadcasted(d).id = d.id
      BY <2>1 DEF Broadcasted, Doc
    <3>5. ASSUME ~overwritten'
          PROVE  RequestReserves(new, stored', past')
      <4>1. /\ ~overwritten
            /\ FewerPend(stored, stored')
        BY <2>1, <2>2, <3>3, <3>4, <3>5, StoreKeeps
      <4>2. stored' = [stored EXCEPT ![d.id] = Broadcasted(d)]
        BY <3>3 DEF Store
      <4>3. ~Pends(stored', d.id)
        BY <2>1, <3>4, <4>2 DEF Pends, IsPending, TypeOK
      <4>4. ASSUME NEW t \in Proposals, Pends(stored', t),
                   q.op \in {"create", "publish"}
            PROVE  \E e \in new.list : e.id = t /\ e.inputs = stored'[t].inputs
        <5>1. Pends(stored, t) /\ stored'[t].inputs = stored[t].inputs
          BY <4>1, <4>4 DEF FewerPend
        <5>2. PICK e \in q.list : e.id = t /\ e.inputs = stored[t].inputs
          BY <2>3, <2>4, <4>1, <4>4, <5>1 DEF RequestReserves, Covered
        <5>3. e # d
          BY <4>3, <4>4, <5>2
        <5>4. QED
          BY <3>1, <5>1, <5>2, <5>3
      <4>5. QED
        BY <2>3, <3>1, <4>4 DEF RequestReserves, Covered
    <3>6. QED
      BY <2>1, <2>2, <3>1, <3>2, <3>3, <3>4, <3>5, StoreStep
  <2>6. CASE TxOf(d) \notin seen
    <3> DEFINE new == [q EXCEPT !.todo = @ \ {d}]
    <3>1. /\ new.op = q.op /\ new.at = q.at /\ new.list = q.list
          /\ new.utxos = q.utxos /\ req' = [req EXCEPT ![r] = new]
      BY <1>1, <1>5, <2>6 DEF SettleThirdParty, Request
    <3> HIDE DEF new
    <3>2. LockOwner'
      BY <1>2, <1>5, <3>1, LockOwnerMoves DEF SettleThirdParty
    <3>3. ~overwritten => RequestReserves(new, stored, past)
      BY <2>4, <3>1 DEF RequestReserves, Covered, Fresh
    <3>4. QED
      BY <1>5, <2>6, <3>1, <3>2, <3>3, QuietStep DEF SettleThirdParty
  <2>7. QED
    BY <2>5, <2>6
<1>6. CASE AnswerList(r) \/ RequestFails(r)
  <2>1. req' = [req EXCEPT ![r] = Idle] /\ LockOwner'
    BY <1>2, <1>6, LockOwnerFinishes DEF AnswerList, RequestFails, Finish
  <2>2. QED
    BY <1>6, <2>1, IdleReserves, QuietStep DEF AnswerList, RequestFails
<1>7. CASE ReadBroadcasted(r)
  <2> DEFINE new == [q EXCEPT
                !.utxos = @ \ InputsOf(q.list \cup (BroadcastedDocs \ past)),
                !.list = {}, !.at = "store"]
  <2>1. /\ new.op = q.op /\ new.at = "store"
        /\ new.utxos =
              q.utxos \ InputsOf(q.list \cup (BroadcastedDocs \ past))
        /\ req' = [req EXCEPT ![r] = new]
        /\ q.at = "settle" /\ q.op \in {"create", "publish"}
    BY <1>1, <1>7 DEF ReadBroadcasted, Request
  <2> HIDE DEF new
  <2>2. ASSUME ~overwritten, NEW t \in Proposals, Lives(stored, past, t)
        PROVE  new.utxos \cap stored[t].inputs = {}
    <3>1. CASE IsPending(stored[t])
      <4>1. Covered(q, stored)
        BY <2>1, <2>2 DEF OrderInv, Reserved, RequestReserves
      <4>2. PICK d \in q.list : d.inputs = stored[t].inputs
        BY <2>2, <3>1, <4>1 DEF Covered, Pends, Lives
      <4>3. stored[t].inputs
                \subseteq InputsOf(q.list \cup (BroadcastedDocs \ past))
        BY <4>2 DEF InputsOf
      <4>4. QED
        BY <2>1, <4>3
    <3>2. CASE stored[t].status = "broadcasted" /\ stored[t] \notin past
      <4>1. stored[t] \in BroadcastedDocs \ past
        BY <2>2, <3>2 DEF Lives, BroadcastedDocs, AllDocs, Exists
      <4>2. stored[t].inputs
                \subseteq InputsOf(q.list \cup (BroadcastedDocs \ past))
        BY <4>1 DEF InputsOf
      <4>3. QED
        BY <2>1, <4>2
    <3>3. QED
      BY <2>2, <3>1, <3>2 DEF Lives
  <2>3. ~overwritten => RequestReserves(new, stored, past)
    BY <2>1, <2>2 DEF RequestReserves, Fresh
  <2>4. LockOwner'
    BY <1>2, <1>7, <2>1, LockOwnerMoves DEF ReadBroadcasted
  <2>5. QED
    BY <1>7, <2>1, <2>3, <2>4, QuietStep DEF ReadBroadcasted
<1>8. CASE StoreGiven(r) \/ StoreNew(r)
  <2>1. doc \in Doc /\ doc.id \in Proposals /\ doc.status = "temporary"
    BY <1>1, <1>8 DEF StoreGiven, StoreNew, RequestOK, RequestVotes, Doc
  <2>2. PICK chosen \in SUBSET Utxos :
           /\ Store(doc.id, [doc EXCEPT !.inputs = chosen], None)
           /\ Finish(r)
           /\ UNCHANGED twins
    BY <1>1, <1>8 DEF StoreGiven, StoreNew, StoreChosen, Request
  <2>3. /\ [doc EXCEPT !.inputs = chosen].status = "temporary"
        /\ [doc EXCEPT !.inputs = chosen].id = doc.id
    BY <2>1 DEF Doc
  <2>4. req' = [req EXCEPT ![r] = Idle] /\ LockOwner'
    BY <1>2, <2>2, LockOwnerFinishes DEF Finish
  <2>5. QED
    BY <2>1, <2>2, <2>3, <2>4, IdleReserves, StoreStep DEF IsPending
<1>9. CASE StorePublished(r)
  <2> DEFINE new == [doc EXCEPT !.status = "pending"]
  <2>1. /\ doc \in Doc /\ doc.id \in Proposals
        /\ q.at = "store" /\ q.op = "publish"
        /\ Store(doc.id, new, doc)
        /\ req' = [req EXCEPT ![r] = Idle]
        /\ UNCHANGED twins
    BY <1>1, <1>9 DEF StorePublished, Finish, RequestOK, Doc
  <2>2. new.inputs \subseteq q.utxos
    BY <1>9, <2>1 DEF StorePublished, Doc
  <2>3. stored' = [stored EXCEPT ![doc.id] = new]
    BY <2>1 DEF Store
  <2> HIDE DEF new
  <2>4. LockOwner'
    BY <1>2, <1>9, LockOwnerFinishes DEF StorePublished
  <2>5. \A p \in Requests : RequestReserves(req'[p], stored', past')
    <3>1. ASSUME NEW p \in Requests, p # r
          PROVE  req'[p].op \notin LockedOps
      BY <1>2, <2>1, <3>1, LockedAlone DEF LockedOps, TypeOK
    <3>2. req'[r] = Idle
      BY <2>1 DEF TypeOK
    <3>3. QED
      BY <3>1, <3>2, IdleReserves DEF RequestReserves, LockedOps
  <2>6. ASSUME ~overwritten'
        PROVE  Disjoint(stored')
    <3>1. ~overwritten
      BY <2>1, <2>6 DEF Store
    <3>2. Disjoint(stored) /\ Fresh(q, stored, past)
      BY <2>1, <3>1 DEF OrderInv, Reserved, RequestReserves
    <3>3. ASSUME NEW u \in Proposals, u # doc.id, Pends(stored', u)
          PROVE  /\ Pends(stored, u)
                 /\ stored'[u] = stored[u]
                 /\ new.inputs \cap stored[u].inputs = {}
      <4>1. stored'[u] = stored[u]
        BY <2>3, <3>3 DEF TypeOK
      <4>2. Pends(stored, u) /\ Lives(stored, past, u)
        BY <3>3, <4>1 DEF Pends, Lives
      <4>3. QED
        BY <2>2, <3>2, <4>1, <4>2 DEF Fresh
    <3>4. stored'[doc.id] = new
      BY <2>1, <2>3 DEF TypeOK
    <3>5. QED
      BY <3>2, <3>3, <3>4 DEF Disjoint
  <2>7. TwinsBroadcasted'
    BY <2>1 DEF OrderInv, TwinsBroadcasted
  <2>8. QED
    BY <2>4, <2>5, <2>6, <2>7 DEF OrderInv, Reserved
<1>10. CASE StoreSigned(r) \/ StoreRejected(r)
  <2>1. doc \in Doc /\ doc.id \in Proposals /\ doc.status = "pending"
    BY <1>1, <1>10 DEF StoreSigned, StoreRejected, RequestOK, RequestVotes, Doc
  <2>2. IsPending(doc)
    BY <2>1 DEF IsPending
  <2>3. QED
    BY <1>10, <2>1, <2>2, SameInputs, UnlockedStoreReserves
       DEF StoreSigned, StoreRejected
<1>11. ASSUME NEW next \in Waits, req' = [req EXCEPT ![r].at = next],
              q.op = "broadcast",
              UNCHANGED <<stored, twins, lock, past, overwritten>>
       PROVE  OrderInv'
  <2> DEFINE new == [q EXCEPT !.at = next]
  <2>1. new.op = "broadcast" /\ req' = [req EXCEPT ![r] = new]
    BY <1>1, <1>11 DEF Request
  <2> HIDE DEF new
  <2>2. RequestReserves(new, stored, past)
    BY <2>1 DEF RequestReserves
  <2>3. LockOwner'
    BY <1>2, <1>11, <2>1, LockOwnerMoves
  <2>4. QED
    BY <1>11, <2>1, <2>2, <2>3, QuietStep
<1>12. CASE NodeAccepts(r)
  BY <1>1, <1>11, <1>12 DEF NodeAccepts, RequestOK, Waits
<1>13. CASE NodeRefuses(r) \/ FoundInChain(r)
  BY <1>1, <1>11, <1>13 DEF NodeRefuses, FoundInChain, RequestOK, Waits
<1>14. CASE StoreBroadcasted(r)
  <2>1. doc \in Doc /\ doc.id \in Proposals /\ doc.status = "accepted"
    BY <1>1, <1>14 DEF StoreBroadcasted, RequestOK, RequestVotes, Doc
  <2>2. IsPending(doc)
    BY <2>1 DEF IsPending
  <2>3. QED
    BY <1>14, <2>1, <2>2, SameInputs, UnlockedStoreReserves
       DEF StoreBroadcasted
<1>15. CASE Delete(r)
  <2>1. /\ q.op = "remove" /\ doc.id \in Proposals
        /\ req' = [req EXCEPT ![r] = Idle]
    BY <1>1, <1>15 DEF Delete, Finish, RequestOK, Doc
  <2>2. LockOwner'
    BY <1>2, <1>15, LockOwnerFinishes DEF Delete
  <2>3. \A p \in Requests : RequestReserves(req'[p], stored', past')
    <3>1. ASSUME NEW p \in Requests, p # r
          PROVE  req'[p].op \notin LockedOps
      BY <1>2, <2>1, <3>1, LockedAlone DEF LockedOps, TypeOK
    <3>2. req'[r] = Idle
      BY <2>1 DEF TypeOK
    <3>3. QED
      BY <3>1, <3>2, IdleReserves DEF RequestReserves, LockedOps
  <2>4. FewerPend(stored, stored') /\ TwinsBroadcasted'
    <3>1. CASE twins[doc.id] = {}
      BY <1>15, <2>1, <3>1
         DEF Delete, FewerPend, Pends, TypeOK, OrderInv, TwinsBroadcasted
    <3>2. CASE twins[doc.id] # {}
      <4>1. PICK d \in twins[doc.id] :
               /\ stored' = [stored EXCEPT ![doc.id] = d]
               /\ twins' = [twins EXCEPT ![doc.id] = @ \ {d}]
        BY <1>15, <3>2 DEF Delete
      <4>2. ~IsPending(d)
        BY <2>1 DEF OrderInv, TwinsBroadcasted, IsPending
      <4>3. FewerPend(stored, stored')
        BY <2>1, <4>1, <4>2 DEF FewerPend, Pends, TypeOK
      <4>4. TwinsBroadcasted'
        BY <2>1, <4>1 DEF OrderInv, TwinsBroadcasted, TypeOK
      <4>5. QED
        BY <4>3, <4>4
    <3>3. QED
      BY <3>1, <3>2
  <2>5. overwritten' = overwritten
    BY <1>15 DEF Delete
  <2>6. overwritten \/ Disjoint(stored')
    BY <2>4, DisjointKept DEF OrderInv, Reserved
  <2>7. QED
    BY <2>2, <2>3, <2>4, <2>5, <2>6 DEF OrderInv, Reserved
<1>16. QED
  BY <1>3, <1>4, <1>5, <1>6, <1>7, <1>8, <1>9, <1>10, <1>12, <1>13, <1>14,
     <1>15 DEF Proceed

-----------------------------------------------------------------------------

\* Only the monitor adds a document behind another, and only removePendingTx
\* takes one away: neither needs the lock.
LEMMA TwinsStep ==
  ASSUME TypeOK, TwinsBroadcasted, [Next]_vars
  PROVE  TwinsBroadcasted'
<1>1. CASE UNCHANGED twins
  BY <1>1 DEF TwinsBroadcasted
<1>2. ASSUME NEW r \in Requests, Delete(r)
      PROVE  TwinsBroadcasted'
  <2>1. \A t \in Proposals : twins'[t] \subseteq twins[t]
    BY <1>2 DEF Delete, TypeOK
  <2>2. QED
    BY <2>1 DEF TwinsBroadcasted
<1>3. ASSUME NEW tx \in seen, MonitorSettles(tx)
      PROVE  TwinsBroadcasted'
  <2>1. tx.id \in Proposals
    BY DEF TypeOK, Tx
  <2>2. stored[tx.id] \in Doc
    BY <1>3, <2>1 DEF MonitorSettles, TypeOK, Exists
  <2>3. Broadcasted(stored[tx.id]).status = "broadcasted"
    BY <2>2 DEF Broadcasted, Doc
  <2>4. QED
    BY <1>3, <2>1, <2>3 DEF MonitorSettles, TwinsBroadcasted, TypeOK
<1>4. ASSUME NEW r \in Requests, Call(r)
      PROVE  UNCHANGED twins
  BY <1>4 DEF Call, StartCreate, StartSign, StartReject, StartRemove,
              StartPublish, StartBroadcast, StartList
<1>5. ASSUME NEW r \in Requests, Proceed(r), ~Delete(r)
      PROVE  UNCHANGED twins
  BY <1>5 DEF Proceed, ReadUtxos, ReadPending, SettleThirdParty, AnswerList,
              ReadBroadcasted, StoreGiven, StoreNew, StoreChosen,
              StorePublished, StoreSigned, StoreRejected, NodeAccepts,
              NodeRefuses, FoundInChain, StoreBroadcasted, RequestFails
<1>6. ASSUME Environment, \A tx \in seen : ~MonitorSettles(tx)
      PROVE  UNCHANGED twins
  BY <1>6 DEF Environment, Crash, FindExpiredLock, DeleteExpiredLock,
              FallsBehind, Age, ExplorerIndexes
<1>7. QED
  BY <1>1, <1>2, <1>3, <1>4, <1>5, <1>6 DEF Next, vars

\* A lock that was taken from its owner once stays so on record.
LEMMA RobbedStays ==
  ASSUME [Next]_vars, robbed
  PROVE  robbed'
<1>1. CASE UNCHANGED late
  BY <1>1 DEF late
<1>2. ASSUME NEW r \in Requests, Call(r)
      PROVE  UNCHANGED late
  BY <1>2 DEF Call, StartCreate, StartSign, StartReject, StartRemove,
              StartPublish, StartBroadcast, StartList
<1>3. ASSUME NEW r \in Requests, Proceed(r)
      PROVE  UNCHANGED late
  BY <1>3 DEF Proceed, ReadUtxos, ReadPending, SettleThirdParty, AnswerList,
              ReadBroadcasted, StoreGiven, StoreNew, StoreChosen,
              StorePublished, StoreSigned, StoreRejected, NodeAccepts,
              NodeRefuses, FoundInChain, StoreBroadcasted, RequestFails,
              Delete
<1>4. CASE Environment
  BY <1>4 DEF Environment, Crash, FindExpiredLock, DeleteExpiredLock,
              FallsBehind, Age, ExplorerIndexes, MonitorSettles, late
<1>5. QED
  BY <1>1, <1>2, <1>3, <1>4 DEF Next, vars

LEMMA ReservationStep ==
  ASSUME TypeOK, VotesInv, ReservationInv, [Next]_vars
  PROVE  ReservationInv'
<1>1. TwinsBroadcasted'
  BY TwinsStep DEF ReservationInv
<1>2. ASSUME ~robbed'
      PROVE  OrderInv'
  <2>1. OrderInv
    BY <1>2, RobbedStays DEF ReservationInv
  <2>2. CASE UNCHANGED vars
    BY <2>1, <2>2 DEF vars, OrderInv, LockOwner, TwinsBroadcasted
  <2>3. QED
    BY <1>2, <2>1, <2>2, CallReserves, ProceedReserves, EnvironmentReserves
       DEF Next
<1>3. QED
  BY <1>1, <1>2 DEF ReservationInv

LEMMA ReservationInvAlways == Spec => []ReservationInv
<1>1. Init => ReservationInv
  <2>1. ASSUME Init
        PROVE  ReservationInv
    <3>1. \A r \in Requests : req[r] = Idle
      BY <2>1 DEF Init
    <3>2. LockOwner
      BY <3>1 DEF LockOwner, Idle, Waiting, LockedOps
    <3>3. TwinsBroadcasted /\ Disjoint(stored)
      BY <2>1 DEF Init, TwinsBroadcasted, Disjoint, Pends
    <3>4. QED
      BY <3>1, <3>2, <3>3, IdleReserves DEF ReservationInv, OrderInv, Reserved
  <2>2. QED
    BY <2>1
<1>2. TypeOK /\ VotesInv /\ ReservationInv /\ [Next]_vars => ReservationInv'
  BY ReservationStep
<1>3. QED
  BY <1>1, <1>2, TypeCorrect, VotesInvAlways, PTL DEF Spec

\* Two proposals that are pending never plan to spend the same output: the
\* checks of createTx and publishTx under the wallet's lock are enough, for
\* any number of requests and crashes, until an unlocked call overwrites a
\* document that has changed under it, or the late delete of a
\* clearExpiredLock takes the lock from the request that holds it.
THEOREM OutputsReserved == Spec => []InputsReserved
<1>1. ReservationInv => InputsReserved
  BY DEF ReservationInv, OrderInv, Reserved, Disjoint, Pends, InputsReserved,
         ReservedInputs, Exists
<1>2. QED
  BY <1>1, ReservationInvAlways, PTL

\* What getUtxosForCurrentWallet found to be free is still free when
\* createTx or publishTx writes, however long its three reads took, but for
\* the outputs of broadcasts that are too old, or too many, to be read; the
\* exceptions are those of OutputsReserved.
THEOREM SelectionFresh == Spec => []FreshSelection
<1>1. ReservationInv => FreshSelection
  BY DEF ReservationInv, OrderInv, Reserved, RequestReserves, Fresh, Lives,
         FreshSelection, Exists
<1>2. QED
  BY <1>1, ReservationInvAlways, PTL

-----------------------------------------------------------------------------
(***************************************************************************)
(* The decisions on a proposal stand: its status only moves forward, and   *)
(* the votes that are stored stay, until an unlocked call overwrites a     *)
(* document it has not seen.  The hard case is removePendingTx, which may  *)
(* bring one of the monitor's documents to the front.                      *)
(***************************************************************************)

\* A document the monitor has inserted carries the votes of the proposal.
TwinsAgree(docs, others) ==
    \A t \in Proposals : \A d \in others[t] :
        /\ docs[t] # None
        /\ docs[t].status \in {"accepted", "broadcasted"}
        /\ d.actions = docs[t].actions

DecisionInv == overwritten \/ TwinsAgree(stored, twins)

\* What may become of a document.
Forward(old, new) ==
    /\ \/ Rank[old.status] < Rank[new.status]
       \/ old.status = new.status
    /\ IsPrefix(old.actions, new.actions)

AllForward ==
    \A t \in Proposals :
        stored[t] # None /\ stored'[t] # None /\ stored'[t] # stored[t]
            => Forward(stored[t], stored'[t])

LEMMA PrefixKept ==
  ASSUME NEW S, NEW s \in Seq(S), NEW x \in S
  PROVE  IsPrefix(s, s) /\ IsPrefix(s, Append(s, x))
<1> DEFINE longer == Append(s, x)
<1>1. /\ Len(s) \in Nat
      /\ longer \in Seq(S)
      /\ Len(longer) = Len(s) + 1
      /\ \A i \in 1 .. Len(s) : longer[i] = s[i]
  OBVIOUS
<1>2. ASSUME NEW t \in Seq(S), Len(s) <= Len(t)
      PROVE  SubSeq(t, 1, Len(s)) = [i \in 1 .. Len(s) |-> t[i]]
  BY <1>1, <1>2
<1> HIDE DEF longer
<1>3. /\ SubSeq(s, 1, Len(s)) = [i \in 1 .. Len(s) |-> s[i]]
      /\ SubSeq(longer, 1, Len(s)) = [i \in 1 .. Len(s) |-> longer[i]]
  BY <1>1, <1>2
<1>4. IsPrefix(s, s) /\ IsPrefix(s, longer)
  BY <1>1, <1>3 DEF IsPrefix
<1>5. QED
  BY <1>4 DEF longer

LEMMA SameActions ==
  ASSUME NEW doc \in Doc
  PROVE  IsPrefix(doc.actions, doc.actions)
<1>1. doc.actions \in Seq(Action)
  BY DEF Doc
<1>2. PICK c \in Copayers : TRUE
  BY WalletAssumption, FS_EmptySet
<1>3. [copayer |-> c, type |-> "accept"] \in Action
  BY DEF Action
<1>4. QED
  BY <1>1, <1>3, PrefixKept

LEMMA VotedForward ==
  ASSUME NEW doc \in Doc, NEW c \in Copayers,
         NEW type \in {"accept", "reject"}
  PROVE  IsPrefix(doc.actions, Voted(doc, c, type).actions)
<1>1. doc.actions \in Seq(Action) /\ [copayer |-> c, type |-> type] \in Action
  BY DEF Doc, Action
<1>2. Voted(doc, c, type).actions =
          Append(doc.actions, [copayer |-> c, type |-> type])
  BY DEF Voted, Doc
<1>3. QED
  BY <1>1, <1>2, PrefixKept

\* A vote on a pending proposal.
LEMMA ActionForward ==
  ASSUME NEW doc \in Doc, doc.status = "pending", NEW c \in Copayers,
         NEW type \in {"accept", "reject"}
  PROVE  /\ Forward(doc, WithAction(doc, c, type))
         /\ Forward(doc, Signed(doc, c))
<1> DEFINE Decided == {"pending", "accepted", "rejected"}
<1>1. ASSUME NEW kind \in {"accept", "reject"}
      PROVE  /\ WithAction(doc, c, kind).status \in Decided
             /\ WithAction(doc, c, kind).actions = Voted(doc, c, kind).actions
             /\ WithAction(doc, c, kind) \in Doc
  <2>1. Voted(doc, c, kind) \in Doc /\ Voted(doc, c, kind).status = "pending"
    BY VotedType DEF Voted, Doc
  <2>2. WithAction(doc, c, kind) \in Doc
    BY WithActionType
  <2>3. QED
    BY <2>1, <2>2 DEF WithAction, UpdateStatus, Doc
<1>2. ASSUME NEW kind \in {"accept", "reject"}
      PROVE  Forward(doc, WithAction(doc, c, kind))
  BY <1>1, VotedForward DEF Forward, Rank
<1>3. /\ Signed(doc, c).status = WithAction(doc, c, "accept").status
      /\ Signed(doc, c).actions = WithAction(doc, c, "accept").actions
  BY <1>1 DEF Signed, Doc
<1>4. QED
  BY <1>2, <1>3 DEF Forward

\* A decision does not change the votes.
LEMMA StatusForward ==
  ASSUME NEW doc \in Doc, NEW new,
         \/ doc.status = "temporary" /\ new.status = "pending"
         \/ doc.status = "accepted" /\ new.status = "broadcasted"
         \/ doc.status = new.status,
         new.actions = doc.actions
  PROVE  Forward(doc, new)
BY SameActions DEF Forward, Rank

-----------------------------------------------------------------------------
(* Steps                                                                   *)

\* A write that overwrites nothing: either it only settles an accepted
\* proposal, or the monitor has inserted nothing yet.
LEMMA StoreForward ==
  ASSUME TypeOK, DecisionInv, NEW t \in Proposals, NEW new, NEW read,
         Store(t, new, read), UNCHANGED twins,
         read # None => Forward(read, new),
         \/ read = None
         \/ read.status \notin {"accepted", "broadcasted"}
         \/ new # None /\ new.status = "broadcasted"
              /\ new.actions = read.actions
  PROVE  DecisionInv' /\ (overwritten' \/ AllForward)
<1>1. /\ stored' = [stored EXCEPT ![t] = new]
      /\ stored \in [Proposals -> Doc \cup {None}]
  BY DEF Store, TypeOK
<1>2. ASSUME ~overwritten'
      PROVE  ~overwritten /\ stored[t] = read
  BY <1>2 DEF Store
<1>3. overwritten' \/ AllForward
  BY <1>1, <1>2 DEF AllForward
<1>4. overwritten' \/ TwinsAgree(stored', twins')
  BY <1>1, <1>2 DEF DecisionInv, TwinsAgree
<1>5. QED
  BY <1>3, <1>4 DEF DecisionInv

LEMMA QuietForward ==
  ASSUME DecisionInv, UNCHANGED <<stored, twins, overwritten>>
  PROVE  DecisionInv' /\ (overwritten' \/ AllForward)
BY DEF DecisionInv, AllForward

LEMMA ProceedForward ==
  ASSUME TypeOK, VotesInv, ReservationInv, DecisionInv,
         NEW r \in Requests, Proceed(r)
  PROVE  DecisionInv' /\ (overwritten' \/ AllForward)
<1> DEFINE q == req[r]
           doc == q.doc
           Goal == DecisionInv' /\ (overwritten' \/ AllForward)
<1>1. q \in Request /\ RequestOK(q) /\ RequestVotes(q)
  BY DEF TypeOK, VotesInv
<1>2. CASE UNCHANGED <<stored, twins, overwritten>>
  BY <1>2, QuietForward
<1>3. ASSUME NEW d \in q.todo, SettleThirdParty(r, d)
      PROVE  Goal
  <2>1. d \in Doc /\ d.id \in Proposals /\ d.status = "accepted"
    BY <1>1 DEF Request, RequestVotes, Doc
  <2>2. CASE TxOf(d) \in seen
    <3>1. Store(d.id, Broadcasted(d), d) /\ UNCHANGED twins
      BY <1>3, <2>2 DEF SettleThirdParty
    <3>2. /\ Broadcasted(d) # None
          /\ Broadcasted(d).status = "broadcasted"
          /\ Broadcasted(d).actions = d.actions
      BY <2>1, BroadcastedType, NoneAssumption DEF Broadcasted, Doc
    <3>3. Forward(d, Broadcasted(d))
      BY <2>1, <3>2, StatusForward
    <3>4. QED
      BY <2>1, <3>1, <3>2, <3>3, StoreForward
  <2>3. CASE TxOf(d) \notin seen
    BY <1>2, <1>3, <2>3 DEF SettleThirdParty
  <2>4. QED
    BY <2>2, <2>3
<1>4. CASE StoreGiven(r) \/ StoreNew(r)
  <2>1. doc.id \in Proposals
    BY <1>1, <1>4 DEF StoreGiven, StoreNew, RequestOK, Doc
  <2>2. PICK chosen \in SUBSET Utxos :
           /\ Store(doc.id, [doc EXCEPT !.inputs = chosen], None)
           /\ UNCHANGED twins
    BY <1>1, <1>4 DEF StoreGiven, StoreNew, StoreChosen, Request
  <2>3. QED
    BY <2>1, <2>2, StoreForward
<1>5. CASE StorePublished(r)
  <2> DEFINE new == [doc EXCEPT !.status = "pending"]
  <2>1. /\ doc \in Doc /\ doc.id \in Proposals /\ doc.status = "temporary"
        /\ Store(doc.id, new, doc) /\ UNCHANGED twins
    BY <1>1, <1>5 DEF StorePublished, RequestOK, RequestVotes, Doc
  <2>2. new.status = "pending" /\ new.actions = doc.actions
    BY <2>1 DEF Doc
  <2> HIDE DEF new
  <2>3. Forward(doc, new)
    BY <2>1, <2>2, StatusForward
  <2>4. QED
    BY <2>1, <2>3, StoreForward
<1>6. CASE StoreSigned(r) \/ StoreRejected(r)
  <2>1. /\ doc \in Doc /\ doc.id \in Proposals /\ doc.status = "pending"
        /\ q.by \in Copayers
    BY <1>1, <1>6 DEF StoreSigned, StoreRejected, RequestOK, RequestVotes, Doc
  <2>2. PICK new : /\ Store(doc.id, new, doc)
                   /\ Forward(doc, new)
                   /\ UNCHANGED twins
    BY <1>6, <2>1, ActionForward DEF StoreSigned, StoreRejected
  <2>3. QED
    BY <2>1, <2>2, StoreForward
<1>7. CASE StoreBroadcasted(r)
  <2>1. /\ doc \in Doc /\ doc.id \in Proposals /\ doc.status = "accepted"
        /\ Store(doc.id, Broadcasted(doc), doc) /\ UNCHANGED twins
    BY <1>1, <1>7 DEF StoreBroadcasted, RequestOK, RequestVotes, Doc
  <2>2. /\ Broadcasted(doc) # None
        /\ Broadcasted(doc).status = "broadcasted"
        /\ Broadcasted(doc).actions = doc.actions
    BY <2>1, BroadcastedType, NoneAssumption DEF Broadcasted, Doc
  <2>3. Forward(doc, Broadcasted(doc))
    BY <2>1, <2>2, StatusForward
  <2>4. QED
    BY <2>1, <2>2, <2>3, StoreForward
<1>8. CASE Delete(r)
  <2> DEFINE t == doc.id
  <2>1. t \in Proposals /\ overwritten' = overwritten
    BY <1>1, <1>8 DEF Delete, RequestOK, Doc
  <2>2. CASE twins[t] = {}
    BY <1>8, <2>1, <2>2
       DEF Delete, DecisionInv, TwinsAgree, AllForward, TypeOK
  <2>3. CASE twins[t] # {}
    <3>1. PICK d \in twins[t] :
             /\ stored' = [stored EXCEPT ![t] = d]
             /\ twins' = [twins EXCEPT ![t] = @ \ {d}]
      BY <1>8, <2>3 DEF Delete
    <3>2. d \in Doc /\ d # None /\ d.status = "broadcasted"
      BY <2>1, <3>1, NoneAssumption DEF TypeOK, ReservationInv, TwinsBroadcasted
    <3>3. ASSUME ~overwritten
          PROVE  AllForward /\ TwinsAgree(stored', twins')
      <4>1. /\ stored[t] # None
            /\ stored[t].status \in {"accepted", "broadcasted"}
            /\ d.actions = stored[t].actions
        BY <2>1, <3>1, <3>3 DEF DecisionInv, TwinsAgree
      <4>2. stored[t] \in Doc
        BY <2>1, <4>1 DEF TypeOK
      <4>3. Forward(stored[t], d)
        BY <3>2, <4>1, <4>2, StatusForward
      <4>4. AllForward
        BY <2>1, <3>1, <4>3 DEF AllForward, TypeOK
      <4>5. TwinsAgree(stored', twins')
        BY <2>1, <3>1, <3>2, <3>3, <4>1 DEF DecisionInv, TwinsAgree, TypeOK
      <4>6. QED
        BY <4>4, <4>5
    <3>4. QED
      BY <2>1, <3>3 DEF DecisionInv
  <2>4. QED
    BY <2>2, <2>3
<1>9. QED
  BY <1>2, <1>3, <1>4, <1>5, <1>6, <1>7, <1>8
     DEF Proceed, ReadUtxos, ReadPending, AnswerList, ReadBroadcasted,
         NodeAccepts, NodeRefuses, FoundInChain, RequestFails

LEMMA EnvironmentForward ==
  ASSUME TypeOK, DecisionInv, Environment
  PROVE  DecisionInv' /\ (overwritten' \/ AllForward)
<1>1. CASE UNCHANGED <<stored, twins, overwritten>>
  BY <1>1, QuietForward
<1>2. ASSUME NEW tx \in seen, MonitorSettles(tx)
      PROVE  DecisionInv' /\ (overwritten' \/ AllForward)
  <2> DEFINE t == tx.id
  <2>1. t \in Proposals
    BY DEF TypeOK, Tx
  <2>2. stored[t] \in Doc /\ stored[t] # None /\ stored[t].status = "accepted"
    BY <1>2, <2>1 DEF MonitorSettles, TypeOK, Exists
  <2>3. Broadcasted(stored[t]).actions = stored[t].actions
    BY <2>2 DEF Broadcasted, Doc
  <2>4. QED
    BY <1>2, <2>1, <2>2, <2>3
       DEF MonitorSettles, DecisionInv, TwinsAgree, AllForward, TypeOK
<1>3. QED
  BY <1>1, <1>2
     DEF Environment, Crash, FindExpiredLock, DeleteExpiredLock, Age,
         ExplorerIndexes, FallsBehind

LEMMA DecisionStep ==
  ASSUME TypeOK, VotesInv, ReservationInv, DecisionInv, [Next]_vars
  PROVE  DecisionInv' /\ (overwritten' \/ AllForward)
<1>1. CASE UNCHANGED vars
  BY <1>1, QuietForward DEF vars
<1>2. ASSUME NEW r \in Requests, Call(r)
      PROVE  UNCHANGED <<stored, twins, overwritten>>
  BY <1>2 DEF Call, StartCreate, StartSign, StartReject, StartRemove,
              StartPublish, StartBroadcast, StartList
<1>3. QED
  BY <1>1, <1>2, QuietForward, ProceedForward, EnvironmentForward DEF Next

\* No vote and no decision that is stored is ever taken back, whatever
\* signTx, rejectTx, broadcastTx, getPendingTxs, removePendingTx and the
\* monitor do at the same time, unless one of them overwrites what it has not
\* seen.
THEOREM DecisionsStandAlways == Spec => DecisionsStand
<1>1. Init => DecisionInv
  BY DEF Init, DecisionInv, TwinsAgree
<1>2. TypeOK /\ VotesInv /\ ReservationInv /\ DecisionInv /\ [Next]_vars
          => DecisionInv'
  BY DecisionStep
<1>3. TypeOK /\ VotesInv /\ ReservationInv /\ DecisionInv /\ [Next]_vars
          => [\A t \in Proposals :
                /\ Exists(t) /\ stored'[t] # None
                /\ stored'[t] # stored[t]
                => \/ overwritten'
                   \/ /\ Rank[stored[t].status] < Rank[stored'[t].status]
                            \/ stored[t].status = stored'[t].status
                      /\ IsPrefix(stored[t].actions, stored'[t].actions)]_vars
  BY DecisionStep DEF AllForward, Forward, Exists
<1>4. QED
  BY <1>1, <1>2, <1>3, TypeCorrect, VotesInvAlways, ReservationInvAlways, PTL
     DEF Spec, DecisionsStand

-----------------------------------------------------------------------------
(* Sums of values                                                          *)

\* A set of numbers has a least one.
LEMMA LeastNat ==
    ASSUME NEW T \in SUBSET Nat, T # {}
    PROVE  \E n \in T : \A m \in T : n <= m
<1> DEFINE R == OpToRel(<, Nat)
<1>1. IsWellFoundedOn(R, Nat)
  BY NatLessThanWellFounded
<1>2. \A x, y \in Nat : x < y => <<x, y>> \in R
  BY DEF OpToRel
<1> HIDE DEF R
<1>3. \E x \in T : \A y \in T : ~(<<y, x>> \in R)
  BY <1>1, WFMin
<1>4. PICK x \in T : \A y \in T : ~(<<y, x>> \in R)
  BY <1>3
<1>5. ASSUME NEW y \in T PROVE x <= y
  <2>1. x \in Nat /\ y \in Nat
    OBVIOUS
  <2>2. ~(y < x)
    BY <1>2, <1>4, <2>1
  <2> QED BY <2>1, <2>2
<1> QED BY <1>5

\* Induction over the subsets of a finite set: what holds of a set if it holds
\* of all its proper subsets holds of all.
LEMMA SubsetInduction ==
    ASSUME NEW S, IsFiniteSet(S), NEW B \in SUBSET (SUBSET S),
           \A T \in SUBSET S : (\A R \in SUBSET T : R # T => R \in B) => T \in B
    PROVE  SUBSET S \subseteq B
<1> DEFINE Bad == (SUBSET S) \ B
           Sizes == {Cardinality(T) : T \in Bad}
<1>1. \A T \in SUBSET S : IsFiniteSet(T) /\ Cardinality(T) \in Nat
  BY FS_Subset, FS_CardinalityType
<1>2. SUFFICES ASSUME Bad # {} PROVE FALSE
  OBVIOUS
<1>3. Sizes \in SUBSET Nat /\ Sizes # {}
  BY <1>1, <1>2
<1>4. PICK T \in Bad : \A R \in Bad : Cardinality(T) <= Cardinality(R)
  <2> HIDE DEF Bad
  <2>1. \E n \in Sizes : \A m \in Sizes : n <= m
    <3> HIDE DEF Sizes
    <3> QED BY <1>3, LeastNat
  <2> QED BY <2>1
<1>5. ASSUME NEW R \in SUBSET T, R # T PROVE R \in B
  <2>1. Cardinality(R) < Cardinality(T)
    BY <1>1, <1>4, <1>5, FS_Subset
  <2>2. R \in SUBSET S /\ Cardinality(R) \in Nat /\ Cardinality(T) \in Nat
    BY <1>1, <1>4, <1>5
  <2> QED BY <1>4, <2>1, <2>2
<1>6. T \in SUBSET S /\ T \notin B
  <2>1. T \in Bad
    BY <1>4
  <2> QED BY <2>1
<1>7. T \in B
  <2>1. \A R \in SUBSET T : R # T => R \in B
    BY <1>5
  <2> QED BY <1>6, <2>1
<1> QED BY <1>6, <1>7

\* The functions MapThenSumSet takes one of.
Summand(S) == CHOOSE u \in S : TRUE
Sums(S, f) ==
    f = [s \in SUBSET S |-> IF s = {} THEN 0
                            ELSE Summand(s).satoshis + f[s \ {Summand(s)}]]

LEMMA ValueChosen ==
    ASSUME NEW S
    PROVE  Value(S) = (CHOOSE f : Sums(S, f))[S]
BY DEF Value, MapThenSumSet, MapThenFoldSet, Sums, Summand

LEMMA SumsAt ==
    ASSUME NEW S, NEW f, Sums(S, f), NEW s \in SUBSET S
    PROVE  f[s] = IF s = {} THEN 0 ELSE Summand(s).satoshis + f[s \ {Summand(s)}]
<1> DEFINE g == [t \in SUBSET S |-> IF t = {} THEN 0
                            ELSE Summand(t).satoshis + f[t \ {Summand(t)}]]
<1>1. f = g
  BY DEF Sums
<1>2. g[s] = IF s = {} THEN 0 ELSE Summand(s).satoshis + f[s \ {Summand(s)}]
  OBVIOUS
<1> QED BY <1>1, <1>2

\* They agree wherever both are defined.
LEMMA SumsAgree ==
    ASSUME NEW S, IsFiniteSet(S), NEW f, Sums(S, f),
           NEW R \in SUBSET S, NEW g, Sums(R, g)
    PROVE  \A t \in SUBSET R : f[t] = g[t]
<1> DEFINE B == {t \in SUBSET R : f[t] = g[t]}
<1>1. IsFiniteSet(R)
  BY FS_Subset
<1>2. ASSUME NEW T \in SUBSET R, \A t \in SUBSET T : t # T => t \in B
      PROVE  T \in B
  <2>1. CASE T = {}
    BY <2>1, SumsAt
  <2>2. CASE T # {}
    <3>1. Summand(T) \in T
      BY <2>2 DEF Summand
    <3>2. T \ {Summand(T)} \in SUBSET T /\ T \ {Summand(T)} # T
      BY <3>1
    <3>3. f[T \ {Summand(T)}] = g[T \ {Summand(T)}]
      BY <1>2, <3>2
    <3>4. /\ f[T] = Summand(T).satoshis + f[T \ {Summand(T)}]
          /\ g[T] = Summand(T).satoshis + g[T \ {Summand(T)}]
      BY <2>2, SumsAt
    <3> QED BY <3>3, <3>4
  <2> QED BY <2>1, <2>2
<1>3. SUBSET R \subseteq B
  <2>1. B \in SUBSET (SUBSET R)
    OBVIOUS
  <2> HIDE DEF B
  <2> QED BY <1>1, <1>2, <2>1, SubsetInduction
<1> QED BY <1>3

\* There is one for every finite set.
LEMMA SumsExist ==
    ASSUME NEW S, IsFiniteSet(S)
    PROVE  \E f : Sums(S, f)
<1> DEFINE B == {T \in SUBSET S : \E f : Sums(T, f)}
<1>1. ASSUME NEW T \in SUBSET S, \A R \in SUBSET T : R # T => R \in B
      PROVE  T \in B
  <2> DEFINE G(R) == CHOOSE f : Sums(R, f)
             h == [t \in SUBSET T |-> IF t = {} THEN 0
                        ELSE Summand(t).satoshis + G(t \ {Summand(t)})[t \ {Summand(t)}]]
  <2>1. \A R \in SUBSET T : R # T => Sums(R, G(R))
    BY <1>1
  <2>2. \A R \in SUBSET T : IsFiniteSet(R)
    BY FS_Subset
  <2>3. \A t \in SUBSET T : t # {} => /\ Summand(t) \in t
                                      /\ t \ {Summand(t)} \in SUBSET T
                                      /\ t \ {Summand(t)} # T
                                      /\ t \ {Summand(t)} \in SUBSET t
                                      /\ t \ {Summand(t)} # t
    BY DEF Summand
  <2> HIDE DEF G
  <2>4. ASSUME NEW R \in SUBSET T, R # T PROVE h[R] = G(R)[R]
    <3>1. CASE R = {}
      <4>1. h[R] = 0
        BY <3>1
      <4>2. G(R)[R] = 0
        BY <2>1, <2>4, <3>1, SumsAt
      <4> QED BY <4>1, <4>2
    <3>2. CASE R # {}
      <4> DEFINE r == R \ {Summand(R)}
      <4>1. h[R] = Summand(R).satoshis + G(r)[r]
        BY <3>2
      <4>2. G(R)[R] = Summand(R).satoshis + G(R)[r]
        BY <2>1, <2>4, <3>2, SumsAt
      <4>3. r \in SUBSET R /\ r \in SUBSET T /\ r # T
        BY <2>3, <3>2
      <4> HIDE DEF r, h
      <4>4. G(R)[r] = G(r)[r]
        BY <2>1, <2>2, <2>4, <4>3, SumsAgree
      <4> QED BY <4>1, <4>2, <4>4
    <3> QED BY <3>1, <3>2
  <2>5. \A t \in SUBSET T : t # {} =>
            h[t \ {Summand(t)}] = G(t \ {Summand(t)})[t \ {Summand(t)}]
    <3> HIDE DEF h
    <3> QED BY <2>3, <2>4
  <2>6. Sums(T, h)
    <3>1. h = [t \in SUBSET T |-> IF t = {} THEN 0
                        ELSE Summand(t).satoshis + h[t \ {Summand(t)}]]
      <4> DEFINE k == [t \in SUBSET T |-> IF t = {} THEN 0
                        ELSE Summand(t).satoshis + h[t \ {Summand(t)}]]
      <4>1. \A t \in SUBSET T : h[t] = k[t]
        <5>1. \A t \in SUBSET T : h[t] = IF t = {} THEN 0
                  ELSE Summand(t).satoshis + G(t \ {Summand(t)})[t \ {Summand(t)}]
          OBVIOUS
        <5> HIDE DEF h
        <5>2. \A t \in SUBSET T : k[t] = IF t = {} THEN 0
                  ELSE Summand(t).satoshis + h[t \ {Summand(t)}]
          OBVIOUS
        <5> HIDE DEF k
        <5> QED BY <2>5, <5>1, <5>2
      <4>2. /\ h = [t \in SUBSET T |-> h[t]]
            /\ k = [t \in SUBSET T |-> k[t]]
        OBVIOUS
      <4>3. h = k
        <5> HIDE DEF h, k
        <5> QED BY <4>1, <4>2
      <4> QED BY <4>3
    <3> HIDE DEF h
    <3> QED BY <3>1 DEF Sums
  <2> HIDE DEF h
  <2> QED BY <2>6
<1>2. SUBSET S \subseteq B
  <2>1. B \in SUBSET (SUBSET S)
    OBVIOUS
  <2> HIDE DEF B
  <2> QED BY <1>1, <2>1, SubsetInduction
<1> QED BY <1>2

LEMMA ValueEmpty == Value({}) = 0
<1>1. \E f : Sums({}, f)
  BY FS_EmptySet, SumsExist
<1>2. Sums({}, CHOOSE f : Sums({}, f))
  BY <1>1
<1> QED BY <1>2, ValueChosen, SumsAt

LEMMA ValueStep ==
    ASSUME NEW S, IsFiniteSet(S), S # {}
    PROVE  /\ Summand(S) \in S
           /\ Value(S) = Summand(S).satoshis + Value(S \ {Summand(S)})
<1> DEFINE R == S \ {Summand(S)}
           f == CHOOSE f : Sums(S, f)
           g == CHOOSE g : Sums(R, g)
<1>1. Summand(S) \in S
  BY DEF Summand
<1>2. R \in SUBSET S /\ IsFiniteSet(R)
  BY FS_Subset
<1>3. Sums(S, f) /\ Sums(R, g)
  BY <1>2, SumsExist
<1>4. Value(S) = f[S] /\ Value(R) = g[R]
  BY ValueChosen
<1> HIDE DEF f, g
<1>5. f[S] = Summand(S).satoshis + f[R]
  BY <1>3, SumsAt
<1>6. f[R] = g[R]
  BY <1>2, <1>3, SumsAgree
<1> QED BY <1>1, <1>4, <1>5, <1>6

\* Sets of outputs with values.
Valued(S) == IsFiniteSet(S) /\ \A u \in S : u.satoshis \in Nat

LEMMA ValuedPart ==
    ASSUME NEW S, Valued(S), NEW R \in SUBSET S
    PROVE  Valued(R) /\ IsFiniteSet(R) /\ Cardinality(R) \in Nat
BY FS_Subset, FS_CardinalityType DEF Valued

LEMMA ValueNat ==
    ASSUME NEW S, Valued(S)
    PROVE  Value(S) \in Nat
<1> DEFINE B == {T \in SUBSET S : Value(T) \in Nat}
<1>1. ASSUME NEW T \in SUBSET S, \A R \in SUBSET T : R # T => R \in B
      PROVE  T \in B
  <2>1. CASE T = {}
    BY <2>1, ValueEmpty
  <2>2. CASE T # {}
    <3>1. /\ Summand(T) \in T
          /\ Value(T) = Summand(T).satoshis + Value(T \ {Summand(T)})
      BY <2>2, ValuedPart, ValueStep
    <3>2. T \ {Summand(T)} \in B
      BY <1>1, <3>1
    <3> QED BY <3>1, <3>2 DEF Valued
  <2> QED BY <2>1, <2>2
<1>2. SUBSET S \subseteq B
  <2>1. B \in SUBSET (SUBSET S) /\ IsFiniteSet(S)
    BY DEF Valued
  <2> HIDE DEF B
  <2> QED BY <1>1, <2>1, SubsetInduction
<1> QED BY <1>2

\* Any output may be taken out of a sum.
LEMMA ValueAdd ==
    ASSUME NEW S, Valued(S), NEW u \in S
    PROVE  Value(S) = u.satoshis + Value(S \ {u})
<1> DEFINE B == {T \in SUBSET S : \A v \in T : Value(T) = v.satoshis + Value(T \ {v})}
<1>1. ASSUME NEW T \in SUBSET S, \A R \in SUBSET T : R # T => R \in B
      PROVE  T \in B
  <2>1. SUFFICES ASSUME NEW v \in T PROVE Value(T) = v.satoshis + Value(T \ {v})
    OBVIOUS
  <2> DEFINE p == Summand(T)
  <2>2. p \in T /\ Value(T) = p.satoshis + Value(T \ {p})
    BY <2>1, ValuedPart, ValueStep
  <2>3. CASE v = p
    BY <2>2, <2>3
  <2>4. CASE v # p
    <3> HIDE DEF p
    <3>1. T \ {p} \in B /\ T \ {v} \in B
      BY <1>1, <2>1, <2>2
    <3>2. Value(T \ {p}) = v.satoshis + Value((T \ {p}) \ {v})
      BY <2>1, <2>4, <3>1
    <3>3. Value(T \ {v}) = p.satoshis + Value((T \ {v}) \ {p})
      BY <2>2, <2>4, <3>1
    <3>4. (T \ {p}) \ {v} = (T \ {v}) \ {p}
      OBVIOUS
    <3>5. /\ v.satoshis \in Nat /\ p.satoshis \in Nat
          /\ Value((T \ {v}) \ {p}) \in Nat
      <4>1. (T \ {v}) \ {p} \in SUBSET S
        OBVIOUS
      <4> QED BY <2>1, <2>2, <4>1, ValuedPart, ValueNat DEF Valued
    <3> DEFINE r == Value((T \ {v}) \ {p})
               s == Value(T \ {p})
               t == Value(T \ {v})
    <3>6. s = v.satoshis + r /\ t = p.satoshis + r /\ Value(T) = p.satoshis + s
      BY <2>2, <3>2, <3>3, <3>4
    <3>7. r \in Nat
      BY <3>5
    <3> HIDE DEF r, s
    <3> QED BY <3>5, <3>6, <3>7
  <2> QED BY <2>3, <2>4
<1>2. SUBSET S \subseteq B
  <2>1. B \in SUBSET (SUBSET S) /\ IsFiniteSet(S)
    BY DEF Valued
  <2> HIDE DEF B
  <2> QED BY <1>1, <2>1, SubsetInduction
<1> QED BY <1>2

\* A sum is the sum of its parts.
LEMMA ValueSplit ==
    ASSUME NEW S, Valued(S), NEW R \in SUBSET S
    PROVE  /\ Value(S) = Value(R) + Value(S \ R)
           /\ Value(R) <= Value(S)
<1> DEFINE B == {T \in SUBSET S : Value(S) = Value(T) + Value(S \ T)}
<1>0. \A T \in SUBSET S : Valued(T) /\ Value(T) \in Nat
  BY ValuedPart, ValueNat
<1>1. ASSUME NEW T \in SUBSET S, \A Q \in SUBSET T : Q # T => Q \in B
      PROVE  T \in B
  <2>1. CASE T = {}
    <3>1. S \ T = S /\ Value(T) = 0
      BY <2>1, ValueEmpty
    <3>2. Value(S) \in Nat
      BY <1>0
    <3> QED BY <3>1, <3>2
  <2>2. CASE T # {}
    <3>1. PICK u \in T : TRUE
      BY <2>2
    <3>2. T \ {u} \in B /\ u \in S
      BY <1>1, <3>1
    <3> DEFINE Q == S \ (T \ {u})
    <3>3. Value(S) = Value(T \ {u}) + Value(Q)
      BY <3>2
    <3>4. Value(T) = u.satoshis + Value(T \ {u})
      BY <1>0, <3>1, ValueAdd
    <3>5. Q \in SUBSET S /\ u \in Q /\ Q \ {u} = S \ T
      BY <3>1
    <3>6. Value(Q) = u.satoshis + Value(S \ T)
      <4> HIDE DEF Q
      <4>1. Value(Q) = u.satoshis + Value(Q \ {u})
        BY <1>0, <3>5, ValueAdd
      <4> QED BY <3>5, <4>1
    <3>7. /\ u.satoshis \in Nat /\ Value(T \ {u}) \in Nat /\ Value(S \ T) \in Nat
          /\ S \ T \in SUBSET S
      <4>1. T \ {u} \in SUBSET S /\ S \ T \in SUBSET S
        OBVIOUS
      <4> QED BY <1>0, <3>2, <4>1 DEF Valued
    <3> HIDE DEF Q
    <3> DEFINE x == Value(T \ {u})
               y == Value(S \ T)
               z == Value(T)
               q == Value(Q)
    <3>8. /\ Value(S) = x + q /\ z = u.satoshis + x /\ q = u.satoshis + y
          /\ x \in Nat /\ y \in Nat /\ u.satoshis \in Nat
      BY <3>3, <3>4, <3>6, <3>7
    <3>9. Value(S) = z + y
      <4> HIDE DEF x, y, z, q
      <4> QED BY <3>8
    <3> QED BY <3>9
  <2> QED BY <2>1, <2>2
<1>2. SUBSET S \subseteq B
  <2>1. B \in SUBSET (SUBSET S) /\ IsFiniteSet(S)
    BY DEF Valued
  <2> HIDE DEF B
  <2> QED BY <1>1, <2>1, SubsetInduction
<1>3. S \ R \in SUBSET S /\ R \in SUBSET S
  OBVIOUS
<1>4. Value(R) \in Nat /\ Value(S \ R) \in Nat
  BY <1>0, <1>3
<1>5. Value(S) = Value(R) + Value(S \ R)
  BY <1>2
<1> QED BY <1>4, <1>5

LEMMA ValueSingle ==
    ASSUME NEW u, u.satoshis \in Nat
    PROVE  Value({u}) = u.satoshis
<1>1. Valued({u})
  BY FS_Singleton DEF Valued
<1>2. Value({u}) = u.satoshis + Value({u} \ {u})
  BY <1>1, ValueAdd
<1>3. {u} \ {u} = {}
  OBVIOUS
<1> QED BY <1>2, <1>3, ValueEmpty

-----------------------------------------------------------------------------
(* The order of outputs                                                    *)

\* Outputs of a wallet: with values, and numbers that tell them apart.
Ordered(S) ==
    /\ Valued(S)
    /\ \A u \in S : u.id \in Nat
    /\ \A u, v \in S : u.id = v.id => u = v

LEMMA OrderedPart ==
    ASSUME NEW S, Ordered(S), NEW R \in SUBSET S
    PROVE  /\ Ordered(R) /\ Valued(R) /\ IsFiniteSet(R) /\ Cardinality(R) \in Nat
           /\ Cardinality(R) <= Cardinality(S) /\ Cardinality(S) \in Nat
           /\ (Cardinality(R) = Cardinality(S) => R = S)
<1>1. Valued(S)
  BY DEF Ordered
<1>2. Valued(R) /\ IsFiniteSet(R) /\ Cardinality(R) \in Nat
  BY <1>1, ValuedPart
<1>3. IsFiniteSet(S)
  BY <1>1 DEF Valued
<1>4. Cardinality(S) \in Nat
  BY <1>3, FS_CardinalityType
<1>5. Cardinality(R) <= Cardinality(S) /\ (R # S => Cardinality(R) < Cardinality(S))
  BY <1>2, <1>3, <1>4, FS_Subset
<1> QED BY <1>2, <1>4, <1>5 DEF Ordered

LEMMA BeforeTotal ==
    ASSUME NEW S, Ordered(S)
    PROVE  /\ \A u \in S : ~Before(u, u)
           /\ \A u, v \in S : u # v => Before(u, v) \/ Before(v, u)
           /\ \A u, v \in S : Before(u, v) => ~Before(v, u)
           /\ \A u, v, w \in S : Before(u, v) /\ Before(v, w) => Before(u, w)
           /\ \A u, v \in S : Before(u, v) => u.satoshis >= v.satoshis
<1>1. \A u \in S : u.satoshis \in Nat /\ u.id \in Nat
  BY DEF Ordered, Valued
<1>2. \A u, v \in S : u # v => u.id # v.id
  BY DEF Ordered
<1>3. \A u \in S : ~Before(u, u)
  BY <1>1 DEF Before
<1>4. \A u, v \in S : u # v => Before(u, v) \/ Before(v, u)
  BY <1>1, <1>2 DEF Before
<1>5. \A u, v \in S : Before(u, v) => ~Before(v, u)
  BY <1>1 DEF Before
<1>6. \A u, v, w \in S : Before(u, v) /\ Before(v, w) => Before(u, w)
  BY <1>1 DEF Before
<1>7. \A u, v \in S : Before(u, v) => u.satoshis >= v.satoshis
  BY <1>1 DEF Before
<1> QED BY <1>3, <1>4, <1>5, <1>6, <1>7

\* Some outputs have a smallest one, which all others come before.
IsLast(S, u) == u \in S /\ \A v \in S \ {u} : Before(v, u)

LEMMA LastExists ==
    ASSUME NEW S, Ordered(S), S # {}
    PROVE  \E u : IsLast(S, u)
<1> DEFINE B == {T \in SUBSET S : T = {} \/ \E u : IsLast(T, u)}
<1>1. ASSUME NEW T \in SUBSET S, \A R \in SUBSET T : R # T => R \in B
      PROVE  T \in B
  <2>1. CASE T = {}
    BY <2>1
  <2>2. CASE T # {}
    <3>1. PICK x \in T : TRUE
      BY <2>2
    <3>2. T \ {x} \in B
      BY <1>1, <3>1
    <3>3. CASE T \ {x} = {}
      <4>1. IsLast(T, x)
        BY <3>1, <3>3 DEF IsLast
      <4> QED BY <4>1
    <3>4. CASE T \ {x} # {}
      <4>1. PICK y : IsLast(T \ {x}, y)
        BY <3>2, <3>4
      <4>2. y \in T /\ y # x
        BY <4>1 DEF IsLast
      <4>3. CASE Before(x, y)
        <5>1. IsLast(T, y)
          BY <4>1, <4>2, <4>3 DEF IsLast
        <5> QED BY <5>1
      <4>4. CASE Before(y, x)
        <5>1. \A z \in T \ {x} : Before(z, x)
          BY <1>1, <3>1, <4>1, <4>2, <4>4, BeforeTotal DEF IsLast
        <5>2. IsLast(T, x)
          BY <3>1, <5>1 DEF IsLast
        <5> QED BY <5>2
      <4> QED BY <3>1, <4>2, <4>3, <4>4, BeforeTotal
    <3> QED BY <3>3, <3>4
  <2> QED BY <2>1, <2>2
<1>2. SUBSET S \subseteq B
  <2>1. B \in SUBSET (SUBSET S) /\ IsFiniteSet(S)
    BY DEF Ordered, Valued
  <2> HIDE DEF B
  <2> QED BY <1>1, <2>1, SubsetInduction
<1> QED BY <1>2

LEMMA SmallestIs ==
    ASSUME NEW S, Ordered(S), S # {}
    PROVE  \E u \in S : Smallest(S) = {u}
<1>1. PICK u : IsLast(S, u)
  BY LastExists
<1>2. u \in S
  BY <1>1 DEF IsLast
<1>3. u \in Smallest(S)
  BY <1>1, <1>2 DEF IsLast, Smallest
<1>4. ASSUME NEW v \in Smallest(S), v # u PROVE FALSE
  <2>1. v \in S /\ Before(u, v) /\ Before(v, u)
    BY <1>1, <1>2, <1>4 DEF IsLast, Smallest
  <2> QED BY <1>2, <2>1, BeforeTotal
<1> QED BY <1>2, <1>3, <1>4

-----------------------------------------------------------------------------
(* The greatest n outputs                                                  *)

Earlier(S, u) == {v \in S : Before(v, u)}

LEMMA GreatestEarlier ==
    ASSUME NEW S, NEW n
    PROVE  Greatest(S, n) = {u \in S : Cardinality(Earlier(S, u)) < n}
BY DEF Greatest, Earlier

\* All that come before an output are fewer than all.
LEMMA EarlierFewer ==
    ASSUME NEW S, Ordered(S), NEW u \in S
    PROVE  /\ Earlier(S, u) \in SUBSET S
           /\ Cardinality(Earlier(S, u)) \in Nat
           /\ Cardinality(Earlier(S, u)) < Cardinality(S)
<1>1. Earlier(S, u) \in SUBSET S /\ u \notin Earlier(S, u)
  BY BeforeTotal DEF Earlier
<1>2. Earlier(S, u) # S
  BY <1>1
<1> QED BY <1>1, <1>2, OrderedPart

LEMMA GreatestAll ==
    ASSUME NEW S, Ordered(S), NEW n \in Nat, Cardinality(S) <= n
    PROVE  Greatest(S, n) = S
<1>1. Cardinality(S) \in Nat
  BY OrderedPart
<1>2. \A u \in S : Cardinality(Earlier(S, u)) < n
  BY <1>1, EarlierFewer
<1> QED BY <1>2, GreatestEarlier

LEMMA GreatestNone ==
    ASSUME NEW S, Ordered(S)
    PROVE  Greatest(S, 0) = {}
BY EarlierFewer, GreatestEarlier

\* The smallest output is not needed for less than all.
LEMMA GreatestWithoutLast ==
    ASSUME NEW S, Ordered(S), NEW n \in Nat, n < Cardinality(S), NEW u, IsLast(S, u)
    PROVE  Greatest(S, n) = Greatest(S \ {u}, n)
<1>1. u \in S
  BY DEF IsLast
<1>2. Cardinality(S \ {u}) = Cardinality(S) - 1
  BY <1>1, FS_RemoveElement DEF Ordered, Valued
<1>3. Earlier(S, u) = S \ {u}
  BY <1>1, BeforeTotal DEF IsLast, Earlier
<1>4. ~(Cardinality(Earlier(S, u)) < n)
  <2>1. Cardinality(S) \in Nat
    BY OrderedPart
  <2> QED BY <1>2, <1>3, <2>1
<1>5. \A v \in S \ {u} : Earlier(S, v) = Earlier(S \ {u}, v)
  BY <1>1, BeforeTotal DEF IsLast, Earlier
<1> QED BY <1>4, <1>5, GreatestEarlier

\* There are n of them.
LEMMA GreatestCardinality ==
    ASSUME NEW S, Ordered(S), NEW n \in Nat, n <= Cardinality(S)
    PROVE  /\ Greatest(S, n) \in SUBSET S
           /\ Cardinality(Greatest(S, n)) = n
<1> DEFINE B == {T \in SUBSET S : n <= Cardinality(T) => Cardinality(Greatest(T, n)) = n}
<1>1. ASSUME NEW T \in SUBSET S, \A R \in SUBSET T : R # T => R \in B
      PROVE  T \in B
  <2> SUFFICES ASSUME n <= Cardinality(T)
               PROVE  Cardinality(Greatest(T, n)) = n
    OBVIOUS
  <2>0. Ordered(T) /\ Cardinality(T) \in Nat
    BY OrderedPart
  <2>1. CASE n = Cardinality(T)
    BY <2>0, <2>1, GreatestAll
  <2>2. CASE n < Cardinality(T)
    <3>1. T # {}
      BY <2>2, FS_EmptySet
    <3>2. PICK u : IsLast(T, u)
      BY <2>0, <3>1, LastExists
    <3>3. u \in T
      BY <3>2 DEF IsLast
    <3>4. Cardinality(T \ {u}) = Cardinality(T) - 1
      BY <2>0, <3>3, FS_RemoveElement DEF Ordered, Valued
    <3>5. T \ {u} \in B
      BY <1>1, <3>3
    <3>6. Cardinality(Greatest(T \ {u}, n)) = n
      BY <2>0, <2>2, <3>4, <3>5
    <3> QED BY <2>0, <2>2, <3>2, <3>6, GreatestWithoutLast
  <2> QED BY <2>0, <2>1, <2>2
<1>2. SUBSET S \subseteq B
  <2>1. B \in SUBSET (SUBSET S) /\ IsFiniteSet(S)
    BY DEF Ordered, Valued
  <2> HIDE DEF B
  <2> QED BY <1>1, <2>1, SubsetInduction
<1>3. Greatest(S, n) \in SUBSET S
  BY DEF Greatest
<1> QED BY <1>2, <1>3

\* No outputs bring more than as many of the greatest: whoever takes the
\* smallest could take one he has left out.
LEMMA GreatestBest ==
    ASSUME NEW S, Ordered(S), NEW T \in SUBSET S
    PROVE  Value(T) <= Value(Greatest(S, Cardinality(T)))
<1> DEFINE B == {R \in SUBSET S : \A Q \in SUBSET R :
                    Value(Q) <= Value(Greatest(R, Cardinality(Q)))}
<1>0. \A R \in SUBSET S : Ordered(R) /\ Valued(R) /\ Value(R) \in Nat
  BY OrderedPart, ValueNat
<1>1. ASSUME NEW R \in SUBSET S, \A P \in SUBSET R : P # R => P \in B
      PROVE  R \in B
  <2> SUFFICES ASSUME NEW Q \in SUBSET R
               PROVE  Value(Q) <= Value(Greatest(R, Cardinality(Q)))
    OBVIOUS
  <2>0. /\ Ordered(R) /\ Cardinality(R) \in Nat /\ Cardinality(Q) \in Nat
        /\ Cardinality(Q) <= Cardinality(R)
    BY <1>0, OrderedPart
  <2>1. CASE Q = R
    <3>1. Greatest(R, Cardinality(Q)) = R
      BY <2>0, <2>1, GreatestAll
    <3>2. Value(R) \in Nat
      BY <1>0
    <3> QED BY <2>1, <3>1, <3>2
  <2>2. CASE Q # R
    <3>1. Cardinality(Q) < Cardinality(R)
      BY <2>0, <2>2, OrderedPart
    <3>2. PICK u : IsLast(R, u)
      BY <2>0, <2>2, LastExists
    <3>3. u \in R
      BY <3>2 DEF IsLast
    <3>4. Greatest(R, Cardinality(Q)) = Greatest(R \ {u}, Cardinality(Q))
      BY <2>0, <3>1, <3>2, GreatestWithoutLast
    <3>5. R \ {u} \in B
      BY <1>1, <3>3
    <3>6. CASE u \notin Q
      <4>1. Q \in SUBSET (R \ {u})
        BY <3>6
      <4> QED BY <3>4, <3>5, <4>1
    <3>7. CASE u \in Q
      <4>1. PICK w \in R \ Q : TRUE
        BY <2>2
      <4> DEFINE P == Q \ {u}
                 X == P \cup {w}
      <4>2. w # u /\ w \notin P /\ w.satoshis >= u.satoshis
        BY <2>0, <3>2, <3>3, <3>7, <4>1, BeforeTotal DEF IsLast
      <4>3. P \in SUBSET S /\ X \in SUBSET S /\ X \in SUBSET (R \ {u}) /\ X \ {w} = P
        BY <3>7, <4>1, <4>2
      <4>4. Value(Q) = u.satoshis + Value(P)
        BY <1>0, <3>7, ValueAdd
      <4>5. Value(X) = w.satoshis + Value(P)
        <5> HIDE DEF P
        <5>1. Valued(X) /\ w \in X
          BY <1>0, <4>3
        <5> HIDE DEF X
        <5>2. Value(X) = w.satoshis + Value(X \ {w})
          BY <5>1, ValueAdd
        <5> QED BY <4>3, <5>2
      <4>6. Cardinality(X) = Cardinality(Q)
        <5>1. IsFiniteSet(Q) /\ IsFiniteSet(P)
          BY <2>0, <4>3, OrderedPart
        <5>2. Cardinality(P) = Cardinality(Q) - 1
          BY <3>7, <5>1, FS_RemoveElement
        <5>3. Cardinality(X) = Cardinality(P) + 1
          BY <4>2, <5>1, FS_AddElement
        <5> QED BY <2>0, <5>2, <5>3
      <4>7. Value(X) <= Value(Greatest(R \ {u}, Cardinality(X)))
        BY <3>5, <4>3
      <4>8. /\ Value(P) \in Nat /\ u.satoshis \in Nat /\ w.satoshis \in Nat
            /\ Value(Greatest(R \ {u}, Cardinality(X))) \in Nat
        <5>1. Greatest(R \ {u}, Cardinality(X)) \in SUBSET S
          BY DEF Greatest
        <5>2. u \in S /\ w \in S
          BY <3>3, <4>1
        <5> QED BY <1>0, <4>3, <5>1, <5>2 DEF Ordered, Valued
      <4> HIDE DEF P, X
      <4> DEFINE p == Value(P)
                 x == Value(X)
                 g == Value(Greatest(R \ {u}, Cardinality(X)))
      <4>9. /\ Value(Q) = u.satoshis + p /\ x = w.satoshis + p /\ x <= g
            /\ p \in Nat /\ u.satoshis \in Nat /\ w.satoshis \in Nat /\ g \in Nat
        BY <4>4, <4>5, <4>7, <4>8
      <4>10. Value(Q) <= g
        <5> HIDE DEF p, x, g
        <5> QED BY <4>2, <4>9
      <4> QED BY <3>4, <4>6, <4>10
    <3> QED BY <3>6, <3>7
  <2> QED BY <2>1, <2>2
<1>2. SUBSET S \subseteq B
  <2>1. B \in SUBSET (SUBSET S) /\ IsFiniteSet(S)
    BY DEF Ordered, Valued
  <2> HIDE DEF B
  <2> QED BY <1>1, <2>1, SubsetInduction
<1> QED BY <1>2

-----------------------------------------------------------------------------
(* Fees                                                                    *)

LEMMA SizesTyped ==
    ASSUME NEW c \in BOOLEAN
    PROVE  /\ Unit \in Nat /\ 0 < Unit /\ Rate \in Nat /\ 0 < Rate
           /\ BaseOf(c) \in Nat /\ 0 < BaseOf(c)
           /\ PerInput(c) \in Nat /\ 0 < PerInput(c)
           /\ BaseOf(c) <= BaseOf(TRUE) /\ PerInput(c) <= PerInput(TRUE)
           /\ MaxSize \in Nat /\ MinOutput \in Nat /\ 0 < MinOutput
           /\ Dust \in Nat /\ Dust <= MinOutput
BY UnitAssumption, ThresholdAssumption DEF BaseOf, PerInput

LEMMA Products ==
    ASSUME NEW a \in Nat, NEW b \in Nat
    PROVE  /\ a * b \in Nat
           /\ (0 < a /\ 0 < b => 0 < a * b)
           /\ \A d \in Nat : a <= d => a * b <= d * b
           /\ (a + 1) * b = a * b + b
           /\ \A d \in Nat : (a + d) * b = a * b + d * b
           /\ \A d \in Nat : a <= d => (d - a) * b = d * b - a * b
BY Z3

LEMMA SizeTyped ==
    ASSUME NEW c \in BOOLEAN, NEW n \in Nat
    PROVE  /\ Size(n, c) \in Nat /\ 0 < Size(n, c)
           /\ \A m \in Nat : m <= n => Size(m, c) <= Size(n, c)
<1>1. /\ BaseOf(c) \in Nat /\ 0 < BaseOf(c) /\ PerInput(c) \in Nat
  BY SizesTyped
<1>2. n * PerInput(c) \in Nat /\ \A m \in Nat : m * PerInput(c) \in Nat
  BY <1>1, Products
<1>3. \A m \in Nat : m <= n => m * PerInput(c) <= n * PerInput(c)
  BY <1>1, Products
<1> QED BY <1>1, <1>2, <1>3 DEF Size

LEMMA SingleFits == Size(1, TRUE) <= MaxSize
BY UnitAssumption, ThresholdAssumption DEF Size, BaseOf, PerInput

\* The fee of more inputs is what they cost more.
LEMMA FeeTyped ==
    ASSUME NEW c \in BOOLEAN, NEW n \in Nat, NEW m \in Nat
    PROVE  /\ ExactFee(n, c) \in Nat /\ 0 < ExactFee(n, c)
           /\ InputFee(c) \in Nat /\ 0 < InputFee(c)
           /\ m * InputFee(c) \in Nat
           /\ ExactFee(n + m, c) = ExactFee(n, c) + m * InputFee(c)
           /\ ExactFee(n, c) = BaseOf(c) * Rate + n * InputFee(c)
<1> DEFINE p == PerInput(c)
           b == BaseOf(c)
<1>1. b \in Nat /\ 0 < b /\ p \in Nat /\ 0 < p /\ Rate \in Nat /\ 0 < Rate
  BY SizesTyped
<1>2. /\ ExactFee(n, c) = (b + n * p) * Rate
      /\ ExactFee(n + m, c) = (b + (n + m) * p) * Rate
      /\ InputFee(c) = p * Rate
      /\ Size(n, c) \in Nat /\ 0 < Size(n, c)
  BY SizeTyped DEF ExactFee, Size, InputFee
<1>3. ExactFee(n, c) \in Nat /\ 0 < ExactFee(n, c)
  BY <1>1, <1>2, Products DEF ExactFee
<1> HIDE DEF p, b
<1>4. p * Rate \in Nat /\ 0 < p * Rate /\ m * (p * Rate) \in Nat
  BY <1>1, Products
<1>5. (b + (n + m) * p) * Rate = (b + n * p) * Rate + m * (p * Rate)
  BY <1>1, Z3
<1>6. (b + n * p) * Rate = b * Rate + n * (p * Rate)
  BY <1>1, Z3
<1> QED BY <1>2, <1>3, <1>4, <1>5, <1>6 DEF b

\* What is rounded is never more than a whole number that is enough.
LEMMA RoundEnough ==
    ASSUME NEW f \in Nat, NEW k \in Nat, f <= k * Unit
    PROVE  Round(f) \in Nat /\ Round(f) <= k
<1>1. Unit \in Nat /\ 0 < Unit
  BY SizesTyped
<1>2. 2 * f + Unit < (k + 1) * (2 * Unit)
  BY <1>1, Z3
<1>3. 2 * f + Unit \in Nat /\ 2 * Unit \in Nat /\ 0 < 2 * Unit
  BY <1>1
<1>4. (2 * f + Unit) \div (2 * Unit) \in Nat
  BY <1>3
<1>5. \A x, y, z \in Nat : 0 < y /\ x < (z + 1) * y => x \div y <= z
  BY Z3
<1> QED BY <1>2, <1>3, <1>4, <1>5 DEF Round

LEMMA RoundTyped ==
    ASSUME NEW f \in Nat
    PROVE  Round(f) \in Nat
<1>1. Unit \in Nat /\ 0 < Unit
  BY SizesTyped
<1>2. 2 * f + Unit \in Nat /\ 2 * Unit \in Nat /\ 0 < 2 * Unit
  BY <1>1
<1> QED BY <1>2 DEF Round

\* Rounding leaves the order of what remains.
LEMMA RoundOrder ==
    ASSUME NEW f \in Nat, NEW g \in Nat, NEW v \in Nat, NEW w \in Nat,
           v * Unit - f <= w * Unit - g
    PROVE  v - Round(f) <= w - Round(g)
<1>1. Unit \in Nat /\ 0 < Unit
  BY SizesTyped
<1> DEFINE q == 2 * Unit
           x == 2 * f + Unit
           y == 2 * g + Unit
<1>2. q \in Nat /\ 0 < q /\ x \in Nat /\ y \in Nat
  BY <1>1
<1>3. y + v * q <= x + w * q
  BY <1>1, Z3
<1> HIDE DEF q, x, y
<1>4. \A a \in Nat : a \div q \in Nat /\ q * (a \div q) <= a /\ a < q * (a \div q) + q
  BY <1>2, Z3
<1> DEFINE i == x \div q
           j == y \div q
<1>5. /\ i \in Nat /\ q * i <= x /\ x < q * i + q
      /\ j \in Nat /\ q * j <= y /\ y < q * j + q
  BY <1>2, <1>4
<1> HIDE DEF i, j
<1>6. q * (j + v) < q * (i + w + 1)
  BY <1>2, <1>3, <1>5, Z3
<1>7. j + v < i + w + 1
  BY <1>2, <1>5, <1>6, Z3
<1>8. Round(f) = i /\ Round(g) = j
  BY DEF Round, i, j, x, y, q
<1> QED BY <1>5, <1>7, <1>8

-----------------------------------------------------------------------------
(* What outputs can pay                                                    *)

\* Their value without the fee, in units.
Net(S, c) == Value(S) * Unit - ExactFee(Cardinality(S), c)

Worth(S, c) == {u \in S : u.satoshis * Unit > InputFee(c)}

LEMMA NetTyped ==
    ASSUME NEW S, Valued(S), NEW c \in BOOLEAN
    PROVE  /\ Value(S) \in Nat /\ Cardinality(S) \in Nat /\ Value(S) * Unit \in Nat
           /\ Net(S, c) \in Int
<1>1. Value(S) \in Nat /\ Cardinality(S) \in Nat
  BY ValueNat, FS_CardinalityType DEF Valued
<1>2. Unit \in Nat
  BY SizesTyped
<1>3. Value(S) * Unit \in Nat /\ ExactFee(Cardinality(S), c) \in Nat
  BY <1>1, <1>2, Products, FeeTyped
<1> QED BY <1>1, <1>3 DEF Net

LEMMA NetEmpty ==
    ASSUME NEW c \in BOOLEAN
    PROVE  Net({}, c) < 0
<1>1. Value({}) = 0 /\ Cardinality({}) = 0
  BY ValueEmpty, FS_EmptySet
<1>2. ExactFee(0, c) \in Nat /\ 0 < ExactFee(0, c)
  BY FeeTyped
<1>3. 0 * Unit = 0
  <2>1. Unit \in Nat
    BY SizesTyped
  <2> QED BY <2>1
<1> QED BY <1>1, <1>2, <1>3 DEF Net

\* Outputs that are each worth more than k, or each no more, are so together.
LEMMA WorthTogether ==
    ASSUME NEW S, Valued(S), NEW k \in Nat
    PROVE  /\ (\A u \in S : u.satoshis * Unit > k) => Value(S) * Unit >= Cardinality(S) * k
           /\ (\A u \in S : u.satoshis * Unit <= k) => Value(S) * Unit <= Cardinality(S) * k
<1> DEFINE Each(T) ==
             /\ (\A u \in T : u.satoshis * Unit > k) => Value(T) * Unit >= Cardinality(T) * k
             /\ (\A u \in T : u.satoshis * Unit <= k) => Value(T) * Unit <= Cardinality(T) * k
           B == {T \in SUBSET S : Each(T)}
<1>0. Unit \in Nat
  BY SizesTyped
<1>1. ASSUME NEW T \in SUBSET S, \A R \in SUBSET T : R # T => R \in B
      PROVE  T \in B
  <2>1. CASE T = {}
    <3>1. Value(T) = 0 /\ Cardinality(T) = 0
      BY <2>1, ValueEmpty, FS_EmptySet
    <3>2. Value(T) * Unit = 0 /\ Cardinality(T) * k = 0
      BY <1>0, <3>1
    <3> QED BY <3>2
  <2>2. CASE T # {}
    <3>1. PICK u \in T : TRUE
      BY <2>2
    <3> DEFINE R == T \ {u}
    <3>2. R \in B /\ R \in SUBSET T /\ R \in SUBSET S /\ T \in SUBSET S
      BY <1>1, <3>1
    <3>3. Value(T) = u.satoshis + Value(R)
      BY <3>1, ValuedPart, ValueAdd
    <3>4. Cardinality(R) = Cardinality(T) - 1 /\ Cardinality(T) \in Nat
          /\ Cardinality(R) \in Nat
      BY <3>1, <3>2, ValuedPart, FS_RemoveElement
    <3>5. u.satoshis \in Nat /\ Value(R) \in Nat
      BY <3>2, ValuedPart, ValueNat DEF Valued
    <3>6. Each(R)
      BY <3>2
    <3>7. Value(T) * Unit = u.satoshis * Unit + Value(R) * Unit
      BY <1>0, <3>3, <3>5, Products
    <3>8. Cardinality(T) * k = Cardinality(R) * k + k
      <4>1. Cardinality(T) = Cardinality(R) + 1
        BY <3>4
      <4> QED BY <3>4, <4>1, Products
    <3>9. u.satoshis * Unit \in Nat /\ Value(R) * Unit \in Nat /\ Cardinality(R) * k \in Nat
      BY <1>0, <3>4, <3>5, Products
    <3>10. Each(T)
      <4>1. /\ (\A v \in T : v.satoshis * Unit > k) =>
                  u.satoshis * Unit > k /\ Value(R) * Unit >= Cardinality(R) * k
            /\ (\A v \in T : v.satoshis * Unit <= k) =>
                  u.satoshis * Unit <= k /\ Value(R) * Unit <= Cardinality(R) * k
        BY <3>1, <3>2, <3>6
      <4> DEFINE x == u.satoshis * Unit
                 y == Value(R) * Unit
                 z == Cardinality(R) * k
      <4>2. /\ (x > k /\ y >= z => x + y >= z + k)
            /\ (x <= k /\ y <= z => x + y <= z + k)
        <5>1. x \in Nat /\ y \in Nat /\ z \in Nat
          BY <3>9
        <5> HIDE DEF x, y, z
        <5> QED BY <5>1
      <4> QED BY <3>7, <3>8, <4>1, <4>2
    <3> HIDE DEF Each
    <3> QED BY <3>10
  <2> QED BY <2>1, <2>2
<1>2. SUBSET S \subseteq B
  <2>1. B \in SUBSET (SUBSET S) /\ IsFiniteSet(S)
    BY DEF Valued
  <2> HIDE DEF B
  <2> QED BY <1>1, <2>1, SubsetInduction
<1>3. Each(S)
  BY <1>2
<1> QED BY <1>3

\* What the others add, and what they cost.
LEMMA NetSplit ==
    ASSUME NEW S, Valued(S), NEW R \in SUBSET S, NEW c \in BOOLEAN
    PROVE  /\ Valued(R) /\ Valued(S \ R)
           /\ Net(S, c) - Net(R, c) =
                  Value(S \ R) * Unit - Cardinality(S \ R) * InputFee(c)
           /\ Cardinality(R) <= Cardinality(S)
<1>1. S \ R \in SUBSET S
  OBVIOUS
<1>2. /\ Valued(R) /\ Valued(S \ R) /\ IsFiniteSet(R) /\ IsFiniteSet(S \ R)
  BY <1>1, ValuedPart
<1>3. Value(S) = Value(R) + Value(S \ R)
  BY ValueSplit
<1>4. Cardinality(S) = Cardinality(R) + Cardinality(S \ R)
  <2>1. R \cap (S \ R) = {} /\ R \cup (S \ R) = S
    OBVIOUS
  <2>2. Cardinality(R \cup (S \ R)) =
            Cardinality(R) + Cardinality(S \ R) - Cardinality(R \cap (S \ R))
    BY <1>2, FS_Union
  <2>3. Cardinality(R) \in Nat /\ Cardinality(S \ R) \in Nat
    BY <1>2, FS_CardinalityType
  <2>4. Cardinality(R \cap (S \ R)) = 0
    BY <2>1, FS_EmptySet
  <2>5. Cardinality(S) = Cardinality(R) + Cardinality(S \ R) - 0
    BY <2>1, <2>2, <2>4
  <2> QED BY <2>3, <2>5
<1>5. /\ Value(R) \in Nat /\ Value(S \ R) \in Nat /\ Unit \in Nat
      /\ Cardinality(R) \in Nat /\ Cardinality(S \ R) \in Nat
  BY <1>2, NetTyped, SizesTyped
<1> DEFINE v == Value(R)
           w == Value(S \ R)
           m == Cardinality(R)
           n == Cardinality(S \ R)
<1>6. (v + w) * Unit = v * Unit + w * Unit /\ v * Unit \in Nat /\ w * Unit \in Nat
  BY <1>5, Products
<1>7. /\ ExactFee(m + n, c) = ExactFee(m, c) + n * InputFee(c)
      /\ ExactFee(m, c) \in Nat /\ n * InputFee(c) \in Nat
  BY <1>5, FeeTyped
<1>8. Net(S, c) = (v + w) * Unit - ExactFee(m + n, c) /\ Net(R, c) = v * Unit - ExactFee(m, c)
  BY <1>3, <1>4 DEF Net
<1>9. Net(S, c) - Net(R, c) = w * Unit - n * InputFee(c)
  <2> DEFINE x == v * Unit
             y == w * Unit
             f == ExactFee(m, c)
             i == n * InputFee(c)
  <2>1. Net(S, c) = x + y - (f + i) /\ Net(R, c) = x - f
    BY <1>6, <1>7, <1>8
  <2>2. x \in Nat /\ y \in Nat /\ f \in Nat /\ i \in Nat
    BY <1>6, <1>7
  <2> HIDE DEF x, y, f, i
  <2>3. Net(S, c) - Net(R, c) = y - i
    BY <2>1, <2>2
  <2> QED BY <2>3 DEF y, i
<1> QED BY <1>2, <1>4, <1>5, <1>9

\* Outputs that bring more than their fee bring more together.
LEMMA NetGains ==
    ASSUME NEW S, Valued(S), NEW c \in BOOLEAN,
           \A u \in S : u.satoshis * Unit > InputFee(c),
           NEW R \in SUBSET S
    PROVE  Net(R, c) <= Net(S, c)
<1>1. Valued(R) /\ Valued(S \ R)
  BY NetSplit
<1>2. InputFee(c) \in Nat
  BY FeeTyped
<1>3. Value(S \ R) * Unit >= Cardinality(S \ R) * InputFee(c)
  BY <1>1, <1>2, WorthTogether
<1>4. Net(S, c) - Net(R, c) = Value(S \ R) * Unit - Cardinality(S \ R) * InputFee(c)
  BY NetSplit
<1>5. /\ Net(R, c) \in Int /\ Net(S, c) \in Int
      /\ Value(S \ R) * Unit \in Nat /\ Cardinality(S \ R) * InputFee(c) \in Nat
  BY <1>1, <1>2, NetTyped, FeeTyped
<1> QED BY <1>3, <1>4, <1>5

\* The others bring nothing.
LEMMA NetDrops ==
    ASSUME NEW S, Valued(S), NEW c \in BOOLEAN, NEW T \in SUBSET S
    PROVE  /\ T \cap Worth(S, c) \in SUBSET Worth(S, c)
           /\ Net(T, c) <= Net(T \cap Worth(S, c), c)
           /\ Cardinality(T \cap Worth(S, c)) <= Cardinality(T)
           /\ Cardinality(T \cap Worth(S, c)) \in Nat /\ Cardinality(T) \in Nat
<1> DEFINE R == T \cap Worth(S, c)
<1>1. Valued(T) /\ Unit \in Nat
  BY ValuedPart, SizesTyped
<1>2. R \in SUBSET T
  OBVIOUS
<1>3. Valued(R) /\ Valued(T \ R) /\ Cardinality(R) <= Cardinality(T)
      /\ Net(T, c) - Net(R, c) = Value(T \ R) * Unit - Cardinality(T \ R) * InputFee(c)
  <2> HIDE DEF R
  <2> QED BY <1>1, <1>2, NetSplit
<1>4. InputFee(c) \in Nat
  BY FeeTyped
<1>5. \A u \in T \ R : u.satoshis * Unit <= InputFee(c)
  <2> SUFFICES ASSUME NEW u \in T \ R PROVE u.satoshis * Unit <= InputFee(c)
    OBVIOUS
  <2>1. ~(u.satoshis * Unit > InputFee(c))
    BY DEF Worth
  <2>2. u.satoshis * Unit \in Nat
    BY <1>1, Products DEF Valued
  <2> QED BY <1>4, <2>1, <2>2
<1> HIDE DEF R
<1>6. Value(T \ R) * Unit <= Cardinality(T \ R) * InputFee(c)
  BY <1>3, <1>4, <1>5, WorthTogether
<1>7. /\ Net(R, c) \in Int /\ Net(T, c) \in Int
      /\ Value(T \ R) * Unit \in Nat /\ Cardinality(T \ R) * InputFee(c) \in Nat
      /\ Cardinality(R) \in Nat /\ Cardinality(T) \in Nat
  BY <1>1, <1>3, <1>4, NetTyped, FeeTyped
<1>8. Net(T, c) <= Net(R, c)
  BY <1>3, <1>6, <1>7
<1> QED BY <1>3, <1>7, <1>8 DEF R

\* Who pays the exact fee has a whole number left.
LEMMA NetPays ==
    ASSUME NEW S, Valued(S), NEW c \in BOOLEAN, NEW a \in Nat,
           Net(S, c) >= a * Unit
    PROVE  a + Round(ExactFee(Cardinality(S), c)) <= Value(S)
<1> DEFINE f == ExactFee(Cardinality(S), c)
           v == Value(S)
<1>1. v \in Nat /\ Unit \in Nat /\ 0 < Unit /\ f \in Nat
  BY NetTyped, FeeTyped, SizesTyped
<1>2. v * Unit - f >= a * Unit
  BY DEF Net
<1> HIDE DEF v, f
<1>3. v * Unit \in Nat /\ a * Unit \in Nat
  BY <1>1, Products
<1>4. a <= v
  <2> SUFFICES ASSUME v < a PROVE FALSE
    BY <1>1
  <2>1. (v + 1) * Unit <= a * Unit /\ (v + 1) * Unit = v * Unit + Unit
    BY <1>1, Products
  <2> QED BY <1>1, <1>2, <1>3, <2>1
<1>5. v - a \in Nat /\ (v - a) * Unit = v * Unit - a * Unit
  BY <1>1, <1>4, Products
<1>6. f <= (v - a) * Unit
  BY <1>1, <1>2, <1>3, <1>5
<1>7. Round(f) \in Nat /\ Round(f) <= v - a
  BY <1>1, <1>5, <1>6, RoundEnough
<1>8. a + Round(f) <= v
  BY <1>1, <1>7
<1> QED BY <1>8 DEF v, f

-----------------------------------------------------------------------------
(* select                                                                  *)

\* The loop over the small inputs gives up at one with which it pays.
Late(W) ==
    LET small == W \ Big(W)
        n == Ends(small, Big(W))
    IN  n > 0 /\ GivesUp(small, Big(W), n) /\ Reaches(Greatest(small, n))

\* What a selection out of S promises if it has found inputs,
Found(S, r) ==
    /\ r.error = Nothing
    /\ r.inputs \subseteq S /\ r.inputs # {}
    /\ Pays(r.inputs)
    /\ \A u \in r.inputs : ~Pays(r.inputs \ {u})
    /\ r.fee \in Nat
    /\ r.fee >= Round(ExactFee(Cardinality(r.inputs), payPro))
    /\ Value(r.inputs) >= amount + r.fee
    /\ \/ Value(r.inputs) - amount - r.fee = 0
       \/ Value(r.inputs) - amount - r.fee >= MinOutput
       \/ Late(Economic(S))
    /\ ~TooLarge(Cardinality(r.inputs)) \/ Size(Cardinality(r.inputs), TRUE) <= MaxSize
       \/ Late(Economic(S))

\* and if it has not.
Refused(S, r) ==
    /\ r.error \in Errors
    /\ r.inputs = {}
    /\ r.fee = 0
    /\ ~CanPay(S)

\* The request and the constants.
Asked == amount \in Amounts /\ payPro \in BOOLEAN

LEMMA AskedTyped ==
    ASSUME Asked
    PROVE  /\ amount \in Nat /\ payPro \in BOOLEAN /\ MinOutput <= amount
           /\ amount * Unit \in Nat /\ MinOutput \in Nat /\ 0 < MinOutput
           /\ BigFactor \in Nat /\ 1 < BigFactor
           /\ Unit \in Nat /\ 0 < Unit
<1>1. amount \in Nat /\ payPro \in BOOLEAN /\ MinOutput <= amount
  BY ThresholdAssumption DEF Asked
<1>2. BigFactor \in Nat /\ 1 < BigFactor
  BY ThresholdAssumption
<1>3. Unit \in Nat /\ 0 < Unit /\ MinOutput \in Nat /\ 0 < MinOutput
  BY <1>1, SizesTyped
<1>4. amount * Unit \in Nat
  BY <1>1, <1>3, Products
<1> QED BY <1>1, <1>2, <1>3, <1>4

LEMMA PaysNet ==
    ASSUME NEW S
    PROVE  /\ Pays(S) <=> Net(S, payPro) >= amount * Unit
           /\ Reaches(S) <=> Pays(S)
           /\ Economic(S) = Worth(S, payPro)
           /\ NetTotal(S) = Net(S, payPro)
BY DEF Pays, NetTotal, Net, Reaches, Economic, Worth

LEMMA NothingPaysNothing ==
    ASSUME Asked
    PROVE  ~Pays({})
<1>1. payPro \in BOOLEAN /\ amount * Unit \in Nat
  BY AskedTyped
<1>2. Net({}, payPro) < 0 /\ Net({}, payPro) \in Int
  <2>1. Valued({})
    BY FS_EmptySet DEF Valued
  <2> QED BY <1>1, <2>1, NetEmpty, NetTyped
<1> QED BY <1>1, <1>2, PaysNet

\* Nothing is refused if there is a big input.
LEMMA BigFound ==
    ASSUME Asked, NEW S, Ordered(S), NEW big, big = Big(Economic(S)), big # {}, NEW why
    PROVE  Found(S, UseBig(big, why))
<1>1. big \in SUBSET S
  BY DEF Big, Economic
<1>2. PICK u \in big : Smallest(big) = {u}
  BY <1>1, OrderedPart, SmallestIs
<1> DEFINE f == ExactFee(1, payPro)
           r == Selected({u}, Round(f))
<1>3. UseBig(big, why) = r
  BY <1>2 DEF UseBig
<1>4. u \in S /\ u.satoshis \in Nat
  BY <1>1 DEF Ordered, Valued
<1>5. /\ amount \in Nat /\ MinOutput <= amount /\ MinOutput \in Nat
      /\ BigFactor \in Nat /\ 1 < BigFactor /\ Unit \in Nat /\ payPro \in BOOLEAN
      /\ amount * Unit \in Nat
  BY AskedTyped
<1>6. u.satoshis * Unit > amount * BigFactor * Unit + f
  BY <1>2 DEF Big
<1>7. f \in Nat
  BY <1>5, FeeTyped
<1>8. Valued({u}) /\ Cardinality({u}) = 1 /\ Value({u}) = u.satoshis
  BY <1>4, FS_Singleton, ValueSingle DEF Valued
<1> HIDE DEF f
<1>9. Net({u}, payPro) = u.satoshis * Unit - f
  BY <1>8 DEF Net, f
<1> DEFINE k == amount * BigFactor
<1>10. k \in Nat /\ amount + amount <= k /\ amount * Unit <= k * Unit
  <2>1. k \in Nat
    BY <1>5, Products
  <2>2. 2 * amount <= BigFactor * amount
    BY <1>5, Products
  <2>3. BigFactor * amount = amount * BigFactor
    BY <1>5
  <2>4. amount + amount <= k
    BY <1>5, <2>1, <2>2, <2>3
  <2>5. amount <= k
    BY <1>5, <2>1, <2>4
  <2> HIDE DEF k
  <2>6. amount * Unit <= k * Unit
    BY <1>5, <2>1, <2>5, Products
  <2> QED BY <2>1, <2>4, <2>6
<1>11. u.satoshis * Unit > k * Unit + f
  BY <1>6
<1> HIDE DEF k
<1>12. u.satoshis * Unit \in Nat /\ k * Unit \in Nat
  BY <1>4, <1>5, <1>10, Products
<1>13. Net({u}, payPro) >= k * Unit
  BY <1>7, <1>9, <1>11, <1>12
<1>14. Pays({u})
  <2>1. Net({u}, payPro) >= amount * Unit
    BY <1>5, <1>7, <1>9, <1>10, <1>11, <1>12
  <2> QED BY <2>1, PaysNet
<1>15. k + Round(f) <= u.satoshis
  BY <1>5, <1>8, <1>10, <1>13, NetPays DEF f
<1>16. Round(f) \in Nat
  BY <1>7, RoundTyped
<1>17. /\ u.satoshis >= amount + Round(f)
       /\ u.satoshis - amount - Round(f) >= MinOutput
  BY <1>4, <1>5, <1>10, <1>15, <1>16
<1>18. /\ r.error = Nothing /\ r.inputs = {u} /\ r.fee = Round(f)
  BY DEF Selected
<1>19. \A v \in {u} : {u} \ {v} = {}
  OBVIOUS
<1>20. Size(Cardinality({u}), TRUE) <= MaxSize
  BY <1>8, SingleFits
<1>21. Round(f) >= Round(ExactFee(Cardinality({u}), payPro))
  BY <1>8, <1>16 DEF f
<1> HIDE DEF r
<1> QED BY <1>3, <1>4, <1>8, <1>14, <1>16, <1>17, <1>18, <1>19, <1>20, <1>21,
           NothingPaysNothing DEF Found

\* Where the loop ends: it had no reason to end before.
LEMMA EndsWhere ==
    ASSUME NEW small, Ordered(small), NEW big
    PROVE  LET n == Ends(small, big)
               k == Cardinality(small)
               Stop(m) == GivesUp(small, big, m) \/ Reaches(Greatest(small, m))
           IN  /\ n \in Nat /\ n <= k /\ k \in Nat
               /\ n = 0 <=> k = 0
               /\ n > 0 => Stop(n) \/ n = k
               /\ \A m \in 1 .. k : m < n => ~Stop(m)
<1> DEFINE k == Cardinality(small)
           Stop(m) == GivesUp(small, big, m) \/ Reaches(Greatest(small, m))
           T == {m \in 1 .. k : Stop(m)} \cup {k}
           n == Ends(small, big)
<1>1. k \in Nat
  BY OrderedPart
<1> HIDE DEF k
<1>2. n = Min(T)
  BY DEF Ends, k
<1> HIDE DEF Stop, n
<1>3. T \in SUBSET Nat /\ T # {}
  BY <1>1
<1>4. \E m \in T : \A j \in T : m <= j
  <2> HIDE DEF T
  <2> QED BY <1>3, LeastNat
<1>5. n \in T /\ \A j \in T : n <= j
  <2> HIDE DEF T
  <2> QED BY <1>2, <1>4 DEF Min
<1>6. n \in Nat /\ n <= k
  BY <1>1, <1>3, <1>5
<1>7. n = 0 <=> k = 0
  BY <1>1, <1>5
<1>8. n > 0 => Stop(n) \/ n = k
  BY <1>5
<1>9. ASSUME NEW m \in 1 .. k, m < n PROVE ~Stop(m)
  <2>1. Stop(m) => m \in T
    OBVIOUS
  <2>2. m \in Nat
    BY <1>1
  <2> HIDE DEF T
  <2> QED BY <1>5, <1>6, <1>9, <2>1, <2>2
<1>10. /\ n \in Nat /\ n <= k /\ k \in Nat
       /\ n = 0 <=> k = 0
       /\ n > 0 => Stop(n) \/ n = k
       /\ \A m \in 1 .. k : m < n => ~Stop(m)
  BY <1>1, <1>6, <1>7, <1>8, <1>9
<1> QED BY <1>10 DEF n, k, Stop

LEMMA NetSameSize ==
    ASSUME NEW S, Valued(S), NEW T, Valued(T), NEW c \in BOOLEAN,
           Cardinality(S) = Cardinality(T), Value(S) <= Value(T)
    PROVE  Net(S, c) <= Net(T, c)
<1>1. /\ Value(S) \in Nat /\ Value(T) \in Nat /\ Cardinality(T) \in Nat
      /\ Value(S) * Unit \in Nat /\ Value(T) * Unit \in Nat
  BY NetTyped
<1>2. Unit \in Nat /\ ExactFee(Cardinality(T), c) \in Nat
  BY <1>1, SizesTyped, FeeTyped
<1>3. Value(S) * Unit <= Value(T) * Unit
  BY <1>1, <1>2, Products
<1> QED BY <1>1, <1>2, <1>3 DEF Net

\* The greatest outputs pay if as many others do.
LEMMA GreatestPay ==
    ASSUME Asked, NEW S, Ordered(S), NEW T \in SUBSET S, Pays(T)
    PROVE  Pays(Greatest(S, Cardinality(T)))
<1> DEFINE G == Greatest(S, Cardinality(T))
<1>1. payPro \in BOOLEAN /\ amount * Unit \in Nat
  BY AskedTyped
<1>2. Ordered(T) /\ Cardinality(T) \in Nat /\ Cardinality(T) <= Cardinality(S)
  BY OrderedPart
<1>3. G \in SUBSET S /\ Cardinality(G) = Cardinality(T)
  BY <1>2, GreatestCardinality
<1>4. Value(T) <= Value(G)
  BY GreatestBest
<1> HIDE DEF G
<1>5. Valued(T) /\ Valued(G)
  BY <1>2, <1>3, OrderedPart DEF Ordered
<1>6. Net(T, payPro) <= Net(G, payPro)
  BY <1>1, <1>3, <1>4, <1>5, NetSameSize
<1>7. Net(T, payPro) \in Int /\ Net(G, payPro) \in Int
  BY <1>1, <1>5, NetTyped
<1>8. Pays(G)
  BY <1>1, <1>6, <1>7, PaysNet
<1> QED BY <1>8 DEF G

\* The first n that pay need each of them.
LEMMA GreatestNeeded ==
    ASSUME Asked, NEW S, Ordered(S), NEW n \in Nat, 0 < n, n <= Cardinality(S),
           n > 1 => ~Pays(Greatest(S, n - 1)),
           NEW u \in Greatest(S, n)
    PROVE  ~Pays(Greatest(S, n) \ {u})
<1> DEFINE T == Greatest(S, n) \ {u}
<1>1. Greatest(S, n) \in SUBSET S /\ Cardinality(Greatest(S, n)) = n
  BY GreatestCardinality
<1>2. IsFiniteSet(Greatest(S, n))
  BY <1>1, OrderedPart
<1>3. Cardinality(T) = n - 1 /\ T \in SUBSET S
  BY <1>1, <1>2, FS_RemoveElement
<1> HIDE DEF T
<1>4. SUFFICES ASSUME Pays(T) PROVE FALSE
  BY DEF T
<1>5. Pays(Greatest(S, n - 1))
  BY <1>3, <1>4, GreatestPay
<1>6. n = 1
  BY <1>5
<1>7. IsFiniteSet(T) /\ Cardinality(T) = 0
  BY <1>3, <1>6, OrderedPart
<1>8. T = {}
  BY <1>7, FS_EmptySet
<1> QED BY <1>4, <1>8, NothingPaysNothing

\* What any outputs pay, those pay that are worth their fee.
LEMMA EconomicPay ==
    ASSUME Asked, NEW S, Ordered(S), NEW T \in SUBSET S, Pays(T), ~TooLarge(Cardinality(T))
    PROVE  /\ T \cap Economic(S) \in SUBSET Economic(S)
           /\ Pays(T \cap Economic(S))
           /\ ~TooLarge(Cardinality(T \cap Economic(S)))
<1> DEFINE R == T \cap Economic(S)
<1>1. payPro \in BOOLEAN /\ amount * Unit \in Nat
  BY AskedTyped
<1>2. Economic(S) = Worth(S, payPro)
  BY PaysNet
<1>3. Valued(S)
  BY DEF Ordered
<1>4. /\ R \in SUBSET Worth(S, payPro)
      /\ Net(T, payPro) <= Net(R, payPro)
      /\ Cardinality(R) <= Cardinality(T)
      /\ Cardinality(R) \in Nat /\ Cardinality(T) \in Nat
  BY <1>1, <1>2, <1>3, NetDrops
<1>5. Valued(T) /\ Valued(R)
  <2>1. R \in SUBSET S
    OBVIOUS
  <2> QED BY <1>3, <2>1, ValuedPart
<1> HIDE DEF R
<1>6. Net(T, payPro) \in Int /\ Net(R, payPro) \in Int
  BY <1>1, <1>5, NetTyped
<1>7. Pays(R)
  BY <1>1, <1>4, <1>6, PaysNet
<1>8. Size(Cardinality(R), payPro) <= Size(Cardinality(T), payPro)
  BY <1>1, <1>4, SizeTyped
<1>9. /\ Size(Cardinality(R), payPro) \in Nat /\ Size(Cardinality(T), payPro) \in Nat
      /\ MaxSize \in Nat
  BY <1>1, <1>4, SizeTyped, SizesTyped
<1>10. ~TooLarge(Cardinality(R))
  BY <1>8, <1>9 DEF TooLarge
<1> QED BY <1>2, <1>4, <1>7, <1>10 DEF R

\* If the loop has not reached the amount, and no big input is there, nothing can.
LEMMA SmallRefused ==
    ASSUME Asked, NEW S, Ordered(S), Big(Economic(S)) = {},
           LET n == Ends(Economic(S), {})
           IN  ~(n > 0 /\ Reaches(Greatest(Economic(S), n)))
    PROVE  ~CanPay(S)
<1> DEFINE W == Economic(S)
           k == Cardinality(W)
           n == Ends(W, {})
           Stop(m) == GivesUp(W, {}, m) \/ Reaches(Greatest(W, m))
<1>1. Ordered(W)
  <2>1. W \in SUBSET S
    BY DEF Economic
  <2> HIDE DEF W
  <2> QED BY <2>1, OrderedPart
<1>2. \A m : GivesUp(W, {}, m) <=> TooLarge(m)
  BY DEF GivesUp
<1>3. SUFFICES ASSUME NEW T \in SUBSET S, Pays(T), ~TooLarge(Cardinality(T))
               PROVE  FALSE
  BY DEF CanPay
<1> DEFINE R == T \cap W
           t == Cardinality(R)
<1>4. R \in SUBSET W /\ Pays(R) /\ ~TooLarge(t)
  BY <1>3, EconomicPay
<1> HIDE DEF W, R
<1>5. ~(n > 0 /\ Reaches(Greatest(W, n)))
  BY DEF W
<1>6. /\ n \in Nat /\ n <= k /\ k \in Nat
      /\ n = 0 <=> k = 0
      /\ n > 0 => Stop(n) \/ n = k
      /\ \A m \in 1 .. k : m < n => ~Stop(m)
  <2> HIDE DEF Stop
  <2> USE DEF n, k, Stop
  <2> QED BY <1>1, EndsWhere
<1>7. t \in Nat /\ t <= k /\ IsFiniteSet(R)
  BY <1>1, <1>4, OrderedPart
<1>8. t # 0
  <2> SUFFICES ASSUME t = 0 PROVE FALSE
    OBVIOUS
  <2>1. R = {}
    BY <1>7, FS_EmptySet
  <2> QED BY <1>4, <2>1, NothingPaysNothing
<1> HIDE DEF t
<1>9. Reaches(Greatest(W, t))
  BY <1>1, <1>4, GreatestPay, PaysNet DEF t
<1>10. Stop(t) /\ t \in 1 .. k
  BY <1>6, <1>7, <1>8, <1>9
<1>11. n <= t
  <2> HIDE DEF Stop, n, k
  <2> QED BY <1>6, <1>7, <1>10
<1>12. n > 0 /\ (TooLarge(n) \/ n = k)
  <2>1. n > 0
    <3> HIDE DEF n, k
    <3> QED BY <1>6, <1>7, <1>8
  <2>2. ~Reaches(Greatest(W, n))
    BY <1>5, <2>1
  <2>3. GivesUp(W, {}, n) \/ n = k
    BY <1>6, <2>1, <2>2
  <2>4. \A m : GivesUp(W, {}, m) <=> TooLarge(m)
    BY <1>2 DEF W
  <2> QED BY <2>1, <2>3, <2>4
<1> HIDE DEF n, k, Stop
<1>13. ~TooLarge(n)
  <2>1. payPro \in BOOLEAN /\ MaxSize \in Nat
    BY AskedTyped, SizesTyped
  <2>2. /\ Size(n, payPro) <= Size(t, payPro)
        /\ Size(n, payPro) \in Nat /\ Size(t, payPro) \in Nat
    BY <1>6, <1>7, <1>11, <2>1, SizeTyped
  <2> QED BY <1>4, <2>1, <2>2 DEF TooLarge
<1>14. t = n
  BY <1>6, <1>7, <1>11, <1>12, <1>13
<1> QED BY <1>5, <1>9, <1>12, <1>14

\* The loop has ended with enough.
LEMMA SmallFound ==
    ASSUME Asked, NEW S, Ordered(S),
           NEW W, W = Economic(S), NEW big, big = Big(W),
           NEW small, small = W \ big, NEW n, n = Ends(small, big),
           n > 0, Reaches(Greatest(small, n))
    PROVE  Found(S, SelectSmall(small, big))
<1> DEFINE G == Greatest(small, n)
           up == GivesUp(small, big, n)
           paid == Round(ExactFee(n, payPro))
           charged == IF up THEN paid ELSE FeeOf(G)
           r == Selected(G, charged)
<1>1. SelectSmall(small, big) = r
  BY DEF SelectSmall
<1>2. Ordered(small)
  <2>1. small \in SUBSET S
    BY DEF Economic
  <2> QED BY <2>1, OrderedPart
<1>3. /\ amount \in Nat /\ payPro \in BOOLEAN /\ MinOutput <= amount
      /\ MinOutput \in Nat /\ 0 < MinOutput
  BY AskedTyped
<1>4. /\ n \in Nat /\ n <= Cardinality(small) /\ Cardinality(small) \in Nat
      /\ \A m \in 1 .. Cardinality(small) :
             m < n => ~(GivesUp(small, big, m) \/ Reaches(Greatest(small, m)))
  BY <1>2, EndsWhere
<1>5. G \in SUBSET small /\ Cardinality(G) = n
  BY <1>2, <1>4, GreatestCardinality
<1>6. Pays(G)
  BY PaysNet
<1>7. \A u \in G : ~Pays(G \ {u})
  <2> SUFFICES ASSUME NEW u \in G PROVE ~Pays(G \ {u})
    OBVIOUS
  <2>1. n > 1 => ~Pays(Greatest(small, n - 1))
    <3> SUFFICES ASSUME n > 1 PROVE ~Pays(Greatest(small, n - 1))
      OBVIOUS
    <3>1. n - 1 \in 1 .. Cardinality(small) /\ n - 1 < n
      BY <1>4
    <3> QED BY <1>4, <3>1, PaysNet
  <2> QED BY <1>2, <1>4, <2>1, GreatestNeeded
<1>8. Valued(G) /\ G # {} /\ G \subseteq S
  <2>1. G # {}
    BY <1>4, <1>5, FS_EmptySet
  <2>2. small \subseteq S
    BY DEF Economic
  <2> QED BY <1>2, <1>5, <2>1, <2>2, OrderedPart
<1> HIDE DEF G
<1>9. amount + paid <= Value(G)
  <2>1. Net(G, payPro) >= amount * Unit
    BY <1>6, PaysNet
  <2> QED BY <1>3, <1>5, <1>8, <2>1, NetPays
<1>10. paid \in Nat /\ Value(G) \in Nat
  BY <1>3, <1>4, <1>8, FeeTyped, RoundTyped, ValueNat
<1> DEFINE change == Value(G) - amount - paid
<1>11. FeeOf(G) = IF change \in 1 .. MinOutput THEN paid + change ELSE paid
  BY <1>5 DEF FeeOf
<1>12. Late(W) <=> up
  BY DEF Late, G
<1>13. /\ charged \in Nat /\ charged >= paid /\ Value(G) >= amount + charged
       /\ \/ Value(G) - amount - charged = 0
          \/ Value(G) - amount - charged >= MinOutput
          \/ Late(W)
  <2> HIDE DEF paid, up
  <2>1. CASE up
    BY <1>3, <1>9, <1>10, <1>12, <2>1
  <2>2. CASE ~up /\ change \in 1 .. MinOutput
    <3>1. charged = paid + change
      BY <1>11, <2>2
    <3> HIDE DEF charged
    <3> QED BY <1>3, <1>9, <1>10, <2>2, <3>1
  <2>3. CASE ~up /\ change \notin 1 .. MinOutput
    <3>1. charged = paid
      BY <1>11, <2>3
    <3> HIDE DEF charged
    <3> QED BY <1>3, <1>9, <1>10, <2>3, <3>1
  <2> QED BY <2>1, <2>2, <2>3
<1>14. ~TooLarge(n) \/ Late(W)
  BY <1>12 DEF GivesUp
<1> HIDE DEF charged, up, change
<1>15. r.error = Nothing /\ r.inputs = G /\ r.fee = charged
  BY DEF Selected
<1> HIDE DEF r, paid
<1>16. charged >= Round(ExactFee(Cardinality(G), payPro))
  BY <1>5, <1>13 DEF paid
<1> QED BY <1>1, <1>5, <1>6, <1>7, <1>8, <1>13, <1>14, <1>15, <1>16 DEF Found

\* Whoever has too little pays nothing out of it.
LEMMA TooLittle ==
    ASSUME Asked, NEW S, Ordered(S), NEW T \in SUBSET S, Value(S) < amount
    PROVE  ~CanPay(T)
<1>1. SUFFICES ASSUME NEW R \in SUBSET T, Pays(R) PROVE FALSE
  BY DEF CanPay
<1>2. R \in SUBSET S /\ Valued(S)
  BY <1>1 DEF Ordered
<1>3. Valued(R) /\ Value(R) <= Value(S)
  BY <1>2, ValuedPart, ValueSplit
<1>4. amount \in Nat /\ payPro \in BOOLEAN
  BY AskedTyped
<1>5. Value(S) \in Nat /\ Value(R) \in Nat /\ Cardinality(R) \in Nat
  BY <1>2, <1>3, NetTyped
<1>6. amount + Round(ExactFee(Cardinality(R), payPro)) <= Value(R)
  <2>1. Net(R, payPro) >= amount * Unit
    BY <1>1, PaysNet
  <2> QED BY <1>3, <1>4, <2>1, NetPays
<1>7. Round(ExactFee(Cardinality(R), payPro)) \in Nat
  BY <1>4, <1>5, FeeTyped, RoundTyped
<1> QED BY <1>3, <1>4, <1>5, <1>6, <1>7

\* The wrong sign lets too much through, never too little.
LEMMA NetTooLittle ==
    ASSUME Asked, NEW S, Ordered(S), NEW W, W = Economic(S),
           Value(W) * Unit - BaseOf(payPro) * Rate
               + Cardinality(W) * InputFee(payPro) < amount * Unit
    PROVE  ~CanPay(S)
<1>1. SUFFICES ASSUME NEW T \in SUBSET S, Pays(T), ~TooLarge(Cardinality(T))
               PROVE  FALSE
  BY DEF CanPay
<1>2. T \cap W \in SUBSET W /\ Pays(T \cap W)
  BY <1>1, EconomicPay
<1>3. payPro \in BOOLEAN /\ amount * Unit \in Nat
  BY AskedTyped
<1>4. Valued(W) /\ \A u \in W : u.satoshis * Unit > InputFee(payPro)
  <2>1. W \in SUBSET S
    BY DEF Economic
  <2> QED BY <2>1, OrderedPart DEF Economic
<1>5. Net(T \cap W, payPro) <= Net(W, payPro) /\ Net(T \cap W, payPro) >= amount * Unit
  BY <1>2, <1>3, <1>4, NetGains, PaysNet
<1>6. Net(T \cap W, payPro) \in Int /\ Net(W, payPro) \in Int
  BY <1>2, <1>3, <1>4, NetTyped, ValuedPart
<1>7. Value(W) * Unit \in Nat /\ Cardinality(W) \in Nat
  BY <1>3, <1>4, NetTyped
<1>8. /\ ExactFee(Cardinality(W), payPro) =
             BaseOf(payPro) * Rate + Cardinality(W) * InputFee(payPro)
      /\ Cardinality(W) * InputFee(payPro) \in Nat
  BY <1>3, <1>7, FeeTyped
<1>9. BaseOf(payPro) * Rate \in Nat
  BY <1>3, SizesTyped, Products
<1> DEFINE v == Value(W) * Unit
           b == BaseOf(payPro) * Rate
           i == Cardinality(W) * InputFee(payPro)
           a == amount * Unit
           w == Net(W, payPro)
<1>10. w = v - (b + i) /\ w >= a /\ v - b + i < a
  <2>1. w = v - (b + i)
    BY <1>8 DEF Net
  <2>2. w >= a
    BY <1>3, <1>5, <1>6
  <2> QED BY <2>1, <2>2
<1>11. v \in Nat /\ b \in Nat /\ i \in Nat /\ a \in Nat
  BY <1>3, <1>7, <1>8, <1>9
<1> HIDE DEF v, b, i, a, w
<1> QED BY <1>10, <1>11

\* select finds inputs as promised, or no outputs of the group can pay.
LEMMA SelectSound ==
    ASSUME Asked, NEW S, Ordered(S)
    PROVE  Found(S, Select(S)) \/ Refused(S, Select(S))
<1> DEFINE W == Economic(S)
           big == Big(W)
           small == W \ big
           n == Ends(small, big)
           brings == Value(W) * Unit - BaseOf(payPro) * Rate
                      + Cardinality(W) * InputFee(payPro)
           why == IF n > 0 /\ TooLarge(n) THEN "TX_MAX_SIZE_EXCEEDED"
                  ELSE "INSUFFICIENT_FUNDS_FOR_FEE"
<1>1. \A e \in Errors : ~CanPay(S) => Refused(S, Failed(e))
  BY DEF Refused, Failed
<1>2. CASE Value(S) < amount
  <2>1. Select(S) = Failed("INSUFFICIENT_FUNDS")
    BY <1>2 DEF Select
  <2>2. ~CanPay(S)
    BY <1>2, TooLittle
  <2> QED BY <1>1, <2>1, <2>2 DEF Errors
<1>3. CASE ~(Value(S) < amount) /\ brings < amount * Unit
  <2>1. Select(S) = Failed("INSUFFICIENT_FUNDS_FOR_FEE")
    BY <1>3 DEF Select
  <2>2. ~CanPay(S)
    BY <1>3, NetTooLittle
  <2> QED BY <1>1, <2>1, <2>2 DEF Errors
<1>4. CASE ~(Value(S) < amount) /\ ~(brings < amount * Unit)
  <2>1. Select(S) = SelectSmall(small, big)
    BY <1>4 DEF Select
  <2>2. CASE n > 0 /\ Reaches(Greatest(small, n))
    <3>1. Found(S, SelectSmall(small, big))
      <4> HIDE DEF W, big, small, n
      <4> USE DEF W
      <4>1. W = Economic(S) /\ big = Big(W) /\ small = W \ big /\ n = Ends(small, big)
        BY DEF big, small, n
      <4> HIDE DEF W
      <4> QED BY <2>2, <4>1, SmallFound
    <3> QED BY <2>1, <3>1
  <2>3. CASE ~(n > 0 /\ Reaches(Greatest(small, n)))
    <3>1. SelectSmall(small, big) = UseBig(big, why)
      BY <2>3 DEF SelectSmall
    <3>2. why \in Errors
      BY DEF Errors
    <3>3. CASE big # {}
      <4>1. Found(S, UseBig(big, why))
        BY <3>3, BigFound
      <4> QED BY <2>1, <3>1, <4>1
    <3>4. CASE big = {}
      <4>1. UseBig(big, why) = Failed(why)
        BY <3>4 DEF UseBig
      <4>2. small = W
        BY <3>4
      <4>3. ~CanPay(S)
        <5>1. n = Ends(W, {}) /\ Greatest(small, n) = Greatest(W, n)
          BY <3>4, <4>2
        <5>2. ~(Ends(W, {}) > 0 /\ Reaches(Greatest(W, Ends(W, {}))))
          BY <2>3, <5>1
        <5> QED BY <3>4, <5>2, SmallRefused
      <4> HIDE DEF why
      <4> QED BY <1>1, <2>1, <3>1, <3>2, <4>1, <4>3
    <3> QED BY <3>3, <3>4
  <2> QED BY <2>2, <2>3
<1> QED BY <1>2, <1>3, <1>4

-----------------------------------------------------------------------------
(* The request does not change                                             *)

LEMMA SamePays ==
    ASSUME UNCHANGED request, NEW S
    PROVE  /\ amount' = amount /\ payPro' = payPro
           /\ Pays(S)' <=> Pays(S)
           /\ CanPay(S)' <=> CanPay(S)
           /\ Reaches(S)' <=> Reaches(S)
           /\ Economic(S)' = Economic(S)
           /\ Big(S)' = Big(S)
<1>1. amount' = amount /\ payPro' = payPro
  BY DEF request
<1>2. \A T : Pays(T)' <=> Pays(T)
  BY <1>1 DEF Pays, NetTotal
<1>3. \A n : TooLarge(n)' <=> TooLarge(n)
  BY <1>1 DEF TooLarge
<1>4. CanPay(S)' <=> CanPay(S)
  BY <1>2, <1>3 DEF CanPay
<1>5. Reaches(S)' <=> Reaches(S)
  BY <1>1 DEF Reaches, NetTotal
<1>6. Economic(S)' = Economic(S)
  BY <1>1 DEF Economic
<1>7. Big(S)' = Big(S)
  BY <1>1 DEF Big
<1> QED BY <1>1, <1>2, <1>4, <1>5, <1>6, <1>7

LEMMA SameEnds ==
    ASSUME UNCHANGED request, NEW small, NEW big
    PROVE  /\ \A n : GivesUp(small, big, n)' <=> GivesUp(small, big, n)
           /\ Ends(small, big)' = Ends(small, big)
<1>1. amount' = amount /\ payPro' = payPro
  BY DEF request
<1>2. \A u : TooSmall(u)' <=> TooSmall(u)
  BY <1>1 DEF TooSmall
<1>3. \A n : (TooExpensive(n)' <=> TooExpensive(n)) /\ (TooLarge(n)' <=> TooLarge(n))
  BY <1>1 DEF TooExpensive, TooLarge
<1>4. \A n : GivesUp(small, big, n)' <=> GivesUp(small, big, n)
  BY <1>2, <1>3 DEF GivesUp
<1> DEFINE Stop(n) == GivesUp(small, big, n) \/ Reaches(Greatest(small, n))
           T == {n \in 1 .. Cardinality(small) : Stop(n)}
                    \cup {Cardinality(small)}
<1>5. \A n : Stop(n)' <=> Stop(n)
  <2> SUFFICES ASSUME NEW n PROVE Stop(n)' <=> Stop(n)
    OBVIOUS
  <2>1. Reaches(Greatest(small, n))' <=> Reaches(Greatest(small, n))
    BY SamePays
  <2> QED BY <1>4, <2>1
<1>6. Ends(small, big) = Min(T) /\ Ends(small, big)' = Min(T')
  BY DEF Ends
<1>7. T' = T
  <2> HIDE DEF Stop
  <2> QED BY <1>5
<1> HIDE DEF T
<1> QED BY <1>4, <1>6, <1>7

LEMMA SameFound ==
    ASSUME UNCHANGED request, NEW S, NEW r
    PROVE  /\ Found(S, r)' <=> Found(S, r)
           /\ Refused(S, r)' <=> Refused(S, r)
<1>1. amount' = amount /\ payPro' = payPro
  BY DEF request
<1>2. \A T : (Pays(T)' <=> Pays(T)) /\ (CanPay(T)' <=> CanPay(T))
  BY SamePays
<1>3. \A n : TooLarge(n)' <=> TooLarge(n)
  BY <1>1 DEF TooLarge
<1>4. ASSUME NEW W PROVE Late(W)' <=> Late(W)
  <2> DEFINE n(big) == Ends(W \ big, big)
             L(big) == n(big) > 0 /\ GivesUp(W \ big, big, n(big))
                           /\ Reaches(Greatest(W \ big, n(big)))
  <2>1. ASSUME NEW big PROVE L(big)' <=> L(big)
    <3>1. n(big)' = n(big)
      BY SameEnds
    <3>2. \A m : /\ GivesUp(W \ big, big, m)' <=> GivesUp(W \ big, big, m)
                 /\ Reaches(Greatest(W \ big, m))' <=> Reaches(Greatest(W \ big, m))
      BY SameEnds, SamePays
    <3>3. PICK m : m = n(big)
      OBVIOUS
    <3>4. L(big) <=> m > 0 /\ GivesUp(W \ big, big, m) /\ Reaches(Greatest(W \ big, m))
      BY <3>3
    <3>5. L(big)' <=> m > 0 /\ GivesUp(W \ big, big, m)' /\ Reaches(Greatest(W \ big, m))'
      BY <3>1, <3>3
    <3> QED BY <3>2, <3>4, <3>5
  <2>2. Big(W)' = Big(W)
    BY SamePays
  <2>3. PICK big : big = Big(W)
    OBVIOUS
  <2>4. Late(W) <=> L(big)
    BY <2>3 DEF Late
  <2>5. Late(W)' <=> L(big)'
    BY <2>2, <2>3 DEF Late
  <2> HIDE DEF L
  <2> QED BY <2>1, <2>4, <2>5
<1>5. ASSUME NEW W PROVE Late(Economic(W))' <=> Late(Economic(W))
  <2>1. PICK E : E = Economic(W)
    OBVIOUS
  <2>2. Late(Economic(W))' <=> Late(E)'
    <3>1. Economic(W)' = E
      BY <2>1, SamePays
    <3> QED BY <3>1 DEF Late
  <2> QED BY <1>4, <2>1, <2>2
<1>6. Found(S, r)' <=> Found(S, r)
  BY <1>1, <1>2, <1>3, <1>5 DEF Found
<1>7. Refused(S, r)' <=> Refused(S, r)
  BY <1>2 DEF Refused
<1> QED BY <1>6, <1>7

-----------------------------------------------------------------------------
(* The groups                                                              *)

\* The groups explored, and the candidates of the last of them.
Tried == Groups \ groups
Current == Candidates(Min(Tried))

LEMMA MinIs ==
    ASSUME NEW T \in SUBSET Nat, NEW x \in T, \A y \in T : x <= y
    PROVE  Min(T) = x
<1>1. Min(T) \in T /\ \A y \in T : Min(T) <= y
  BY DEF Min
<1>2. Min(T) \in Nat /\ x \in Nat /\ Min(T) <= x /\ x <= Min(T)
  BY <1>1
<1> HIDE DEF Min
<1> QED BY <1>2

LEMMA MaxOfGroups ==
    ASSUME NEW G \in SUBSET {6, 1, 0}, G # {}
    PROVE  Max(G) \in G /\ \A h \in G : h <= Max(G)
<1>1. \E x \in G : \A h \in G : x >= h
  <2>1. CASE 6 \in G
    BY <2>1
  <2>2. CASE 6 \notin G /\ 1 \in G
    BY <2>2
  <2>3. CASE 6 \notin G /\ 1 \notin G
    <3>1. G = {0}
      BY <2>3
    <3> QED BY <3>1
  <2> QED BY <2>1, <2>2, <2>3
<1>2. Max(G) \in G /\ \A h \in G : Max(G) >= h
  BY <1>1 DEF Max
<1>3. \A h \in G : h \in Nat
  OBVIOUS
<1> HIDE DEF Max
<1> QED BY <1>2, <1>3

LEMMA WalletOrdered ==
    ASSUME utxos \in Wallets, NEW S \in SUBSET utxos
    PROVE  Ordered(S) /\ IsFiniteSet(S) /\ Cardinality(S) \in Nat
<1>1. Ordered(utxos)
  BY OutputsAssumption DEF Ordered, Valued
<1> QED BY <1>1, OrderedPart

LEMMA CandidatesOrdered ==
    ASSUME utxos \in Wallets, NEW g
    PROVE  /\ Candidates(g) \in SUBSET Sanitized /\ Sanitized \in SUBSET utxos
           /\ Ordered(Candidates(g)) /\ IsFiniteSet(Candidates(g))
           /\ Cardinality(Candidates(g)) \in Nat
<1>1. Candidates(g) \in SUBSET Sanitized /\ Sanitized \in SUBSET utxos
  BY DEF Candidates, Sanitized
<1>2. Candidates(g) \in SUBSET utxos
  BY <1>1
<1> QED BY <1>1, <1>2, WalletOrdered

LEMMA MoreCandidates ==
    ASSUME utxos \in Wallets, NEW g \in Nat, NEW h \in Nat, h <= g
    PROVE  /\ Candidates(g) \subseteq Candidates(h)
           /\ Cardinality(Candidates(g)) = Cardinality(Candidates(h)) =>
                  Candidates(g) = Candidates(h)
<1>1. \A u \in Sanitized : u.confirmations \in Nat
  BY OutputsAssumption DEF Sanitized
<1>2. Candidates(g) \subseteq Candidates(h)
  BY <1>1 DEF Candidates
<1>3. IsFiniteSet(Candidates(h))
  BY CandidatesOrdered
<1> QED BY <1>2, <1>3, FS_Subset

\* The last group leaves out nothing.
LEMMA LastGroup ==
    ASSUME utxos \in Wallets, confirmed \in BOOLEAN
    PROVE  Candidates(Min(Groups)) = Sanitized
<1>1. \A u \in Sanitized : u.confirmations \in Nat
  BY OutputsAssumption DEF Sanitized
<1>2. CASE confirmed
  <2>1. Groups = {6, 1}
    BY <1>2 DEF Groups
  <2>2. Min({6, 1}) = 1
    BY MinIs
  <2>3. \A u \in Sanitized : u.confirmations >= 1
    BY <1>1, <1>2 DEF Sanitized, Unspendable
  <2>4. Candidates(1) = Sanitized
    BY <2>3 DEF Candidates
  <2> QED BY <2>1, <2>2, <2>4
<1>3. CASE ~confirmed
  <2>1. Groups = {6, 1, 0}
    BY <1>3 DEF Groups
  <2>2. Min({6, 1, 0}) = 0
    BY MinIs
  <2>3. Candidates(0) = Sanitized
    BY <1>1 DEF Candidates
  <2> QED BY <2>1, <2>2, <2>3
<1> QED BY <1>2, <1>3

-----------------------------------------------------------------------------
(* The invariant                                                           *)

Outcome(e) == [error |-> e, inputs |-> inputs, fee |-> fee]

\* Groups are explored in their order, and each but the last in vain.
InOrder ==
    /\ groups \subseteq Groups
    /\ \A g \in Tried : \A h \in groups : h < g
    /\ stage \in {"select", "check", "done"} =>
           \A g \in Tried : g # Min(Tried) => ~CanPay(Candidates(g))

\* What is there is what select says of the last group.
OfLastGroup ==
    /\ stage = "balance" => groups = Groups
    /\ stage \in {"balance", "select"} /\ Tried = {} =>
           explored = Nothing /\ inputs = {} /\ fee = 0 /\ error = Nothing
    /\ stage = "select" /\ Tried # {} =>
           /\ explored = Cardinality(Current)
           /\ \A S, r : S = Current /\ r = Outcome(error) => Found(S, r) \/ Refused(S, r)

\* And what there is of it when no more groups are to be explored.
Finished ==
    /\ stage = "check" => error = Nothing /\ inputs # {}
    /\ stage \in {"check", "done"} /\ inputs # {} =>
           /\ Tried # {}
           /\ \A S, r : S = Current /\ r = Outcome(Nothing) => Found(S, r)
    /\ stage = "done" /\ inputs # {} =>
           error = Refusal
    /\ stage = "done" /\ inputs = {} => error \in Errors /\ ~CanPay(Sanitized)

Selection ==
    /\ utxos \in Wallets
    /\ SelectionTypeOK
    /\ InOrder
    /\ OfLastGroup
    /\ Finished

LEMMA SelectionStarts == SelectionInit => Selection
<1> SUFFICES ASSUME SelectionInit PROVE Selection
  OBVIOUS
<1> USE DEF SelectionInit
<1>1. utxos \in Wallets
  OBVIOUS
<1>2. SelectionTypeOK
  <2>1. \A u \in utxos : /\ {u.satoshis, u.confirmations} \subseteq Nat
                         /\ u.status \in {"free", "locked", "excluded"}
    BY OutputsAssumption
  <2>2. groups \subseteq {6, 1, 0}
    BY DEF Groups
  <2> QED BY <2>1, <2>2 DEF SelectionTypeOK
<1>3. Tried = {}
  BY DEF Tried
<1> QED BY <1>1, <1>2, <1>3 DEF Selection, InOrder, OfLastGroup, Finished

LEMMA SameCandidates ==
    ASSUME UNCHANGED request
    PROVE  /\ utxos' = utxos /\ confirmed' = confirmed
           /\ Sanitized' = Sanitized /\ Groups' = Groups
           /\ \A g : Candidates(g)' = Candidates(g)
           /\ \A g : CanPay(Candidates(g))' <=> CanPay(Candidates(g))
           /\ CanPay(Sanitized)' <=> CanPay(Sanitized)
<1>1. utxos' = utxos /\ confirmed' = confirmed /\ amount' = amount /\ payPro' = payPro
  BY DEF request
<1>2. Sanitized' = Sanitized /\ Groups' = Groups
  BY <1>1 DEF Sanitized, Unspendable, Groups
<1>3. \A g : Candidates(g)' = Candidates(g)
  BY <1>2 DEF Candidates
<1>4. \A T : (Pays(T)' <=> Pays(T)) /\ (TooLarge(Cardinality(T))' <=> TooLarge(Cardinality(T)))
  BY <1>1 DEF Pays, NetTotal, TooLarge
<1>5. \A g : CanPay(Candidates(g))' <=> CanPay(Candidates(g))
  BY <1>3, <1>4 DEF CanPay
<1>6. CanPay(Sanitized)' <=> CanPay(Sanitized)
  BY <1>2, <1>4 DEF CanPay
<1> QED BY <1>1, <1>2, <1>3, <1>5, <1>6

\* The part of the type invariant that concerns the request.
LEMMA TypeKept ==
    ASSUME SelectionTypeOK, UNCHANGED request,
           groups' \subseteq groups,
           explored' \in 0 .. Cardinality(utxos) \cup {Nothing},
           inputs' \subseteq utxos, fee' \in Nat,
           error' \in Errors \cup {Nothing},
           stage' \in {"balance", "select", "check", "done", "max"}
    PROVE  SelectionTypeOK'
BY DEF SelectionTypeOK, request

LEMMA CheckFundsKeeps ==
    ASSUME Selection, CheckFunds
    PROVE  Selection'
<1>1. /\ utxos \in Wallets /\ SelectionTypeOK
      /\ UNCHANGED request /\ groups' = groups /\ explored' = explored
      /\ inputs' = inputs /\ fee' = fee /\ stage = "balance"
  BY DEF Selection, CheckFunds
<1>2. /\ groups = Groups /\ Tried = {}
      /\ explored = Nothing /\ inputs = {} /\ fee = 0 /\ error = Nothing
  <2>1. groups = Groups
    BY <1>1 DEF Selection, OfLastGroup
  <2>2. Tried = {}
    BY <2>1 DEF Tried
  <2> QED BY <1>1, <2>1, <2>2 DEF Selection, OfLastGroup
<1> DEFINE total == {u \in utxos : ~Unspendable(u)}
           available == {u \in total : u.status # "locked"}
<1>3. /\ error' = IF Value(total) < amount THEN "INSUFFICIENT_FUNDS"
                  ELSE IF Value(available) < amount THEN "LOCKED_FUNDS" ELSE Nothing
      /\ stage' = IF error' = Nothing THEN "select" ELSE "done"
  BY DEF CheckFunds
<1>4. Asked
  BY <1>1 DEF Asked, SelectionTypeOK
<1>5. error' # Nothing => error' \in Errors /\ ~CanPay(Sanitized)
  <2>1. Sanitized \in SUBSET total /\ Sanitized \in SUBSET available
    BY DEF Sanitized
  <2>2. Ordered(total) /\ Ordered(available)
    BY <1>1, WalletOrdered
  <2> HIDE DEF total, available
  <2>3. Value(total) < amount \/ Value(available) < amount => ~CanPay(Sanitized)
    BY <1>4, <2>1, <2>2, TooLittle
  <2> QED BY <1>3, <2>3 DEF Errors
<1>6. error' \in Errors \cup {Nothing} /\ stage' \in {"select", "done"}
  BY <1>3, <1>5
<1>7. SelectionTypeOK'
  <2>1. inputs' \subseteq utxos /\ fee' \in Nat /\ groups' \subseteq groups
        /\ explored' \in 0 .. Cardinality(utxos) \cup {Nothing}
    BY <1>1, <1>2
  <2> QED BY <1>1, <1>6, <2>1, TypeKept
<1>8. Groups' = Groups /\ Tried' = {} /\ (CanPay(Sanitized)' <=> CanPay(Sanitized))
      /\ utxos' = utxos
  BY <1>1, <1>2, SameCandidates DEF Tried
<1>9. InOrder'
  BY <1>1, <1>2, <1>8 DEF InOrder
<1>10. OfLastGroup'
  BY <1>1, <1>2, <1>3, <1>6, <1>8 DEF OfLastGroup
<1>11. Finished'
  BY <1>1, <1>2, <1>3, <1>5, <1>6, <1>8 DEF Finished
<1> QED BY <1>1, <1>7, <1>8, <1>9, <1>10, <1>11 DEF Selection

LEMMA ExploreGroupKeeps ==
    ASSUME Selection, ExploreGroup
    PROVE  Selection'
<1> DEFINE group == Max(groups)
           C == Candidates(group)
           result == Select(C)
<1>1. /\ utxos \in Wallets /\ SelectionTypeOK /\ InOrder /\ OfLastGroup
      /\ UNCHANGED request /\ stage' = stage /\ stage = "select"
      /\ groups # {} /\ inputs = {}
      /\ groups' = groups \ {group}
      /\ explored' = Cardinality(C)
  BY DEF Selection, ExploreGroup
<1>2. Asked
  BY <1>1 DEF Asked, SelectionTypeOK
<1>3. groups \subseteq Groups /\ Groups \subseteq {6, 1, 0}
  BY <1>1 DEF InOrder, Groups
<1>4. group \in groups /\ \A h \in groups : h <= group
  BY <1>1, <1>3, MaxOfGroups
<1> HIDE DEF group
<1>5. \A g \in Tried : group < g
  BY <1>1, <1>4 DEF InOrder
<1>6. /\ Groups' = Groups /\ Tried' = Tried \cup {group}
      /\ utxos' = utxos /\ Sanitized' = Sanitized
      /\ \A g : Candidates(g)' = Candidates(g)
      /\ \A g : CanPay(Candidates(g))' <=> CanPay(Candidates(g))
  BY <1>1, <1>3, <1>4, SameCandidates DEF Tried
<1>7. Tried \subseteq Nat /\ group \in Nat /\ Tried' \subseteq Nat
  <2>1. {6, 1, 0} \subseteq Nat
    OBVIOUS
  <2>2. Tried \subseteq Groups
    BY DEF Tried
  <2> QED BY <1>3, <1>4, <1>6, <2>1, <2>2
<1>8. Min(Tried') = group
  <2>1. group \in Tried' /\ \A g \in Tried' : group <= g
    BY <1>5, <1>6, <1>7
  <2> QED BY <1>7, <2>1, MinIs
<1>9. Current' = C
  <2>1. PICK g : g = group
    OBVIOUS
  <2>2. Current' = Candidates(g)'
    BY <1>8, <2>1 DEF Current, Candidates
  <2> QED BY <1>6, <2>1, <2>2
<1>10. Ordered(C) /\ Cardinality(C) \in Nat /\ C \subseteq utxos /\ IsFiniteSet(utxos)
  <2>1. Candidates(group) \subseteq utxos
    BY DEF Candidates, Sanitized
  <2> QED BY <1>1, <2>1, CandidatesOrdered, WalletOrdered
\* What the step leaves is what select says of the group.
<1>11. /\ \A S, r : S = C /\ r = Outcome(error)' => Found(S, r) \/ Refused(S, r)
       /\ Tried # {} => Refused(Current, Outcome(error))
  <2>1. Tried # {} => /\ explored = Cardinality(Current)
                      /\ Refused(Current, Outcome(error))
    <3> SUFFICES ASSUME Tried # {}
                 PROVE  /\ explored = Cardinality(Current)
                        /\ Refused(Current, Outcome(error))
      OBVIOUS
    <3>1. /\ explored = Cardinality(Current)
          /\ Found(Current, Outcome(error)) \/ Refused(Current, Outcome(error))
      BY <1>1 DEF OfLastGroup
    <3>2. ~Found(Current, Outcome(error))
      BY <1>1 DEF Found, Outcome
    <3> QED BY <3>1, <3>2
  <2>2. CASE explored = Cardinality(C)
    <3>1. Tried # {}
      <4>1. Tried = {} => explored = Nothing
        BY <1>1 DEF OfLastGroup
      <4> QED BY <1>10, <2>2, <4>1, NothingAssumption
    <3>2. Outcome(error)' = Outcome(error)
      BY <1>1, <2>2 DEF ExploreGroup, Outcome, group
    <3>3. Min(Tried) \in Nat /\ group <= Min(Tried)
      <4>1. \E x \in Tried : \A y \in Tried : x <= y
        BY <1>7, <3>1, LeastNat
      <4>2. Min(Tried) \in Tried
        BY <4>1 DEF Min
      <4>3. \A x \in Tried : x \in Nat /\ group <= x
        BY <1>5, <1>7
      <4> QED BY <4>2, <4>3
    <3>4. Current = C
      BY <1>1, <1>7, <2>1, <2>2, <3>1, <3>3, MoreCandidates DEF Current
    <3> QED BY <2>1, <3>1, <3>2, <3>4
  <2>3. CASE explored # Cardinality(C)
    <3>1. inputs' = result.inputs /\ fee' = result.fee /\ error' = result.error
      BY <1>1, <2>3 DEF ExploreGroup, group
    <3>2. Found(C, result) \/ Refused(C, result)
      BY <1>2, <1>10, SelectSound
    <3> DEFINE r == Outcome(error)'
    <3>3. r.error = result.error /\ r.inputs = result.inputs /\ r.fee = result.fee
      BY <3>1 DEF Outcome
    <3> HIDE DEF r, result, C
    <3>4. Found(C, r) \/ Refused(C, r)
      BY <3>2, <3>3 DEF Found, Refused
    <3> QED BY <2>1, <3>4 DEF r
  <2> QED BY <2>2, <2>3
<1>12. /\ inputs' \subseteq utxos /\ fee' \in Nat /\ error' \in Errors \cup {Nothing}
  <2>1. PICK r : r = Outcome(error)'
    OBVIOUS
  <2>2. Found(C, r) \/ Refused(C, r)
    BY <1>11, <2>1
  <2>3. r.error = error' /\ r.inputs = inputs' /\ r.fee = fee'
    BY <2>1 DEF Outcome
  <2> HIDE DEF C
  <2>4. r.inputs \subseteq C /\ r.fee \in Nat /\ r.error \in Errors \cup {Nothing}
    <3>1. CASE Found(C, r)
      BY <3>1 DEF Found
    <3>2. CASE Refused(C, r)
      BY <3>2 DEF Refused
    <3> QED BY <2>2, <3>1, <3>2
  <2> QED BY <1>10, <2>3, <2>4
<1>13. SelectionTypeOK'
  <2>1. explored' \in 0 .. Cardinality(utxos)
    <3>1. Cardinality(C) <= Cardinality(utxos) /\ Cardinality(utxos) \in Nat
      BY <1>10, FS_Subset, FS_CardinalityType
    <3> QED BY <1>1, <1>10, <3>1
  <2>2. groups' \subseteq groups /\ stage' \in {"balance", "select", "check", "done", "max"}
    BY <1>1
  <2> QED BY <1>1, <1>12, <2>1, <2>2, TypeKept
<1>14. InOrder'
  <2>1. groups' \subseteq Groups'
    BY <1>1, <1>3, <1>6
  <2>2. \A g \in Tried' : \A h \in groups' : h < g
    <3>1. \A h \in groups' : h < group
      <4>1. \A h \in groups : h \in Nat
        BY <1>3
      <4> QED BY <1>1, <1>4, <1>7, <4>1
    <3>2. \A g \in Tried : \A h \in groups : h < g
      BY <1>1 DEF InOrder
    <3> QED BY <1>1, <1>6, <3>1, <3>2
  <2>3. \A g \in Tried' : g # Min(Tried') => ~CanPay(Candidates(g))'
    <3> SUFFICES ASSUME NEW g \in Tried PROVE ~CanPay(Candidates(g))
      BY <1>6, <1>8
    <3>1. CASE g # Min(Tried)
      BY <1>1, <3>1 DEF InOrder
    <3>2. CASE g = Min(Tried)
      BY <1>11, <3>2 DEF Refused, Current
    <3> QED BY <3>1, <3>2
  <2> QED BY <2>1, <2>2, <2>3 DEF InOrder
<1>15. OfLastGroup'
  <2>1. Tried' # {} /\ stage' = "select"
    BY <1>1, <1>6
  <2>2. explored' = Cardinality(Current')
    BY <1>1, <1>9
  <2>3. \A S, r : S = Current' /\ r = Outcome(error)' => Found(S, r)' \/ Refused(S, r)'
    <3> SUFFICES ASSUME NEW S, NEW r, S = Current', r = Outcome(error)'
                 PROVE  Found(S, r)' \/ Refused(S, r)'
      OBVIOUS
    <3>1. Found(S, r) \/ Refused(S, r)
      BY <1>9, <1>11
    <3> QED BY <1>1, <3>1, SameFound
  <2> QED BY <2>1, <2>2, <2>3 DEF OfLastGroup
<1>16. Finished'
  BY <1>1 DEF Finished
<1> QED BY <1>1, <1>6, <1>13, <1>14, <1>15, <1>16 DEF Selection

LEMMA EndGroupsKeeps ==
    ASSUME Selection, EndGroups
    PROVE  Selection'
<1>1. /\ utxos \in Wallets /\ SelectionTypeOK /\ InOrder /\ OfLastGroup
      /\ UNCHANGED request /\ groups' = groups /\ explored' = explored
      /\ inputs' = inputs /\ fee' = fee /\ error' = error /\ stage = "select"
      /\ groups = {} \/ inputs # {}
      /\ stage' = IF error = Nothing THEN "check" ELSE "done"
  BY DEF Selection, EndGroups
<1>2. groups \subseteq Groups /\ Groups # {}
  BY <1>1 DEF InOrder, Groups
<1>3. Tried # {}
  <2> SUFFICES ASSUME Tried = {} PROVE FALSE
    OBVIOUS
  <2>1. groups # {}
    BY <1>2 DEF Tried
  <2> QED BY <1>1, <2>1 DEF OfLastGroup
<1>4. Found(Current, Outcome(error)) \/ Refused(Current, Outcome(error))
  BY <1>1, <1>3 DEF OfLastGroup
<1>5. /\ Groups' = Groups /\ Tried' = Tried /\ utxos' = utxos
      /\ \A g : Candidates(g)' = Candidates(g)
      /\ \A g : CanPay(Candidates(g))' <=> CanPay(Candidates(g))
      /\ CanPay(Sanitized)' <=> CanPay(Sanitized)
  BY <1>1, SameCandidates DEF Tried
<1>6. Current' = Current
  <2>1. PICK g : g = Min(Tried)
    OBVIOUS
  <2>2. Current' = Candidates(g)'
    BY <1>5, <2>1 DEF Current, Candidates
  <2> QED BY <1>5, <2>1, <2>2 DEF Current
<1>7. Outcome(Nothing)' = Outcome(Nothing)
  BY <1>1 DEF Outcome
<1>8. CASE error = Nothing
  <2>1. Found(Current, Outcome(Nothing))
    BY <1>4, <1>8, NothingAssumption DEF Refused, Outcome
  <2>2. inputs # {}
    BY <2>1 DEF Found, Outcome
  <2>3. \A S, r : S = Current' /\ r = Outcome(Nothing)' => Found(S, r)'
    <3> SUFFICES ASSUME NEW S, NEW r, S = Current', r = Outcome(Nothing)'
                 PROVE  Found(S, r)'
      OBVIOUS
    <3>1. Found(S, r)
      BY <1>6, <1>7, <2>1
    <3> QED BY <1>1, <3>1, SameFound
  <2>4. Finished'
    BY <1>1, <1>3, <1>5, <1>8, <2>2, <2>3 DEF Finished
  <2>5. SelectionTypeOK'
    BY <1>1, <1>8, TypeKept DEF SelectionTypeOK
  <2>6. InOrder'
    <3>1. \A g \in Tried' : g # Min(Tried') => ~CanPay(Candidates(g))'
      BY <1>1, <1>5 DEF InOrder
    <3> QED BY <1>1, <1>5, <3>1 DEF InOrder
  <2>7. OfLastGroup'
    BY <1>1, <1>8 DEF OfLastGroup
  <2> QED BY <1>1, <1>5, <2>4, <2>5, <2>6, <2>7 DEF Selection
<1>9. CASE error # Nothing
  <2>1. Refused(Current, Outcome(error))
    BY <1>4, <1>9 DEF Found, Outcome
  <2>2. error \in Errors /\ inputs = {} /\ ~CanPay(Current)
    BY <2>1 DEF Refused, Outcome
  <2>3. Tried = Groups
    BY <1>1, <2>2 DEF Tried
  <2>4. ~CanPay(Sanitized)
    <3>1. confirmed \in BOOLEAN
      BY <1>1 DEF SelectionTypeOK
    <3> QED BY <1>1, <2>2, <2>3, <3>1, LastGroup DEF Current
  <2>5. Finished'
    BY <1>1, <1>5, <1>9, <2>2, <2>4 DEF Finished
  <2>6. SelectionTypeOK'
    BY <1>1, <1>9, TypeKept DEF SelectionTypeOK
  <2>7. InOrder'
    <3>1. \A g \in Tried' : g # Min(Tried') => ~CanPay(Candidates(g))'
      BY <1>1, <1>5 DEF InOrder
    <3> QED BY <1>1, <1>5, <3>1 DEF InOrder
  <2>8. OfLastGroup'
    BY <1>1, <1>9 DEF OfLastGroup
  <2> QED BY <1>1, <1>5, <2>5, <2>6, <2>7, <2>8 DEF Selection
<1> QED BY <1>8, <1>9

LEMMA CheckTxKeeps ==
    ASSUME Selection, CheckTx
    PROVE  Selection'
<1>1. /\ utxos \in Wallets /\ SelectionTypeOK /\ InOrder /\ Finished
      /\ UNCHANGED request /\ groups' = groups /\ explored' = explored
      /\ inputs' = inputs /\ fee' = fee /\ stage = "check" /\ stage' = "done"
      /\ error' = Refusal
  BY DEF Selection, CheckTx
<1>2. /\ Groups' = Groups /\ Tried' = Tried /\ utxos' = utxos
      /\ \A g : Candidates(g)' = Candidates(g)
      /\ \A g : CanPay(Candidates(g))' <=> CanPay(Candidates(g))
  BY <1>1, SameCandidates DEF Tried
<1>3. Current' = Current
  <2>1. PICK g : g = Min(Tried)
    OBVIOUS
  <2>2. Current' = Candidates(g)'
    BY <1>2, <2>1 DEF Current, Candidates
  <2> QED BY <1>2, <2>1, <2>2 DEF Current
<1>4. Outcome(Nothing)' = Outcome(Nothing) /\ Change' = Change
  <2>1. amount' = amount
    BY <1>1 DEF request
  <2> QED BY <1>1, <2>1 DEF Outcome, Change
<1>5. inputs # {} /\ Tried # {} /\ Found(Current, Outcome(Nothing))
  BY <1>1 DEF Finished
<1>6. \A S, r : S = Current' /\ r = Outcome(Nothing)' => Found(S, r)'
  <2> SUFFICES ASSUME NEW S, NEW r, S = Current', r = Outcome(Nothing)'
               PROVE  Found(S, r)'
    OBVIOUS
  <2>1. Found(S, r)
    BY <1>3, <1>4, <1>5
  <2> QED BY <1>1, <2>1, SameFound
<1>7. error' = Refusal'
  <2>1. Refusal' = Refusal
    BY <1>1, <1>4 DEF Refusal
  <2> QED BY <1>1, <2>1
<1>8. Finished'
  BY <1>1, <1>2, <1>5, <1>6, <1>7 DEF Finished
<1>9. SelectionTypeOK'
  <2>1. error' \in Errors \cup {Nothing}
    BY <1>1 DEF Refusal, Errors
  <2>2. /\ inputs' \subseteq utxos /\ fee' \in Nat /\ groups' \subseteq groups
        /\ explored' \in 0 .. Cardinality(utxos) \cup {Nothing}
    BY <1>1 DEF SelectionTypeOK
  <2> QED BY <1>1, <2>1, <2>2, TypeKept
<1>10. InOrder'
  <2>1. \A g \in Tried' : g # Min(Tried') => ~CanPay(Candidates(g))'
    BY <1>1, <1>2 DEF InOrder
  <2> QED BY <1>1, <1>2, <2>1 DEF InOrder
<1>11. OfLastGroup'
  BY <1>1 DEF OfLastGroup
<1> QED BY <1>1, <1>2, <1>8, <1>9, <1>10, <1>11 DEF Selection

\* What getWalletSendMaxInfo takes.
Sendable == {u \in utxos : u.status # "locked" /\ ~Unspendable(u)}
Sent == Fitting({u \in Sendable : u.satoshis * Unit > InputFee(TRUE)})

LEMMA SendMaxKeeps ==
    ASSUME Selection, SendMax
    PROVE  Selection'
<1> DEFINE paid == Round(ExactFee(Cardinality(Sent), TRUE))
<1>1. /\ utxos \in Wallets /\ SelectionTypeOK /\ InOrder
      /\ UNCHANGED request /\ groups' = groups /\ explored' = explored
      /\ error' = error /\ stage' = "max"
      /\ UNCHANGED <<inputs, fee>> \/ (inputs' = Sent /\ fee' = paid)
  BY DEF Selection, SendMax, Sent, Sendable
<1>2. Sent \subseteq utxos /\ paid \in Nat
  <2>1. Sent \in SUBSET utxos
    BY DEF Sent, Sendable, Fitting
  <2>2. Cardinality(Sent) \in Nat
    BY <1>1, <2>1, WalletOrdered
  <2> QED BY <2>1, <2>2, FeeTyped, RoundTyped
<1>3. SelectionTypeOK'
  <2>1. /\ inputs' \subseteq utxos /\ fee' \in Nat /\ groups' \subseteq groups
        /\ explored' \in 0 .. Cardinality(utxos) \cup {Nothing}
        /\ error' \in Errors \cup {Nothing}
    <3> HIDE DEF paid
    <3> QED BY <1>1, <1>2 DEF SelectionTypeOK
  <2> QED BY <1>1, <2>1, TypeKept
<1>4. Groups' = Groups /\ Tried' = Tried /\ utxos' = utxos
  BY <1>1, SameCandidates DEF Tried
<1>5. InOrder'
  BY <1>1, <1>4 DEF InOrder
<1>6. OfLastGroup' /\ Finished'
  BY <1>1 DEF OfLastGroup, Finished
<1> QED BY <1>1, <1>3, <1>4, <1>5, <1>6 DEF Selection

LEMMA StutterKeeps ==
    ASSUME Selection, UNCHANGED selectionVars
    PROVE  Selection'
<1>1. /\ UNCHANGED request /\ groups' = groups /\ explored' = explored
      /\ inputs' = inputs /\ fee' = fee /\ error' = error /\ stage' = stage
      /\ utxos' = utxos /\ amount' = amount
  BY DEF selectionVars, request
<1>2. /\ Groups' = Groups /\ Tried' = Tried
      /\ \A g : Candidates(g)' = Candidates(g)
      /\ \A g : CanPay(Candidates(g))' <=> CanPay(Candidates(g))
      /\ CanPay(Sanitized)' <=> CanPay(Sanitized)
  BY <1>1, SameCandidates DEF Tried
<1>3. Current' = Current
  <2>1. PICK g : g = Min(Tried)
    OBVIOUS
  <2>2. Current' = Candidates(g)'
    BY <1>2, <2>1 DEF Current, Candidates
  <2> QED BY <1>2, <2>1, <2>2 DEF Current
<1>4. /\ Outcome(Nothing)' = Outcome(Nothing) /\ Outcome(error)' = Outcome(error)
      /\ Change' = Change
  BY <1>1 DEF Outcome, Change
<1>5. \A S, r : (Found(S, r)' <=> Found(S, r)) /\ (Refused(S, r)' <=> Refused(S, r))
  BY <1>1, SameFound
<1>6. utxos' \in Wallets /\ SelectionTypeOK'
  BY <1>1 DEF Selection, SelectionTypeOK, request
<1>7. InOrder'
  BY <1>1, <1>2 DEF Selection, InOrder
<1>8. OfLastGroup'
  BY <1>1, <1>2, <1>3, <1>4, <1>5 DEF Selection, OfLastGroup
<1>9. Finished'
  <2>1. (stage = "check" => error = Nothing /\ inputs # {})'
    BY <1>1 DEF Selection, Finished
  <2>2. ASSUME stage' \in {"check", "done"}, inputs' # {}
        PROVE  /\ Tried' # {}
               /\ \A S, r : S = Current' /\ r = Outcome(Nothing)'
                              => Found(S, r)'
    <3>1. /\ Tried # {}
          /\ \A S, r : S = Current /\ r = Outcome(Nothing) => Found(S, r)
      BY <1>1, <2>2 DEF Selection, Finished
    <3> QED BY <1>2, <1>3, <1>4, <1>5, <3>1
  <2>3. (stage = "done" /\ inputs # {} => error = Refusal)'
    <3>1. Refusal' = Refusal
      BY <1>1, <1>4 DEF Refusal
    <3> QED BY <1>1, <3>1 DEF Selection, Finished
  <2>4. (stage = "done" /\ inputs = {} => error \in Errors /\ ~CanPay(Sanitized))'
    BY <1>1, <1>2 DEF Selection, Finished
  <2> QED BY <2>1, <2>2, <2>3, <2>4 DEF Finished
<1> QED BY <1>6, <1>7, <1>8, <1>9 DEF Selection

\* The invariant: groups are explored from the best confirmed one, each before
\* the last in vain, and what the request holds is what select says of the last.
THEOREM SelectionAlways == SelectionSpec => []Selection
<1>1. SelectionInit => Selection
  BY SelectionStarts
<1>2. Selection /\ [SelectionNext]_selectionVars => Selection'
  BY CheckFundsKeeps, ExploreGroupKeeps, EndGroupsKeeps, CheckTxKeeps, SendMaxKeeps,
     StutterKeeps DEF SelectionNext
<1> QED BY <1>1, <1>2, PTL DEF SelectionSpec

-----------------------------------------------------------------------------
(* The properties of a selection                                           *)

LEMMA LateIs == GaveUpTooLate <=> Late(Economic(Current))
BY DEF GaveUpTooLate, Late, Current, Tried

\* What is known of inputs that have been selected.
LEMMA SelectedFacts ==
    ASSUME Selection, stage = "done", inputs # {}
    PROVE  /\ Tried # {} /\ Asked /\ utxos \in Wallets
           /\ inputs \subseteq Current
           /\ Pays(inputs)
           /\ \A u \in inputs : ~Pays(inputs \ {u})
           /\ fee >= Round(ExactFee(Cardinality(inputs), payPro))
           /\ Value(inputs) >= amount + fee
           /\ Change = 0 \/ Change >= MinOutput \/ GaveUpTooLate
           /\ \/ ~TooLarge(Cardinality(inputs))
              \/ Size(Cardinality(inputs), TRUE) <= MaxSize
              \/ GaveUpTooLate
<1> DEFINE r == Outcome(Nothing)
<1>1. Tried # {} /\ Found(Current, r)
  BY DEF Selection, Finished
<1>2. r.inputs = inputs /\ r.fee = fee
  BY DEF Outcome
<1>3. Asked /\ utxos \in Wallets
  BY DEF Selection, SelectionTypeOK, Asked
<1> HIDE DEF r
<1> QED BY <1>1, <1>2, <1>3, LateIs DEF Found, Change

\* Type correctness of UtxoSelection, for any wallet, amount, rates and limits.
THEOREM SelectionTyped == SelectionSpec => []SelectionTypeOK
<1>1. Selection => SelectionTypeOK
  BY DEF Selection
<1> QED BY <1>1, SelectionAlways, PTL

\* What selectTxInputs and checkTx let through pays the amount and the whole fee
\* in a transaction of an allowed size and fee, and its change is worth an output,
\* for any outputs and thresholds, unless the loop gave up too late.
THEOREM PaysInFullAlways == SelectionSpec => []PaysInFull
<1>1. ASSUME Selection PROVE PaysInFull
  <2>1. SUFFICES ASSUME stage = "done", error = Nothing
                 PROVE  /\ inputs \subseteq Sanitized
                        /\ Value(inputs) >= amount + fee
                        /\ fee >= Round(ExactFee(Cardinality(inputs), payPro))
                        /\ fee <= MaxFee
                        /\ Size(Cardinality(inputs), TRUE) <= MaxSize
                        /\ Change = 0 \/ Change >= MinOutput \/ GaveUpTooLate
    BY DEF PaysInFull, Selects
  <2>2. inputs # {}
    BY <1>1, <2>1, NothingAssumption DEF Selection, Finished
  <2>3. Current \subseteq Sanitized
    BY DEF Current, Candidates
  <2>4. Size(Cardinality(inputs), TRUE) <= MaxSize
    <3>1. error = Refusal
      BY <1>1, <2>1, <2>2 DEF Selection, Finished
    <3>2. Nothing # "TX_MAX_SIZE_EXCEEDED"
      BY NothingAssumption DEF Errors
    <3>3. ~(Size(Cardinality(inputs), TRUE) > MaxSize)
      BY <2>1, <3>1, <3>2 DEF Refusal
    <3>4. Cardinality(inputs) \in Nat
      <4>1. inputs \in SUBSET utxos /\ utxos \in Wallets
        BY <1>1 DEF Selection, SelectionTypeOK
      <4> QED BY <4>1, WalletOrdered
    <3> DEFINE s == Size(Cardinality(inputs), TRUE)
    <3>5. s \in Nat /\ MaxSize \in Nat /\ ~(s > MaxSize)
      BY <3>3, <3>4, SizeTyped, ThresholdAssumption
    <3>6. s <= MaxSize
      <4> HIDE DEF s
      <4> QED BY <3>5
    <3> QED BY <3>6
  <2>5. fee <= MaxFee
    <3>1. error = Refusal
      BY <1>1, <2>1, <2>2 DEF Selection, Finished
    <3>2. Nothing # "fee-too-high" /\ Nothing # "TX_MAX_SIZE_EXCEEDED"
      BY NothingAssumption DEF Errors
    <3>3. ~(fee > MaxFee)
      BY <2>1, <3>1, <3>2 DEF Refusal
    <3>4. fee \in Nat /\ MaxFee \in Nat
      BY <1>1, ThresholdAssumption DEF Selection, SelectionTypeOK
    <3> QED BY <3>3, <3>4
  <2> QED BY <1>1, <2>1, <2>2, <2>3, <2>4, <2>5, SelectedFacts
<1> QED BY <1>1, SelectionAlways, PTL

\* No selection has an input that it could do without, neither from the loop
\* over the small inputs nor with the big one it falls back on.
THEOREM NoneSuperfluousAlways == SelectionSpec => []NoneSuperfluous
<1>1. ASSUME Selection PROVE NoneSuperfluous
  <2>1. SUFFICES ASSUME stage = "done", NEW u \in inputs PROVE ~Pays(inputs \ {u})
    BY DEF NoneSuperfluous, Selects
  <2> QED BY <1>1, <2>1, SelectedFacts
<1> QED BY <1>1, SelectionAlways, PTL

\* Whatever break ends the loop, and whatever the sign of the fee: a request is
\* refused only if no outputs at all can pay, but for a loop that gave up too
\* late, for the margin of checkTx and for a fee over the limit of the coin.
THEOREM PaysIfItCanAlways == SelectionSpec => []PaysIfItCan
<1>1. ASSUME Selection PROVE PaysIfItCan
  <2>1. SUFFICES ASSUME stage = "done", error # Nothing
                 PROVE  \/ ~CanPay(Sanitized)
                        \/ inputs # {} /\ GaveUpTooLate
                        \/ inputs # {} /\ error = "TX_MAX_SIZE_EXCEEDED" /\ ~payPro
                        \/ inputs # {} /\ fee > MaxFee
    BY DEF PaysIfItCan
  <2>2. CASE inputs = {}
    BY <1>1, <2>1, <2>2 DEF Selection, Finished
  <2>3. CASE inputs # {}
    <3>1. error = Refusal
      BY <1>1, <2>1, <2>3 DEF Selection, Finished
    <3>2. /\ Change = 0 \/ Change >= MinOutput \/ GaveUpTooLate
          /\ \/ ~TooLarge(Cardinality(inputs))
             \/ Size(Cardinality(inputs), TRUE) <= MaxSize
             \/ GaveUpTooLate
      BY <1>1, <2>1, <2>3, SelectedFacts
    <3>3. inputs \in SUBSET utxos /\ utxos \in Wallets /\ amount \in Nat /\ fee \in Nat
          /\ payPro \in BOOLEAN
      BY <1>1, ThresholdAssumption DEF Selection, SelectionTypeOK
    <3>4. Cardinality(inputs) \in Nat /\ Value(inputs) \in Nat
      BY <3>3, WalletOrdered, ValueNat DEF Ordered
    <3>5. Size(Cardinality(inputs), TRUE) \in Nat /\ MaxSize \in Nat
      BY <3>4, SizeTyped, ThresholdAssumption
    <3>6. CASE Size(Cardinality(inputs), TRUE) > MaxSize
      <4>1. error = "TX_MAX_SIZE_EXCEEDED"
        BY <3>1, <3>6 DEF Refusal
      <4>2. ~(Size(Cardinality(inputs), TRUE) <= MaxSize)
        <5> DEFINE s == Size(Cardinality(inputs), TRUE)
        <5>1. s \in Nat /\ MaxSize \in Nat /\ s > MaxSize
          BY <3>5, <3>6
        <5>2. ~(s <= MaxSize)
          <6> HIDE DEF s
          <6> QED BY <5>1
        <5> QED BY <5>2
      <4>3. payPro => TooLarge(Cardinality(inputs))
        <5>1. payPro => payPro = TRUE
          BY <3>3
        <5> QED BY <3>6, <5>1 DEF TooLarge
      <4> QED BY <2>3, <3>2, <4>1, <4>2, <4>3
    <3>7. CASE ~(Size(Cardinality(inputs), TRUE) > MaxSize)
      <4>1. Change \in 1 .. Dust - 1 \/ fee > MaxFee
        BY <2>1, <3>1, <3>7 DEF Refusal
      <4>2. Dust \in Nat /\ MinOutput \in Nat /\ Dust <= MinOutput
        BY ThresholdAssumption
      <4>3. Change \in Int
        BY <3>3, <3>4 DEF Change
      <4> HIDE DEF Change
      <4>4. Change \in 1 .. Dust - 1 => ~(Change = 0 \/ Change >= MinOutput)
        BY <4>2, <4>3
      <4> QED BY <2>3, <3>2, <4>1, <4>4
    <3> QED BY <3>6, <3>7
  <2> QED BY <2>2, <2>3
<1> QED BY <1>1, SelectionAlways, PTL

\* An output confirmed less than six times, or not at all, is spent only if no
\* outputs that are better confirmed can pay, a skipped group included.
THEOREM BestConfirmedAlways == SelectionSpec => []BestConfirmed
<1>1. ASSUME Selection PROVE BestConfirmed
  <2>1. SUFFICES ASSUME stage = "done", NEW group \in {6, 1},
                        NEW u \in inputs, u.confirmations < group
                 PROVE  ~CanPay(Candidates(group))
    BY DEF BestConfirmed, Selects
  <2>2. Tried # {} /\ u \in Current /\ utxos \in Wallets
    BY <1>1, <2>1, SelectedFacts
  <2>3. InOrder
    BY <1>1 DEF Selection
  <2>4. Groups \subseteq Nat /\ group \in Groups /\ Tried \subseteq Groups
    BY DEF Groups, Tried
  <2>5. Min(Tried) \in Tried /\ Min(Tried) \in Nat
    <3>1. \E x \in Tried : \A y \in Tried : x <= y
      BY <2>2, <2>4, LeastNat
    <3>2. Min(Tried) \in Tried
      BY <3>1 DEF Min
    <3> QED BY <2>4, <3>2
  <2>6. u.confirmations \in Nat /\ u.confirmations >= Min(Tried)
    <3>1. u \in utxos /\ u.confirmations >= Min(Tried)
      BY <2>2 DEF Current, Candidates, Sanitized
    <3> QED BY <2>2, <3>1, OutputsAssumption
  <2>7. Min(Tried) < group
    BY <2>1, <2>4, <2>5, <2>6
  <2>8. group \notin groups
    <3> SUFFICES ASSUME group \in groups PROVE FALSE
      OBVIOUS
    <3>1. group < Min(Tried)
      BY <2>3, <2>5 DEF InOrder
    <3> QED BY <2>4, <2>5, <2>7, <3>1
  <2>9. group \in Tried /\ group # Min(Tried)
    BY <2>4, <2>5, <2>7, <2>8 DEF Tried
  <2> QED BY <2>1, <2>3, <2>9 DEF InOrder
<1> QED BY <1>1, SelectionAlways, PTL

-----------------------------------------------------------------------------
(* The most that can be sent                                               *)

SafeSize(n) == Size(n, TRUE)
SafeFee(n) == Round(ExactFee(n, TRUE))
SafeNet(T) == Net(T, TRUE)
Sends(T) == Value(T) - SafeFee(Cardinality(T))

LEMMA SafeTyped ==
    ASSUME NEW n \in Nat
    PROVE  /\ SafeSize(n) \in Nat /\ SafeFee(n) \in Nat /\ SafeSize(1) <= MaxSize
           /\ \A m \in Nat : m <= n => SafeSize(m) <= SafeSize(n)
<1>1. TRUE \in BOOLEAN
  OBVIOUS
<1>2. SafeSize(n) \in Nat /\ \A m \in Nat : m <= n => SafeSize(m) <= SafeSize(n)
  BY <1>1, SizeTyped DEF SafeSize
<1>3. ExactFee(n, TRUE) \in Nat
  BY <1>1, FeeTyped
<1>4. SafeFee(n) \in Nat
  BY <1>3, RoundTyped DEF SafeFee
<1> QED BY <1>2, <1>4, SingleFits DEF SafeSize

\* The outputs that fit, greatest first, send the most.
MostOf(S) == Fitting(Worth(S, TRUE))

LEMMA FittingBest ==
    ASSUME NEW S, Ordered(S)
    PROVE  /\ MostOf(S) \subseteq S
           /\ SafeSize(Cardinality(MostOf(S))) <= MaxSize
           /\ \A T \in SUBSET S :
                  SafeSize(Cardinality(T)) <= MaxSize => Sends(T) <= Sends(MostOf(S))
<1> DEFINE E == Worth(S, TRUE)
           F == MostOf(S)
<1>1. E \in SUBSET S /\ F \in SUBSET E
  BY DEF Worth, Fitting, MostOf
<1>2. Ordered(E) /\ Ordered(F) /\ Valued(E) /\ Valued(F) /\ Valued(S)
      /\ Cardinality(F) \in Nat /\ IsFiniteSet(F)
  <2>1. F \in SUBSET S /\ S \in SUBSET S
    BY <1>1
  <2> HIDE DEF E, F
  <2> QED BY <1>1, <2>1, OrderedPart
<1>3. F = {u \in E : SafeSize(Cardinality(Earlier(E, u)) + 1) <= MaxSize}
  BY DEF Fitting, Earlier, SafeSize, MostOf
<1>4. \A u \in E : u.satoshis * Unit > InputFee(TRUE)
  BY DEF Worth
<1>5. MaxSize \in Nat
  BY ThresholdAssumption
<1> HIDE DEF E, F
<1>6. SafeSize(Cardinality(F)) <= MaxSize
  <2>1. CASE F = {}
    <3>1. Cardinality(F) = 0
      BY <2>1, FS_EmptySet
    <3>2. SafeSize(0) <= SafeSize(1) /\ SafeSize(0) \in Nat /\ SafeSize(1) \in Nat
          /\ SafeSize(1) <= MaxSize
      BY SafeTyped
    <3> QED BY <1>5, <3>1, <3>2
  <2>2. CASE F # {}
    <3>1. PICK u : IsLast(F, u)
      BY <1>2, <2>2, LastExists
    <3>2. u \in F /\ u \in E /\ F \ {u} \subseteq Earlier(E, u)
      BY <1>1, <3>1 DEF IsLast, Earlier
    <3>3. Cardinality(F \ {u}) = Cardinality(F) - 1
      BY <1>2, <3>2, FS_RemoveElement
    <3>4. /\ Earlier(E, u) \in SUBSET E /\ Cardinality(Earlier(E, u)) \in Nat
          /\ IsFiniteSet(Earlier(E, u))
      BY <1>2, <3>2, EarlierFewer, OrderedPart
    <3>5. Cardinality(F \ {u}) <= Cardinality(Earlier(E, u))
      BY <3>2, <3>4, FS_Subset
    <3> DEFINE n == Cardinality(Earlier(E, u)) + 1
    <3>6. n \in Nat /\ Cardinality(F) <= n
      BY <1>2, <3>3, <3>4, <3>5
    <3>7. SafeSize(n) <= MaxSize
      BY <1>3, <3>2
    <3> HIDE DEF n
    <3>8. /\ SafeSize(Cardinality(F)) <= SafeSize(n)
          /\ SafeSize(Cardinality(F)) \in Nat /\ SafeSize(n) \in Nat
      BY <1>2, <3>6, SafeTyped
    <3> QED BY <1>5, <3>7, <3>8
  <2> QED BY <2>1, <2>2
<1>7. ASSUME NEW T \in SUBSET S, SafeSize(Cardinality(T)) <= MaxSize
      PROVE  Sends(T) <= Sends(F)
  <2> DEFINE R == T \cap E
             t == Cardinality(R)
             G == Greatest(E, t)
  <2>1. /\ R \in SUBSET E /\ SafeNet(T) <= SafeNet(R)
        /\ t <= Cardinality(T) /\ t \in Nat /\ Cardinality(T) \in Nat
    BY <1>2, <1>7, NetDrops DEF E, SafeNet
  <2> HIDE DEF R
  <2>2. G \in SUBSET E /\ Cardinality(G) = t /\ Value(R) <= Value(G)
    <3>1. t <= Cardinality(E)
      BY <1>2, <2>1, OrderedPart
    <3>2. Value(R) <= Value(Greatest(E, Cardinality(R)))
      BY <1>2, <2>1, GreatestBest
    <3>3. Greatest(E, t) \in SUBSET E /\ Cardinality(Greatest(E, t)) = t
      BY <1>2, <2>1, <3>1, GreatestCardinality
    <3> QED BY <3>2, <3>3
  <2>3. Valued(T) /\ Valued(R) /\ Valued(G)
    BY <1>2, <1>7, <2>1, <2>2, ValuedPart
  <2>4. SafeSize(t) <= MaxSize
    <3>1. SafeSize(t) <= SafeSize(Cardinality(T))
          /\ SafeSize(t) \in Nat /\ SafeSize(Cardinality(T)) \in Nat
      BY <2>1, SafeTyped
    <3> QED BY <1>5, <1>7, <3>1
  <2>5. G \in SUBSET F
    <3> SUFFICES ASSUME NEW u \in G PROVE u \in F
      OBVIOUS
    <3>1. u \in E /\ Cardinality(Earlier(E, u)) < t
      BY GreatestEarlier
    <3> DEFINE n == Cardinality(Earlier(E, u)) + 1
    <3>2. n \in Nat /\ n <= t
      BY <1>2, <2>1, <3>1, EarlierFewer
    <3>3. SafeSize(n) <= SafeSize(t) /\ SafeSize(n) \in Nat /\ SafeSize(t) \in Nat
      <4> HIDE DEF n, t
      <4> QED BY <2>1, <3>2, SafeTyped
    <3>4. SafeSize(n) <= MaxSize
      <4> HIDE DEF n, t
      <4> QED BY <1>5, <2>4, <3>3
    <3> QED BY <1>3, <3>1, <3>4
  <2> HIDE DEF t, G
  <2>6. SafeNet(R) <= SafeNet(G)
    BY <2>2, <2>3, NetSameSize DEF t, SafeNet
  <2>7. SafeNet(G) <= SafeNet(F)
    BY <1>1, <1>2, <1>4, <2>5, NetGains DEF SafeNet
  <2>8. SafeNet(T) <= SafeNet(F)
    <3>1. /\ SafeNet(T) \in Int /\ SafeNet(R) \in Int
          /\ SafeNet(G) \in Int /\ SafeNet(F) \in Int
      BY <1>2, <2>3, NetTyped DEF SafeNet
    <3> QED BY <2>1, <2>6, <2>7, <3>1
  <2>9. /\ Value(T) \in Nat /\ Value(F) \in Nat
        /\ ExactFee(Cardinality(T), TRUE) \in Nat /\ ExactFee(Cardinality(F), TRUE) \in Nat
    BY <1>2, <2>1, <2>3, NetTyped, FeeTyped
  <2> QED BY <2>8, <2>9, RoundOrder DEF SafeNet, Net, Sends, SafeFee
<1> QED BY <1>1, <1>6, <1>7 DEF F

LEMMA SendMaxSendsMost ==
    ASSUME Selection, SendMax
    PROVE  SendsMost'
<1> DEFINE most == Max({0} \cup {Sends(T) : T \in
                       {T \in SUBSET Sendable : SafeSize(Cardinality(T)) <= MaxSize}})
           A == {0} \cup {Sends(T) : T \in
                       {T \in SUBSET Sendable : SafeSize(Cardinality(T)) <= MaxSize}}
<1>1. /\ utxos \in Wallets /\ UNCHANGED request /\ stage = "balance" /\ stage' = "max"
      /\ inputs = {}
      /\ IF Sent = {} \/ Sends(Sent) < MinOutput THEN inputs' = inputs ELSE inputs' = Sent
  <2>1. inputs = {}
    <3>1. stage = "balance" => groups = Groups
      BY DEF Selection, OfLastGroup
    <3>2. stage = "balance"
      BY DEF SendMax
    <3> QED BY <3>1, <3>2 DEF Selection, OfLastGroup, Tried
  <2> QED BY <2>1 DEF Selection, SendMax, Sent, Sendable, Sends, SafeFee
<1>2. Ordered(Sendable)
  <2>1. Sendable \in SUBSET utxos
    BY DEF Sendable
  <2> QED BY <1>1, <2>1, WalletOrdered
<1>3. Sent = MostOf(Sendable)
  BY DEF Sent, Worth, MostOf
<1>4. /\ Sent \subseteq Sendable
      /\ SafeSize(Cardinality(Sent)) <= MaxSize
      /\ \A T \in SUBSET Sendable : SafeSize(Cardinality(T)) <= MaxSize => Sends(T) <= Sends(Sent)
  BY <1>2, <1>3, FittingBest
<1>5. \A T \in SUBSET Sendable : Sends(T) \in Int
  <2> SUFFICES ASSUME NEW T \in SUBSET Sendable PROVE Sends(T) \in Int
    OBVIOUS
  <2>1. Value(T) \in Nat /\ Cardinality(T) \in Nat
    BY <1>2, OrderedPart, ValueNat
  <2>2. SafeFee(Cardinality(T)) \in Nat
    BY <2>1, SafeTyped
  <2> QED BY <2>1, <2>2 DEF Sends
<1>6. MinOutput \in Nat /\ 0 < MinOutput
  BY ThresholdAssumption
<1> HIDE DEF A
<1>7. A \subseteq Int /\ Sends(Sent) \in A /\ 0 \in A /\ Sends(Sent) \in Int
  BY <1>4, <1>5 DEF A
<1>8. \A x \in A : x = 0 \/ x <= Sends(Sent)
  BY <1>4 DEF A
<1>9. Max(A) = IF Sends(Sent) >= 0 THEN Sends(Sent) ELSE 0
  <2> DEFINE s == Sends(Sent)
             m == IF s >= 0 THEN s ELSE 0
  <2>1. m \in A /\ m \in Int /\ \A x \in A : m >= x
    <3> HIDE DEF s
    <3>1. s \in A /\ s \in Int /\ \A x \in A : x = 0 \/ x <= s
      BY <1>7, <1>8 DEF s
    <3> QED BY <1>7, <3>1
  <2> HIDE DEF m
  <2>2. Max(A) \in A /\ \A x \in A : Max(A) >= x
    BY <2>1 DEF Max
  <2>3. Max(A) \in Int /\ Max(A) >= m /\ m >= Max(A)
    BY <1>7, <2>1, <2>2
  <2>4. Max(A) = m
    <3> HIDE DEF Max
    <3> QED BY <2>1, <2>3
  <2> QED BY <2>4 DEF m
<1>10. Sends({}) < MinOutput
  <2>1. Value({}) = 0 /\ Cardinality({}) = 0
    BY ValueEmpty, FS_EmptySet
  <2>2. SafeFee(0) \in Nat
    BY SafeTyped
  <2> QED BY <1>6, <2>1, <2>2 DEF Sends
<1>11. IF most < MinOutput THEN inputs' = {}
       ELSE Sends(inputs') = most /\ SafeSize(Cardinality(inputs')) <= MaxSize
  <2>1. most = Max(A)
    BY DEF A
  <2> HIDE DEF most
  <2>2. CASE Sends(Sent) < MinOutput
    <3>1. inputs' = {}
      BY <1>1, <2>2
    <3>2. most < MinOutput
      BY <1>6, <1>7, <1>9, <2>1, <2>2
    <3> QED BY <3>1, <3>2
  <2>3. CASE ~(Sends(Sent) < MinOutput)
    <3>1. Sent # {}
      BY <1>10, <2>3
    <3>2. inputs' = Sent
      BY <1>1, <2>3, <3>1
    <3>3. most = Sends(Sent) /\ ~(most < MinOutput)
      BY <1>6, <1>7, <1>9, <2>1, <2>3
    <3> QED BY <1>4, <3>2, <3>3
  <2> QED BY <2>2, <2>3
<1>12. {u \in utxos : u.status # "locked" /\ ~Unspendable(u)}' = Sendable
  BY <1>1 DEF request, Sendable, Unspendable
<1> QED BY <1>11, <1>12 DEF SendsMost, Sends, SafeFee, SafeSize

\* getWalletSendMaxInfo, which drops the smallest outputs until the others fit,
\* offers the most that any of the outputs can send, in a size that checkTx lets pass.
THEOREM SendsMostAlways == SelectionSpec => []SendsMost
<1>1. SelectionInit => SendsMost
  BY DEF SelectionInit, SendsMost
<1>2. ASSUME Selection, SendsMost, [SelectionNext]_selectionVars PROVE SendsMost'
  <2>1. CASE CheckFunds
    BY <2>1 DEF CheckFunds, SendsMost
  <2>2. CASE ExploreGroup
    BY <2>2 DEF ExploreGroup, SendsMost
  <2>3. CASE EndGroups
    BY <2>3 DEF EndGroups, SendsMost
  <2>4. CASE CheckTx
    BY <2>4 DEF CheckTx, SendsMost
  <2>5. CASE SendMax
    BY <1>2, <2>5, SendMaxSendsMost
  <2>6. CASE UNCHANGED selectionVars
    BY <1>2, <2>6 DEF selectionVars, SendsMost, Unspendable
  <2> QED BY <1>2, <2>1, <2>2, <2>3, <2>4, <2>5, <2>6 DEF SelectionNext
<1> QED BY <1>1, <1>2, SelectionAlways, PTL DEF SelectionSpec

=============================================================================
