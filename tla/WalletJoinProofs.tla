-------------------------- MODULE WalletJoinProofs --------------------------
(***************************************************************************)
(* Theorems about WalletJoin, for any wallets, copayers, keys and any      *)
(* number of concurrent requests: type correctness, that a copayer is      *)
(* registered once, that the look-ups match the wallet, that an answered   *)
(* key stays, and that nobody drops out.  They follow from IInv.           *)
(***************************************************************************)
EXTENDS WalletJoin, FiniteSetTheorems, TLAPS

-----------------------------------------------------------------------------
(* The inductive invariant                                                 *)

\* What a request holds of its wallet, at each stage and in each operation.
Step(r) ==
    /\ req[r].op = "none" => req[r] = Idle
    /\ req[r].at = "idle" => req[r] = Idle
    /\ req[r].at = "lock" => req[r].op \in {"join", "remove"} /\ req[r].doc = None
    /\ req[r].at = "lookup" => req[r].op = "join"
    /\ req[r].at = "fetch" => req[r].op = "access" /\ req[r].doc = None
    /\ req[r].at \in {"delete", "insert"} => req[r].op \in {"join", "access"}
    /\ req[r].at = "store" => req[r].op \in {"create", "join", "access"}
    /\ req[r].at = "remove" =>
          req[r].op = "remove" /\ req[r].left # {} /\ req[r].doc = None
    /\ req[r].at # "remove" => req[r].left = {}
    /\ req[r].at \in {"lookup", "delete", "insert", "store"} => req[r].doc \in Wallet
    /\ req[r].op # "none" => req[r].wallet \in Wallets
    /\ req[r].op = "create" => req[r].at = "store" /\ req[r].doc = NewWallet
    /\ req[r].op \in {"join", "access"} => req[r].copayer \in Copayers
    /\ req[r].op = "access" => req[r].key \in Keys

\* Whoever joins or removes, past its lock, owns it, unless it was robbed.
Owns(r) ==
    HasLocked(r) /\ req[r].wallet \notin robbed => lock[req[r].wallet] = r

\* The histories know who has been at work on a wallet together.
Together(r, s) ==
    r # s /\ AtWork(r) /\ AtWork(s) /\ req[r].wallet = req[s].wallet =>
        /\ {r, s} \subseteq beside
        /\ "access" \in {req[r].op, req[s].op} => req[r].wallet \in shared

\* No copayer twice, and not too many: in a wallet, and in what a request holds.
Sound(doc, w) ==
    /\ Len(doc.copayers) <= Size[w]
    /\ \A i, j \in DOMAIN doc.copayers :
          doc.copayers[i] = doc.copayers[j] => i = j

WalletsSound ==
    /\ \A w \in Wallets : wallets[w] # None => Sound(wallets[w], w)
    /\ \A r \in Requests : req[r].doc # None => Sound(req[r].doc, req[r].wallet)
    /\ \A r \in Requests : req[r].at = "lookup" =>
          MayJoin(req[r].doc, req[r].wallet, req[r].copayer)

\* What a join is about to write is the wallet of now with one more copayer.
JoinsFit(r) ==
    LET w == req[r].wallet
        doc == wallets[w]
    IN  req[r].op = "join" /\ req[r].at # "lock" /\ w \notin recreated \cup robbed =>
            /\ MayJoin(doc, w, req[r].copayer)
            /\ req[r].doc = IF req[r].at = "lookup" THEN doc ELSE Added(doc, req[r].copayer)

\* What an addAccess is about to write has its key, and the copayers of now,
\* all of them.
AccessFits(r) ==
    LET w == req[r].wallet
        doc == wallets[w]
    IN  req[r].op = "access" /\ req[r].at # "fetch" =>
            /\ Len(req[r].doc.copayers) = Size[w]
            /\ req[r].copayer \in Members(req[r].doc)
            /\ req[r].key \in req[r].doc.keys[req[r].copayer]
            /\ w \notin recreated \cup robbed /\ doc # None =>
                  doc.copayers = req[r].doc.copayers
            /\ w \notin shared => doc # None

Fits(r) == JoinsFit(r) /\ AccessFits(r)

\* Who has deleted look-ups, or part of the wallet, and has more to do.
HalfDone(r) ==
    \/ req[r].at = "insert"
    \/ req[r].at = "store" /\ req[r].op # "create"
    \/ req[r].at = "remove" /\ req[r].left # {"wallet", "lookups"}

LookupsIn(w) == {l \in lookups : l.wallet = w}

ByTheWallet(w) == IF wallets[w] = None THEN {} ELSE LookupsOf(wallets[w], w)

\* The wallets whose look-ups are worth a claim.
Regular == Wallets \ (shared \cup interrupted \cup recreated \cup robbed)

\* The look-ups of a wallet that somebody is half-way through.
HalfFits(r) ==
    HalfDone(r) /\ req[r].wallet \in Regular =>
        /\ req[r].at = "insert" \/ req[r].left = {"wallet"} =>
              LookupsIn(req[r].wallet) = {}
        /\ req[r].at = "store" =>
              LookupsIn(req[r].wallet) = LookupsOf(req[r].doc, req[r].wallet)
        /\ req[r].left = {"lookups"} => Members(wallets[req[r].wallet]) = {}

LookupsFit ==
    /\ \A w \in Regular :
          (\A r \in Requests : HalfDone(r) => req[r].wallet # w) =>
              LookupsIn(w) = ByTheWallet(w)
    /\ \A r \in Requests : HalfFits(r)

\* The look-ups that a request alone at work has written are still there.
AloneFits(r) ==
    r \notin beside =>
        /\ req[r].at = "insert" => LookupsIn(req[r].wallet) = {}
        /\ req[r].at = "store" /\ req[r].op = "access" =>
              LookupsIn(req[r].wallet) = LookupsOf(req[r].doc, req[r].wallet)

\* The copayer has the key.
HasKey(doc, c, k) == doc # None /\ c \in Members(doc) /\ k \in doc.keys[c]

\* An answered key is in its wallet, and in what every request is about to
\* write to it.
GrantsFit ==
    \A w \in Wallets, c \in Copayers, k \in Keys :
        <<w, c, k>> \in granted =>
            /\ HasKey(wallets[w], c, k)
            /\ \A r \in Requests : req[r].doc # None /\ req[r].wallet = w =>
                  HasKey(req[r].doc, c, k)

HeldOnce ==
    \A v, w \in Wallets \ (recreated \cup robbed) : \A c \in Copayers :
        Belongs(c, v) /\ Belongs(c, w) =>
            v = w \/ <<c, v>> \in missed \/ <<c, w>> \in missed

IInv ==
    /\ TypeOK
    /\ \A r \in Requests : Step(r) /\ Owns(r) /\ Fits(r) /\ AloneFits(r)
    /\ \A r, s \in Requests : Together(r, s)
    /\ WalletsSound
    /\ LookupsFit
    /\ GrantsFit
    /\ KeysKept
    /\ HeldOnce

-----------------------------------------------------------------------------
(* Documents                                                               *)

\* The request r goes on, and no other one does.
Moved(r, at, doc, left) ==
    /\ req' \in [Requests -> Request]
    /\ \A s \in Requests \ {r} : req'[s] = req[s]
    /\ req'[r].op = req[r].op /\ req'[r].wallet = req[r].wallet
    /\ req'[r].copayer = req[r].copayer /\ req'[r].key = req[r].key
    /\ req'[r].at = at /\ req'[r].doc = doc /\ req'[r].left = left

\* The request r begins, or ends, as q.
Became(r, q) ==
    /\ req' \in [Requests -> Request]
    /\ \A s \in Requests \ {r} : req'[s] = req[s]
    /\ req'[r] = q

LEMMA IdleType ==
  /\ Idle \in Request
  /\ Idle.op = "none" /\ Idle.at = "idle" /\ Idle.wallet = None
  /\ Idle.doc = None /\ Idle.left = {}
BY DEF Idle, Request, Operations, Stages

LEMMA NewWalletType ==
  /\ NewWallet \in Wallet /\ NewWallet # None
  /\ NewWallet.copayers = <<>> /\ Members(NewWallet) = {}
<1>1. <<>> \in Seq(Copayers)
  OBVIOUS
<1>2. NewWallet \in Wallet
  BY <1>1 DEF NewWallet, Wallet
<1>3. NewWallet # None
  BY <1>2, NoneAssumption
<1>4. NewWallet.copayers = <<>>
  BY DEF NewWallet
<1>5. Members(NewWallet) = {}
  BY <1>3, <1>4 DEF Members
<1>6. QED
  BY <1>2, <1>3, <1>4, <1>5

LEMMA MembersType ==
  ASSUME NEW doc \in Wallet \cup {None}
  PROVE  Members(doc) \subseteq Copayers
<1>1. CASE doc = None
  BY <1>1 DEF Members
<1>2. CASE doc # None
  <2>1. doc.copayers \in Seq(Copayers)
    BY <1>2 DEF Wallet
  <2>2. \A i \in DOMAIN doc.copayers : doc.copayers[i] \in Copayers
    BY <2>1
  <2>3. QED
    BY <1>2, <2>2 DEF Members
<1>3. QED
  BY <1>1, <1>2

\* wallet.addCopayer puts the copayer behind the others, with one key.
LEMMA AddedType ==
  ASSUME NEW doc \in Wallet, NEW c \in Copayers
  PROVE  /\ Added(doc, c) \in Wallet /\ Added(doc, c) # None
         /\ Added(doc, c).copayers = Append(doc.copayers, c)
         /\ Len(Added(doc, c).copayers) = Len(doc.copayers) + 1
         /\ Members(Added(doc, c)) = Members(doc) \cup {c}
         /\ \A d \in Copayers \ {c} : Added(doc, c).keys[d] = doc.keys[d]
<1> DEFINE new == Added(doc, c)
<1>1. doc.copayers \in Seq(Copayers) /\ doc.keys \in [Copayers -> SUBSET AllKeys]
  BY DEF Wallet
<1>2. /\ Append(doc.copayers, c) \in Seq(Copayers)
      /\ Len(Append(doc.copayers, c)) = Len(doc.copayers) + 1
      /\ \A i \in 1 .. Len(doc.copayers) : Append(doc.copayers, c)[i] = doc.copayers[i]
      /\ Append(doc.copayers, c)[Len(doc.copayers) + 1] = c
  BY <1>1
<1>3. [doc.keys EXCEPT ![c] = {First}] \in [Copayers -> SUBSET AllKeys]
  BY <1>1 DEF AllKeys
<1>4. new \in Wallet /\ new.copayers = Append(doc.copayers, c)
      /\ new.keys = [doc.keys EXCEPT ![c] = {First}]
  BY <1>2, <1>3 DEF Added, Wallet
<1>5. new # None /\ doc # None
  BY <1>4, NoneAssumption
<1>6. /\ DOMAIN doc.copayers = 1 .. Len(doc.copayers)
      /\ DOMAIN new.copayers = 1 .. Len(doc.copayers) + 1
  BY <1>1, <1>2, <1>4
<1>7. Members(new) = Members(doc) \cup {c}
  <2>1. Members(new) \subseteq Members(doc) \cup {c}
    BY <1>2, <1>4, <1>5, <1>6, <1>1 DEF Members
  <2>2. Members(doc) \subseteq Members(new)
    BY <1>2, <1>4, <1>5, <1>6, <1>1 DEF Members
  <2>3. c \in Members(new)
    <3>1. Len(doc.copayers) + 1 \in DOMAIN new.copayers
      BY <1>1, <1>6
    <3>2. QED
      BY <3>1, <1>2, <1>4, <1>5 DEF Members
  <2>4. QED
    BY <2>1, <2>2, <2>3
<1>8. \A d \in Copayers \ {c} : new.keys[d] = doc.keys[d]
  BY <1>1, <1>4
<1>9. QED
  BY <1>2, <1>4, <1>5, <1>7, <1>8

\* addCopayerRequestKey leaves the copayers alone.
LEMMA KeyAddedType ==
  ASSUME NEW doc \in Wallet, NEW c \in Copayers, NEW k \in AllKeys
  PROVE  LET new == [doc EXCEPT !.keys[c] = doc.keys[c] \cup {k}]
         IN  /\ new \in Wallet /\ new # None
             /\ new.copayers = doc.copayers
             /\ Members(new) = Members(doc)
             /\ new.keys[c] = doc.keys[c] \cup {k}
             /\ \A d \in Copayers \ {c} : new.keys[d] = doc.keys[d]
<1> DEFINE new == [doc EXCEPT !.keys[c] = doc.keys[c] \cup {k}]
<1>1. doc.copayers \in Seq(Copayers) /\ doc.keys \in [Copayers -> SUBSET AllKeys]
  BY DEF Wallet
<1>2. /\ new.copayers = doc.copayers
      /\ new.keys = [doc.keys EXCEPT ![c] = doc.keys[c] \cup {k}]
  BY <1>1 DEF Wallet
<1>3. [doc.keys EXCEPT ![c] = doc.keys[c] \cup {k}] \in [Copayers -> SUBSET AllKeys]
  BY <1>1
<1>4. new \in Wallet
  BY <1>1, <1>3 DEF Wallet
<1>5. new # None /\ doc # None
  BY <1>4, NoneAssumption
<1>6. QED
  BY <1>1, <1>2, <1>4, <1>5 DEF Members

LEMMA KeyAdded ==
  ASSUME NEW doc \in Wallet, NEW c \in Copayers, NEW k \in AllKeys
  PROVE  \E new \in Wallet :
            /\ new = [doc EXCEPT !.keys[c] = doc.keys[c] \cup {k}]
            /\ new # None /\ new.copayers = doc.copayers
            /\ Members(new) = Members(doc)
            /\ new.keys[c] = doc.keys[c] \cup {k}
            /\ \A d \in Copayers \ {c} : new.keys[d] = doc.keys[d]
<1> DEFINE new == [doc EXCEPT !.keys[c] = doc.keys[c] \cup {k}]
<1>1. new \in Wallet /\ new # None /\ new.copayers = doc.copayers
      /\ Members(new) = Members(doc)
  BY KeyAddedType
<1>2. doc.keys \in [Copayers -> SUBSET AllKeys]
  BY DEF Wallet
<1>3. new.keys = [doc.keys EXCEPT ![c] = doc.keys[c] \cup {k}]
  BY DEF Wallet
<1>4. /\ new.keys[c] = doc.keys[c] \cup {k}
      /\ \A d \in Copayers \ {c} : new.keys[d] = doc.keys[d]
  BY <1>2, <1>3
<1>5. new = [doc EXCEPT !.keys[c] = doc.keys[c] \cup {k}]
  OBVIOUS
<1> HIDE DEF new
<1>6. QED
  BY <1>1, <1>4, <1>5

LEMMA LookupsOfType ==
  ASSUME NEW doc \in Wallet, NEW w \in Wallets
  PROVE  LookupsOf(doc, w) \subseteq Lookup
<1>1. Members(doc) \subseteq Copayers
  BY MembersType
<1>2. doc.keys \in [Copayers -> SUBSET AllKeys]
  BY DEF Wallet
<1>3. QED
  BY <1>1, <1>2 DEF LookupsOf, Lookup

-----------------------------------------------------------------------------
(* What each action does to its request                                    *)

LEMMA BeginDoes ==
  ASSUME TypeOK, NEW r \in Requests, NEW q \in Request, Begin(r, q)
  PROVE  req[r] = Idle /\ Became(r, q)
BY DEF TypeOK, Begin, Became

LEMMA EndDoes ==
  ASSUME TypeOK, NEW r \in Requests, End(r)
  PROVE  /\ Became(r, Idle) /\ beside' = beside \ {r}
         /\ lock' \in [Wallets -> Requests \cup {Free, Orphan}]
         /\ \A w \in Wallets :
               lock'[w] = lock[w] \/ (HasLocked(r) /\ req[r].wallet = w)
<1>1. Became(r, Idle) /\ beside' = beside \ {r}
  BY IdleType DEF TypeOK, End, Became
<1>2. CASE HasLocked(r)
  BY <1>1, <1>2 DEF TypeOK, End
<1>3. CASE ~HasLocked(r)
  BY <1>1, <1>3 DEF TypeOK, End
<1>4. QED
  BY <1>2, <1>3

LEMMA DocMoves ==
  ASSUME TypeOK, NEW r \in Requests, NEW at \in Stages, NEW doc \in Wallet,
         req' = [req EXCEPT ![r] = [req[r] EXCEPT !.at = at, !.doc = doc]]
  PROVE  Moved(r, at, doc, req[r].left)
<1> DEFINE q == [req[r] EXCEPT !.at = at, !.doc = doc]
<1>1. req[r] \in Request
  BY DEF TypeOK
<1>2. /\ q \in Request
      /\ q.op = req[r].op /\ q.wallet = req[r].wallet
      /\ q.copayer = req[r].copayer /\ q.key = req[r].key
      /\ q.at = at /\ q.doc = doc /\ q.left = req[r].left
  BY <1>1 DEF Request
<1> HIDE DEF q
<1>3. QED
  BY <1>2 DEF Moved, TypeOK, q

LEMMA LockDoes ==
  ASSUME TypeOK, NEW r \in Requests, Step(r), Lock(r)
  PROVE  /\ req[r].wallet \in Wallets
         /\ req[r].op \in {"join", "remove"} /\ req[r].doc = None /\ req[r].left = {}
         /\ lock' \in [Wallets -> Requests \cup {Free, Orphan}]
         /\ lock'[req[r].wallet] = r
         /\ \A w \in Wallets : w # req[r].wallet => lock'[w] = lock[w]
         /\ lock[req[r].wallet] = Free
<1>1. req[r].op \in {"join", "remove"} /\ req[r].doc = None /\ req[r].left = {}
      /\ req[r].wallet \in Wallets
  BY DEF Lock, Step
<1>2. QED
  BY <1>1 DEF Lock, TypeOK

\* Who takes up work remembers whom it found at work on the wallet.
LEMMA TakeUpDoes ==
  ASSUME TypeOK, NEW r \in Requests, NEW w \in Wallets, NEW op, TakeUp(r, w, op)
  PROVE  /\ beside \subseteq beside' /\ beside' \subseteq Requests
         /\ shared \subseteq shared' /\ shared' \subseteq Wallets
         /\ \A s \in Requests \ {r} : AtWork(s) /\ req[s].wallet = w =>
               {r, s} \subseteq beside' /\ ("access" \in {op, req[s].op} => w \in shared')
<1> DEFINE others == {s \in Requests \ {r} : AtWork(s) /\ req[s].wallet = w}
<1>1. beside' = IF others = {} THEN beside ELSE beside \cup others \cup {r}
  BY DEF TakeUp
<1>2. shared' = IF \E s \in others : "access" \in {op, req[s].op}
                THEN shared \cup {w} ELSE shared
  BY DEF TakeUp
<1>3. others \subseteq Requests
  OBVIOUS
<1>4. \A s \in Requests \ {r} : AtWork(s) /\ req[s].wallet = w => s \in others
  OBVIOUS
<1> HIDE DEF others
<1>5. beside \subseteq beside' /\ beside' \subseteq Requests
  BY <1>1, <1>3 DEF TypeOK
<1>6. shared \subseteq shared' /\ shared' \subseteq Wallets
  BY <1>2 DEF TypeOK
<1>7. ASSUME NEW s \in others
      PROVE  {r, s} \subseteq beside' /\ ("access" \in {op, req[s].op} => w \in shared')
  BY <1>1, <1>2
<1>8. QED
  BY <1>4, <1>5, <1>6, <1>7

LEMMA StartCreateDoes ==
  ASSUME TypeOK, NEW r \in Requests, NEW w \in Wallets, StartCreate(r, w)
  PROVE  \E q \in Request :
            /\ req[r] = Idle /\ Became(r, q)
            /\ q.op = "create" /\ q.at = "store" /\ q.wallet = w
            /\ q.doc = NewWallet /\ q.left = {}
<1> DEFINE q == [Idle EXCEPT !.op = "create", !.at = "store", !.wallet = w,
                             !.doc = NewWallet]
<1>1. /\ q \in Request
      /\ q.op = "create" /\ q.at = "store" /\ q.wallet = w
      /\ q.doc = NewWallet /\ q.left = {}
  BY NewWalletType DEF Idle, Request, Operations, Stages
<1>2. Begin(r, q)
  BY DEF StartCreate
<1>3. QED
  BY <1>1, <1>2, BeginDoes

LEMMA StartJoinDoes ==
  ASSUME TypeOK, NEW r \in Requests, NEW w \in Wallets, NEW c \in Copayers,
         StartJoin(r, w, c)
  PROVE  \E q \in Request :
            /\ req[r] = Idle /\ Became(r, q)
            /\ q.op = "join" /\ q.at = "lock" /\ q.wallet = w
            /\ q.copayer = c /\ q.doc = None /\ q.left = {}
<1> DEFINE q == [Idle EXCEPT !.op = "join", !.at = "lock", !.wallet = w,
                             !.copayer = c, !.key = First]
<1>1. /\ q \in Request
      /\ q.op = "join" /\ q.at = "lock" /\ q.wallet = w
      /\ q.copayer = c /\ q.doc = None /\ q.left = {}
  BY DEF Idle, Request, Operations, Stages, AllKeys
<1>2. Begin(r, q)
  BY DEF StartJoin
<1>3. QED
  BY <1>1, <1>2, BeginDoes

LEMMA StartAccessDoes ==
  ASSUME TypeOK, NEW r \in Requests, NEW k \in Keys, StartAccess(r, k)
  PROVE  \E q \in Request :
            /\ req[r] = Idle /\ Became(r, q)
            /\ q.op = "access" /\ q.at = "fetch" /\ q.wallet \in Wallets
            /\ q.copayer \in Copayers /\ q.key = k /\ q.doc = None /\ q.left = {}
<1>1. PICK l \in lookups :
          Begin(r, [Idle EXCEPT !.op = "access", !.at = "fetch", !.key = k,
                                !.wallet = l.wallet, !.copayer = l.copayer,
                                !.found = l.keys])
  BY DEF StartAccess
<1> DEFINE q == [Idle EXCEPT !.op = "access", !.at = "fetch", !.key = k,
                             !.wallet = l.wallet, !.copayer = l.copayer,
                             !.found = l.keys]
<1>2. l.wallet \in Wallets /\ l.copayer \in Copayers /\ l.keys \in SUBSET AllKeys
  BY DEF TypeOK, Lookup
<1>3. /\ q \in Request
      /\ q.op = "access" /\ q.at = "fetch" /\ q.wallet \in Wallets
      /\ q.copayer \in Copayers /\ q.key = k /\ q.doc = None /\ q.left = {}
  BY <1>2 DEF Idle, Request, Operations, Stages, AllKeys
<1>4. QED
  BY <1>1, <1>3, BeginDoes

LEMMA StartRemoveDoes ==
  ASSUME TypeOK, NEW r \in Requests, NEW w \in Wallets, StartRemove(r, w)
  PROVE  \E q \in Request :
            /\ req[r] = Idle /\ Became(r, q)
            /\ q.op = "remove" /\ q.at = "lock" /\ q.wallet = w
            /\ q.doc = None /\ q.left = {}
<1> DEFINE q == [Idle EXCEPT !.op = "remove", !.at = "lock", !.wallet = w]
<1>1. /\ q \in Request
      /\ q.op = "remove" /\ q.at = "lock" /\ q.wallet = w
      /\ q.doc = None /\ q.left = {}
  BY DEF Idle, Request, Operations, Stages
<1>2. Begin(r, q)
  BY DEF StartRemove
<1>3. QED
  BY <1>1, <1>2, BeginDoes

LEMMA FetchToJoinDoes ==
  ASSUME TypeOK, NEW r \in Requests, Step(r), FetchToJoin(r)
  PROVE  /\ req[r].at = "lock" /\ req[r].op = "join" /\ req[r].wallet \in Wallets
         /\ wallets[req[r].wallet] \in Wallet
         /\ MayJoin(wallets[req[r].wallet], req[r].wallet, req[r].copayer)
         /\ Moved(r, "lookup", wallets[req[r].wallet], {})
<1>1. /\ req[r].op = "join" /\ req[r].at = "lock"
      /\ req[r].wallet \in Wallets /\ req[r].left = {}
      /\ MayJoin(wallets[req[r].wallet], req[r].wallet, req[r].copayer)
      /\ req' = [req EXCEPT ![r].at = "lookup", ![r].doc = wallets[req[r].wallet]]
  BY LockDoes DEF FetchToJoin, Lock
<1>2. wallets[req[r].wallet] \in Wallet
  BY <1>1 DEF MayJoin, TypeOK
<1>3. req' = [req EXCEPT ![r] = [req[r] EXCEPT !.at = "lookup",
                                               !.doc = wallets[req[r].wallet]]]
  BY <1>1 DEF TypeOK
<1>4. Moved(r, "lookup", wallets[req[r].wallet], {})
  BY <1>1, <1>2, <1>3 DEF Moved, TypeOK, Request, Stages
<1>5. QED
  BY <1>1, <1>2, <1>4

LEMMA LookUpToJoinDoes ==
  ASSUME TypeOK, NEW r \in Requests, Step(r), LookUpToJoin(r)
  PROVE  /\ req[r].at = "lookup" /\ req[r].op = "join" /\ req[r].wallet \in Wallets
         /\ req[r].copayer \in Copayers /\ req[r].doc \in Wallet
         /\ Moved(r, "delete", Added(req[r].doc, req[r].copayer), {})
<1>1. /\ req[r].op = "join" /\ req[r].at = "lookup" /\ req[r].left = {}
      /\ req[r].wallet \in Wallets /\ req[r].copayer \in Copayers
      /\ req[r].doc \in Wallet
  BY DEF LookUpToJoin, LookUpAnd, At, Step
<1> DEFINE new == Added(req[r].doc, req[r].copayer)
<1>2. new \in Wallet
  BY <1>1, AddedType
<1>3. req' = [req EXCEPT ![r] = [req[r] EXCEPT !.at = "delete", !.doc = new]]
  BY <1>1 DEF LookUpToJoin, LookUpAnd, TypeOK
<1>4. QED
  BY <1>1, <1>2, <1>3, DocMoves DEF Stages

LEMMA FetchToAddDoes ==
  ASSUME TypeOK, NEW r \in Requests, Step(r), FetchToAdd(r)
  PROVE  LET doc == wallets[req[r].wallet]
             c == req[r].copayer
         IN  /\ req[r].at = "fetch" /\ req[r].op = "access"
             /\ req[r].wallet \in Wallets /\ c \in Copayers /\ req[r].key \in Keys
             /\ doc \in Wallet /\ doc # None /\ c \in Members(doc)
             /\ Len(doc.copayers) = Size[req[r].wallet]
             /\ Moved(r, "delete",
                      [doc EXCEPT !.keys[c] = doc.keys[c] \cup {req[r].key}], {})
<1> DEFINE doc == wallets[req[r].wallet]
           c == req[r].copayer
           new == [doc EXCEPT !.keys[c] = doc.keys[c] \cup {req[r].key}]
<1>1. /\ req[r].op = "access" /\ req[r].at = "fetch" /\ req[r].left = {}
      /\ req[r].wallet \in Wallets /\ c \in Copayers /\ req[r].key \in Keys
      /\ c \in Members(doc)
      /\ Len(doc.copayers) = Size[req[r].wallet]
      /\ req' = [req EXCEPT ![r].at = "delete", ![r].doc = new]
  BY DEF FetchToAdd, FetchThenAdd, At, Step
<1>2. doc \in Wallet /\ doc # None
  BY <1>1 DEF Members, TypeOK
<1>3. new \in Wallet
  BY <1>1, <1>2, KeyAddedType DEF AllKeys
<1>4. req' = [req EXCEPT ![r] = [req[r] EXCEPT !.at = "delete", !.doc = new]]
  BY <1>1 DEF TypeOK
<1> HIDE DEF new
<1>5. Moved(r, "delete", new, {})
  BY <1>1, <1>3, <1>4 DEF Moved, TypeOK, Request, Stages
<1>6. QED
  BY <1>1, <1>2, <1>5 DEF new

\* The document an addAccess is about to write has its key.
LEMMA FetchToAddReads ==
  ASSUME TypeOK, NEW r \in Requests, Step(r), FetchToAdd(r)
  PROVE  \E doc \in Wallet :
            /\ Moved(r, "delete", doc, {})
            /\ doc.copayers = wallets[req[r].wallet].copayers
            /\ Members(doc) = Members(wallets[req[r].wallet])
            /\ req[r].copayer \in Members(doc)
            /\ req[r].key \in doc.keys[req[r].copayer]
            /\ \A c \in Copayers, k \in AllKeys :
                  HasKey(wallets[req[r].wallet], c, k) => HasKey(doc, c, k)
<1> DEFINE old == wallets[req[r].wallet]
           c == req[r].copayer
<1>1. /\ old \in Wallet /\ c \in Copayers /\ req[r].key \in AllKeys
      /\ Moved(r, "delete", [old EXCEPT !.keys[c] = old.keys[c] \cup {req[r].key}], {})
      /\ c \in Members(old)
  BY FetchToAddDoes DEF AllKeys
<1> HIDE DEF old, c
<1>2. PICK doc \in Wallet :
          /\ doc = [old EXCEPT !.keys[c] = old.keys[c] \cup {req[r].key}]
          /\ doc # None /\ doc.copayers = old.copayers
          /\ Members(doc) = Members(old)
          /\ doc.keys[c] = old.keys[c] \cup {req[r].key}
          /\ \A d \in Copayers \ {c} : doc.keys[d] = old.keys[d]
  BY <1>1, KeyAdded
<1>3. Moved(r, "delete", doc, {})
  BY <1>1, <1>2
<1>4. \A d \in Copayers, k \in AllKeys : HasKey(old, d, k) => HasKey(doc, d, k)
  BY <1>1, <1>2 DEF HasKey
<1>5. c \in Members(doc) /\ req[r].key \in doc.keys[c]
  BY <1>1, <1>2
<1>6. QED
  BY <1>2, <1>3, <1>4, <1>5 DEF old, c

LEMMA DeleteLookupsDoes ==
  ASSUME TypeOK, NEW r \in Requests, Step(r), DeleteLookups(r)
  PROVE  /\ req[r].at = "delete" /\ req[r].op \in {"join", "access"}
         /\ req[r].wallet \in Wallets /\ req[r].doc \in Wallet
         /\ Moved(r, "insert", req[r].doc, {})
BY DEF DeleteLookups, Step, Moved, TypeOK, Request, Stages

LEMMA InsertLookupsDoes ==
  ASSUME TypeOK, NEW r \in Requests, Step(r), InsertLookups(r)
  PROVE  /\ req[r].at = "insert" /\ req[r].op \in {"join", "access"}
         /\ req[r].wallet \in Wallets /\ req[r].doc \in Wallet
         /\ Moved(r, "store", req[r].doc, {})
BY DEF InsertLookups, Insert, Step, Moved, TypeOK, Request, Stages

LEMMA StoreWalletDoes ==
  ASSUME TypeOK, NEW r \in Requests, Step(r), StoreWallet(r)
  PROVE  /\ req[r].at = "store" /\ req[r].op \in {"create", "join", "access"}
         /\ req[r].wallet \in Wallets /\ req[r].doc \in Wallet
         /\ Became(r, Idle)
         /\ wallets' = [wallets EXCEPT ![req[r].wallet] = req[r].doc]
BY EndDoes DEF StoreWallet, Step

LEMMA LockToRemoveDoes ==
  ASSUME TypeOK, NEW r \in Requests, Step(r), LockToRemove(r)
  PROVE  /\ req[r].at = "lock" /\ req[r].op = "remove" /\ req[r].wallet \in Wallets
         /\ Moved(r, "remove", None, {"wallet", "lookups"})
<1>1. /\ req[r].op = "remove" /\ req[r].at = "lock" /\ req[r].doc = None
      /\ req[r].wallet \in Wallets
      /\ req' = [req EXCEPT ![r].at = "remove", ![r].left = {"wallet", "lookups"}]
  BY LockDoes DEF LockToRemove, Lock
<1> DEFINE q == [req[r] EXCEPT !.at = "remove", !.left = {"wallet", "lookups"}]
<1>2. req \in [Requests -> Request] /\ req[r] \in Request
  BY DEF TypeOK
<1>3. /\ q \in Request
      /\ q.op = req[r].op /\ q.wallet = req[r].wallet
      /\ q.copayer = req[r].copayer /\ q.key = req[r].key
      /\ q.at = "remove" /\ q.doc = None /\ q.left = {"wallet", "lookups"}
  BY <1>1, <1>2 DEF Request, Stages
<1>4. req' = [req EXCEPT ![r] = q]
  BY <1>1, <1>2
<1> HIDE DEF q
<1>5. Moved(r, "remove", None, {"wallet", "lookups"})
  BY <1>2, <1>3, <1>4 DEF Moved
<1>6. QED
  BY <1>1, <1>5

LEMMA RemovePartDoes ==
  ASSUME TypeOK, NEW r \in Requests, Step(r), NEW part \in {"wallet", "lookups"},
         RemovePart(r, part)
  PROVE  /\ req[r].at = "remove" /\ req[r].op = "remove"
         /\ req[r].wallet \in Wallets /\ req[r].doc = None /\ part \in req[r].left
         /\ \/ req[r].left = {part} /\ Became(r, Idle) /\ End(r)
            \/ /\ req[r].left = {"wallet", "lookups"}
               /\ Moved(r, "remove", None, req[r].left \ {part})
               /\ lock' = lock
<1>1. /\ req[r].at = "remove" /\ req[r].op = "remove"
      /\ req[r].wallet \in Wallets /\ req[r].doc = None /\ part \in req[r].left
      /\ req[r].left \subseteq {"wallet", "lookups"}
  BY DEF RemovePart, At, Step, TypeOK, Request
<1>2. CASE req[r].left = {part}
  BY <1>1, <1>2, EndDoes DEF RemovePart
<1>3. CASE req[r].left # {part}
  <2>1. req' = [req EXCEPT ![r].left = @ \ {part}] /\ lock' = lock
    BY <1>3 DEF RemovePart
  <2>2. req[r].left = {"wallet", "lookups"}
    BY <1>1, <1>3
  <2>3. Moved(r, "remove", None, req[r].left \ {part})
    BY <1>1, <2>1 DEF Moved, TypeOK, Request, Stages
  <2>4. QED
    BY <1>1, <2>1, <2>2, <2>3
<1>4. QED
  BY <1>2, <1>3

-----------------------------------------------------------------------------
(* The kinds of steps                                                      *)

\* Nothing but locks and histories.
Rests == UNCHANGED <<req, wallets, lookups, granted>>

\* A request begins, and has not yet looked at its wallet.
Begins(r) ==
    /\ UNCHANGED <<wallets, lookups, granted>>
    /\ req[r] = Idle
    /\ \E q \in Request : /\ Became(r, q) /\ q.at \in {"lock", "fetch"}
                          /\ q.doc = None /\ q.left = {}

\* A request ends; what it leaves half done is interrupted.
Ends(r) ==
    /\ UNCHANGED <<wallets, lookups, granted>>
    /\ Became(r, Idle)
    /\ req[r].at \in {"insert", "store"} \/ req[r].left # {} =>
           req[r].op = "create" \/ req[r].wallet \in interrupted'

LEMMA StepFails ==
  ASSUME TypeOK, NEW r \in Requests, Step(r), RequestFails(r) \/ Crash(r)
  PROVE  /\ Ends(r) /\ req[r].wallet \in Wallets /\ beside' = beside \ {r}
         /\ interrupted' \subseteq Wallets /\ interrupted \subseteq interrupted'
         /\ lock' \in [Wallets -> Requests \cup {Free, Orphan}]
         /\ \A w \in Wallets :
               lock'[w] = lock[w] \/ lock[w] = r \/ (HasLocked(r) /\ req[r].wallet = w)
         /\ UNCHANGED <<clearing, shared, recreated, robbed, missed>>
<1>1. /\ Interrupt(r) /\ req[r] # Idle
      /\ UNCHANGED <<wallets, lookups, clearing, granted, shared, recreated,
                     robbed, missed>>
  BY DEF RequestFails, Crash
<1>2. req[r].wallet \in Wallets
  BY <1>1 DEF Step, TypeOK, Request, Operations
<1>3. /\ interrupted' \subseteq Wallets /\ interrupted \subseteq interrupted'
      /\ req[r].at \in {"insert", "store"} \/ req[r].left # {} =>
            req[r].op = "create" \/ req[r].wallet \in interrupted'
  <2>1. CASE r \in Writing(req[r].wallet)
    BY <1>1, <1>2, <2>1 DEF Interrupt, TypeOK
  <2>2. CASE r \notin Writing(req[r].wallet)
    BY <1>1, <1>2, <2>2 DEF Interrupt, TypeOK, Writing
  <2>3. QED
    BY <2>1, <2>2
<1>4. CASE RequestFails(r)
  <2>1. End(r)
    BY <1>4 DEF RequestFails
  <2>2. QED
    BY <1>1, <1>2, <1>3, <2>1, EndDoes DEF Ends
<1>5. CASE Crash(r)
  <2>1. /\ req' = [req EXCEPT ![r] = Idle] /\ beside' = beside \ {r}
        /\ lock' = [w \in Wallets |-> IF lock[w] = r THEN Orphan ELSE lock[w]]
    BY <1>5 DEF Crash
  <2>2. Became(r, Idle)
    BY <2>1, IdleType DEF Became, TypeOK
  <2>3. /\ lock' \in [Wallets -> Requests \cup {Free, Orphan}]
        /\ \A w \in Wallets : lock'[w] = lock[w] \/ lock[w] = r
    BY <2>1 DEF TypeOK
  <2>4. QED
    BY <1>1, <1>2, <1>3, <2>1, <2>2, <2>3 DEF Ends
<1>6. QED
  BY <1>4, <1>5

LEMMA StepBegins ==
  ASSUME TypeOK, NEW r \in Requests,
         \/ \E w \in Wallets : \/ \E c \in Copayers : StartJoin(r, w, c)
                               \/ StartRemove(r, w)
         \/ \E k \in Keys : StartAccess(r, k)
  PROVE  Begins(r) /\ UNCHANGED <<lock, clearing, history>>
<1>1. ASSUME NEW w \in Wallets, NEW c \in Copayers, StartJoin(r, w, c)
      PROVE  Begins(r) /\ UNCHANGED <<lock, clearing, history>>
  <2>1. PICK q \in Request : /\ req[r] = Idle /\ Became(r, q) /\ q.at = "lock"
                            /\ q.doc = None /\ q.left = {}
    BY <1>1, StartJoinDoes
  <2>2. QED
    BY <1>1, <2>1 DEF StartJoin, Begins, history
<1>2. ASSUME NEW w \in Wallets, StartRemove(r, w)
      PROVE  Begins(r) /\ UNCHANGED <<lock, clearing, history>>
  <2>1. PICK q \in Request : /\ req[r] = Idle /\ Became(r, q) /\ q.at = "lock"
                            /\ q.doc = None /\ q.left = {}
    BY <1>2, StartRemoveDoes
  <2>2. QED
    BY <1>2, <2>1 DEF StartRemove, Begins, history
<1>3. ASSUME NEW k \in Keys, StartAccess(r, k)
      PROVE  Begins(r) /\ UNCHANGED <<lock, clearing, history>>
  <2>1. PICK q \in Request : /\ req[r] = Idle /\ Became(r, q) /\ q.at = "fetch"
                            /\ q.doc = None /\ q.left = {}
    BY <1>3, StartAccessDoes
  <2>2. QED
    BY <1>3, <2>1 DEF StartAccess, Begins, history
<1>4. QED
  BY <1>1, <1>2, <1>3

LEMMA RefusalEnds ==
  ASSUME TypeOK, NEW r \in Requests, Step(r), RefuseAccess(r)
  PROVE  Ends(r) /\ beside' = beside \ {r} /\ UNCHANGED <<clearing, troubles>>
<1>1. Became(r, Idle) /\ beside' = beside \ {r}
  BY EndDoes DEF RefuseAccess
<1>2. req[r].at = "fetch" /\ req[r].left = {}
  BY DEF RefuseAccess, At, Step
<1>3. QED
  BY <1>1, <1>2 DEF RefuseAccess, Ends

\* A step that does not write is of one of three kinds.
LEMMA Kinds ==
  ASSUME TypeOK, \A r \in Requests : Step(r), [Next]_vars
  PROVE  \/ Rests
         \/ \E r \in Requests :
               \/ Begins(r) \/ Ends(r)
               \/ \E w \in Wallets : StartCreate(r, w)
               \/ FetchToJoin(r) \/ LookUpToJoin(r) \/ FetchToAdd(r)
               \/ DeleteLookups(r) \/ InsertLookups(r) \/ StoreWallet(r)
               \/ LockToRemove(r)
               \/ \E part \in {"wallet", "lookups"} : RemovePart(r, part)
<1>1. ASSUME NEW r \in Requests, Start(r)
      PROVE  Begins(r) \/ \E w \in Wallets : StartCreate(r, w)
  BY <1>1, StepBegins DEF Start
<1>2. ASSUME NEW r \in Requests, RequestFails(r) \/ Crash(r) \/ RefuseAccess(r)
      PROVE  Ends(r)
  BY <1>2, StepFails, RefusalEnds
<1>3. ASSUME NEW r \in Requests, NEW k \in Keys, StartAccess(r, k)
      PROVE  Begins(r)
  BY <1>3, StepBegins
<1>4. ASSUME NEW w \in Wallets, FindExpiredLock(w) \/ DeleteExpiredLock(w)
      PROVE  Rests
  BY <1>4 DEF FindExpiredLock, DeleteExpiredLock, Rests, history
<1>5. CASE UNCHANGED vars
  BY <1>5 DEF vars, Rests, history
<1>6. QED
  BY <1>1, <1>2, <1>3, <1>4, <1>5 DEF Next, Proceed

-----------------------------------------------------------------------------
(* Type correctness                                                        *)

LEMMA NextType ==
  ASSUME TypeOK, \A r \in Requests : Step(r), [Next]_vars
  PROVE  TypeOK'
<1>1. ASSUME NEW r \in Requests, NEW w \in Wallets, StartCreate(r, w)
      PROVE  TypeOK'
  <2>1. req' \in [Requests -> Request]
    BY <1>1, StartCreateDoes DEF Became
  <2>2. beside' \subseteq Requests /\ shared' \subseteq Wallets
    BY <1>1, TakeUpDoes DEF StartCreate
  <2>3. QED
    BY <1>1, <2>1, <2>2 DEF StartCreate, TypeOK
<1>2. ASSUME NEW r \in Requests, Begins(r), UNCHANGED <<lock, clearing, history>>
      PROVE  TypeOK'
  BY <1>2 DEF Begins, Became, TypeOK, history, troubles
<1>3. ASSUME NEW r \in Requests, FetchToJoin(r)
      PROVE  TypeOK'
  <2>1. lock' \in [Wallets -> Requests \cup {Free, Orphan}]
    BY <1>3, LockDoes DEF FetchToJoin
  <2>2. req' \in [Requests -> Request] /\ req[r].wallet \in Wallets
    BY <1>3, FetchToJoinDoes DEF Moved
  <2>3. beside' \subseteq Requests /\ shared' \subseteq Wallets
    BY <1>3, <2>2, TakeUpDoes DEF FetchToJoin
  <2>4. QED
    BY <1>3, <2>1, <2>2, <2>3 DEF FetchToJoin, TypeOK
<1>4. ASSUME NEW r \in Requests, LookUpToJoin(r)
      PROVE  TypeOK'
  <2>1. /\ req' \in [Requests -> Request]
        /\ req[r].copayer \in Copayers /\ req[r].wallet \in Wallets
    BY <1>4, LookUpToJoinDoes DEF Moved
  <2>2. missed' \in {missed, missed \cup {<<req[r].copayer, req[r].wallet>>}}
    BY <1>4 DEF LookUpToJoin, LookUpAnd
  <2>3. missed' \in SUBSET (Copayers \X Wallets)
    BY <2>1, <2>2 DEF TypeOK
  <2>4. QED
    BY <1>4, <2>1, <2>3 DEF LookUpToJoin, LookUpAnd, TypeOK
<1>5. ASSUME NEW r \in Requests, FetchToAdd(r)
      PROVE  TypeOK'
  <2>1. req' \in [Requests -> Request] /\ req[r].wallet \in Wallets
    BY <1>5, FetchToAddDoes DEF Moved
  <2>2. beside' \subseteq Requests /\ shared' \subseteq Wallets
    BY <1>5, <2>1, TakeUpDoes DEF FetchToAdd, FetchThenAdd
  <2>3. QED
    BY <1>5, <2>1, <2>2 DEF FetchToAdd, FetchThenAdd, TypeOK
<1>6. ASSUME NEW r \in Requests, RefuseAccess(r)
      PROVE  TypeOK'
  <2>1. /\ req' \in [Requests -> Request] /\ beside' = beside \ {r}
        /\ lock' \in [Wallets -> Requests \cup {Free, Orphan}]
    BY <1>6, EndDoes DEF RefuseAccess, Became
  <2>2. QED
    BY <1>6, <2>1 DEF RefuseAccess, TypeOK, troubles
<1>7. ASSUME NEW r \in Requests, DeleteLookups(r)
      PROVE  TypeOK'
  <2>1. req' \in [Requests -> Request] /\ req[r].wallet \in Wallets
    BY <1>7, DeleteLookupsDoes DEF Moved
  <2>2. lookups' \subseteq Lookup
    BY <1>7 DEF DeleteLookups, WithoutLookups, TypeOK
  <2>3. QED
    BY <1>7, <2>1, <2>2 DEF DeleteLookups, TypeOK, history, troubles
<1>8. ASSUME NEW r \in Requests, InsertLookups(r)
      PROVE  TypeOK'
  <2>1. /\ req' \in [Requests -> Request] /\ req[r].wallet \in Wallets
        /\ req[r].doc \in Wallet
    BY <1>8, InsertLookupsDoes DEF Moved
  <2>2. lookups' \subseteq Lookup
    BY <1>8, <2>1, LookupsOfType DEF InsertLookups, Insert, TypeOK
  <2>3. QED
    BY <1>8, <2>1, <2>2 DEF InsertLookups, Insert, TypeOK, history, troubles
<1>9. ASSUME NEW r \in Requests, StoreWallet(r)
      PROVE  TypeOK'
  <2>1. /\ req' \in [Requests -> Request] /\ req[r].wallet \in Wallets
        /\ wallets' \in [Wallets -> Wallet \cup {None}]
    BY <1>9, StoreWalletDoes DEF Became, TypeOK
  <2>2. /\ lock' \in [Wallets -> Requests \cup {Free, Orphan}]
        /\ beside' = beside \ {r}
    BY <1>9, EndDoes DEF StoreWallet
  <2>3. recreated' \subseteq Wallets
    <3>1. recreated' \in {recreated, recreated \cup {req[r].wallet}}
      BY <1>9 DEF StoreWallet
    <3>2. QED
      BY <2>1, <3>1 DEF TypeOK
  <2>4. granted' \in SUBSET (Wallets \X Copayers \X Keys)
    <3>1. CASE req[r].op = "access"
      <4>1. req[r].copayer \in Copayers /\ req[r].key \in Keys
        BY <3>1 DEF Step
      <4>2. granted' \in {granted,
                granted \cup {<<req[r].wallet, req[r].copayer, req[r].key>>}}
        BY <1>9 DEF StoreWallet
      <4>3. QED
        BY <2>1, <4>1, <4>2 DEF TypeOK
    <3>2. CASE req[r].op # "access"
      BY <1>9, <3>2 DEF StoreWallet, TypeOK
    <3>3. QED
      BY <3>1, <3>2
  <2>5. QED
    BY <1>9, <2>1, <2>2, <2>3, <2>4 DEF StoreWallet, TypeOK
<1>10. ASSUME NEW r \in Requests, LockToRemove(r)
       PROVE  TypeOK'
  <2>1. lock' \in [Wallets -> Requests \cup {Free, Orphan}]
    BY <1>10, LockDoes DEF LockToRemove
  <2>2. req' \in [Requests -> Request] /\ req[r].wallet \in Wallets
    BY <1>10, LockToRemoveDoes DEF Moved
  <2>3. beside' \subseteq Requests /\ shared' \subseteq Wallets
    BY <1>10, <2>2, TakeUpDoes DEF LockToRemove
  <2>4. QED
    BY <1>10, <2>1, <2>2, <2>3 DEF LockToRemove, TypeOK
<1>11. ASSUME NEW r \in Requests, NEW part \in {"wallet", "lookups"},
              RemovePart(r, part)
       PROVE  TypeOK'
  <2>1. req' \in [Requests -> Request] /\ req[r].wallet \in Wallets
    BY <1>11, RemovePartDoes DEF Moved, Became
  <2>2. lock' \in [Wallets -> Requests \cup {Free, Orphan}]
    BY <1>11, RemovePartDoes, EndDoes DEF TypeOK
  <2>3. beside' \subseteq beside
    BY <1>11, EndDoes DEF RemovePart
  <2>4. /\ wallets' \in {wallets, [wallets EXCEPT ![req[r].wallet] = None]}
        /\ lookups' \subseteq lookups /\ granted' \subseteq granted
    BY <1>11 DEF RemovePart, WithoutLookups
  <2>5. wallets' \in [Wallets -> Wallet \cup {None}]
    BY <2>4 DEF TypeOK
  <2>6. QED
    BY <1>11, <2>1, <2>2, <2>3, <2>4, <2>5 DEF RemovePart, TypeOK, troubles
<1>12. ASSUME NEW r \in Requests, RequestFails(r) \/ Crash(r)
       PROVE  TypeOK'
  BY <1>12, StepFails DEF TypeOK, Became, Ends
<1>13. ASSUME NEW w \in Wallets, FindExpiredLock(w)
       PROVE  TypeOK'
  BY <1>13 DEF FindExpiredLock, TypeOK, history, troubles
<1>14. ASSUME NEW w \in Wallets, DeleteExpiredLock(w)
       PROVE  TypeOK'
  BY <1>14 DEF DeleteExpiredLock, TypeOK
<1>15. CASE UNCHANGED vars
  BY <1>15 DEF TypeOK, vars, history, troubles
<1>16. QED
  BY <1>1, <1>2, <1>3, <1>4, <1>5, <1>6, <1>7, <1>8, <1>9, <1>10, <1>11, <1>12,
     <1>13, <1>14, <1>15, StepBegins DEF Next, Start, Proceed

\* The histories only grow; a request at work leaves beside when it ends.
Grown ==
    /\ shared \subseteq shared' /\ interrupted \subseteq interrupted'
    /\ recreated \subseteq recreated' /\ robbed \subseteq robbed'
    /\ missed \subseteq missed'
    /\ \A r \in Requests \cap beside : r \in beside' \/ req'[r] = Idle

LEMMA HistoryGrows ==
  ASSUME TypeOK, \A r \in Requests : Step(r), [Next]_vars
  PROVE  Grown
<1>1. ASSUME NEW r \in Requests, NEW w \in Wallets, StartCreate(r, w)
      PROVE  Grown
  BY <1>1, TakeUpDoes DEF StartCreate, Grown
<1>2. ASSUME NEW r \in Requests, Begins(r), UNCHANGED <<lock, clearing, history>>
      PROVE  Grown
  BY <1>2 DEF Grown, history, troubles
<1>3. ASSUME NEW r \in Requests, FetchToJoin(r)
      PROVE  Grown
  BY <1>3, FetchToJoinDoes, TakeUpDoes DEF FetchToJoin, Grown
<1>4. ASSUME NEW r \in Requests, LookUpToJoin(r)
      PROVE  Grown
  BY <1>4 DEF LookUpToJoin, LookUpAnd, Grown
<1>5. ASSUME NEW r \in Requests, FetchToAdd(r)
      PROVE  Grown
  BY <1>5, FetchToAddDoes, TakeUpDoes DEF FetchToAdd, FetchThenAdd, Grown
<1>6. ASSUME NEW r \in Requests, RefuseAccess(r)
      PROVE  Grown
  BY <1>6, RefusalEnds DEF Grown, troubles, Ends, Became
<1>7. ASSUME NEW r \in Requests, DeleteLookups(r)
      PROVE  Grown
  BY <1>7 DEF DeleteLookups, Grown, history, troubles
<1>8. ASSUME NEW r \in Requests, InsertLookups(r)
      PROVE  Grown
  BY <1>8 DEF InsertLookups, Insert, Grown, history, troubles
<1>9. ASSUME NEW r \in Requests, StoreWallet(r)
      PROVE  Grown
  <2>1. beside' = beside \ {r} /\ req'[r] = Idle
    BY <1>9, EndDoes DEF StoreWallet, Became
  <2>2. recreated \subseteq recreated'
    BY <1>9 DEF StoreWallet
  <2>3. QED
    BY <1>9, <2>1, <2>2 DEF StoreWallet, Grown
<1>10. ASSUME NEW r \in Requests, LockToRemove(r)
       PROVE  Grown
  BY <1>10, LockToRemoveDoes, TakeUpDoes DEF LockToRemove, Grown
<1>11. ASSUME NEW r \in Requests, NEW part \in {"wallet", "lookups"},
              RemovePart(r, part)
       PROVE  Grown
  <2>1. beside' = beside \/ (beside' = beside \ {r} /\ req'[r] = Idle)
    BY <1>11, EndDoes DEF RemovePart, Became
  <2>2. QED
    BY <1>11, <2>1 DEF RemovePart, Grown, troubles
<1>12. ASSUME NEW r \in Requests, RequestFails(r) \/ Crash(r)
       PROVE  Grown
  BY <1>12, StepFails DEF Grown, Ends, Became
<1>13. ASSUME NEW w \in Wallets, FindExpiredLock(w) \/ DeleteExpiredLock(w)
       PROVE  Grown
  BY <1>13 DEF FindExpiredLock, DeleteExpiredLock, Grown, history, troubles
<1>14. CASE UNCHANGED vars
  BY <1>14 DEF Grown, vars, history, troubles
<1>15. QED
  BY <1>1, <1>2, <1>3, <1>4, <1>5, <1>6, <1>7, <1>8, <1>9, <1>10, <1>11, <1>12,
     <1>13, <1>14, StepBegins DEF Next, Start, Proceed

-----------------------------------------------------------------------------
(* The stages of a request                                                 *)

LEMMA NextStep ==
  ASSUME TypeOK, \A r \in Requests : Step(r), [Next]_vars
  PROVE  \A r \in Requests : Step(r)'
<1>1. ASSUME NEW r \in Requests, \A s \in Requests \ {r} : req'[s] = req[s], Step(r)'
      PROVE  \A s \in Requests : Step(s)'
  BY <1>1 DEF Step
<1> USE IdleType
<1>2. ASSUME NEW r \in Requests, Became(r, Idle)
      PROVE  \A s \in Requests : Step(s)'
  <2>1. Step(r)'
    BY <1>2 DEF Became, Step
  <2>2. QED
    BY <1>1, <1>2, <2>1 DEF Became
<1>3. ASSUME NEW r \in Requests, NEW at, NEW doc, NEW left,
             Moved(r, at, doc, left), Step(r)'
      PROVE  \A s \in Requests : Step(s)'
  BY <1>1, <1>3 DEF Moved
<1>4. ASSUME NEW r \in Requests, NEW w \in Wallets, StartCreate(r, w)
      PROVE  \A s \in Requests : Step(s)'
  <2>1. PICK q \in Request :
            /\ Became(r, q) /\ q.op = "create" /\ q.at = "store" /\ q.wallet = w
            /\ q.doc = NewWallet /\ q.left = {}
    BY <1>4, StartCreateDoes
  <2>2. Step(r)'
    BY <2>1, NewWalletType DEF Became, Step
  <2>3. QED
    BY <1>1, <2>1, <2>2 DEF Became
<1>5. ASSUME NEW r \in Requests, NEW w \in Wallets, NEW c \in Copayers,
             StartJoin(r, w, c)
      PROVE  \A s \in Requests : Step(s)'
  <2>1. Step(r)'
    BY <1>5, StartJoinDoes DEF Became, Step
  <2>2. QED
    BY <1>1, <1>5, <2>1, StartJoinDoes DEF Became
<1>6. ASSUME NEW r \in Requests, NEW w \in Wallets, StartRemove(r, w)
      PROVE  \A s \in Requests : Step(s)'
  <2>1. PICK q \in Request :
            /\ Became(r, q) /\ q.op = "remove" /\ q.at = "lock" /\ q.wallet = w
            /\ q.doc = None /\ q.left = {}
    BY <1>6, StartRemoveDoes
  <2>2. Step(r)'
    BY <2>1 DEF Became, Step
  <2>3. QED
    BY <1>1, <2>1, <2>2 DEF Became
<1>7. ASSUME NEW r \in Requests, NEW k \in Keys, StartAccess(r, k)
      PROVE  \A s \in Requests : Step(s)'
  <2>1. Step(r)'
    BY <1>7, StartAccessDoes DEF Became, Step
  <2>2. QED
    BY <1>1, <1>7, <2>1, StartAccessDoes DEF Became
<1>8. ASSUME NEW r \in Requests, FetchToJoin(r)
      PROVE  \A s \in Requests : Step(s)'
  <2>1. /\ Moved(r, "lookup", wallets[req[r].wallet], {})
        /\ wallets[req[r].wallet] \in Wallet /\ req[r].op = "join" /\ Step(r)
    BY <1>8, FetchToJoinDoes
  <2>2. Step(r)'
    BY <2>1 DEF Moved, Step
  <2>3. QED
    BY <1>3, <2>1, <2>2
<1>9. ASSUME NEW r \in Requests, LookUpToJoin(r)
      PROVE  \A s \in Requests : Step(s)'
  <2>1. /\ Moved(r, "delete", Added(req[r].doc, req[r].copayer), {})
        /\ req[r].op = "join" /\ req[r].at = "lookup" /\ Step(r)
        /\ Added(req[r].doc, req[r].copayer) \in Wallet
    BY <1>9, LookUpToJoinDoes, AddedType
  <2>2. Step(r)'
    BY <2>1 DEF Moved, Step
  <2>3. QED
    BY <1>3, <2>1, <2>2
<1>10. ASSUME NEW r \in Requests, FetchToAdd(r)
       PROVE  \A s \in Requests : Step(s)'
  <2>1. PICK doc \in Wallet : Moved(r, "delete", doc, {})
    BY <1>10, FetchToAddReads
  <2>2. req[r].op = "access" /\ Step(r)
    BY <1>10, FetchToAddDoes
  <2>3. Step(r)'
    BY <2>1, <2>2 DEF Moved, Step
  <2>4. QED
    BY <1>3, <2>1, <2>3
<1>11. ASSUME NEW r \in Requests, DeleteLookups(r)
       PROVE  \A s \in Requests : Step(s)'
  <2>1. /\ Moved(r, "insert", req[r].doc, {}) /\ req[r].at = "delete"
        /\ req[r].op \in {"join", "access"} /\ req[r].doc \in Wallet /\ Step(r)
    BY <1>11, DeleteLookupsDoes
  <2>2. Step(r)'
    BY <2>1 DEF Moved, Step
  <2>3. QED
    BY <1>3, <2>1, <2>2
<1>12. ASSUME NEW r \in Requests, InsertLookups(r)
       PROVE  \A s \in Requests : Step(s)'
  <2>1. /\ Moved(r, "store", req[r].doc, {}) /\ req[r].at = "insert"
        /\ req[r].op \in {"join", "access"} /\ req[r].doc \in Wallet /\ Step(r)
    BY <1>12, InsertLookupsDoes
  <2>2. Step(r)'
    BY <2>1 DEF Moved, Step
  <2>3. QED
    BY <1>3, <2>1, <2>2
<1>13. ASSUME NEW r \in Requests, LockToRemove(r)
       PROVE  \A s \in Requests : Step(s)'
  <2>1. /\ Moved(r, "remove", None, {"wallet", "lookups"})
        /\ req[r].op = "remove" /\ Step(r)
    BY <1>13, LockToRemoveDoes
  <2>2. Step(r)'
    BY <2>1 DEF Moved, Step
  <2>3. QED
    BY <1>3, <2>1, <2>2
<1>14. ASSUME NEW r \in Requests, NEW part \in {"wallet", "lookups"},
              RemovePart(r, part)
       PROVE  \A s \in Requests : Step(s)'
  <2>1. CASE Became(r, Idle)
    BY <1>2, <2>1
  <2>2. CASE /\ req[r].left = {"wallet", "lookups"}
             /\ Moved(r, "remove", None, req[r].left \ {part})
    <3>1. req[r].at = "remove" /\ req[r].op = "remove" /\ Step(r)
      BY <1>14, RemovePartDoes
    <3>2. req[r].left \ {part} # {}
      BY <2>2
    <3>3. Step(r)'
      BY <2>2, <3>1, <3>2 DEF Moved, Step
    <3>4. QED
      BY <1>3, <2>2, <3>3
  <2>3. QED
    BY <1>14, <2>1, <2>2, RemovePartDoes
<1>15. ASSUME NEW r \in Requests, Ends(r) \/ StoreWallet(r)
       PROVE  \A s \in Requests : Step(s)'
  BY <1>2, <1>15, StoreWalletDoes DEF Ends
<1>16. CASE req' = req
  BY <1>16 DEF Step
<1>17. QED
  <2>1. ASSUME NEW r \in Requests, RequestFails(r) \/ Crash(r) \/ RefuseAccess(r)
        PROVE  Ends(r)
    BY <2>1, StepFails, RefusalEnds
  <2>2. ASSUME NEW w \in Wallets, FindExpiredLock(w) \/ DeleteExpiredLock(w)
        PROVE  req' = req
    BY <2>2 DEF FindExpiredLock, DeleteExpiredLock
  <2>3. UNCHANGED vars => req' = req
    BY DEF vars
  <2>4. QED
    BY <1>4, <1>5, <1>6, <1>7, <1>8, <1>9, <1>10, <1>11, <1>12, <1>13, <1>14,
       <1>15, <1>16, <2>1, <2>2, <2>3 DEF Next, Start, Proceed

-----------------------------------------------------------------------------
(* The locks, and who is at work together                                  *)

\* Two requests past the lock of one wallet are one.
LEMMA LockExcludes ==
  ASSUME NEW r \in Requests, NEW s \in Requests, Owns(r), Owns(s),
         HasLocked(r), HasLocked(s), req[r].wallet = req[s].wallet,
         req[r].wallet \notin robbed
  PROVE  r = s
BY DEF Owns

LEMMA NextOwns ==
  ASSUME TypeOK, \A r \in Requests : Step(r) /\ Owns(r), [Next]_vars
  PROVE  \A r \in Requests : Owns(r)'
<1>0. Grown /\ \A r \in Requests : Step(r)'
  BY HistoryGrows, NextStep
<1>1. ASSUME NEW r \in Requests, \A s \in Requests \ {r} : req'[s] = req[s],
             \A w \in Wallets : \/ lock'[w] = lock[w]
                                \/ lock[w] \in {r, Free}
                                \/ HasLocked(r) /\ req[r].wallet = w,
             Owns(r)'
      PROVE  \A s \in Requests : Owns(s)'
  <2>1. ASSUME NEW s \in Requests \ {r}, HasLocked(s), req[s].wallet \notin robbed
        PROVE  lock'[req[s].wallet] = s
    <3>1. lock[req[s].wallet] = s /\ req[s].wallet \in Wallets
      BY <2>1 DEF Owns, Step, HasLocked
    <3>2. ~(HasLocked(r) /\ req[r].wallet = req[s].wallet)
      BY <2>1, LockExcludes
    <3>3. QED
      BY <1>1, <3>1, <3>2, LockAssumption
  <2>2. ASSUME NEW s \in Requests \ {r}
        PROVE  Owns(s)'
    BY <1>0, <1>1, <2>1 DEF Owns, HasLocked, Grown
  <2>3. QED
    BY <1>1, <2>2
<1>2. ASSUME NEW r \in Requests, \A s \in Requests \ {r} : req'[s] = req[s],
             lock' = lock, HasLocked(r)' => HasLocked(r) /\ req'[r].wallet = req[r].wallet
      PROVE  \A s \in Requests : Owns(s)'
  <2>1. Owns(r)'
    BY <1>0, <1>2 DEF Owns, Grown
  <2>2. QED
    BY <1>1, <1>2, <2>1
<1>3. ASSUME NEW r \in Requests, Became(r, Idle),
             \A w \in Wallets : \/ lock'[w] = lock[w] \/ lock[w] = r
                                \/ HasLocked(r) /\ req[r].wallet = w
      PROVE  \A s \in Requests : Owns(s)'
  <2>1. Owns(r)'
    BY <1>3, IdleType DEF Became, Owns, HasLocked
  <2>2. QED
    BY <1>1, <1>3, <2>1 DEF Became
<1>4. ASSUME NEW r \in Requests, NEW at, NEW doc, NEW left,
             Moved(r, at, doc, left), lock' = lock, req[r].at # "lock"
      PROVE  \A s \in Requests : Owns(s)'
  <2>1. HasLocked(r)' => HasLocked(r) /\ req'[r].wallet = req[r].wallet
    BY <1>4 DEF Moved, HasLocked
  <2>2. QED
    BY <1>2, <1>4, <2>1 DEF Moved
<1>5. ASSUME NEW r \in Requests, NEW at, NEW doc, NEW left,
             Moved(r, at, doc, left), Lock(r)
      PROVE  \A s \in Requests : Owns(s)'
  <2>1. /\ lock'[req[r].wallet] = r /\ lock[req[r].wallet] = Free
        /\ \A w \in Wallets : w # req[r].wallet => lock'[w] = lock[w]
    BY <1>5, LockDoes
  <2>2. Owns(r)'
    BY <1>5, <2>1 DEF Moved, Owns
  <2>3. QED
    BY <1>1, <1>5, <2>1, <2>2 DEF Moved
<1>6. ASSUME NEW r \in Requests, NEW w \in Wallets, StartCreate(r, w)
      PROVE  \A s \in Requests : Owns(s)'
  <2>1. PICK q \in Request : Became(r, q) /\ q.op = "create"
    BY <1>6, StartCreateDoes
  <2>2. QED
    BY <1>2, <1>6, <2>1 DEF StartCreate, Became, HasLocked
<1>7. ASSUME NEW r \in Requests, Begins(r), UNCHANGED <<lock, clearing, history>>
      PROVE  \A s \in Requests : Owns(s)'
  <2>1. \A s \in Requests \ {r} : req'[s] = req[s]
    BY <1>7 DEF Begins, Became
  <2>2. req'[r].at \in {"lock", "fetch"} /\ Step(r)'
    BY <1>0, <1>7 DEF Begins, Became
  <2>3. ~HasLocked(r)'
    BY <2>2 DEF HasLocked, Step
  <2>4. QED
    BY <1>2, <1>7, <2>1, <2>3
<1>8. ASSUME NEW r \in Requests, FetchToJoin(r)
      PROVE  \A s \in Requests : Owns(s)'
  BY <1>5, <1>8, FetchToJoinDoes DEF FetchToJoin
<1>9. ASSUME NEW r \in Requests, LookUpToJoin(r)
      PROVE  \A s \in Requests : Owns(s)'
  BY <1>4, <1>9, LookUpToJoinDoes DEF LookUpToJoin, LookUpAnd
<1>10. ASSUME NEW r \in Requests, FetchToAdd(r)
       PROVE  \A s \in Requests : Owns(s)'
  BY <1>4, <1>10, FetchToAddDoes DEF FetchToAdd, FetchThenAdd
<1>11. ASSUME NEW r \in Requests, DeleteLookups(r)
       PROVE  \A s \in Requests : Owns(s)'
  BY <1>4, <1>11, DeleteLookupsDoes DEF DeleteLookups
<1>12. ASSUME NEW r \in Requests, InsertLookups(r)
       PROVE  \A s \in Requests : Owns(s)'
  BY <1>4, <1>12, InsertLookupsDoes DEF InsertLookups, Insert
<1>13. ASSUME NEW r \in Requests, StoreWallet(r) \/ RefuseAccess(r)
       PROVE  \A s \in Requests : Owns(s)'
  BY <1>3, <1>13, EndDoes DEF StoreWallet, RefuseAccess
<1>14. ASSUME NEW r \in Requests, LockToRemove(r)
       PROVE  \A s \in Requests : Owns(s)'
  BY <1>5, <1>14, LockToRemoveDoes DEF LockToRemove
<1>15. ASSUME NEW r \in Requests, NEW part \in {"wallet", "lookups"},
              RemovePart(r, part)
       PROVE  \A s \in Requests : Owns(s)'
  <2>1. CASE End(r)
    BY <1>3, <2>1, EndDoes
  <2>2. CASE Moved(r, "remove", None, req[r].left \ {part}) /\ lock' = lock
    BY <1>4, <1>15, <2>2, RemovePartDoes
  <2>3. QED
    BY <1>15, <2>1, <2>2, RemovePartDoes
<1>16. ASSUME NEW r \in Requests, RequestFails(r) \/ Crash(r)
       PROVE  \A s \in Requests : Owns(s)'
  BY <1>3, <1>16, StepFails DEF Ends
<1>17. ASSUME NEW w \in Wallets, FindExpiredLock(w)
       PROVE  \A s \in Requests : Owns(s)'
  BY <1>17 DEF FindExpiredLock, Owns, HasLocked, history, troubles
<1>18. ASSUME NEW w \in Wallets, DeleteExpiredLock(w)
       PROVE  \A s \in Requests : Owns(s)'
  <2>1. /\ req' = req /\ \A v \in Wallets \ {w} : lock'[v] = lock[v]
        /\ robbed' = IF lock[w] \in Requests THEN robbed \cup {w} ELSE robbed
    BY <1>18 DEF DeleteExpiredLock, TypeOK
  <2>2. ASSUME NEW s \in Requests, HasLocked(s), req[s].wallet \notin robbed'
        PROVE  lock'[req[s].wallet] = s
    <3>1. req[s].wallet \notin robbed /\ req[s].wallet \in Wallets
      BY <1>0, <2>2 DEF Grown, Step, HasLocked
    <3>2. lock[req[s].wallet] = s
      BY <2>2, <3>1 DEF Owns
    <3>3. req[s].wallet # w
      BY <2>1, <2>2, <3>2
    <3>4. QED
      BY <2>1, <3>1, <3>2, <3>3
  <2>3. QED
    BY <2>1, <2>2 DEF Owns, HasLocked
<1>19. CASE UNCHANGED vars
  BY <1>19 DEF vars, history, troubles, Owns, HasLocked
<1>20. QED
  BY <1>6, <1>7, <1>8, <1>9, <1>10, <1>11, <1>12, <1>13, <1>14, <1>15, <1>16,
     <1>17, <1>18, <1>19, StepBegins DEF Next, Start, Proceed

\* Whoever takes up work remembers the others; afterwards nothing is forgotten.
LEMMA NextTogether ==
  ASSUME TypeOK, \A r \in Requests : Step(r),
         \A r, s \in Requests : Together(r, s), [Next]_vars
  PROVE  \A r, s \in Requests : Together(r, s)'
<1>0. Grown
  BY HistoryGrows
<1>1. ASSUME NEW s \in Requests, s \in beside, AtWork(s)'
      PROVE  s \in beside'
  BY <1>0, <1>1, IdleType DEF Grown, AtWork
<1>2. ASSUME NEW r \in Requests, \A s \in Requests \ {r} : req'[s] = req[s],
             \A s \in Requests \ {r} :
                 AtWork(r)' /\ AtWork(s) /\ req'[r].wallet = req[s].wallet =>
                     /\ {r, s} \subseteq beside'
                     /\ "access" \in {req'[r].op, req[s].op} => req[s].wallet \in shared'
      PROVE  \A p, s \in Requests : Together(p, s)'
  <2>1. ASSUME NEW p \in Requests \ {r}, NEW s \in Requests \ {r}
        PROVE  Together(p, s)'
    <3>1. Together(p, s) /\ req'[p] = req[p] /\ req'[s] = req[s]
      BY <1>2
    <3>2. AtWork(p)' = AtWork(p) /\ AtWork(s)' = AtWork(s)
      BY <3>1 DEF AtWork
    <3>3. QED
      BY <1>0, <1>1, <3>1, <3>2 DEF Together, Grown
  <2>2. ASSUME NEW s \in Requests \ {r}
        PROVE  Together(r, s)' /\ Together(s, r)'
    <3>1. req'[s] = req[s] /\ AtWork(s)' = AtWork(s)
      BY <1>2 DEF AtWork
    <3>2. QED
      BY <1>2, <3>1 DEF Together
  <2>3. Together(r, r)'
    BY DEF Together
  <2>4. QED
    BY <2>1, <2>2, <2>3
<1>3. ASSUME NEW r \in Requests, \A s \in Requests \ {r} : req'[s] = req[s],
             AtWork(r)' => /\ AtWork(r) /\ req'[r].wallet = req[r].wallet
                           /\ req'[r].op = req[r].op
      PROVE  \A p, s \in Requests : Together(p, s)'
  <2>1. ASSUME NEW s \in Requests \ {r}, AtWork(r)', AtWork(s),
               req'[r].wallet = req[s].wallet
        PROVE  /\ {r, s} \subseteq beside'
               /\ "access" \in {req'[r].op, req[s].op} => req[s].wallet \in shared'
    <3>1. Together(r, s) /\ AtWork(s)'
      BY <1>3, <2>1 DEF AtWork
    <3>2. /\ r \in beside /\ s \in beside
          /\ "access" \in {req[r].op, req[s].op} => req[r].wallet \in shared
      BY <1>3, <2>1, <3>1 DEF Together
    <3>3. QED
      BY <1>0, <1>1, <1>3, <2>1, <3>1, <3>2 DEF Grown
  <2>2. QED
    BY <1>2, <1>3, <2>1
<1>4. ASSUME NEW r \in Requests, NEW at, NEW doc, NEW left,
             Moved(r, at, doc, left), AtWork(r)
      PROVE  \A p, s \in Requests : Together(p, s)'
  BY <1>3, <1>4 DEF Moved
<1>5. ASSUME NEW r \in Requests, NEW at, NEW doc, NEW left,
             Moved(r, at, doc, left), req[r].wallet \in Wallets,
             TakeUp(r, req[r].wallet, req[r].op)
      PROVE  \A p, s \in Requests : Together(p, s)'
  BY <1>2, <1>5, TakeUpDoes DEF Moved
<1>6. ASSUME NEW r \in Requests, NEW w \in Wallets, StartCreate(r, w)
      PROVE  \A p, s \in Requests : Together(p, s)'
  <2>1. PICK q \in Request : Became(r, q) /\ q.op = "create" /\ q.wallet = w
    BY <1>6, StartCreateDoes
  <2>2. TakeUp(r, w, "create")
    BY <1>6 DEF StartCreate
  <2>3. QED
    BY <1>2, <2>1, <2>2, TakeUpDoes DEF Became
<1>7. ASSUME NEW r \in Requests, Begins(r) \/ Ends(r)
      PROVE  \A p, s \in Requests : Together(p, s)'
  <2>1. ~AtWork(r)' /\ \A s \in Requests \ {r} : req'[s] = req[s]
    BY <1>7, IdleType DEF Begins, Ends, Became, AtWork
  <2>2. QED
    BY <1>3, <2>1
<1>8. ASSUME NEW r \in Requests, FetchToJoin(r)
      PROVE  \A p, s \in Requests : Together(p, s)'
  BY <1>5, <1>8, FetchToJoinDoes DEF FetchToJoin
<1>9. ASSUME NEW r \in Requests, LookUpToJoin(r)
      PROVE  \A p, s \in Requests : Together(p, s)'
  <2>1. AtWork(r)
    BY <1>9, LookUpToJoinDoes, NoneAssumption DEF AtWork
  <2>2. QED
    BY <1>4, <1>9, <2>1, LookUpToJoinDoes
<1>10. ASSUME NEW r \in Requests, FetchToAdd(r)
       PROVE  \A p, s \in Requests : Together(p, s)'
  BY <1>5, <1>10, FetchToAddDoes DEF FetchToAdd, FetchThenAdd
<1>11. ASSUME NEW r \in Requests, DeleteLookups(r)
       PROVE  \A p, s \in Requests : Together(p, s)'
  <2>1. AtWork(r)
    BY <1>11, DeleteLookupsDoes, NoneAssumption DEF AtWork
  <2>2. QED
    BY <1>4, <1>11, <2>1, DeleteLookupsDoes
<1>12. ASSUME NEW r \in Requests, InsertLookups(r)
       PROVE  \A p, s \in Requests : Together(p, s)'
  <2>1. AtWork(r)
    BY <1>12, InsertLookupsDoes, NoneAssumption DEF AtWork
  <2>2. QED
    BY <1>4, <1>12, <2>1, InsertLookupsDoes
<1>13. ASSUME NEW r \in Requests, Became(r, Idle)
       PROVE  \A p, s \in Requests : Together(p, s)'
  BY <1>3, <1>13, IdleType DEF Became, AtWork
<1>14. ASSUME NEW r \in Requests, LockToRemove(r)
       PROVE  \A p, s \in Requests : Together(p, s)'
  BY <1>5, <1>14, LockToRemoveDoes DEF LockToRemove
<1>15. ASSUME NEW r \in Requests, NEW part \in {"wallet", "lookups"},
              RemovePart(r, part)
       PROVE  \A p, s \in Requests : Together(p, s)'
  <2>1. AtWork(r)
    BY <1>15, RemovePartDoes DEF AtWork
  <2>2. QED
    BY <1>4, <1>13, <1>15, <2>1, RemovePartDoes
<1>16. CASE Rests
  <2>1. ASSUME NEW p \in Requests, NEW s \in Requests
        PROVE  Together(p, s)'
    <3>1. Together(p, s) /\ req'[p] = req[p] /\ req'[s] = req[s]
      BY <1>16 DEF Rests
    <3>2. AtWork(p)' = AtWork(p) /\ AtWork(s)' = AtWork(s)
      BY <3>1 DEF AtWork
    <3>3. QED
      BY <1>0, <1>1, <3>1, <3>2 DEF Together, Grown
  <2>2. QED
    BY <2>1
<1>17. QED
  BY Kinds, <1>6, <1>7, <1>8, <1>9, <1>10, <1>11, <1>12, <1>13, <1>14, <1>15, <1>16,
     StoreWalletDoes

-----------------------------------------------------------------------------
(* Nobody is in a wallet twice, and no wallet is too big                   *)

LEMMA SoundAdded ==
  ASSUME NEW doc \in Wallet, NEW w \in Wallets, NEW c \in Copayers,
         Sound(doc, w), MayJoin(doc, w, c)
  PROVE  Sound(Added(doc, c), w)
<1> DEFINE new == Added(doc, c).copayers
<1>1. doc.copayers \in Seq(Copayers) /\ Size[w] \in Nat
  BY SizeAssumption DEF Wallet
<1>2. new = Append(doc.copayers, c)
  BY AddedType
<1>3. c \notin Members(doc) /\ Len(doc.copayers) # Size[w] /\ doc # None
  BY DEF MayJoin
<1>4. \A i \in 1 .. Len(doc.copayers) : doc.copayers[i] # c
  BY <1>1, <1>3 DEF Members
<1>5. \A i, j \in 1 .. Len(doc.copayers) :
         doc.copayers[i] = doc.copayers[j] => i = j
  BY <1>1 DEF Sound
<1>6. /\ Len(new) = Len(doc.copayers) + 1
      /\ \A i \in 1 .. Len(doc.copayers) : new[i] = doc.copayers[i]
      /\ new[Len(doc.copayers) + 1] = c
      /\ DOMAIN new = 1 .. Len(doc.copayers) + 1
      /\ Len(doc.copayers) \in Nat
  BY <1>1, <1>2
<1>7. Len(new) <= Size[w]
  BY <1>1, <1>3, <1>6 DEF Sound
<1> HIDE DEF new
<1>8. \A i, j \in DOMAIN new : new[i] = new[j] => i = j
  <2>1. SUFFICES ASSUME NEW i \in DOMAIN new, NEW j \in DOMAIN new, new[i] = new[j]
                 PROVE  i = j
    OBVIOUS
  <2>2. /\ i \in 1 .. Len(doc.copayers) \/ i = Len(doc.copayers) + 1
        /\ j \in 1 .. Len(doc.copayers) \/ j = Len(doc.copayers) + 1
    BY <1>6
  <2>3. CASE i \in 1 .. Len(doc.copayers) /\ j \in 1 .. Len(doc.copayers)
    BY <2>1, <2>3, <1>5, <1>6
  <2>4. CASE i = Len(doc.copayers) + 1 \/ j = Len(doc.copayers) + 1
    BY <2>1, <2>2, <2>4, <1>4, <1>6
  <2>5. QED
    BY <2>2, <2>3, <2>4
<1>9. QED
  BY <1>7, <1>8 DEF Sound, new

LEMMA NextSound ==
  ASSUME TypeOK, \A r \in Requests : Step(r), WalletsSound, [Next]_vars
  PROVE  WalletsSound'
<1>1. ASSUME NEW r \in Requests,
             \A s \in Requests \ {r} : req'[s] = req[s],
             \A w \in Wallets : wallets'[w] # None => Sound(wallets'[w], w),
             req'[r].doc # None => Sound(req'[r].doc, req'[r].wallet),
             req'[r].at = "lookup" =>
                 MayJoin(req'[r].doc, req'[r].wallet, req'[r].copayer)
      PROVE  WalletsSound'
  BY <1>1 DEF WalletsSound
<1>2. ASSUME NEW r \in Requests, NEW w \in Wallets, StartCreate(r, w)
      PROVE  WalletsSound'
  <2>1. PICK q \in Request : /\ Became(r, q) /\ q.at = "store" /\ q.wallet = w
                            /\ q.doc = NewWallet
    BY <1>2, StartCreateDoes
  <2>2. Sound(NewWallet, w)
    <3>1. Size[w] \in Nat /\ NewWallet.copayers = <<>>
      BY SizeAssumption, NewWalletType
    <3>2. QED
      BY <3>1 DEF Sound
  <2>3. wallets' = wallets
    BY <1>2 DEF StartCreate
  <2>4. QED
    BY <1>1, <2>1, <2>2, <2>3 DEF Became, WalletsSound
<1>3. ASSUME NEW r \in Requests, Begins(r) \/ Ends(r)
      PROVE  WalletsSound'
  <2>1. /\ req'[r].doc = None /\ req'[r].at # "lookup" /\ wallets' = wallets
        /\ \A s \in Requests \ {r} : req'[s] = req[s]
    BY <1>3, IdleType DEF Begins, Ends, Became
  <2>2. QED
    BY <1>1, <2>1 DEF WalletsSound
<1>4. ASSUME NEW r \in Requests, FetchToJoin(r)
      PROVE  WalletsSound'
  <2>1. /\ Moved(r, "lookup", wallets[req[r].wallet], {}) /\ req[r].wallet \in Wallets
        /\ MayJoin(wallets[req[r].wallet], req[r].wallet, req[r].copayer)
        /\ wallets' = wallets
    BY <1>4, FetchToJoinDoes DEF FetchToJoin
  <2>2. QED
    BY <1>1, <2>1 DEF Moved, WalletsSound
<1>5. ASSUME NEW r \in Requests, LookUpToJoin(r)
      PROVE  WalletsSound'
  <2>1. /\ Moved(r, "delete", Added(req[r].doc, req[r].copayer), {})
        /\ req[r].wallet \in Wallets /\ req[r].copayer \in Copayers
        /\ req[r].doc \in Wallet /\ req[r].doc # None /\ req[r].at = "lookup"
        /\ wallets' = wallets
    BY <1>5, LookUpToJoinDoes, NoneAssumption DEF LookUpToJoin, LookUpAnd
  <2>2. Sound(Added(req[r].doc, req[r].copayer), req[r].wallet)
    BY <2>1, SoundAdded DEF WalletsSound
  <2>3. QED
    BY <1>1, <2>1, <2>2 DEF Moved, WalletsSound
<1>6. ASSUME NEW r \in Requests, FetchToAdd(r)
      PROVE  WalletsSound'
  <2>1. PICK doc : /\ Moved(r, "delete", doc, {})
                   /\ doc.copayers = wallets[req[r].wallet].copayers
    BY <1>6, FetchToAddReads
  <2>2. Sound(wallets[req[r].wallet], req[r].wallet) /\ wallets' = wallets
    BY <1>6, FetchToAddDoes DEF WalletsSound, FetchToAdd, FetchThenAdd
  <2>3. Sound(doc, req[r].wallet)
    BY <2>1, <2>2 DEF Sound
  <2>4. QED
    BY <1>1, <2>1, <2>2, <2>3 DEF Moved, WalletsSound
<1>7. ASSUME NEW r \in Requests, DeleteLookups(r)
      PROVE  WalletsSound'
  <2>1. Moved(r, "insert", req[r].doc, {}) /\ wallets' = wallets
    BY <1>7, DeleteLookupsDoes DEF DeleteLookups
  <2>2. QED
    BY <1>1, <2>1 DEF Moved, WalletsSound
<1>8. ASSUME NEW r \in Requests, InsertLookups(r)
      PROVE  WalletsSound'
  <2>1. Moved(r, "store", req[r].doc, {}) /\ wallets' = wallets
    BY <1>8, InsertLookupsDoes DEF InsertLookups, Insert
  <2>2. QED
    BY <1>1, <2>1 DEF Moved, WalletsSound
<1>9. ASSUME NEW r \in Requests, StoreWallet(r)
      PROVE  WalletsSound'
  <2>1. /\ Became(r, Idle) /\ req[r].doc \in Wallet /\ req[r].doc # None
        /\ req[r].wallet \in Wallets
        /\ wallets' = [wallets EXCEPT ![req[r].wallet] = req[r].doc]
    BY <1>9, StoreWalletDoes, NoneAssumption
  <2>2. \A w \in Wallets : wallets'[w] # None => Sound(wallets'[w], w)
    BY <2>1 DEF WalletsSound, TypeOK
  <2>3. QED
    BY <1>1, <2>1, <2>2, IdleType DEF Became
<1>10. ASSUME NEW r \in Requests, LockToRemove(r)
       PROVE  WalletsSound'
  <2>1. Moved(r, "remove", None, {"wallet", "lookups"}) /\ wallets' = wallets
    BY <1>10, LockToRemoveDoes DEF LockToRemove
  <2>2. QED
    BY <1>1, <2>1 DEF Moved, WalletsSound
<1>11. ASSUME NEW r \in Requests, NEW part \in {"wallet", "lookups"},
              RemovePart(r, part)
       PROVE  WalletsSound'
  <2>1. \A w \in Wallets : wallets'[w] # None => Sound(wallets'[w], w)
    BY <1>11 DEF RemovePart, WalletsSound, TypeOK
  <2>2. /\ \A s \in Requests \ {r} : req'[s] = req[s]
        /\ req'[r].at # "lookup" /\ req'[r].doc = None
    BY <1>11, RemovePartDoes, IdleType DEF Moved, Became
  <2>3. QED
    BY <1>1, <2>1, <2>2
<1>12. CASE Rests
  BY <1>12 DEF Rests, WalletsSound
<1>13. QED
  BY Kinds, <1>2, <1>3, <1>4, <1>5, <1>6, <1>7, <1>8, <1>9, <1>10, <1>11, <1>12

-----------------------------------------------------------------------------
(* What requests are about to write                                        *)

LEMMA NextFits ==
  ASSUME TypeOK, \A r \in Requests : Step(r) /\ Owns(r) /\ Fits(r),
         \A r, s \in Requests : Together(r, s), [Next]_vars
  PROVE  \A r \in Requests : Fits(r)'
<1>0. Grown
  BY HistoryGrows
<1>1. ASSUME NEW s \in Requests, req'[s] = req[s],
             wallets'[req[s].wallet] = wallets[req[s].wallet]
      PROVE  Fits(s)'
  <2>1. Fits(s)
    OBVIOUS
  <2>2. JoinsFit(s)'
    BY <1>0, <1>1, <2>1 DEF Fits, JoinsFit, Grown
  <2>3. AccessFits(s)'
    BY <1>0, <1>1, <2>1 DEF Fits, AccessFits, Grown
  <2>4. QED
    BY <2>2, <2>3 DEF Fits
<1>2. ASSUME NEW r \in Requests, \A s \in Requests \ {r} : req'[s] = req[s],
             wallets' = wallets, Fits(r)'
      PROVE  \A s \in Requests : Fits(s)'
  BY <1>1, <1>2
<1>3. ASSUME NEW r \in Requests, \A s \in Requests \ {r} : req'[s] = req[s],
             wallets' = wallets, req'[r].op = "join" => req'[r].at = "lock",
             req'[r].op = "access" => req'[r].at = "fetch"
      PROVE  \A s \in Requests : Fits(s)'
  <2>1. Fits(r)'
    BY <1>3 DEF Fits, JoinsFit, AccessFits
  <2>2. QED
    BY <1>2, <1>3, <2>1
<1>4. ASSUME NEW r \in Requests, NEW w \in Wallets, StartCreate(r, w)
      PROVE  \A s \in Requests : Fits(s)'
  <2>1. PICK q \in Request : Became(r, q) /\ q.op = "create"
    BY <1>4, StartCreateDoes
  <2>2. QED
    BY <1>3, <1>4, <2>1 DEF StartCreate, Became
<1>5. ASSUME NEW r \in Requests, Begins(r) \/ Ends(r)
      PROVE  \A s \in Requests : Fits(s)'
  <2>1. Step(r)'
    BY NextStep
  <2>2. /\ req'[r].at \in {"lock", "fetch", "idle"} /\ wallets' = wallets
        /\ \A s \in Requests \ {r} : req'[s] = req[s]
    BY <1>5, IdleType DEF Begins, Ends, Became
  <2>3. /\ req'[r].op = "join" => req'[r].at = "lock"
        /\ req'[r].op = "access" => req'[r].at = "fetch"
    BY <2>1, <2>2, IdleType DEF Step
  <2>4. QED
    BY <1>3, <2>2, <2>3
<1>6. ASSUME NEW r \in Requests, FetchToJoin(r)
      PROVE  \A s \in Requests : Fits(s)'
  <2>1. /\ Moved(r, "lookup", wallets[req[r].wallet], {}) /\ req[r].op = "join"
        /\ MayJoin(wallets[req[r].wallet], req[r].wallet, req[r].copayer)
        /\ wallets' = wallets
    BY <1>6, FetchToJoinDoes DEF FetchToJoin
  <2>2. Fits(r)'
    BY <2>1 DEF Moved, Fits, JoinsFit, AccessFits
  <2>3. QED
    BY <1>2, <2>1, <2>2 DEF Moved
<1>7. ASSUME NEW r \in Requests, LookUpToJoin(r)
      PROVE  \A s \in Requests : Fits(s)'
  <2>1. /\ Moved(r, "delete", Added(req[r].doc, req[r].copayer), {})
        /\ req[r].op = "join" /\ req[r].at = "lookup" /\ wallets' = wallets
        /\ recreated' = recreated /\ robbed' = robbed
    BY <1>7, LookUpToJoinDoes DEF LookUpToJoin, LookUpAnd
  <2>2. Fits(r)
    OBVIOUS
  <2>3. Fits(r)'
    BY <2>1, <2>2 DEF Moved, Fits, JoinsFit, AccessFits
  <2>4. QED
    BY <1>2, <2>1, <2>3 DEF Moved
<1>8. ASSUME NEW r \in Requests, FetchToAdd(r)
      PROVE  \A s \in Requests : Fits(s)'
  <2>1. PICK doc \in Wallet :
            /\ Moved(r, "delete", doc, {})
            /\ doc.copayers = wallets[req[r].wallet].copayers
            /\ req[r].copayer \in Members(doc)
            /\ req[r].key \in doc.keys[req[r].copayer]
    BY <1>8, FetchToAddReads
  <2>2. /\ wallets' = wallets /\ req[r].op = "access"
        /\ wallets[req[r].wallet] # None
        /\ Len(wallets[req[r].wallet].copayers) = Size[req[r].wallet]
    BY <1>8, FetchToAddDoes DEF FetchToAdd, FetchThenAdd
  <2>3. /\ req'[r].doc = doc /\ req'[r].wallet = req[r].wallet
        /\ req'[r].copayer = req[r].copayer /\ req'[r].key = req[r].key
        /\ req'[r].op = "access"
    BY <2>1, <2>2 DEF Moved
  <2>4. AccessFits(r)'
    BY <2>1, <2>2, <2>3 DEF AccessFits
  <2>5. JoinsFit(r)'
    BY <2>3 DEF JoinsFit
  <2>6. QED
    BY <1>2, <2>1, <2>2, <2>4, <2>5 DEF Moved, Fits
<1>9. ASSUME NEW r \in Requests, NEW at \in {"insert", "store"},
             Moved(r, at, req[r].doc, {}), req[r].at \in {"delete", "insert"},
             wallets' = wallets
      PROVE  \A s \in Requests : Fits(s)'
  <2>1. Fits(r) /\ Step(r)
    OBVIOUS
  <2>2. JoinsFit(r)'
    BY <1>0, <1>9, <2>1 DEF Moved, Fits, JoinsFit, Grown
  <2>3. AccessFits(r)'
    BY <1>0, <1>9, <2>1 DEF Moved, Fits, AccessFits, Grown
  <2>4. QED
    BY <1>2, <1>9, <2>2, <2>3 DEF Moved, Fits
<1>10. ASSUME NEW r \in Requests, DeleteLookups(r)
       PROVE  \A s \in Requests : Fits(s)'
  BY <1>9, <1>10, DeleteLookupsDoes DEF DeleteLookups
<1>11. ASSUME NEW r \in Requests, InsertLookups(r)
       PROVE  \A s \in Requests : Fits(s)'
  BY <1>9, <1>11, InsertLookupsDoes DEF InsertLookups, Insert
<1>12. ASSUME NEW r \in Requests, StoreWallet(r)
       PROVE  \A s \in Requests : Fits(s)'
  <2> DEFINE w == req[r].wallet
             doc == wallets[w]
  <2>1. /\ req[r].at = "store" /\ req[r].op \in {"create", "join", "access"}
        /\ w \in Wallets /\ req[r].doc \in Wallet /\ req[r].doc # None
        /\ Became(r, Idle)
        /\ wallets' = [wallets EXCEPT ![w] = req[r].doc]
        /\ Owns(r) /\ JoinsFit(r) /\ AccessFits(r)
    BY <1>12, StoreWalletDoes, NoneAssumption DEF Fits
  <2>2. wallets'[w] = req[r].doc /\ \A v \in Wallets \ {w} : wallets'[v] = wallets[v]
    BY <2>1 DEF TypeOK
  <2>3. w \notin recreated' =>
            /\ w \notin recreated
            /\ req[r].op = "create" <=> doc = None
            /\ req[r].op = "create" =>
                  \A s \in Requests \ {r} : req[s].wallet = w => req[s].op # "access"
    BY <1>12 DEF StoreWallet
  <2>4. ASSUME NEW s \in Requests \ {r}, req[s].wallet = w
        PROVE  JoinsFit(s)'
    <3>1. req'[s] = req[s] /\ Owns(s) /\ JoinsFit(s)
      BY <2>1 DEF Became, Fits
    <3>2. SUFFICES ASSUME req[s].op = "join", req[s].at # "lock",
                          w \notin recreated' \cup robbed'
                   PROVE  FALSE
      BY <2>4, <3>1 DEF JoinsFit
    <3>3. w \notin recreated \cup robbed
      BY <1>0, <3>2 DEF Grown
    <3>4. doc # None /\ Len(doc.copayers) # Size[w]
      BY <2>4, <3>1, <3>2, <3>3 DEF JoinsFit, MayJoin
    <3>5. CASE req[r].op = "join"
      BY <2>1, <2>4, <3>1, <3>2, <3>3, <3>5, LockExcludes DEF HasLocked
    <3>6. CASE req[r].op = "access"
      BY <2>1, <3>3, <3>4, <3>6 DEF AccessFits
    <3>7. QED
      BY <2>1, <2>3, <3>2, <3>4, <3>5, <3>6
  <2>5. ASSUME NEW s \in Requests \ {r}, req[s].wallet = w
        PROVE  AccessFits(s)'
    <3>1. req'[s] = req[s] /\ AccessFits(s)
      BY <2>1 DEF Became, Fits
    <3>2. SUFFICES ASSUME req[s].op = "access", req[s].at # "fetch"
                   PROVE  AccessFits(s)'
      BY <3>1 DEF AccessFits
    <3>3. ASSUME w \notin recreated' \cup robbed'
          PROVE  req[r].doc.copayers = req[s].doc.copayers
      <4>1. w \notin recreated \cup robbed
        BY <1>0, <3>3 DEF Grown
      <4>2. req[r].op # "create" /\ doc # None
        BY <2>3, <2>5, <3>2, <3>3
      <4>3. doc.copayers = req[s].doc.copayers /\ Len(doc.copayers) = Size[w]
        BY <2>5, <3>1, <3>2, <4>1, <4>2 DEF AccessFits
      <4>4. req[r].op = "access"
        BY <2>1, <4>1, <4>2, <4>3 DEF JoinsFit, MayJoin
      <4>5. QED
        BY <2>1, <4>1, <4>2, <4>3, <4>4 DEF AccessFits
    <3>4. QED
      BY <2>1, <2>2, <2>5, <3>1, <3>2, <3>3 DEF AccessFits
  <2>6. ASSUME NEW s \in Requests \ {r}, req[s].wallet # w
        PROVE  Fits(s)'
    <3>1. req'[s] = req[s] /\ Step(s)
      BY <2>1 DEF Became
    <3>2. CASE req[s].wallet \in Wallets
      BY <1>1, <2>2, <2>6, <3>1, <3>2
    <3>3. CASE req[s].wallet \notin Wallets
      <4>1. req[s].op = "none"
        BY <3>1, <3>3 DEF Step
      <4>2. QED
        BY <3>1, <4>1 DEF Fits, JoinsFit, AccessFits
    <3>4. QED
      BY <3>2, <3>3
  <2>7. Fits(r)'
    BY <2>1, IdleType DEF Became, Fits, JoinsFit, AccessFits
  <2>8. QED
    BY <2>4, <2>5, <2>6, <2>7 DEF Fits
<1>13. ASSUME NEW r \in Requests, LockToRemove(r)
       PROVE  \A s \in Requests : Fits(s)'
  <2>1. /\ Moved(r, "remove", None, {"wallet", "lookups"}) /\ req[r].op = "remove"
        /\ wallets' = wallets
    BY <1>13, LockToRemoveDoes DEF LockToRemove
  <2>2. QED
    BY <1>3, <2>1 DEF Moved
<1>14. ASSUME NEW r \in Requests, NEW part \in {"wallet", "lookups"},
              RemovePart(r, part)
       PROVE  \A s \in Requests : Fits(s)'
  <2> DEFINE w == req[r].wallet
  <2>1. /\ req[r].at = "remove" /\ req[r].op = "remove" /\ w \in Wallets
        /\ \A s \in Requests \ {r} : req'[s] = req[s]
        /\ req'[r].op \in {"none", "remove"} /\ AtWork(r) /\ HasLocked(r)
    BY <1>14, RemovePartDoes, IdleType DEF Moved, Became, AtWork, HasLocked
  <2>2. \/ wallets' = wallets
        \/ wallets' = [wallets EXCEPT ![w] = None]
    BY <1>14 DEF RemovePart
  <2>3. Fits(r)'
    BY <2>1 DEF Fits, JoinsFit, AccessFits
  <2>4. CASE wallets' = [wallets EXCEPT ![w] = None]
    <3>1. wallets'[w] = None /\ \A v \in Wallets \ {w} : wallets'[v] = wallets[v]
      BY <2>1, <2>4 DEF TypeOK
    <3>2. ASSUME NEW s \in Requests \ {r}, req[s].wallet = w
          PROVE  JoinsFit(s)'
      <4>1. req'[s] = req[s] /\ Owns(s) /\ Owns(r)
        BY <2>1
      <4>2. SUFFICES ASSUME HasLocked(s), w \notin robbed'
                     PROVE  FALSE
        BY <3>2, <4>1 DEF JoinsFit, HasLocked
      <4>3. QED
        BY <1>0, <2>1, <3>2, <4>1, <4>2, LockExcludes DEF Grown
    <3>3. ASSUME NEW s \in Requests \ {r}, req[s].wallet = w
          PROVE  AccessFits(s)'
      <4>1. req'[s] = req[s] /\ Step(s) /\ AccessFits(s)
        BY <2>1 DEF Fits
      <4>2. SUFFICES ASSUME req[s].op = "access", req[s].at # "fetch"
                     PROVE  AccessFits(s)'
        BY <4>1 DEF AccessFits
      <4>3. req[s].doc # None
        BY <4>1, <4>2, IdleType, NoneAssumption DEF Step, TypeOK, Request, Stages
      <4>4. Together(r, s) /\ AtWork(s)
        BY <4>3 DEF AtWork
      <4>5. w \in shared'
        BY <1>0, <2>1, <3>3, <4>2, <4>4 DEF Together, Grown
      <4>6. QED
        BY <3>1, <3>3, <4>1, <4>2, <4>5 DEF AccessFits
    <3>4. ASSUME NEW s \in Requests \ {r}, req[s].wallet # w
          PROVE  Fits(s)'
      <4>1. req'[s] = req[s] /\ Step(s)
        BY <2>1
      <4>2. CASE req[s].wallet \in Wallets
        BY <1>1, <3>1, <3>4, <4>1, <4>2
      <4>3. CASE req[s].wallet \notin Wallets
        <5>1. req[s].op = "none"
          BY <4>1, <4>3 DEF Step
        <5>2. QED
          BY <4>1, <5>1 DEF Fits, JoinsFit, AccessFits
      <4>4. QED
        BY <4>2, <4>3
    <3>5. QED
      BY <2>3, <3>2, <3>3, <3>4 DEF Fits
  <2>5. CASE wallets' = wallets
    BY <1>2, <2>1, <2>3, <2>5
  <2>6. QED
    BY <2>2, <2>4, <2>5
<1>15. CASE Rests
  BY <1>1, <1>15 DEF Rests
<1>16. QED
  BY Kinds, <1>4, <1>5, <1>6, <1>7, <1>8, <1>10, <1>11, <1>12, <1>13, <1>14, <1>15

-----------------------------------------------------------------------------
(* Requests that are half-way, and the look-ups                            *)

LEMMA HalfDoneShape ==
  ASSUME NEW r \in Requests, Step(r), HalfDone(r)
  PROVE  /\ req[r].wallet \in Wallets /\ AtWork(r)
         /\ HasLocked(r) \/ req[r].op = "access"
         /\ req[r].op # "create"
         /\ req[r].at \in {"insert", "store"} \/ req[r].left # {}
BY NoneAssumption DEF HalfDone, Step, AtWork, HasLocked

\* Nobody is at work on a regular wallet while somebody is half-way through it,
\* but for one who creates it.
LEMMA HalfDoneExcludes ==
  ASSUME TypeOK, NEW r \in Requests, NEW s \in Requests, Step(r), Step(s),
         Owns(r), Owns(s), Together(r, s), HalfDone(s), AtWork(r),
         req[r].op # "create", req[r].wallet = req[s].wallet,
         req[r].wallet \notin shared \cup robbed
  PROVE  r = s
<1>1. AtWork(s) /\ (HasLocked(s) \/ req[s].op = "access")
  BY HalfDoneShape
<1>2. CASE "access" \in {req[r].op, req[s].op}
  BY <1>1, <1>2 DEF Together
<1>3. CASE "access" \notin {req[r].op, req[s].op}
  <2>1. req[r].op \in {"create", "join", "access", "remove", "none"}
    BY DEF TypeOK, Request, Operations
  <2>2. req[r].op # "none" /\ req[r].at # "lock"
    BY IdleType DEF AtWork, Step
  <2>3. HasLocked(r)
    BY <1>3, <2>1, <2>2 DEF HasLocked
  <2>4. QED
    BY <1>1, <1>3, <2>3, LockExcludes
<1>4. QED
  BY <1>2, <1>3

\* A removed wallet and a new one have no look-ups.
LEMMA NoMembersNoLookups ==
  ASSUME NEW w \in Wallets, Members(wallets[w]) = {}
  PROVE  ByTheWallet(w) = {}
BY DEF ByTheWallet, LookupsOf

LEMMA NextLookups ==
  ASSUME TypeOK, \A r \in Requests : Step(r) /\ Owns(r),
         \A r, s \in Requests : Together(r, s), LookupsFit, [Next]_vars
  PROVE  LookupsFit'
<1>0. Grown
  BY HistoryGrows
<1>R. Regular' \subseteq Regular /\ Regular \subseteq Wallets
      /\ Regular \cap (shared \cup robbed) = {}
      /\ Regular' \cap (interrupted' \cup recreated') = {}
  BY <1>0 DEF Regular, Grown
<1> HIDE DEF Regular
<1>E. ASSUME NEW r \in Requests, NEW s \in Requests \ {r}, HalfDone(s), AtWork(r),
             req[r].op # "create", req[r].wallet = req[s].wallet
      PROVE  req[r].wallet \notin Regular'
  BY <1>R, <1>E, HalfDoneExcludes
\* Steps that write neither wallets nor look-ups.
<1>1. ASSUME NEW r \in Requests,
             \A s \in Requests \ {r} : req'[s] = req[s],
             UNCHANGED <<wallets, lookups>>,
             ~HalfDone(r)', HalfDone(r) => req[r].wallet \notin Regular'
      PROVE  LookupsFit'
  <2>1. ASSUME NEW s \in Requests \ {r}
        PROVE  /\ HalfDone(s)' <=> HalfDone(s)
               /\ HalfFits(s)'
    <3>1. req'[s] = req[s] /\ HalfFits(s)
      BY <1>1 DEF LookupsFit
    <3>2. QED
      BY <1>1, <1>R, <3>1 DEF HalfFits, HalfDone, LookupsIn
  <2>2. HalfFits(r)'
    BY <1>1 DEF HalfFits
  <2>3. ASSUME NEW w \in Regular',
               \A s \in Requests : HalfDone(s)' => req'[s].wallet # w
        PROVE  LookupsIn(w)' = ByTheWallet(w)'
    <3>1. \A s \in Requests : HalfDone(s) => req[s].wallet # w
      BY <1>1, <2>1, <2>3
    <3>2. LookupsIn(w) = ByTheWallet(w)
      BY <1>R, <2>3, <3>1 DEF LookupsFit
    <3>3. QED
      BY <1>1, <3>2 DEF LookupsIn, ByTheWallet
  <2>4. QED
    BY <2>1, <2>2, <2>3 DEF LookupsFit
\* Steps that write one wallet or its look-ups: if it is not regular, nothing is
\* left to show.
<1>2. ASSUME NEW r \in Requests, NEW w \in Wallets,
             \A s \in Requests \ {r} : req'[s] = req[s], req[r].wallet = w,
             req'[r].wallet = w \/ ~HalfDone(r)',
             \A v \in Wallets \ {w} :
                 wallets'[v] = wallets[v] /\ LookupsIn(v)' = LookupsIn(v),
             w \in Regular' =>
                 /\ HalfFits(r)'
                 /\ \A s \in Requests \ {r} :
                       HalfDone(s) /\ req[s].wallet = w => HalfFits(s)'
                 /\ (\A s \in Requests : HalfDone(s)' => req'[s].wallet # w) =>
                        LookupsIn(w)' = ByTheWallet(w)'
      PROVE  LookupsFit'
  <2>1. ASSUME NEW s \in Requests \ {r}
        PROVE  HalfDone(s)' <=> HalfDone(s)
    BY <1>2 DEF HalfDone
  <2>2. ASSUME NEW s \in Requests \ {r}
        PROVE  HalfFits(s)'
    <3>1. req'[s] = req[s] /\ HalfFits(s) /\ Step(s)
      BY <1>2 DEF LookupsFit
    <3>2. CASE req[s].wallet = w
      BY <1>2, <2>1, <3>1, <3>2 DEF HalfFits
    <3>3. CASE req[s].wallet # w /\ HalfDone(s)
      <4>1. req[s].wallet \in Wallets
        BY <3>1, <3>3, HalfDoneShape
      <4>2. QED
        BY <1>2, <1>R, <3>1, <3>3, <4>1 DEF HalfFits
    <3>4. QED
      BY <2>1, <3>2, <3>3 DEF HalfFits
  <2>3. HalfFits(r)'
    BY <1>2 DEF HalfFits
  <2>4. ASSUME NEW v \in Regular',
               \A s \in Requests : HalfDone(s)' => req'[s].wallet # v
        PROVE  LookupsIn(v)' = ByTheWallet(v)'
    <3>1. CASE v = w
      BY <1>2, <2>4, <3>1
    <3>2. CASE v # w
      <4>1. \A s \in Requests : HalfDone(s) => req[s].wallet # v
        BY <1>2, <2>1, <2>4, <3>2
      <4>2. LookupsIn(v) = ByTheWallet(v) /\ v \in Wallets
        BY <1>R, <2>4, <4>1 DEF LookupsFit
      <4>3. ByTheWallet(v)' = ByTheWallet(v)
        BY <1>2, <3>2, <4>2 DEF ByTheWallet
      <4>4. QED
        BY <1>2, <3>2, <4>2, <4>3
    <3>3. QED
      BY <3>1, <3>2
  <2>5. QED
    BY <2>2, <2>3, <2>4 DEF LookupsFit
<1>3. ASSUME NEW r \in Requests, NEW w \in Wallets, StartCreate(r, w)
      PROVE  LookupsFit'
  <2>1. PICK q \in Request : Became(r, q) /\ q.op = "create" /\ q.at = "store"
                             /\ req[r] = Idle
    BY <1>3, StartCreateDoes
  <2>2. ~HalfDone(r)' /\ ~HalfDone(r)
    BY <2>1, IdleType DEF Became, HalfDone
  <2>3. QED
    BY <1>1, <1>3, <2>1, <2>2 DEF StartCreate, Became
<1>4. ASSUME NEW r \in Requests, Begins(r)
      PROVE  LookupsFit'
  <2>1. ~HalfDone(r)' /\ ~HalfDone(r)
    BY <1>4, IdleType DEF Begins, Became, HalfDone
  <2>2. QED
    BY <1>1, <1>4, <2>1 DEF Begins, Became
<1>5. ASSUME NEW r \in Requests, Ends(r)
      PROVE  LookupsFit'
  <2>1. ~HalfDone(r)'
    BY <1>5, IdleType DEF Ends, Became, HalfDone
  <2>2. HalfDone(r) => req[r].wallet \notin Regular'
    BY <1>5, <1>R, HalfDoneShape DEF Ends
  <2>3. QED
    BY <1>1, <1>5, <2>1, <2>2 DEF Ends, Became
<1>6. ASSUME NEW r \in Requests, FetchToJoin(r)
      PROVE  LookupsFit'
  <2>1. Moved(r, "lookup", wallets[req[r].wallet], {}) /\ req[r].at = "lock"
    BY <1>6, FetchToJoinDoes
  <2>2. ~HalfDone(r)' /\ ~HalfDone(r)
    BY <2>1 DEF Moved, HalfDone
  <2>3. QED
    BY <1>1, <1>6, <2>1, <2>2 DEF Moved, FetchToJoin
<1>7. ASSUME NEW r \in Requests, LookUpToJoin(r)
      PROVE  LookupsFit'
  <2>1. /\ Moved(r, "delete", Added(req[r].doc, req[r].copayer), {})
        /\ req[r].at = "lookup"
    BY <1>7, LookUpToJoinDoes
  <2>2. ~HalfDone(r)' /\ ~HalfDone(r)
    BY <2>1 DEF Moved, HalfDone
  <2>3. QED
    BY <1>1, <1>7, <2>1, <2>2 DEF Moved, LookUpToJoin, LookUpAnd
<1>8. ASSUME NEW r \in Requests, FetchToAdd(r)
      PROVE  LookupsFit'
  <2>1. PICK doc : Moved(r, "delete", doc, {})
    BY <1>8, FetchToAddReads
  <2>2. req[r].at = "fetch"
    BY <1>8, FetchToAddDoes
  <2>3. ~HalfDone(r)' /\ ~HalfDone(r)
    BY <2>1, <2>2 DEF Moved, HalfDone
  <2>4. QED
    BY <1>1, <1>8, <2>1, <2>3 DEF Moved, FetchToAdd, FetchThenAdd
<1>9. ASSUME NEW r \in Requests, DeleteLookups(r)
      PROVE  LookupsFit'
  <2>0. PICK w \in Wallets : w = req[r].wallet
    BY <1>9, DeleteLookupsDoes
  <2>1. /\ Moved(r, "insert", req[r].doc, {}) /\ req[r].op \in {"join", "access"}
        /\ lookups' = WithoutLookups(w) /\ wallets' = wallets /\ AtWork(r)
    BY <1>9, <2>0, DeleteLookupsDoes, NoneAssumption DEF DeleteLookups, AtWork
  <2>2. /\ LookupsIn(w)' = {}
        /\ \A v \in Wallets \ {w} : LookupsIn(v)' = LookupsIn(v)
    BY <2>1 DEF LookupsIn, WithoutLookups
  <2>3. HalfDone(r)' /\ HalfFits(r)'
    BY <2>0, <2>1, <2>2 DEF Moved, HalfDone, HalfFits
  <2>4. ASSUME NEW s \in Requests \ {r}, HalfDone(s), req[s].wallet = w
        PROVE  w \notin Regular'
    BY <1>E, <2>0, <2>1, <2>4
  <2>5. QED
    BY <1>2, <2>0, <2>1, <2>2, <2>3, <2>4 DEF Moved
<1>10. ASSUME NEW r \in Requests, InsertLookups(r)
       PROVE  LookupsFit'
  <2>0. PICK w \in Wallets : w = req[r].wallet
    BY <1>10, InsertLookupsDoes
  <2>1. /\ Moved(r, "store", req[r].doc, {}) /\ req[r].op \in {"join", "access"}
        /\ req[r].at = "insert" /\ AtWork(r)
        /\ lookups' = lookups \cup LookupsOf(req[r].doc, w) /\ wallets' = wallets
    BY <1>10, <2>0, InsertLookupsDoes, NoneAssumption
       DEF InsertLookups, Insert, AtWork
  <2>2. \A l \in LookupsOf(req[r].doc, w) : l.wallet = w
    BY DEF LookupsOf
  <2>3. /\ LookupsIn(w)' = LookupsIn(w) \cup LookupsOf(req[r].doc, w)
        /\ \A v \in Wallets \ {w} : LookupsIn(v)' = LookupsIn(v)
    BY <2>1, <2>2 DEF LookupsIn
  <2>4. HalfDone(r)
    BY <2>1 DEF HalfDone
  <2>5. w \in Regular' => HalfFits(r)'
    <3>1. w \in Regular' => LookupsIn(w) = {}
      BY <1>R, <2>0, <2>1, <2>4 DEF LookupsFit, HalfFits
    <3>2. QED
      BY <2>0, <2>1, <2>3, <3>1 DEF Moved, HalfFits
  <2>6. ASSUME NEW s \in Requests \ {r}, HalfDone(s), req[s].wallet = w
        PROVE  w \notin Regular'
    BY <1>E, <2>0, <2>1, <2>6
  <2>7. HalfDone(r)'
    BY <2>1 DEF Moved, HalfDone
  <2>8. QED
    BY <1>2, <2>0, <2>1, <2>3, <2>5, <2>6, <2>7 DEF Moved
<1>11. ASSUME NEW r \in Requests, StoreWallet(r)
       PROVE  LookupsFit'
  <2>0. PICK w \in Wallets : w = req[r].wallet
    BY <1>11, StoreWalletDoes
  <2>1. /\ req[r].at = "store" /\ req[r].op \in {"create", "join", "access"}
        /\ req[r].doc \in Wallet /\ req[r].doc # None /\ AtWork(r)
        /\ Became(r, Idle) /\ lookups' = lookups
        /\ wallets'[w] = req[r].doc
        /\ \A v \in Wallets \ {w} : wallets'[v] = wallets[v]
        /\ req[r].op = "create" /\ w \notin recreated' => wallets[w] = None
    BY <1>11, <2>0, StoreWalletDoes, NoneAssumption DEF StoreWallet, TypeOK, AtWork
  <2>2. ~HalfDone(r)'
    BY <2>1, IdleType DEF Became, HalfDone
  <2>3. \A v \in Wallets : LookupsIn(v)' = LookupsIn(v)
    BY <2>1 DEF LookupsIn
  <2>4. CASE req[r].op = "create"
    <3>1. ~HalfDone(r) /\ Members(wallets'[w]) = {}
      BY <2>1, <2>4, NewWalletType DEF HalfDone, Step
    <3>2. ASSUME NEW s \in Requests \ {r}, HalfDone(s), req[s].wallet = w,
                 w \in Regular'
          PROVE  HalfFits(s)'
      <4>1. HalfFits(s) /\ req'[s] = req[s]
        BY <2>1 DEF LookupsFit, Became
      <4>2. QED
        BY <1>R, <2>3, <3>1, <3>2, <4>1 DEF HalfFits
    <3>3. ASSUME \A s \in Requests : HalfDone(s)' => req'[s].wallet # w,
                 w \in Regular'
          PROVE  LookupsIn(w)' = ByTheWallet(w)'
      <4>1. \A s \in Requests : HalfDone(s) => req[s].wallet # w
        BY <2>1, <3>1, <3>3 DEF Became, HalfDone
      <4>2. LookupsIn(w) = ByTheWallet(w)
        BY <1>R, <3>3, <4>1 DEF LookupsFit
      <4>3. ByTheWallet(w) = {} /\ ByTheWallet(w)' = {}
        BY <1>R, <2>1, <2>4, <3>1, <3>3 DEF ByTheWallet, LookupsOf
      <4>4. QED
        BY <2>3, <4>2, <4>3
    <3>4. HalfFits(r)'
      BY <2>2 DEF HalfFits
    <3>5. QED
      BY <1>2, <2>0, <2>1, <2>2, <2>3, <3>2, <3>3, <3>4 DEF Became
  <2>5. CASE req[r].op # "create"
    <3>1. HalfDone(r)
      BY <2>1, <2>5 DEF HalfDone
    <3>2. ASSUME NEW s \in Requests \ {r}, HalfDone(s), req[s].wallet = w
          PROVE  w \notin Regular'
      BY <1>E, <2>0, <2>1, <2>5, <3>2
    <3>3. w \in Regular' => LookupsIn(w)' = ByTheWallet(w)'
      <4>1. w \in Regular' => LookupsIn(w) = LookupsOf(req[r].doc, w)
        BY <1>R, <2>0, <2>1, <3>1 DEF LookupsFit, HalfFits
      <4>2. ByTheWallet(w)' = LookupsOf(req[r].doc, w)
        BY <2>1 DEF ByTheWallet
      <4>3. QED
        BY <2>3, <4>1, <4>2
    <3>4. HalfFits(r)'
      BY <2>2 DEF HalfFits
    <3>5. QED
      BY <1>2, <2>0, <2>1, <2>2, <2>3, <3>2, <3>3, <3>4 DEF Became
  <2>6. QED
    BY <2>4, <2>5
<1>12. ASSUME NEW r \in Requests, LockToRemove(r)
       PROVE  LookupsFit'
  <2>1. Moved(r, "remove", None, {"wallet", "lookups"}) /\ req[r].at = "lock"
    BY <1>12, LockToRemoveDoes
  <2>2. ~HalfDone(r)' /\ ~HalfDone(r)
    BY <2>1 DEF Moved, HalfDone
  <2>3. QED
    BY <1>1, <1>12, <2>1, <2>2 DEF Moved, LockToRemove
<1>13. ASSUME NEW r \in Requests, NEW part \in {"wallet", "lookups"},
              RemovePart(r, part)
       PROVE  LookupsFit'
  <2>0. PICK w \in Wallets : w = req[r].wallet
    BY <1>13, RemovePartDoes
  <2>1. /\ req[r].at = "remove" /\ req[r].op = "remove" /\ part \in req[r].left
        /\ AtWork(r) /\ \A s \in Requests \ {r} : req'[s] = req[s]
        /\ \/ req[r].left = {part} /\ Became(r, Idle)
           \/ /\ req[r].left = {"wallet", "lookups"}
              /\ Moved(r, "remove", None, req[r].left \ {part})
    BY <1>13, RemovePartDoes DEF Moved, Became, AtWork
  <2>2. \A v \in Wallets \ {w} :
            wallets'[v] = wallets[v] /\ LookupsIn(v)' = LookupsIn(v)
    BY <1>13, <2>0 DEF RemovePart, TypeOK, LookupsIn, WithoutLookups
  <2>3. /\ part = "wallet" => wallets'[w] = None /\ lookups' = lookups
        /\ part = "lookups" => wallets' = wallets /\ LookupsIn(w)' = {}
    BY <1>13, <2>0 DEF RemovePart, TypeOK, LookupsIn, WithoutLookups
  <2>4. ASSUME NEW s \in Requests \ {r}, HalfDone(s), req[s].wallet = w
        PROVE  w \notin Regular'
    BY <1>E, <2>0, <2>1, <2>4
  <2>5. CASE req[r].left = {part} /\ Became(r, Idle)
    <3>1. HalfDone(r) /\ ~HalfDone(r)'
      BY <2>1, <2>5, IdleType DEF HalfDone, Became
    <3>2. ASSUME w \in Regular'
          PROVE  LookupsIn(w)' = {} /\ ByTheWallet(w)' = {}
      <4>1. HalfFits(r) /\ w \in Regular
        BY <1>R, <3>2 DEF LookupsFit
      <4>2. CASE part = "wallet"
        <5>1. LookupsIn(w) = {}
          BY <2>0, <2>1, <2>5, <3>1, <4>1, <4>2 DEF HalfFits
        <5>2. QED
          BY <2>3, <4>2, <5>1 DEF LookupsIn, ByTheWallet
      <4>3. CASE part = "lookups"
        <5>1. Members(wallets[w]) = {}
          BY <2>0, <2>1, <2>5, <3>1, <4>1, <4>3 DEF HalfFits
        <5>2. ByTheWallet(w) = {}
          BY <5>1, NoMembersNoLookups
        <5>3. QED
          BY <2>3, <4>3, <5>2 DEF ByTheWallet
      <4>4. QED
        BY <4>2, <4>3
    <3>3. HalfFits(r)'
      BY <3>1 DEF HalfFits
    <3>4. QED
      BY <1>2, <2>0, <2>1, <2>2, <2>4, <3>1, <3>2, <3>3
  <2>6. CASE /\ req[r].left = {"wallet", "lookups"}
             /\ Moved(r, "remove", None, req[r].left \ {part})
    <3>1. /\ req'[r].wallet = w /\ req'[r].at = "remove"
          /\ req'[r].left = {"wallet", "lookups"} \ {part}
      BY <2>0, <2>6 DEF Moved
    <3>2. /\ part = "wallet" => req'[r].left = {"lookups"}
          /\ part = "lookups" => req'[r].left = {"wallet"}
          /\ req'[r].left # {"wallet", "lookups"}
      BY <3>1
    <3>3. HalfDone(r)'
      BY <3>1, <3>2 DEF HalfDone
    <3>4. HalfFits(r)'
      <4>1. part = "wallet" => Members(wallets'[w]) = {}
        BY <2>3 DEF Members
      <4>2. {"lookups"} # {"wallet"}
        OBVIOUS
      <4>3. CASE part = "wallet"
        BY <3>1, <3>2, <4>1, <4>2, <4>3 DEF HalfFits
      <4>4. CASE part = "lookups"
        BY <2>3, <3>1, <3>2, <4>2, <4>4 DEF HalfFits
      <4>5. QED
        BY <4>3, <4>4
    <3>5. QED
      BY <1>2, <2>0, <2>1, <2>2, <2>4, <3>1, <3>3, <3>4
  <2>7. QED
    BY <2>1, <2>5, <2>6
<1>14. CASE Rests
  <2>1. \A s \in Requests : /\ req'[s] = req[s] /\ HalfDone(s)' = HalfDone(s)
                            /\ HalfFits(s)
    BY <1>14 DEF Rests, HalfDone, LookupsFit
  <2>2. \A v : LookupsIn(v)' = LookupsIn(v) /\ ByTheWallet(v)' = ByTheWallet(v)
    BY <1>14 DEF Rests, LookupsIn, ByTheWallet
  <2>3. \A s \in Requests : HalfFits(s)'
    BY <1>14, <1>R, <2>1, <2>2 DEF HalfFits, Rests
  <2>4. QED
    BY <1>R, <2>1, <2>2, <2>3 DEF LookupsFit
<1>15. QED
  BY Kinds, <1>3, <1>4, <1>5, <1>6, <1>7, <1>8, <1>9, <1>10, <1>11, <1>12, <1>13, <1>14

-----------------------------------------------------------------------------
(* Who is alone at work, and answered keys                                 *)

LEMMA NextAlone ==
  ASSUME TypeOK, \A r \in Requests : Step(r) /\ AloneFits(r),
         \A r, s \in Requests : Together(r, s), [Next]_vars
  PROVE  \A r \in Requests : AloneFits(r)'
<1>0. Grown
  BY HistoryGrows
<1>1. ASSUME NEW s \in Requests, req'[s] = req[s],
             LookupsIn(req[s].wallet)' = LookupsIn(req[s].wallet)
      PROVE  AloneFits(s)'
  <2>1. SUFFICES ASSUME s \notin beside', req[s].at \in {"insert", "store"}
                 PROVE  AloneFits(s)'
    BY <1>1 DEF AloneFits
  <2>2. s \notin beside
    BY <1>0, <1>1, <2>1, IdleType DEF Grown
  <2>3. AloneFits(s)
    OBVIOUS
  <2>4. QED
    BY <1>1, <2>2, <2>3 DEF AloneFits
<1>2. ASSUME NEW r \in Requests, \A s \in Requests \ {r} : req'[s] = req[s], AtWork(r),
             \A v \in Wallets \ {req[r].wallet} : LookupsIn(v)' = LookupsIn(v),
             AloneFits(r)'
      PROVE  \A s \in Requests : AloneFits(s)'
  <2>1. ASSUME NEW s \in Requests \ {r}
        PROVE  AloneFits(s)'
    <3>1. req'[s] = req[s] /\ Step(s) /\ Together(r, s)
      BY <1>2
    <3>2. SUFFICES ASSUME s \notin beside', req[s].at \in {"insert", "store"}
                   PROVE  AloneFits(s)'
      BY <3>1 DEF AloneFits
    <3>3. s \notin beside
      BY <1>0, <3>1, <3>2, IdleType DEF Grown
    <3>4. AtWork(s) /\ req[s].wallet \in Wallets
      BY <3>1, <3>2, IdleType, NoneAssumption DEF AtWork, Step
    <3>5. req[s].wallet # req[r].wallet
      BY <1>2, <3>1, <3>3, <3>4 DEF Together
    <3>6. QED
      BY <1>1, <1>2, <3>1, <3>4, <3>5
  <2>2. QED
    BY <1>2, <2>1
<1>3. ASSUME NEW r \in Requests, \A s \in Requests \ {r} : req'[s] = req[s],
             lookups' = lookups, AloneFits(r)'
      PROVE  \A s \in Requests : AloneFits(s)'
  BY <1>1, <1>3 DEF LookupsIn
<1>4. ASSUME NEW r \in Requests, NEW w \in Wallets, StartCreate(r, w)
      PROVE  \A s \in Requests : AloneFits(s)'
  <2>1. PICK q \in Request : Became(r, q) /\ q.op = "create" /\ q.at = "store"
    BY <1>4, StartCreateDoes
  <2>2. AloneFits(r)'
    BY <2>1 DEF Became, AloneFits
  <2>3. QED
    BY <1>3, <1>4, <2>1, <2>2 DEF StartCreate, Became
<1>5. ASSUME NEW r \in Requests, Begins(r) \/ Ends(r)
      PROVE  \A s \in Requests : AloneFits(s)'
  <2>1. /\ req'[r].at \in {"lock", "fetch", "idle"} /\ lookups' = lookups
        /\ \A s \in Requests \ {r} : req'[s] = req[s]
    BY <1>5, IdleType DEF Begins, Ends, Became
  <2>2. AloneFits(r)'
    BY <2>1 DEF AloneFits
  <2>3. QED
    BY <1>3, <2>1, <2>2
<1>6. ASSUME NEW r \in Requests, NEW at \in {"lookup", "delete", "remove"},
             NEW doc, NEW left, Moved(r, at, doc, left), lookups' = lookups
      PROVE  \A s \in Requests : AloneFits(s)'
  <2>1. AloneFits(r)'
    BY <1>6 DEF Moved, AloneFits
  <2>2. QED
    BY <1>3, <1>6, <2>1 DEF Moved
<1>7. ASSUME NEW r \in Requests,
             FetchToJoin(r) \/ LookUpToJoin(r) \/ FetchToAdd(r) \/ LockToRemove(r)
      PROVE  \A s \in Requests : AloneFits(s)'
  <2>1. lookups' = lookups
    BY <1>7 DEF FetchToJoin, LookUpToJoin, LookUpAnd, FetchToAdd, FetchThenAdd,
                LockToRemove
  <2>2. \E at \in {"lookup", "delete", "remove"} :
          \E doc, left : Moved(r, at, doc, left)
    BY <1>7, FetchToJoinDoes, LookUpToJoinDoes, FetchToAddReads, LockToRemoveDoes
  <2>3. QED
    BY <1>6, <2>1, <2>2
<1>8. ASSUME NEW r \in Requests, DeleteLookups(r)
      PROVE  \A s \in Requests : AloneFits(s)'
  <2>0. PICK w \in Wallets : w = req[r].wallet
    BY <1>8, DeleteLookupsDoes
  <2>1. /\ Moved(r, "insert", req[r].doc, {}) /\ AtWork(r)
        /\ lookups' = WithoutLookups(w)
    BY <1>8, <2>0, DeleteLookupsDoes, NoneAssumption DEF DeleteLookups, AtWork
  <2>2. /\ LookupsIn(w)' = {}
        /\ \A v \in Wallets \ {w} : LookupsIn(v)' = LookupsIn(v)
    BY <2>1 DEF LookupsIn, WithoutLookups
  <2>3. AloneFits(r)'
    BY <2>0, <2>1, <2>2 DEF Moved, AloneFits
  <2>4. QED
    BY <1>2, <2>0, <2>1, <2>2, <2>3 DEF Moved
<1>9. ASSUME NEW r \in Requests, InsertLookups(r)
      PROVE  \A s \in Requests : AloneFits(s)'
  <2>0. PICK w \in Wallets : w = req[r].wallet
    BY <1>9, InsertLookupsDoes
  <2>1. /\ Moved(r, "store", req[r].doc, {}) /\ AtWork(r) /\ req[r].at = "insert"
        /\ lookups' = lookups \cup LookupsOf(req[r].doc, w)
    BY <1>9, <2>0, InsertLookupsDoes, NoneAssumption DEF InsertLookups, Insert, AtWork
  <2>2. \A l \in LookupsOf(req[r].doc, w) : l.wallet = w
    BY DEF LookupsOf
  <2>3. /\ LookupsIn(w)' = LookupsIn(w) \cup LookupsOf(req[r].doc, w)
        /\ \A v \in Wallets \ {w} : LookupsIn(v)' = LookupsIn(v)
    BY <2>1, <2>2 DEF LookupsIn
  <2>4. ASSUME r \notin beside'
        PROVE  LookupsIn(w) = {}
    <3>1. r \notin beside
      BY <1>0, <2>1, <2>4, IdleType DEF Grown, Moved
    <3>2. QED
      BY <2>0, <2>1, <3>1 DEF AloneFits
  <2>5. AloneFits(r)'
    BY <2>0, <2>1, <2>3, <2>4 DEF Moved, AloneFits
  <2>6. QED
    BY <1>2, <2>0, <2>1, <2>3, <2>5 DEF Moved
<1>10. ASSUME NEW r \in Requests, StoreWallet(r)
       PROVE  \A s \in Requests : AloneFits(s)'
  <2>1. Became(r, Idle) /\ lookups' = lookups
    BY <1>10, StoreWalletDoes DEF StoreWallet
  <2>2. AloneFits(r)'
    BY <2>1, IdleType DEF Became, AloneFits
  <2>3. QED
    BY <1>3, <2>1, <2>2 DEF Became
<1>11. ASSUME NEW r \in Requests, NEW part \in {"wallet", "lookups"},
              RemovePart(r, part)
       PROVE  \A s \in Requests : AloneFits(s)'
  <2>1. /\ AtWork(r) /\ req'[r].at \in {"remove", "idle"}
        /\ \A s \in Requests \ {r} : req'[s] = req[s]
    BY <1>11, RemovePartDoes, IdleType DEF Moved, Became, AtWork
  <2>2. \A v \in Wallets \ {req[r].wallet} : LookupsIn(v)' = LookupsIn(v)
    BY <1>11 DEF RemovePart, LookupsIn, WithoutLookups
  <2>3. AloneFits(r)'
    BY <2>1 DEF AloneFits
  <2>4. QED
    BY <1>2, <2>1, <2>2, <2>3
<1>12. CASE Rests
  BY <1>1, <1>12 DEF Rests, LookupsIn
<1>13. QED
  BY Kinds, <1>4, <1>5, <1>7, <1>8, <1>9, <1>10, <1>11, <1>12

\* A new copayer does not touch the keys of the others.
LEMMA KeyStays ==
  ASSUME NEW doc \in Wallet, NEW d \in Copayers, d \notin Members(doc),
         NEW c \in Copayers, NEW k \in Keys, HasKey(doc, c, k)
  PROVE  HasKey(Added(doc, d), c, k)
<1>1. c # d /\ c \in Members(doc) /\ k \in doc.keys[c]
  BY DEF HasKey
<1>2. /\ Added(doc, d) # None /\ Members(Added(doc, d)) = Members(doc) \cup {d}
      /\ \A e \in Copayers \ {d} : Added(doc, d).keys[e] = doc.keys[e]
  BY AddedType
<1>3. QED
  BY <1>1, <1>2 DEF HasKey

LEMMA NextGrants ==
  ASSUME TypeOK, \A r \in Requests : Step(r) /\ Fits(r), WalletsSound,
         \A r, s \in Requests : Together(r, s), GrantsFit, [Next]_vars
  PROVE  GrantsFit'
<1>1. ASSUME NEW r \in Requests, \A s \in Requests \ {r} : req'[s] = req[s],
             wallets' = wallets, granted' = granted,
             \A c \in Copayers, k \in Keys :
                 req'[r].doc # None /\ <<req'[r].wallet, c, k>> \in granted =>
                     HasKey(req'[r].doc, c, k)
      PROVE  GrantsFit'
  <2>1. SUFFICES ASSUME NEW w \in Wallets, NEW c \in Copayers, NEW k \in Keys,
                        <<w, c, k>> \in granted
                 PROVE  /\ HasKey(wallets[w], c, k)
                        /\ \A s \in Requests : req'[s].doc # None /\ req'[s].wallet = w =>
                              HasKey(req'[s].doc, c, k)
    BY <1>1 DEF GrantsFit
  <2>2. HasKey(wallets[w], c, k)
    BY <2>1 DEF GrantsFit
  <2>3. ASSUME NEW s \in Requests \ {r}, req'[s].doc # None, req'[s].wallet = w
        PROVE  HasKey(req'[s].doc, c, k)
    BY <1>1, <2>1, <2>3 DEF GrantsFit
  <2>4. QED
    BY <1>1, <2>1, <2>2, <2>3
<1>2. ASSUME NEW r \in Requests, NEW w \in Wallets, StartCreate(r, w)
      PROVE  GrantsFit'
  <2>1. PICK q \in Request : Became(r, q) /\ q.wallet = w
    BY <1>2, StartCreateDoes
  <2>2. wallets' = wallets /\ granted' = granted /\ wallets[w] = None
    BY <1>2 DEF StartCreate
  <2>3. \A c \in Copayers, k \in Keys : <<w, c, k>> \notin granted
    BY <2>2 DEF GrantsFit, HasKey
  <2>4. QED
    BY <1>1, <2>1, <2>2, <2>3 DEF Became
<1>3. ASSUME NEW r \in Requests, Begins(r) \/ Ends(r)
      PROVE  GrantsFit'
  <2>1. /\ req'[r].doc = None /\ wallets' = wallets /\ granted' = granted
        /\ \A s \in Requests \ {r} : req'[s] = req[s]
    BY <1>3, IdleType DEF Begins, Ends, Became
  <2>2. QED
    BY <1>1, <2>1
<1>4. ASSUME NEW r \in Requests, FetchToJoin(r)
      PROVE  GrantsFit'
  <2>1. /\ Moved(r, "lookup", wallets[req[r].wallet], {}) /\ req[r].wallet \in Wallets
        /\ wallets' = wallets /\ granted' = granted
    BY <1>4, FetchToJoinDoes DEF FetchToJoin
  <2>2. QED
    BY <1>1, <2>1 DEF Moved, GrantsFit
<1>5. ASSUME NEW r \in Requests, LookUpToJoin(r)
      PROVE  GrantsFit'
  <2> DEFINE d == req[r].copayer
             w == req[r].wallet
  <2>1. /\ Moved(r, "delete", Added(req[r].doc, d), {})
        /\ w \in Wallets /\ d \in Copayers
        /\ req[r].doc \in Wallet /\ req[r].doc # None
        /\ req[r].at = "lookup" /\ wallets' = wallets /\ granted' = granted
    BY <1>5, LookUpToJoinDoes, NoneAssumption DEF LookUpToJoin, LookUpAnd
  <2>2. d \notin Members(req[r].doc)
    BY <2>1 DEF WalletsSound, MayJoin
  <2>3. ASSUME NEW c \in Copayers, NEW k \in Keys, <<w, c, k>> \in granted
        PROVE  HasKey(Added(req[r].doc, d), c, k)
    <3>1. HasKey(req[r].doc, c, k)
      BY <2>1, <2>3 DEF GrantsFit
    <3>2. QED
      BY <2>1, <2>2, <3>1, KeyStays
  <2>4. QED
    BY <1>1, <2>1, <2>3 DEF Moved
<1>6. ASSUME NEW r \in Requests, FetchToAdd(r)
      PROVE  GrantsFit'
  <2>1. PICK doc \in Wallet :
            /\ Moved(r, "delete", doc, {})
            /\ \A c \in Copayers, k \in AllKeys :
                  HasKey(wallets[req[r].wallet], c, k) => HasKey(doc, c, k)
    BY <1>6, FetchToAddReads
  <2>2. wallets' = wallets /\ granted' = granted /\ req[r].wallet \in Wallets
    BY <1>6, FetchToAddDoes DEF FetchToAdd, FetchThenAdd
  <2>3. \A c \in Copayers, k \in Keys :
            <<req[r].wallet, c, k>> \in granted => HasKey(doc, c, k)
    BY <2>1, <2>2 DEF GrantsFit, AllKeys
  <2>4. QED
    BY <1>1, <2>1, <2>2, <2>3 DEF Moved
<1>7. ASSUME NEW r \in Requests, DeleteLookups(r) \/ InsertLookups(r)
      PROVE  GrantsFit'
  <2>1. /\ req'[r].doc = req[r].doc /\ req'[r].wallet = req[r].wallet
        /\ \A s \in Requests \ {r} : req'[s] = req[s]
        /\ req[r].wallet \in Wallets
    BY <1>7, DeleteLookupsDoes, InsertLookupsDoes DEF Moved
  <2>2. wallets' = wallets /\ granted' = granted
    BY <1>7 DEF DeleteLookups, InsertLookups, Insert, history
  <2>3. QED
    BY <1>1, <2>1, <2>2 DEF GrantsFit
<1>8. ASSUME NEW r \in Requests, StoreWallet(r)
      PROVE  GrantsFit'
  <2>0. PICK v \in Wallets : v = req[r].wallet
    BY <1>8, StoreWalletDoes
  <2>1. /\ req[r].at = "store" /\ req[r].doc # None /\ Became(r, Idle)
        /\ wallets'[v] = req[r].doc
        /\ \A w \in Wallets \ {v} : wallets'[w] = wallets[w]
    BY <1>8, <2>0, StoreWalletDoes, NoneAssumption DEF TypeOK
  <2>2. SUFFICES ASSUME NEW w \in Wallets, NEW c \in Copayers, NEW k \in Keys,
                        <<w, c, k>> \in granted'
                 PROVE  /\ HasKey(wallets'[w], c, k)
                        /\ \A s \in Requests : req'[s].doc # None /\ req'[s].wallet = w =>
                              HasKey(req'[s].doc, c, k)
    BY DEF GrantsFit
  <2>3. CASE <<w, c, k>> \in granted
    <3>1. /\ HasKey(wallets[w], c, k)
          /\ \A s \in Requests : req[s].doc # None /\ req[s].wallet = w =>
                HasKey(req[s].doc, c, k)
      BY <2>3 DEF GrantsFit
    <3>2. HasKey(wallets'[w], c, k)
      BY <2>0, <2>1, <3>1
    <3>3. QED
      BY <2>1, <3>1, <3>2, IdleType DEF Became
  <2>4. CASE <<w, c, k>> \notin granted
    <3>1. /\ req[r].op = "access" /\ r \notin beside
          /\ w = v /\ c = req[r].copayer /\ k = req[r].key
      BY <1>8, <2>0, <2>2, <2>4 DEF StoreWallet
    <3>2. HasKey(req[r].doc, c, k)
      BY <2>1, <3>1 DEF Fits, AccessFits, HasKey
    <3>3. ASSUME NEW s \in Requests \ {r}, req[s].doc # None, req[s].wallet = w
          PROVE  FALSE
      <4>1. Together(r, s) /\ AtWork(r) /\ AtWork(s)
        BY <2>1, <3>3 DEF AtWork
      <4>2. QED
        BY <2>0, <3>1, <3>3, <4>1 DEF Together
    <3>4. QED
      BY <2>1, <3>1, <3>2, <3>3, IdleType DEF Became
  <2>5. QED
    BY <2>3, <2>4
<1>9. ASSUME NEW r \in Requests, LockToRemove(r)
      PROVE  GrantsFit'
  <2>1. /\ Moved(r, "remove", None, {"wallet", "lookups"})
        /\ wallets' = wallets /\ granted' = granted
    BY <1>9, LockToRemoveDoes DEF LockToRemove
  <2>2. QED
    BY <1>1, <2>1 DEF Moved
<1>10. ASSUME NEW r \in Requests, NEW part \in {"wallet", "lookups"},
              RemovePart(r, part)
       PROVE  GrantsFit'
  <2>0. PICK v \in Wallets : v = req[r].wallet
    BY <1>10, RemovePartDoes
  <2>1. /\ req'[r].doc = None /\ \A s \in Requests \ {r} : req'[s] = req[s]
    BY <1>10, RemovePartDoes, IdleType DEF Moved, Became
  <2>2. /\ \A w \in Wallets \ {v} : wallets'[w] = wallets[w]
        /\ granted' = {g \in granted : g[1] # v}
    BY <1>10, <2>0 DEF RemovePart, TypeOK
  <2>3. SUFFICES ASSUME NEW w \in Wallets, NEW c \in Copayers, NEW k \in Keys,
                        <<w, c, k>> \in granted'
                 PROVE  /\ HasKey(wallets'[w], c, k)
                        /\ \A s \in Requests : req'[s].doc # None /\ req'[s].wallet = w =>
                              HasKey(req'[s].doc, c, k)
    BY DEF GrantsFit
  <2>4. <<w, c, k>> \in granted /\ w # v
    BY <2>2, <2>3
  <2>5. /\ HasKey(wallets[w], c, k)
        /\ \A s \in Requests : req[s].doc # None /\ req[s].wallet = w =>
              HasKey(req[s].doc, c, k)
    BY <2>4 DEF GrantsFit
  <2>6. QED
    BY <2>1, <2>2, <2>4, <2>5
<1>11. CASE Rests
  BY <1>11 DEF Rests, GrantsFit
<1>12. QED
  BY Kinds, <1>2, <1>3, <1>4, <1>5, <1>6, <1>7, <1>8, <1>9, <1>10, <1>11

\* The look-ups of a copayer in a wallet, and that a step leaves his keys to him.
Own(w, c) == {l \in lookups : l.wallet = w /\ l.copayer = c}

Kept(w, c, k) ==
    /\ \A l \in Own(w, c) : k \in l.keys
    /\ \/ Own(w, c) # {}
       \/ w \in interrupted
       \/ \E r \in Requests : req[r].wallet = w /\ req[r].at = "insert"

LEMMA KeptAll ==
  KeysKept <=> \A w \in Wallets, c \in Copayers, k \in Keys :
                   <<w, c, k>> \in granted => Kept(w, c, k)
BY DEF KeysKept, Kept, Own

LEMMA NextKept ==
  ASSUME TypeOK, \A r \in Requests : Step(r) /\ Fits(r) /\ AloneFits(r),
         GrantsFit, KeysKept, [Next]_vars
  PROVE  KeysKept'
<1>0. Grown
  BY HistoryGrows
<1>P. KeysKept' <=> \A w \in Wallets, c \in Copayers, k \in Keys :
                        <<w, c, k>> \in granted' => Kept(w, c, k)'
  BY DEF KeysKept, Kept, Own
<1>1. ASSUME NEW w \in Wallets, NEW c \in Copayers, NEW k \in Keys,
             <<w, c, k>> \in granted
      PROVE  Kept(w, c, k)
  BY <1>1, KeptAll
<1>2. ASSUME NEW r \in Requests, \A s \in Requests \ {r} : req'[s] = req[s],
             lookups' = lookups, granted' \subseteq granted,
             req[r].at = "insert" => req[r].wallet \in interrupted'
      PROVE  KeysKept'
  <2>1. ASSUME NEW w \in Wallets, NEW c \in Copayers, NEW k \in Keys,
               <<w, c, k>> \in granted'
        PROVE  Kept(w, c, k)'
    <3>1. Kept(w, c, k)
      BY <1>1, <1>2, <2>1
    <3>2. Own(w, c)' = Own(w, c)
      BY <1>2 DEF Own
    <3>3. ASSUME NEW s \in Requests, req[s].wallet = w, req[s].at = "insert"
          PROVE  w \in interrupted' \/ (req'[s].wallet = w /\ req'[s].at = "insert")
      BY <1>2, <3>3
    <3>4. QED
      BY <1>0, <3>1, <3>2, <3>3 DEF Kept, Grown
  <2>2. QED
    BY <1>P, <2>1
<1>3. ASSUME NEW r \in Requests, Begins(r)
      PROVE  KeysKept'
  BY <1>2, <1>3, IdleType DEF Begins, Became
<1>4. ASSUME NEW r \in Requests, Ends(r)
      PROVE  KeysKept'
  <2>1. req[r].at = "insert" => req[r].wallet \in interrupted'
    BY <1>4 DEF Ends, Step
  <2>2. QED
    BY <1>2, <1>4, <2>1 DEF Ends, Became
<1>5. ASSUME NEW r \in Requests, NEW w \in Wallets, StartCreate(r, w)
      PROVE  KeysKept'
  <2>1. PICK q \in Request : req[r] = Idle /\ Became(r, q)
    BY <1>5, StartCreateDoes
  <2>2. lookups' = lookups /\ granted' = granted
    BY <1>5 DEF StartCreate
  <2>3. QED
    BY <1>2, <2>1, <2>2, IdleType DEF Became
<1>6. ASSUME NEW r \in Requests,
             FetchToJoin(r) \/ LookUpToJoin(r) \/ FetchToAdd(r) \/ LockToRemove(r)
      PROVE  KeysKept'
  <2>1. lookups' = lookups /\ granted' = granted
    BY <1>6 DEF FetchToJoin, LookUpToJoin, LookUpAnd, FetchToAdd, FetchThenAdd,
                LockToRemove
  <2>2. /\ req[r].at # "insert"
        /\ \A s \in Requests \ {r} : req'[s] = req[s]
    BY <1>6, FetchToJoinDoes, LookUpToJoinDoes, FetchToAddDoes, LockToRemoveDoes
       DEF Moved
  <2>3. QED
    BY <1>2, <2>1, <2>2
<1>7. ASSUME NEW r \in Requests, DeleteLookups(r)
      PROVE  KeysKept'
  <2>0. PICK v \in Wallets : v = req[r].wallet
    BY <1>7, DeleteLookupsDoes
  <2>1. /\ Moved(r, "insert", req[r].doc, {}) /\ req[r].at = "delete"
        /\ lookups' = WithoutLookups(v) /\ granted' = granted
    BY <1>7, <2>0, DeleteLookupsDoes DEF DeleteLookups, history
  <2>2. ASSUME NEW w \in Wallets, NEW c \in Copayers, NEW k \in Keys,
               <<w, c, k>> \in granted
        PROVE  Kept(w, c, k)'
    <3>1. Kept(w, c, k)
      BY <1>1, <2>2
    <3>2. Own(w, c)' = IF w = v THEN {} ELSE Own(w, c)
      BY <2>1 DEF Own, WithoutLookups
    <3>3. CASE w = v
      BY <2>0, <2>1, <3>2, <3>3 DEF Kept, Moved
    <3>4. CASE w # v
      <4>1. \A s \in Requests : req[s].wallet = w /\ req[s].at = "insert" =>
                                    req'[s].wallet = w /\ req'[s].at = "insert"
        BY <2>0, <2>1, <3>4 DEF Moved
      <4>2. QED
        BY <1>0, <3>1, <3>2, <3>4, <4>1 DEF Kept, Grown
    <3>5. QED
      BY <3>3, <3>4
  <2>3. QED
    BY <1>P, <2>1, <2>2
<1>8. ASSUME NEW r \in Requests, InsertLookups(r)
      PROVE  KeysKept'
  <2>0. PICK v \in Wallets : v = req[r].wallet
    BY <1>8, InsertLookupsDoes
  <2> DEFINE new == LookupsOf(req[r].doc, v)
  <2>1. /\ Moved(r, "store", req[r].doc, {}) /\ req[r].at = "insert"
        /\ lookups' = lookups \cup new /\ granted' = granted
        /\ req[r].doc \in Wallet /\ req[r].doc # None
    BY <1>8, <2>0, InsertLookupsDoes, NoneAssumption
       DEF InsertLookups, Insert, history
  <2>2. ASSUME NEW w \in Wallets, NEW c \in Copayers, NEW k \in Keys,
               <<w, c, k>> \in granted
        PROVE  Kept(w, c, k)'
    <3>1. Kept(w, c, k)
      BY <1>1, <2>2
    <3>2. Own(w, c)' = Own(w, c) \cup {l \in new : l.wallet = w /\ l.copayer = c}
      BY <2>1 DEF Own
    <3>3. CASE w = v
      <4>1. HasKey(req[r].doc, c, k)
        BY <2>0, <2>1, <2>2, <3>3 DEF GrantsFit
      <4>2. \A l \in new : l.copayer = c => k \in l.keys
        BY <4>1 DEF HasKey, LookupsOf
      <4>3. [copayer |-> c, wallet |-> v, keys |-> req[r].doc.keys[c]] \in new
        BY <4>1 DEF HasKey, LookupsOf
      <4>4. [copayer |-> c, wallet |-> v, keys |-> req[r].doc.keys[c]] \in Own(w, c)'
        BY <3>2, <3>3, <4>3
      <4> HIDE DEF new
      <4>5. \A l \in Own(w, c)' : k \in l.keys
        BY <3>1, <3>2, <4>2 DEF Kept
      <4>6. QED
        BY <4>4, <4>5 DEF Kept
    <3>4. CASE w # v
      <4>1. \A s \in Requests : req[s].wallet = w /\ req[s].at = "insert" =>
                                    req'[s].wallet = w /\ req'[s].at = "insert"
        BY <2>0, <2>1, <3>4 DEF Moved
      <4>2. Own(w, c)' = Own(w, c)
        BY <3>2, <3>4 DEF LookupsOf
      <4>3. QED
        BY <1>0, <3>1, <4>1, <4>2 DEF Kept, Grown
    <3>5. QED
      BY <3>3, <3>4
  <2>3. QED
    BY <1>P, <2>1, <2>2
<1>9. ASSUME NEW r \in Requests, StoreWallet(r)
      PROVE  KeysKept'
  <2>0. PICK v \in Wallets : v = req[r].wallet
    BY <1>9, StoreWalletDoes
  <2>1. /\ req[r].at = "store" /\ Became(r, Idle) /\ lookups' = lookups
        /\ req[r].doc \in Wallet
    BY <1>9, StoreWalletDoes DEF StoreWallet
  <2>2. ASSUME NEW w \in Wallets, NEW c \in Copayers, NEW k \in Keys,
               <<w, c, k>> \in granted'
        PROVE  Kept(w, c, k)'
    <3>1. Own(w, c)' = Own(w, c)
      BY <2>1 DEF Own
    <3>2. CASE <<w, c, k>> \in granted
      <4>1. Kept(w, c, k)
        BY <1>1, <3>2
      <4>2. \A s \in Requests : req[s].at = "insert" => req'[s] = req[s]
        BY <2>1 DEF Became
      <4>3. QED
        BY <1>0, <3>1, <4>1, <4>2 DEF Kept, Grown
    <3>3. CASE <<w, c, k>> \notin granted
      <4>1. /\ req[r].op = "access" /\ r \notin beside
            /\ w = v /\ c = req[r].copayer /\ k = req[r].key
        BY <1>9, <2>0, <2>2, <3>3 DEF StoreWallet
      <4>2. LookupsIn(v) = LookupsOf(req[r].doc, v)
        BY <2>0, <2>1, <4>1 DEF AloneFits
      <4>3. c \in Members(req[r].doc) /\ k \in req[r].doc.keys[c]
        BY <2>1, <4>1 DEF Fits, AccessFits
      <4>4. \A l \in Own(w, c) : k \in l.keys
        BY <4>1, <4>2, <4>3 DEF Own, LookupsIn, LookupsOf
      <4>5. [copayer |-> c, wallet |-> v, keys |-> req[r].doc.keys[c]] \in LookupsIn(v)
        BY <4>2, <4>3 DEF LookupsOf
      <4>6. Own(w, c) # {}
        BY <4>1, <4>5 DEF Own, LookupsIn
      <4>7. QED
        BY <3>1, <4>4, <4>6 DEF Kept
    <3>4. QED
      BY <3>2, <3>3
  <2>3. QED
    BY <1>P, <2>2
<1>10. ASSUME NEW r \in Requests, NEW part \in {"wallet", "lookups"},
              RemovePart(r, part)
       PROVE  KeysKept'
  <2>0. PICK v \in Wallets : v = req[r].wallet
    BY <1>10, RemovePartDoes
  <2>1. /\ req[r].at = "remove" /\ \A s \in Requests \ {r} : req'[s] = req[s]
        /\ granted' = {g \in granted : g[1] # v}
        /\ lookups' = lookups \/ lookups' = WithoutLookups(v)
    BY <1>10, <2>0, RemovePartDoes DEF RemovePart, Moved, Became
  <2>2. ASSUME NEW w \in Wallets, NEW c \in Copayers, NEW k \in Keys,
               <<w, c, k>> \in granted'
        PROVE  Kept(w, c, k)'
    <3>1. <<w, c, k>> \in granted /\ w # v
      BY <2>1, <2>2
    <3>2. Kept(w, c, k)
      BY <1>1, <3>1
    <3>3. Own(w, c)' = Own(w, c)
      BY <2>1, <3>1 DEF Own, WithoutLookups
    <3>4. \A s \in Requests : req[s].at = "insert" => req'[s] = req[s]
      BY <2>1
    <3>5. QED
      BY <1>0, <3>2, <3>3, <3>4 DEF Kept, Grown
  <2>3. QED
    BY <1>P, <2>2
<1>11. CASE Rests
  <2>1. ASSUME NEW w \in Wallets, NEW c \in Copayers, NEW k \in Keys,
               <<w, c, k>> \in granted'
        PROVE  Kept(w, c, k)'
    <3>1. Kept(w, c, k)
      BY <1>1, <1>11, <2>1 DEF Rests
    <3>2. Own(w, c)' = Own(w, c) /\ req' = req
      BY <1>11 DEF Own, Rests
    <3>3. QED
      BY <1>0, <3>1, <3>2 DEF Kept, Grown
  <2>2. QED
    BY <1>P, <2>1
<1>12. QED
  BY Kinds, <1>3, <1>4, <1>5, <1>6, <1>7, <1>8, <1>9, <1>10, <1>11


-----------------------------------------------------------------------------
(* A copayer has one wallet                                                *)

\* Who has looked a copayer up and has not yet stored the wallet.
Joining(s, c, w) ==
    /\ req[s].op = "join" /\ req[s].at \in {"delete", "insert", "store"}
    /\ req[s].wallet = w /\ req[s].copayer = c

LEMMA BelongsBy ==
  ASSUME NEW c, NEW w
  PROVE  Belongs(c, w) <=> \/ c \in Members(wallets[w])
                           \/ \E s \in Requests : Joining(s, c, w)
BY DEF Belongs, Joining

\* Where nobody new belongs to a wallet, nobody belongs to a second one.
LEMMA NobodyNew ==
  ASSUME HeldOnce, Grown,
         \A v \in Wallets \ (recreated' \cup robbed') : \A c \in Copayers :
             Belongs(c, v)' => Belongs(c, v)
  PROVE  HeldOnce'
BY DEF HeldOnce, Grown

\* A copayer of a regular wallet is looked up there, unless somebody is just
\* rewriting its look-ups.
LEMMA LookedUp ==
  ASSUME TypeOK, \A r \in Requests : Step(r) /\ Owns(r) /\ Fits(r),
         \A r, s \in Requests : Together(r, s), LookupsFit,
         NEW d \in Copayers, NEW v \in Regular, Belongs(d, v),
         \A s \in Requests : req[s].wallet = v => ~Unlisted(s, d)
  PROVE  \E l \in lookups : l.copayer = d
<1>0. v \in Wallets /\ v \notin shared \cup recreated \cup robbed
  BY DEF Regular
<1>1. ASSUME NEW doc \in Wallet, LookupsIn(v) = LookupsOf(doc, v), d \in Members(doc)
      PROVE  \E l \in lookups : l.copayer = d
  <2> DEFINE l == [copayer |-> d, wallet |-> v, keys |-> doc.keys[d]]
  <2>1. l \in LookupsOf(doc, v) /\ l.copayer = d
    BY <1>1 DEF LookupsOf
  <2>2. LookupsOf(doc, v) \subseteq lookups
    BY <1>1 DEF LookupsIn
  <2> HIDE DEF l
  <2>3. QED
    BY <2>1, <2>2
<1>2. ASSUME \A s \in Requests : HalfDone(s) => req[s].wallet # v
      PROVE  \E doc \in Wallet : LookupsIn(v) = LookupsOf(doc, v) /\ d \in Members(doc)
  <2>1. LookupsIn(v) = ByTheWallet(v)
    BY <1>2 DEF LookupsFit
  <2>2. ASSUME NEW t \in Requests, Joining(t, d, v)
        PROVE  FALSE
    BY <1>2, <2>2 DEF Joining, Unlisted, HalfDone
  <2>3. d \in Members(wallets[v])
    BY <2>2, BelongsBy
  <2>4. wallets[v] # None /\ wallets[v] \in Wallet
    BY <1>0, <2>3 DEF Members, TypeOK
  <2>5. QED
    BY <2>1, <2>3, <2>4 DEF ByTheWallet
<1>3. ASSUME NEW s \in Requests, HalfDone(s), req[s].wallet = v
      PROVE  \E doc \in Wallet : LookupsIn(v) = LookupsOf(doc, v) /\ d \in Members(doc)
  <2>1. HalfFits(s) /\ Step(s) /\ Fits(s)
    BY DEF LookupsFit
  <2>2. req[s].at # "insert" /\ req[s].left # {"wallet"}
    BY <1>3 DEF Unlisted
  <2>3. ASSUME NEW t \in Requests, Joining(t, d, v)
        PROVE  t = s /\ req[s].op = "join" /\ req[s].copayer = d /\ req[s].at # "remove"
    <3>1. AtWork(t) /\ req[t].op = "join"
      BY <2>3, NoneAssumption DEF Joining, AtWork, Step
    <3>2. t = s
      BY <1>0, <1>3, <2>3, <3>1, HalfDoneExcludes DEF Joining
    <3>3. QED
      BY <2>3, <3>2 DEF Joining
  <2>4. CASE req[s].at = "store"
    <3>1. LookupsIn(v) = LookupsOf(req[s].doc, v) /\ req[s].doc \in Wallet
      BY <1>3, <2>1, <2>4 DEF HalfFits, Step
    <3>2. req[s].op \in {"join", "access"}
      BY <1>3, <2>1, <2>4 DEF HalfDone, Step
    <3>3. CASE req[s].op = "join"
      <4>1. /\ wallets[v] \in Wallet /\ req[s].copayer \in Copayers
            /\ req[s].doc = Added(wallets[v], req[s].copayer)
        BY <1>0, <1>3, <2>1, <2>4, <3>3 DEF Fits, JoinsFit, MayJoin, TypeOK, Step
      <4>2. Members(req[s].doc) = Members(wallets[v]) \cup {req[s].copayer}
        BY <4>1, AddedType
      <4>3. d \in Members(req[s].doc)
        BY <2>3, <4>2, BelongsBy
      <4>4. QED
        BY <3>1, <4>3
    <3>4. CASE req[s].op = "access"
      <4>1. d \in Members(wallets[v])
        BY <2>3, <3>4, BelongsBy
      <4>2. wallets[v] # None
        BY <4>1 DEF Members
      <4>3. wallets[v].copayers = req[s].doc.copayers
        BY <1>0, <1>3, <2>1, <2>4, <3>4, <4>2 DEF Fits, AccessFits
      <4>4. d \in Members(req[s].doc)
        BY <3>1, <4>1, <4>2, <4>3, NoneAssumption DEF Members
      <4>5. QED
        BY <3>1, <4>4
    <3>5. QED
      BY <3>2, <3>3, <3>4
  <2>5. CASE req[s].at = "remove"
    <3>1. req[s].left = {"lookups"}
      <4>1. req[s].left \in SUBSET {"wallet", "lookups"}
        BY DEF TypeOK, Request
      <4>2. req[s].left # {} /\ req[s].left # {"wallet", "lookups"}
        BY <1>3, <2>1, <2>5 DEF HalfDone, Step
      <4>3. QED
        BY <2>2, <4>1, <4>2
    <3>2. Members(wallets[v]) = {}
      BY <1>3, <2>1, <3>1 DEF HalfFits
    <3>3. QED
      BY <2>3, <2>5, <3>2, BelongsBy
  <2>6. QED
    BY <1>3, <2>2, <2>4, <2>5 DEF HalfDone
<1>4. QED
  BY <1>1, <1>2, <1>3

LEMMA NextHeld ==
  ASSUME TypeOK, \A r \in Requests : Step(r) /\ Owns(r) /\ Fits(r),
         \A r, s \in Requests : Together(r, s), LookupsFit, HeldOnce, [Next]_vars
  PROVE  HeldOnce'
<1>0. Grown
  BY HistoryGrows
<1>B. ASSUME NEW c, NEW w
      PROVE  Belongs(c, w)' <=> \/ c \in Members(wallets'[w])
                                \/ \E s \in Requests : Joining(s, c, w)'
  BY DEF Belongs, Joining, Members
<1>1. ASSUME NEW r \in Requests, \A s \in Requests \ {r} : req'[s] = req[s],
             \A v \in Wallets : Members(wallets'[v]) \subseteq Members(wallets[v]),
             \A c \in Copayers, v \in Wallets : Joining(r, c, v)' => Joining(r, c, v)
      PROVE  HeldOnce'
  <2>1. ASSUME NEW v \in Wallets, NEW c \in Copayers, Belongs(c, v)'
        PROVE  Belongs(c, v)
    <3>1. ASSUME NEW s \in Requests, Joining(s, c, v)'
          PROVE  Joining(s, c, v)
      BY <1>1, <3>1 DEF Joining
    <3>2. QED
      BY <1>1, <1>B, <2>1, <3>1, BelongsBy
  <2>2. QED
    BY <1>0, <2>1, NobodyNew
<1>2. ASSUME NEW r \in Requests, Begins(r)
      PROVE  HeldOnce'
  BY <1>1, <1>2 DEF Begins, Became, Joining
<1>3. ASSUME NEW r \in Requests, Ends(r)
      PROVE  HeldOnce'
  BY <1>1, <1>3, IdleType DEF Ends, Became, Joining
<1>4. ASSUME NEW r \in Requests, NEW w \in Wallets, StartCreate(r, w)
      PROVE  HeldOnce'
  <2>1. PICK q \in Request : Became(r, q) /\ q.op = "create"
    BY <1>4, StartCreateDoes
  <2>2. wallets' = wallets
    BY <1>4 DEF StartCreate
  <2>3. QED
    BY <1>1, <2>1, <2>2 DEF Became, Joining
<1>5. ASSUME NEW r \in Requests, FetchToJoin(r) \/ FetchToAdd(r) \/ LockToRemove(r)
      PROVE  HeldOnce'
  <2>1. wallets' = wallets
    BY <1>5 DEF FetchToJoin, FetchToAdd, FetchThenAdd, LockToRemove
  <2>2. /\ \A s \in Requests \ {r} : req'[s] = req[s]
        /\ req'[r].op # "join" \/ req'[r].at = "lookup"
    BY <1>5, FetchToJoinDoes, FetchToAddDoes, LockToRemoveDoes DEF Moved
  <2>3. QED
    BY <1>1, <2>1, <2>2 DEF Joining
<1>6. ASSUME NEW r \in Requests, DeleteLookups(r) \/ InsertLookups(r)
      PROVE  HeldOnce'
  <2>1. wallets' = wallets
    BY <1>6 DEF DeleteLookups, InsertLookups, Insert
  <2>2. /\ \A s \in Requests \ {r} : req'[s] = req[s]
        /\ req[r].at \in {"delete", "insert"}
        /\ req'[r].op = req[r].op /\ req'[r].wallet = req[r].wallet
        /\ req'[r].copayer = req[r].copayer
    BY <1>6, DeleteLookupsDoes, InsertLookupsDoes DEF Moved
  <2>3. QED
    BY <1>1, <2>1, <2>2 DEF Joining
<1>7. ASSUME NEW r \in Requests, NEW part \in {"wallet", "lookups"},
             RemovePart(r, part)
      PROVE  HeldOnce'
  <2>1. /\ \A s \in Requests \ {r} : req'[s] = req[s]
        /\ req'[r].op # "join"
    BY <1>7, IdleType, RemovePartDoes DEF Moved, Became
  <2>2. \A v \in Wallets : wallets'[v] = wallets[v] \/ wallets'[v] = None
    BY <1>7 DEF RemovePart, TypeOK
  <2>3. \A v \in Wallets : Members(wallets'[v]) \subseteq Members(wallets[v])
    BY <2>2 DEF Members
  <2>4. QED
    BY <1>1, <2>1, <2>3 DEF Joining
<1>8. ASSUME NEW r \in Requests, StoreWallet(r)
      PROVE  HeldOnce'
  <2>0. PICK u \in Wallets : u = req[r].wallet
    BY <1>8, StoreWalletDoes
  <2>1. /\ req[r].at = "store" /\ req[r].op \in {"create", "join", "access"}
        /\ req[r].doc \in Wallet /\ Became(r, Idle)
        /\ wallets' = [wallets EXCEPT ![u] = req[r].doc]
    BY <1>8, <2>0, StoreWalletDoes
  <2>2. \A v \in Wallets : wallets'[v] = IF v = u THEN req[r].doc ELSE wallets[v]
    BY <2>1 DEF TypeOK
  <2>3. ASSUME NEW v \in Wallets, NEW c \in Copayers, NEW s \in Requests,
               Joining(s, c, v)'
        PROVE  Joining(s, c, v)
    BY <2>1, <2>3, IdleType DEF Became, Joining
  <2>4. ASSUME u \notin recreated' \cup robbed', NEW c \in Members(req[r].doc)
        PROVE  Belongs(c, u)
    <3>0. /\ u \notin recreated \cup robbed
          /\ req[r].op = "create" \/ wallets[u] # None
      BY <1>0, <1>8, <2>0, <2>4 DEF StoreWallet, Grown
    <3>1. CASE req[r].op = "create"
      BY <2>4, <3>1, NewWalletType DEF Step
    <3>2. CASE req[r].op = "join"
      <4>1. /\ wallets[u] \in Wallet /\ req[r].copayer \in Copayers
            /\ req[r].doc = Added(wallets[u], req[r].copayer)
        BY <2>0, <2>1, <3>0, <3>2 DEF Fits, JoinsFit, MayJoin, TypeOK, Step
      <4>2. c \in Members(wallets[u]) \/ c = req[r].copayer
        BY <2>4, <4>1, AddedType
      <4>3. QED
        BY <2>0, <2>1, <3>2, <4>2, BelongsBy DEF Joining
    <3>3. CASE req[r].op = "access"
      <4>1. wallets[u] # None /\ wallets[u].copayers = req[r].doc.copayers
        BY <2>0, <2>1, <3>0, <3>3 DEF Fits, AccessFits
      <4>2. c \in Members(wallets[u])
        BY <2>1, <2>4, <4>1, NoneAssumption DEF Members
      <4>3. QED
        BY <4>2, BelongsBy
    <3>4. QED
      BY <2>1, <3>1, <3>2, <3>3
  <2>5. ASSUME NEW v \in Wallets \ (recreated' \cup robbed'), NEW c \in Copayers,
               Belongs(c, v)'
        PROVE  Belongs(c, v)
    <3>1. c \in Members(wallets'[v]) \/ \E s \in Requests : Joining(s, c, v)'
      BY <1>B, <2>5
    <3>2. CASE \E s \in Requests : Joining(s, c, v)'
      BY <2>3, <3>2, BelongsBy
    <3>3. CASE c \in Members(wallets'[v]) /\ v = u
      BY <2>2, <2>4, <2>5, <3>3
    <3>4. CASE c \in Members(wallets'[v]) /\ v # u
      BY <2>2, <3>4, BelongsBy
    <3>5. QED
      BY <3>1, <3>2, <3>3, <3>4
  <2>6. QED
    BY <1>0, <2>5, NobodyNew
<1>9. ASSUME NEW r \in Requests, LookUpToJoin(r)
      PROVE  HeldOnce'
  <2>0. PICK d \in Copayers, u \in Wallets : d = req[r].copayer /\ u = req[r].wallet
    BY <1>9, LookUpToJoinDoes
  <2>1. /\ \A s \in Requests \ {r} : req'[s] = req[s]
        /\ req'[r].wallet = u /\ req'[r].copayer = d
        /\ ~\E l \in lookups : l.copayer = d
        /\ missed' = IF InDoubt(d) THEN missed \cup {<<d, u>>} ELSE missed
        /\ UNCHANGED <<wallets, shared, interrupted, recreated, robbed>>
    BY <1>9, <2>0, LookUpToJoinDoes DEF LookUpToJoin, LookUpAnd, Moved
  <2>2. ASSUME NEW c \in Copayers, NEW v \in Wallets, Belongs(c, v)'
        PROVE  Belongs(c, v) \/ (c = d /\ v = u)
    <3>1. ASSUME NEW s \in Requests, Joining(s, c, v)'
          PROVE  Joining(s, c, v) \/ (c = d /\ v = u)
      BY <2>1, <3>1 DEF Joining
    <3>2. QED
      BY <1>B, <2>1, <2>2, <3>1, BelongsBy
  <2>3. ASSUME <<d, u>> \notin missed', NEW v \in Wallets \ (recreated \cup robbed),
               Belongs(d, v)
        PROVE  FALSE
    <3>1. ~InDoubt(d)
      BY <2>1, <2>3
    <3>2. v \in Regular
      BY <2>3, <3>1 DEF InDoubt, Regular
    <3>3. \A s \in Requests : req[s].wallet = v => ~Unlisted(s, d)
      BY <2>3, <3>1 DEF InDoubt
    <3>4. QED
      BY <2>1, <2>3, <3>2, <3>3, LookedUp
  <2>4. ASSUME NEW v \in Wallets \ (recreated' \cup robbed'),
               NEW w \in Wallets \ (recreated' \cup robbed'), NEW c \in Copayers,
               Belongs(c, v)', Belongs(c, w)', v # w
        PROVE  <<c, v>> \in missed' \/ <<c, w>> \in missed'
    <3>1. CASE Belongs(c, v) /\ Belongs(c, w)
      BY <1>0, <2>1, <2>4, <3>1 DEF HeldOnce, Grown
    <3>2. CASE c = d /\ v = u
      <4>1. Belongs(d, w)
        BY <2>2, <2>4, <3>2
      <4>2. QED
        BY <2>1, <2>3, <2>4, <3>2, <4>1
    <3>3. CASE c = d /\ w = u
      <4>1. Belongs(d, v)
        BY <2>2, <2>4, <3>3
      <4>2. QED
        BY <2>1, <2>3, <2>4, <3>3, <4>1
    <3>4. QED
      BY <2>2, <2>4, <3>1, <3>2, <3>3
  <2>5. QED
    BY <2>4 DEF HeldOnce
<1>10. CASE Rests
  <2>1. ASSUME NEW v \in Wallets, NEW c \in Copayers, Belongs(c, v)'
        PROVE  Belongs(c, v)
    BY <1>10, <2>1 DEF Rests, Belongs
  <2>2. QED
    BY <1>0, <2>1, NobodyNew
<1>11. QED
  BY Kinds, <1>2, <1>3, <1>4, <1>5, <1>6, <1>7, <1>8, <1>9, <1>10

-----------------------------------------------------------------------------
(* The theorems                                                            *)

LEMMA InitInv == Init => IInv
<1> SUFFICES ASSUME Init
             PROVE  IInv
  OBVIOUS
<1> USE IdleType
<1>1. TypeOK
  BY DEF Init, TypeOK
<1>2. ASSUME NEW r \in Requests
      PROVE  /\ Step(r) /\ Owns(r) /\ Fits(r) /\ AloneFits(r)
             /\ ~HalfDone(r) /\ HalfFits(r) /\ ~AtWork(r)
             /\ req[r].doc = None /\ req[r].at = "idle" /\ req[r].op = "none"
  <2>1. req[r] = Idle
    BY DEF Init
  <2>2. QED
    BY <2>1 DEF Step, Owns, Fits, JoinsFit, AccessFits, AloneFits, HalfDone,
                HalfFits, HasLocked, AtWork
<1>3. WalletsSound
  BY <1>2 DEF Init, WalletsSound
<1>4. \A r, s \in Requests : Together(r, s)
  BY <1>2 DEF Together
<1>5. LookupsFit
  <2>1. \A w \in Wallets : LookupsIn(w) = {} /\ ByTheWallet(w) = {}
    BY DEF Init, LookupsIn, ByTheWallet
  <2>2. Regular \subseteq Wallets
    BY DEF Regular
  <2>3. QED
    BY <1>2, <2>1, <2>2 DEF LookupsFit
<1>6. GrantsFit /\ KeysKept
  BY DEF Init, GrantsFit, KeysKept
<1>7. HeldOnce
  BY <1>2 DEF Init, HeldOnce, Belongs, Members
<1>8. QED
  BY <1>1, <1>2, <1>3, <1>4, <1>5, <1>6, <1>7 DEF IInv

LEMMA NextInv == IInv /\ [Next]_vars => IInv'
<1> SUFFICES ASSUME IInv, [Next]_vars
             PROVE  IInv'
  OBVIOUS
<1>1. TypeOK' /\ \A r \in Requests : Step(r)' /\ Owns(r)' /\ Fits(r)' /\ AloneFits(r)'
  BY NextType, NextStep, NextOwns, NextFits, NextAlone DEF IInv
<1>2. (\A r, s \in Requests : Together(r, s)') /\ WalletsSound' /\ LookupsFit'
  BY NextTogether, NextSound, NextLookups DEF IInv
<1>3. GrantsFit' /\ KeysKept' /\ HeldOnce'
  BY NextGrants, NextKept, NextHeld DEF IInv
<1>4. QED
  BY <1>1, <1>2, <1>3 DEF IInv

LEMMA Invariant == Spec => []IInv
BY InitInv, NextInv, PTL DEF Spec

\* The types of all variables, whatever requests run beside each other: what a
\* request holds is a wallet at every stage that writes it back.
THEOREM JoinTypeCorrect == Spec => []TypeOK
<1>1. IInv => TypeOK
  BY DEF IInv
<1>2. QED
  BY <1>1, Invariant, PTL

\* The copayers of a sound wallet are as many as its sequence is long.
LEMMA AllDifferent ==
  ASSUME NEW doc \in Wallet, NEW w \in Wallets, Sound(doc, w)
  PROVE  Cardinality(Members(doc)) = Len(doc.copayers)
<1> DEFINE n == Len(doc.copayers)
           f == [i \in 1 .. n |-> doc.copayers[i]]
<1>1. doc.copayers \in Seq(Copayers) /\ n \in Nat /\ doc # None
  BY NoneAssumption DEF Wallet
<1>2. DOMAIN doc.copayers = 1 .. n
  BY <1>1
<1>3. Members(doc) = {doc.copayers[i] : i \in 1 .. n}
  BY <1>1, <1>2 DEF Members
<1>4. f \in Bijection(1 .. n, Members(doc))
  <2>1. f \in [1 .. n -> Members(doc)]
    BY <1>3
  <2>2. \A i, j \in 1 .. n : f[i] = f[j] => i = j
    BY <1>2 DEF Sound
  <2>3. \A c \in Members(doc) : \E i \in 1 .. n : f[i] = c
    BY <1>3
  <2>4. f \in Injection(1 .. n, Members(doc))
    BY <2>1, <2>2 DEF Injection, IsInjective
  <2>5. f \in Surjection(1 .. n, Members(doc))
    BY <2>1, <2>3 DEF Surjection
  <2>6. QED
    BY <2>4, <2>5 DEF Bijection
<1>5. IsFiniteSet(1 .. n) /\ Cardinality(1 .. n) = n
  BY <1>1, FS_Interval
<1>6. ExistsBijection(1 .. n, Members(doc))
  BY <1>4 DEF ExistsBijection
<1>7. QED
  BY <1>5, <1>6, FS_Bijection

\* No wallet has a copayer twice, or more than n of them.  A copayer of two
\* wallets joined one of them by a look-up made while another request was
\* rewriting the look-ups of the other one, or had looked him up to join it,
\* or after an addAccess had shared that one or its writing was interrupted;
\* or one of the two was created twice or lost its lock to a late delete.
THEOREM RegisteredOnceAlways == Spec => []RegisteredOnce
<1>1. IInv => RegisteredOnce
  <2> SUFFICES ASSUME IInv
               PROVE  RegisteredOnce
    OBVIOUS
  <2>1. ASSUME NEW v \in Wallets \ (recreated \cup robbed),
               NEW w \in Wallets \ (recreated \cup robbed),
               NEW c \in Members(wallets[v]) \cap Members(wallets[w])
        PROVE  v = w \/ {<<c, v>>, <<c, w>>} \cap missed # {}
    <3>1. c \in Copayers
      BY MembersType DEF IInv, TypeOK
    <3>2. Belongs(c, v) /\ Belongs(c, w)
      BY DEF Belongs
    <3>3. QED
      BY <3>1, <3>2 DEF IInv, HeldOnce
  <2>2. ASSUME NEW w \in Wallets, wallets[w] # None
        PROVE  /\ Len(wallets[w].copayers) <= Size[w]
               /\ Cardinality(Members(wallets[w])) = Len(wallets[w].copayers)
    <3>1. wallets[w] \in Wallet /\ Sound(wallets[w], w)
      BY <2>2 DEF IInv, TypeOK, WalletsSound
    <3>2. QED
      BY <3>1, AllDifferent DEF Sound
  <2>3. QED
    BY <2>1, <2>2 DEF RegisteredOnce
<1>2. QED
  BY <1>1, Invariant, PTL

\* Whoever is half-way through a wallet writes it.
LEMMA SettledLookups ==
  ASSUME IInv, NEW w \in Wallets, Settled(w)
  PROVE  LookupsIn(w) = ByTheWallet(w)
<1>1. ASSUME NEW r \in Requests, HalfDone(r), req[r].wallet = w
      PROVE  FALSE
  <2>1. r \in Writing(w)
    BY <1>1, HalfDoneShape DEF IInv, Writing
  <2>2. QED
    BY <2>1 DEF Settled
<1>2. w \in Regular
  BY DEF Settled, Regular
<1>3. QED
  BY <1>1, <1>2 DEF IInv, LookupsFit

\* When nobody writes a wallet, its look-ups are its copayers with their keys:
\* in every wallet that no addAccess has shared, whose writing was never
\* interrupted, that was not created twice and not robbed of its lock.
THEOREM LookupsMatchAlways == Spec => []LookupsMatch
<1>1. IInv => LookupsMatch
  BY SettledLookups DEF LookupsMatch, LookupsIn, ByTheWallet
<1>2. QED
  BY <1>1, Invariant, PTL

\* A key that an addAccess has answered, alone at work on its wallet, is in the
\* look-ups of its copayer until the wallet is removed, in every wallet and
\* whatever runs together later, but for the time between a delete of the
\* look-ups and their insertion, which a failure in between makes endless.
THEOREM KeysKeptAlways == Spec => []KeysKept
<1>1. IInv => KeysKept
  BY DEF IInv
<1>2. QED
  BY <1>1, Invariant, PTL

\* Nobody drops out of a wallet but by its removal, or when it is created a
\* second time, or when a late delete has taken its lock from its owner.
THEOREM CopayersStayAlways == Spec => CopayersStay
<1>1. ASSUME IInv, [Next]_vars
      PROVE  [\A w \in Wallets \ (recreated' \cup robbed') :
                 wallets'[w] # None =>
                     Members(wallets[w]) \subseteq Members(wallets'[w])]_vars
  <2>0. TypeOK /\ Grown /\ \A r \in Requests : Step(r) /\ Fits(r)
    BY <1>1, HistoryGrows DEF IInv
  <2>1. ASSUME wallets' = wallets
        PROVE  \A w \in Wallets : Members(wallets[w]) \subseteq Members(wallets'[w])
    BY <2>1
  <2>2. ASSUME NEW r \in Requests, StoreWallet(r),
               NEW w \in Wallets \ (recreated' \cup robbed')
        PROVE  Members(wallets[w]) \subseteq Members(wallets'[w])
    <3>1. /\ req[r].op \in {"create", "join", "access"} /\ req[r].at = "store"
          /\ req[r].wallet \in Wallets /\ req[r].doc \in Wallet /\ req[r].doc # None
          /\ wallets' = [wallets EXCEPT ![req[r].wallet] = req[r].doc]
      BY <2>0, <2>2, StoreWalletDoes, NoneAssumption
    <3>2. /\ w \notin recreated \cup robbed
          /\ req[r].wallet = w =>
                (req[r].op = "create" /\ wallets[w] = None)
                \/ (req[r].op # "create" /\ wallets[w] # None)
      BY <2>0, <2>2 DEF StoreWallet, Grown
    <3>3. CASE req[r].wallet # w
      BY <2>0, <3>1, <3>3 DEF TypeOK
    <3>4. CASE req[r].wallet = w /\ wallets[w] = None
      BY <3>4 DEF Members
    <3>5. CASE req[r].wallet = w /\ wallets[w] # None
      <4>1. wallets'[w] = req[r].doc /\ wallets[w] \in Wallet
        BY <2>0, <3>1, <3>5 DEF TypeOK
      <4>2. CASE req[r].op = "join"
        <5>1. req[r].doc = Added(wallets[w], req[r].copayer) /\ req[r].copayer \in Copayers
          BY <2>0, <3>1, <3>2, <3>5, <4>2 DEF Fits, JoinsFit, Step
        <5>2. QED
          BY <4>1, <5>1, AddedType
      <4>3. CASE req[r].op = "access"
        <5>1. wallets[w].copayers = req[r].doc.copayers
          BY <2>0, <3>1, <3>2, <3>5, <4>3 DEF Fits, AccessFits
        <5>2. QED
          BY <3>1, <3>5, <4>1, <5>1 DEF Members
      <4>4. QED
        BY <3>1, <3>2, <3>5, <4>2, <4>3
    <3>6. QED
      BY <3>3, <3>4, <3>5
  <2>3. ASSUME NEW r \in Requests, NEW part \in {"wallet", "lookups"},
               RemovePart(r, part), NEW w \in Wallets, wallets'[w] # None
        PROVE  Members(wallets[w]) \subseteq Members(wallets'[w])
    BY <2>0, <2>3 DEF RemovePart, TypeOK
  <2>4. \/ wallets' = wallets
        \/ \E r \in Requests : StoreWallet(r)
        \/ \E r \in Requests, part \in {"wallet", "lookups"} : RemovePart(r, part)
    BY <1>1, <2>0, Kinds
       DEF Rests, Begins, Ends, StartCreate, FetchToJoin, LookUpToJoin, LookUpAnd,
           FetchToAdd, FetchThenAdd, DeleteLookups, InsertLookups, Insert,
           LockToRemove
  <2>5. QED
    BY <2>1, <2>2, <2>3, <2>4
<1>2. QED
  BY <1>1, Invariant, PTL DEF Spec, CopayersStay

=============================================================================
