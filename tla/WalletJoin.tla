----------------------------- MODULE WalletJoin -----------------------------
(***************************************************************************)
(* How a wallet gets its copayers and their request keys: createWallet,    *)
(* joinWallet, addAccess and removeWallet.                                 *)
(*                                                                         *)
(* The copayers are stored twice, in the wallet document and in            *)
(* copayers_lookup, which tells a request's wallet from its copayer.  A    *)
(* join or a new key deletes the lookups of the wallet, inserts new ones   *)
(* and replaces the wallet.  joinWallet and removeWallet do so under the   *)
(* wallet's lock, createWallet and addAccess do not, and no unique index   *)
(* guards the lookups.                                                     *)
(*                                                                         *)
(* A copayer stands for its extended public key, of which its id is a      *)
(* hash.                                                                   *)
(***************************************************************************)
EXTENDS Integers, Sequences, FiniteSets

CONSTANTS
    Wallets,   \* wallet ids
    Copayers,  \* extended public keys
    Keys,      \* request keys that addAccess adds
    First,     \* the request key a copayer joins with
    Requests,  \* requests in progress at the same time
    Size,      \* Size[w]: n, the number of copayers of the wallet
    MaxKeys,   \* MAX_KEYS
    Free,      \* a lock: nobody has it
    Orphan,    \* a lock: its owner has died
    None       \* no document, no copayer, no key

ASSUME SizeAssumption == Size \in [Wallets -> Nat \ {0}]
ASSUME MaxKeysAssumption == MaxKeys \in Nat

VARIABLES
    wallets,   \* the wallet documents
    lookups,   \* copayers_lookup
    lock,      \* the locks of the wallets
    clearing,  \* wallets whose lock a clearExpiredLock has found expired and
               \* is still to delete
    req,       \* requests in progress
    beside,    \* history: requests in progress that have been at work on
               \* their wallet together with another one
    granted,   \* history: keys answered by an addAccess that was not
    shared,    \* history: wallets that an addAccess has been at work on
               \* together with another request
    interrupted, \* history: wallets whose writing has been interrupted
    recreated, \* history: wallets created twice at the same time, and those
               \* removed or created again under an addAccess
    robbed,    \* history: wallets whose lock a late delete has taken from
               \* the request that held it
    missed     \* history: the wallets copayers have joined after a look-up
               \* that could not tell

troubles == <<shared, interrupted, recreated, robbed, missed>>
history == <<beside, granted, troubles>>
vars == <<wallets, lookups, lock, clearing, req, history>>

AllKeys == Keys \cup {First}

Wallet == [copayers : Seq(Copayers), keys : [Copayers -> SUBSET AllKeys]]
Lookup == [copayer : Copayers, wallet : Wallets, keys : SUBSET AllKeys]

ASSUME NoneAssumption == None \notin Wallet
ASSUME LockAssumption == Free \notin Requests /\ Orphan \notin Requests

Operations == {"create", "join", "access", "remove"}
Stages == {"idle", "lock", "lookup", "fetch", "delete", "insert",
           "store", "remove"}

Request == [op : Operations \cup {"none"}, at : Stages,
            wallet : Wallets \cup {None}, copayer : Copayers \cup {None},
            key : AllKeys \cup {None}, doc : Wallet \cup {None},
            found : SUBSET AllKeys, left : SUBSET {"wallet", "lookups"}]

Idle == [op |-> "none", at |-> "idle", wallet |-> None, copayer |-> None,
         key |-> None, doc |-> None, found |-> {}, left |-> {}]

TypeOK ==
    /\ wallets \in [Wallets -> Wallet \cup {None}]
    /\ lookups \in SUBSET Lookup
    /\ lock \in [Wallets -> Requests \cup {Free, Orphan}]
    /\ req \in [Requests -> Request]
    /\ clearing \in SUBSET Wallets
    /\ beside \in SUBSET Requests
    /\ granted \in SUBSET (Wallets \X Copayers \X Keys)
    /\ shared \in SUBSET Wallets /\ interrupted \in SUBSET Wallets
    /\ recreated \in SUBSET Wallets /\ robbed \in SUBSET Wallets
    /\ missed \in SUBSET (Copayers \X Wallets)

NewWallet == [copayers |-> <<>>, keys |-> [c \in Copayers |-> {}]]

Init ==
    /\ wallets = [w \in Wallets |-> None]
    /\ lookups = {}
    /\ lock = [w \in Wallets |-> Free]
    /\ clearing = {}
    /\ req = [r \in Requests |-> Idle]
    /\ beside = {}
    /\ granted = {}
    /\ shared = {}
    /\ interrupted = {}
    /\ recreated = {}
    /\ robbed = {}
    /\ missed = {}

-----------------------------------------------------------------------------
(* Helpers                                                                 *)

Members(doc) == IF doc = None THEN {} ELSE {doc.copayers[i] : i \in DOMAIN doc.copayers}

At(r, op, at) == req[r].op = op /\ req[r].at = at

\* Deleting, inserting, storing, removing: not all of it has been done.
Writing(w) == {r \in Requests :
                  /\ req[r].wallet = w /\ req[r].op # "create"
                  /\ req[r].at \in {"insert", "store"} \/ req[r].left # {}}

\* It has read the wallet in order to write it, or is removing it.
AtWork(r) == req[r].doc # None \/ req[r].left # {}

\* r takes up its work on w: who is at it already?
TakeUp(r, w, op) ==
    LET others == {s \in Requests \ {r} : AtWork(s) /\ req[s].wallet = w}
    IN  /\ beside' = IF others = {} THEN beside ELSE beside \cup others \cup {r}
        /\ shared' = IF \E s \in others : "access" \in {op, req[s].op}
                     THEN shared \cup {w} ELSE shared

Begin(r, q) == req[r] = Idle /\ req' = [req EXCEPT ![r] = q]

HasLocked(r) == req[r].op \in {"join", "remove"} /\ req[r].at # "lock"

\* A task releases its lock: by key, whoever the owner is.
End(r) ==
    /\ req' = [req EXCEPT ![r] = Idle]
    /\ lock' = IF HasLocked(r) THEN [lock EXCEPT ![req[r].wallet] = Free] ELSE lock
    /\ beside' = beside \ {r}

\* runLocked
Lock(r) ==
    /\ req[r].at = "lock"
    /\ lock[req[r].wallet] = Free
    /\ lock' = [lock EXCEPT ![req[r].wallet] = r]

-----------------------------------------------------------------------------
(* createWallet                                                            *)

\* WALLET_ALREADY_EXISTS ends a request whose id is in use.
StartCreate(r, w) ==
    /\ wallets[w] = None
    /\ Begin(r, [Idle EXCEPT !.op = "create", !.at = "store", !.wallet = w,
                             !.doc = NewWallet])
    /\ TakeUp(r, w, "create")
    /\ UNCHANGED <<wallets, lookups, lock, clearing, granted, interrupted,
                   recreated, robbed, missed>>

-----------------------------------------------------------------------------
(* joinWallet                                                              *)

StartJoin(r, w, c) ==
    /\ Begin(r, [Idle EXCEPT !.op = "join", !.at = "lock", !.wallet = w,
                             !.copayer = c, !.key = First])
    /\ UNCHANGED <<wallets, lookups, lock, clearing, history>>

MayJoin(doc, w, c) ==
    /\ doc # None
    /\ c \notin Members(doc)
    /\ Len(doc.copayers) # Size[w]

\* Mutant: the wallet is read before the lock.
FetchUnlocked(r) ==
    /\ At(r, "join", "lock")
    /\ MayJoin(wallets[req[r].wallet], req[r].wallet, req[r].copayer)
    /\ req' = [req EXCEPT ![r].at = "lookup", ![r].doc = wallets[req[r].wallet]]
    /\ TakeUp(r, req[r].wallet, "join")
    /\ UNCHANGED <<wallets, lookups, lock, clearing, granted, interrupted,
                   recreated, robbed, missed>>

\* The wallet is read under its lock; WALLET_NOT_FOUND, COPAYER_IN_WALLET and
\* WALLET_FULL end the request.
FetchToJoin(r) ==
    LET doc == wallets[req[r].wallet]
    IN  /\ req[r].op = "join"
        /\ Lock(r)
        /\ MayJoin(doc, req[r].wallet, req[r].copayer)
        /\ req' = [req EXCEPT ![r].at = "lookup", ![r].doc = doc]
        /\ TakeUp(r, req[r].wallet, "join")
        /\ UNCHANGED <<wallets, lookups, clearing, granted, interrupted,
                       recreated, robbed, missed>>

Added(doc, c) == [copayers |-> Append(doc.copayers, c),
                  keys |-> [doc.keys EXCEPT ![c] = {First}]]

\* c is a copayer of the wallet, or has been looked up to become one.
Belongs(c, w) ==
    \/ c \in Members(wallets[w])
    \/ \E s \in Requests :
          /\ req[s].op = "join" /\ req[s].at \in {"delete", "insert", "store"}
          /\ req[s].wallet = w /\ req[s].copayer = c

\* Between two steps of s the lookup of c in its wallet is not there yet, or
\* not there any more.
Unlisted(s, c) ==
    \/ req[s].op = "join" /\ req[s].at = "delete" /\ req[s].copayer = c
    \/ req[s].at = "insert"
    \/ req[s].left = {"wallet"}

\* No lookup of c does not mean that c belongs to no wallet.
InDoubt(c) ==
    \E w \in Wallets :
        /\ Belongs(c, w)
        /\ \/ w \in shared \cup interrupted
           \/ \E s \in Requests : req[s].wallet = w /\ Unlisted(s, c)

LookUpAnd(r, registered) ==
    LET c == req[r].copayer
    IN  /\ At(r, "join", "lookup")
        /\ ~registered
        /\ req' = [req EXCEPT ![r].at = "delete", ![r].doc = Added(@, c)]
        /\ missed' = IF InDoubt(c) THEN missed \cup {<<c, req[r].wallet>>} ELSE missed
        /\ UNCHANGED <<wallets, lookups, lock, clearing, beside, granted, shared,
                       interrupted, recreated, robbed>>

\* Mutant: COPAYER_REGISTERED is not looked at.
LookUpForNothing(r) == LookUpAnd(r, FALSE)

\* _addCopayerToWallet: a copayer belongs to one wallet, COPAYER_REGISTERED.
\* wallet.addCopayer in memory: with the last one the wallet is complete.
LookUpToJoin(r) ==
    LookUpAnd(r, \E l \in lookups : l.copayer = req[r].copayer)

-----------------------------------------------------------------------------
(* addAccess                                                               *)

\* The copayer's lookup tells the wallet, NOT_AUTHORIZED without one.
StartAccess(r, k) ==
    /\ \E l \in lookups :
          Begin(r, [Idle EXCEPT !.op = "access", !.at = "fetch", !.key = k,
                                !.wallet = l.wallet, !.copayer = l.copayer,
                                !.found = l.keys])
    /\ UNCHANGED <<wallets, lookups, lock, clearing, history>>

\* TOO_MANY_KEYS otherwise.  The keys counted are those of the lookup.
Room(r) == Cardinality(req[r].found) <= MaxKeys

FetchThenAdd(r, keys) ==
    LET doc == wallets[req[r].wallet]
        c == req[r].copayer
    IN  /\ At(r, "access", "fetch")
        /\ c \in Members(doc)
        /\ Room(r)
        /\ Len(doc.copayers) = Size[req[r].wallet]
        /\ req' = [req EXCEPT ![r].at = "delete", ![r].doc =
                      [doc EXCEPT !.keys[c] = keys]]
        /\ TakeUp(r, req[r].wallet, "access")
        /\ UNCHANGED <<wallets, lookups, lock, clearing, granted, interrupted,
                       recreated, robbed, missed>>

\* Mutant: the new key replaces the others.
FetchToReplace(r) == FetchThenAdd(r, {req[r].key})

\* addCopayerRequestKey adds one to the keys of the wallet.
FetchToAdd(r) ==
    FetchThenAdd(r, wallets[req[r].wallet].keys[req[r].copayer] \cup {req[r].key})

\* NOT_AUTHORIZED and TOO_MANY_KEYS answer, a wallet without the copayer or an
\* incomplete one throws.
RefuseAccess(r) ==
    LET doc == wallets[req[r].wallet]
    IN  /\ At(r, "access", "fetch")
        /\ req[r].copayer \in Members(doc) /\ Room(r)
               => Len(doc.copayers) # Size[req[r].wallet]
        /\ End(r)
        /\ UNCHANGED <<wallets, lookups, clearing, granted, troubles>>

-----------------------------------------------------------------------------
(* storeWalletAndUpdateCopayersLookup                                      *)

LookupsOf(doc, w) ==
    {[copayer |-> c, wallet |-> w, keys |-> doc.keys[c]] : c \in Members(doc)}

WithoutLookups(w) == {l \in lookups : l.wallet # w}

DeleteLookups(r) ==
    /\ req[r].at = "delete"
    /\ lookups' = WithoutLookups(req[r].wallet)
    /\ req' = [req EXCEPT ![r].at = "insert"]
    /\ UNCHANGED <<wallets, lock, clearing, history>>

Insert(r, new) ==
    /\ req[r].at = "insert"
    /\ lookups' = lookups \cup new
    /\ req' = [req EXCEPT ![r].at = "store"]
    /\ UNCHANGED <<wallets, lock, clearing, history>>

\* Mutant: only the lookup of the request's copayer is written again.
InsertOwn(r) ==
    Insert(r, {l \in LookupsOf(req[r].doc, req[r].wallet) : l.copayer = req[r].copayer})

InsertLookups(r) == Insert(r, LookupsOf(req[r].doc, req[r].wallet))

\* storeWallet replaces the document, or inserts it if there is none any more,
\* and the request answers.
StoreWallet(r) ==
    LET q == req[r]
    IN  /\ q.at = "store"
        /\ wallets' = [wallets EXCEPT ![q.wallet] = q.doc]
        /\ granted' = IF q.op = "access" /\ r \notin beside
                      THEN granted \cup {<<q.wallet, q.copayer, q.key>>} ELSE granted
        /\ recreated' = IF \/ (q.op = "create") # (wallets[q.wallet] = None)
                           \/ q.op = "create" /\ \E s \in Requests \ {r} :
                                 req[s].wallet = q.wallet /\ req[s].op = "access"
                        THEN recreated \cup {q.wallet} ELSE recreated
        /\ End(r)
        /\ UNCHANGED <<lookups, clearing, shared, interrupted, robbed, missed>>

-----------------------------------------------------------------------------
(* removeWallet                                                            *)

StartRemove(r, w) ==
    /\ wallets[w] # None
    /\ Begin(r, [Idle EXCEPT !.op = "remove", !.at = "lock", !.wallet = w])
    /\ UNCHANGED <<wallets, lookups, lock, clearing, history>>

LockToRemove(r) ==
    /\ req[r].op = "remove"
    /\ Lock(r)
    /\ req' = [req EXCEPT ![r].at = "remove", ![r].left = {"wallet", "lookups"}]
    /\ TakeUp(r, req[r].wallet, "remove")
    /\ UNCHANGED <<wallets, lookups, clearing, granted, interrupted,
                   recreated, robbed, missed>>

\* The wallet and what belongs to it are deleted side by side.
RemovePart(r, part) ==
    LET w == req[r].wallet
    IN  /\ At(r, "remove", "remove")
        /\ part \in req[r].left
        /\ wallets' = IF part = "wallet" THEN [wallets EXCEPT ![w] = None] ELSE wallets
        /\ lookups' = IF part = "lookups" THEN WithoutLookups(w) ELSE lookups
        /\ granted' = {g \in granted : g[1] # w}
        /\ IF req[r].left = {part} THEN End(r)
           ELSE /\ req' = [req EXCEPT ![r].left = @ \ {part}]
                /\ UNCHANGED <<lock, beside>>
        /\ UNCHANGED <<clearing, troubles>>

-----------------------------------------------------------------------------
(* Failures                                                                *)

Interrupt(r) ==
    interrupted' = IF r \in Writing(req[r].wallet)
                   THEN interrupted \cup {req[r].wallet} ELSE interrupted

\* A refusal of joinWallet, LOCKED, or an error of the database.
RequestFails(r) ==
    /\ req[r] # Idle
    /\ End(r)
    /\ Interrupt(r)
    /\ UNCHANGED <<wallets, lookups, clearing, granted, shared, recreated,
                   robbed, missed>>

\* The server process dies; its lock stays until it expires.
Crash(r) ==
    /\ req[r] # Idle
    /\ req' = [req EXCEPT ![r] = Idle]
    /\ lock' = [w \in Wallets |-> IF lock[w] = r THEN Orphan ELSE lock[w]]
    /\ beside' = beside \ {r}
    /\ Interrupt(r)
    /\ UNCHANGED <<wallets, lookups, clearing, granted, shared, recreated,
                   robbed, missed>>

\* clearExpiredLock: its findOne.  Tasks are taken to end before their lock
\* expires; module WalletLock says what happens when they do not.
FindExpiredLock(w) ==
    /\ lock[w] = Orphan
    /\ clearing' = clearing \cup {w}
    /\ UNCHANGED <<wallets, lookups, lock, req, history>>

\* Its releaseLock, later: by key, whoever the owner is.  It may have been
\* called more than once.
DeleteExpiredLock(w) ==
    /\ w \in clearing
    /\ lock' = [lock EXCEPT ![w] = Free]
    /\ clearing' \in {clearing, clearing \ {w}}
    /\ robbed' = IF lock[w] \in Requests THEN robbed \cup {w} ELSE robbed
    /\ UNCHANGED <<wallets, lookups, req, beside, granted, shared, interrupted,
                   recreated, missed>>

-----------------------------------------------------------------------------

Start(r) ==
    \E w \in Wallets :
        \/ StartCreate(r, w)
        \/ \E c \in Copayers : StartJoin(r, w, c)
        \/ StartRemove(r, w)

\* Bound: a key that is in use is not added again.
Unused(k) ==
    /\ \A r \in Requests : req[r].key # k
    /\ \A l \in lookups : k \notin l.keys
    /\ \A w \in Wallets : wallets[w] # None =>
          \A c \in Copayers : k \notin wallets[w].keys[c]

Proceed(r) ==
    \/ FetchToJoin(r) \/ LookUpToJoin(r)
    \/ \E k \in Keys : Unused(k) /\ StartAccess(r, k)
    \/ FetchToAdd(r) \/ RefuseAccess(r)
    \/ DeleteLookups(r) \/ InsertLookups(r) \/ StoreWallet(r)
    \/ LockToRemove(r) \/ \E part \in {"wallet", "lookups"} : RemovePart(r, part)
    \/ RequestFails(r) \/ Crash(r)

Next ==
    \/ \E r \in Requests : Start(r) \/ Proceed(r)
    \/ \E w \in Wallets : FindExpiredLock(w) \/ DeleteExpiredLock(w)

Spec == Init /\ [][Next]_vars

-----------------------------------------------------------------------------
(* Properties                                                              *)

Settled(w) == /\ w \notin shared \cup interrupted \cup recreated \cup robbed
              /\ Writing(w) = {}

\* A copayer belongs to one wallet, and once, and no wallet has more than n of
\* them.  The joins of two wallets hold two locks, so COPAYER_REGISTERED does
\* not exclude that one is looked up before the other has inserted its lookup.
\* The claim is that nothing but a look-up that could not tell registers a
\* copayer again: that one, one while somebody rewrites the lookups of his
\* wallet, and one after an addAccess has shared that wallet or its writing
\* was interrupted.  Recreated and robbed wallets are excepted.
RegisteredOnce ==
    /\ \A w1, w2 \in Wallets \ (recreated \cup robbed) :
          \A c \in Members(wallets[w1]) \cap Members(wallets[w2]) :
              w1 = w2 \/ {<<c, w1>>, <<c, w2>>} \cap missed # {}
    /\ \A w \in Wallets :
          wallets[w] # None =>
              /\ Len(wallets[w].copayers) <= Size[w]
              /\ Cardinality(Members(wallets[w])) = Len(wallets[w].copayers)

\* When nobody writes a wallet its lookups are its copayers with their keys, so
\* that requests are authorized by what the wallet says: unless an addAccess
\* was at work together with somebody else, a write was interrupted, the
\* wallet was created again, or a late delete took its lock from the owner.
LookupsMatch ==
    \A w \in Wallets :
        Settled(w) => {l \in lookups : l.wallet = w} =
                      IF wallets[w] = None THEN {} ELSE LookupsOf(wallets[w], w)

\* A key that addAccess has answered, alone at work on its wallet, is valid
\* until the wallet is removed: whatever runs together after it, other
\* addAccess calls that lose each other's keys included, and whoever's lock is
\* deleted.  The lookups of the copayer have it, but for the time in which
\* somebody has deleted them and is still to insert the new ones, and for the
\* time after that was interrupted.
KeysKept ==
    \A w \in Wallets, c \in Copayers, k \in Keys :
        LET own == {l \in lookups : l.wallet = w /\ l.copayer = c}
        IN  <<w, c, k>> \in granted =>
                /\ \A l \in own : k \in l.keys
                /\ \/ own # {}
                   \/ w \in interrupted
                   \/ \E r \in Requests : req[r].wallet = w /\ req[r].at = "insert"

\* Nobody drops out of a wallet, not even when an addAccess writes the wallet
\* it has read before: only by its removal, unless it was created again or a
\* late delete of its lock let two joins run together.
CopayersStay ==
    [][\A w \in Wallets \ (recreated' \cup robbed') :
          wallets'[w] # None => Members(wallets[w]) \subseteq Members(wallets'[w])]_vars

=============================================================================
