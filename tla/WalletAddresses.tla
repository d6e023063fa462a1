-------------------------- MODULE WalletAddresses --------------------------
(***************************************************************************)
(* The addresses of one complete wallet of a UTXO coin: createAddress, the *)
(* change address of createTx, scan, the registration with the explorer    *)
(* that getBalance and getTxHistory start.  All of them replace the whole  *)
(* wallet document (storeWallet), and only the first two read it under the *)
(* wallet's lock.                                                          *)
(*                                                                         *)
(* An address is its branch and its index: the keys of a wallet derive     *)
(* one address for each path.                                              *)
(***************************************************************************)
EXTENDS Integers, FiniteSets

CONSTANTS
    Requests,  \* requests in progress at the same time
    Gap,       \* MAX_MAIN_ADDRESS_GAP
    ScanGap,   \* SCAN_ADDRESS_GAP
    FirstSteps,\* the steps a scan may start with, 1000 or 1
    Factor,    \* by how much the next step is smaller, 10
    Used,      \* indices that an earlier wallet of the same keys may have used
    MaxIndex,  \* bound: addresses of each branch
    Free,      \* the lock: nobody has it
    Orphan,    \* the lock: its owner has died
    None       \* no document, no address

Branches == {"main", "change"}

ASSUME GapAssumption == Gap \in Nat \ {0} /\ ScanGap \in Nat \ {0}
ASSUME StepAssumption == FirstSteps \subseteq Nat \ {0} /\ Factor \in Nat \ {0, 1}
ASSUME BoundAssumption == MaxIndex \in [Branches -> Nat]
ASSUME RequestsAssumption == IsFiniteSet(Requests)

VARIABLES
    wallet,    \* the wallet document
    stored,    \* stored[b]: indices of the addresses stored
    active,    \* active[b]: indices of the addresses that have been paid
    lock,      \* the wallet's lock
    clearing,  \* a clearExpiredLock has found it expired, and is to delete it
    req,       \* requests in progress
    given,     \* history: main addresses that createAddress has answered
    repeated,  \* history: it has answered an address a second time
    overwritten, \* history: a storeWallet has replaced indices that its
                 \* request had not seen
    cut        \* history: an insert has stopped at a duplicate, before an
               \* address that was not stored yet

history == <<given, repeated, cut>>
vars == <<wallet, stored, active, lock, clearing, req, overwritten, history>>

Indices == UNION {0 .. MaxIndex[b] - 1 : b \in Branches}

\* The next index of each branch, whether the explorer knows the wallet, and
\* whether scanStatus is 'error'.
Index == [Branches -> Indices \cup {i + 1 : i \in Indices} \cup {0}]
Wallet == [index : Index, registered : BOOLEAN, scanFailed : BOOLEAN]

Stages == {"idle", "gap", "activity", "deregister", "read", "lock", "insert",
           "write", "sync", "start", "branch", "status", "storeStatus"}

\* What a request waits for and holds in memory: the wallet to be written and
\* the indices it was made from, a second one to set the scan's status, the
\* addresses to be inserted, the answer, the addresses to be looked up, the step
\* a scan is in.
Request == [op : {"none", "address", "change", "scan", "sync"}, at : Stages,
            branch : Branches, doc : Wallet \cup {None},
            seen : Index \cup {None}, status : Wallet \cup {None},
            batch : SUBSET Indices, addr : Indices \cup {None},
            list : SUBSET Indices, step : Nat \ {0},
            resynced : BOOLEAN, failed : BOOLEAN]

Idle == [op |-> "none", at |-> "idle", branch |-> "main", doc |-> None,
         seen |-> None, status |-> None, batch |-> {}, addr |-> None,
         list |-> {}, step |-> 1, resynced |-> FALSE, failed |-> FALSE]

Types ==
    /\ wallet \in Wallet
    /\ stored \in [Branches -> SUBSET Indices]
    /\ active \in [Branches -> SUBSET Indices]
    /\ lock \in Requests \cup {Free, Orphan}
    /\ req \in [Requests -> Request]
    /\ given \in SUBSET Indices
    /\ repeated \in BOOLEAN
    /\ overwritten \in BOOLEAN
    /\ cut \in BOOLEAN

TypeOK == Types /\ clearing \in BOOLEAN

\* A wallet that has just become complete.  Some of its addresses may have
\* been used before, by a wallet of the same keys.
Init ==
    /\ wallet = [index |-> [b \in Branches |-> 0], registered |-> FALSE,
                 scanFailed |-> FALSE]
    /\ stored = [b \in Branches |-> {}]
    /\ active \in [Branches -> SUBSET Used]
    /\ \A b \in Branches : active[b] \subseteq 0 .. MaxIndex[b] - 1
    /\ lock = Free
    /\ clearing = FALSE
    /\ req = [r \in Requests |-> Idle]
    /\ given = {}
    /\ repeated = FALSE
    /\ overwritten = FALSE
    /\ cut = FALSE

-----------------------------------------------------------------------------
(* Helpers                                                                 *)

At(r, ops, at) == req[r].op \in ops /\ req[r].at = at

Begin(r, q) ==
    /\ req[r] = Idle
    /\ req' = [req EXCEPT ![r] = q]

\* Whether the task of runLocked has begun.
Locked(r) ==
    /\ req[r].op \in {"address", "change", "scan"}
    /\ req[r].at \notin {"gap", "activity", "deregister", "read", "lock"}

\* A task releases the lock by its key, whoever has it by now.
End(r) ==
    /\ req' = [req EXCEPT ![r] = Idle]
    /\ lock' = IF Locked(r) THEN Free ELSE lock

\* storeWallet: the whole document is replaced.
StoreWallet(doc, seen) ==
    /\ wallet' = doc
    /\ overwritten' = (overwritten \/ wallet.index # seen)

\* The addresses that createAddress looks at before it adds one.
Latest == {i \in stored["main"] :
              Cardinality({j \in stored["main"] : j > i}) < Gap}

\* A step of a scan looks at every step-th address, and gives up after so many
\* unused ones.
Patience(step) == IF step > 1 /\ ScanGap > 3 THEN 3 ELSE ScanGap

\* How many addresses it looks at up to the last one in use.
Rounds(b, from, step) ==
    LET inUse(n) == from + n * step - 1 \in active[b]
        next(n) == n + 1 .. n + Patience(step)
    IN  CHOOSE k \in 0 .. MaxIndex[b] :
            /\ \A n \in next(k) : ~inUse(n)
            /\ \A m \in 0 .. k - 1 : \E n \in next(m) : inUse(n)

ScanEnd(b, from, step) == from + Rounds(b, from, step) * step

-----------------------------------------------------------------------------
(* createAddress and the change address of createTx                        *)

StartAddress(r) ==
    /\ Begin(r, [Idle EXCEPT !.op = "address", !.at = "gap"])
    /\ UNCHANGED <<wallet, stored, active, lock, overwritten, history>>

LookBack(r, enough) ==
    /\ At(r, {"address"}, "gap")
    /\ req' = IF enough
              THEN [req EXCEPT ![r].at = "activity", ![r].list = Latest]
              ELSE [req EXCEPT ![r].at = "lock"]
    /\ UNCHANGED <<wallet, stored, active, lock, overwritten, history>>

\* Mutant: one address more than the gap allows.
ReadLatestLate(r) == LookBack(r, Cardinality(stored["main"]) > Gap)

\* _canCreateAddress, before the lock: fewer addresses than the gap will do.
ReadLatest(r) == LookBack(r, Cardinality(Latest) = Gap)

\* One of the latest addresses has been used.
FindActivity(r) ==
    /\ At(r, {"address"}, "activity")
    /\ req[r].list \cap active["main"] # {}
    /\ req' = [req EXCEPT ![r].at = "lock", ![r].list = {}]
    /\ UNCHANGED <<wallet, stored, active, lock, overwritten, history>>

\* MAIN_ADDRESS_GAP_REACHED.
RefuseGap(r) ==
    /\ At(r, {"address"}, "activity")
    /\ req[r].list \cap active["main"] = {}
    /\ End(r)
    /\ UNCHANGED <<wallet, stored, active, overwritten, history>>

StartChange(r) ==
    /\ Begin(r, [Idle EXCEPT !.op = "change", !.at = "lock",
                             !.branch = "change"])
    /\ UNCHANGED <<wallet, stored, active, lock, overwritten, history>>

DeriveAt(r, skip) ==
    LET b == req[r].branch
        i == wallet.index[b] + skip
    IN  /\ At(r, {"address", "change"}, "lock")
        /\ lock = Free
        /\ ~wallet.scanFailed
        /\ i < MaxIndex[b]
        /\ lock' = r
        /\ req' = [req EXCEPT
             ![r].at = "insert", ![r].batch = {i}, ![r].addr = i,
             ![r].seen = wallet.index,
             ![r].doc = [wallet EXCEPT !.index[b] = i + 1]]
        /\ UNCHANGED <<wallet, stored, active, overwritten, history>>

\* Mutant: the index is incremented before it is used.
DeriveNext(r) == DeriveAt(r, 1)

\* The wallet is read under the lock and derives its next address in memory.
Derive(r) == DeriveAt(r, 0)

\* WALLET_NEED_SCAN.
RefuseScanFailed(r) ==
    /\ At(r, {"address", "change"}, "lock")
    /\ lock = Free
    /\ wallet.scanFailed
    /\ End(r)
    /\ UNCHANGED <<wallet, stored, active, overwritten, history>>

\* The addresses a scan has looked at are inserted upwards, then downwards those
\* it has skipped.
Before(q, i, j) ==
    LET skipped(n) == (q.doc.index[q.branch] - 1 - n) % q.step # 0
    IN  \/ ~skipped(i) /\ (skipped(j) \/ i < j)
        \/ skipped(i) /\ skipped(j) /\ i > j

InsertThen(r, next) ==
    LET q == req[r]
        old == q.batch \cap stored[q.branch]
        new == {i \in q.batch : \A j \in old : Before(q, i, j)}
    IN  /\ At(r, {"address", "change", "scan"}, "insert")
        /\ stored' = [stored EXCEPT ![q.branch] = @ \cup new]
        /\ cut' = (cut \/ q.batch \ (old \cup new) # {})
        /\ req' = [req EXCEPT ![r].at = next, ![r].batch = {}]
        /\ UNCHANGED <<wallet, active, lock, given, repeated, overwritten>>

\* Mutant: a duplicate address ends storeAddressAndWallet.
InsertOrEnd(r) ==
    InsertThen(r, IF req[r].batch \cap stored[req[r].branch] = {}
                  THEN "write" ELSE "sync")

\* insertMany goes from the first address to the last and stops at one that is
\* stored already, which is not taken for an error.
Insert(r) == InsertThen(r, "write")

\* The indices follow their addresses.
WriteWallet(r) ==
    /\ At(r, {"address", "change", "scan"}, "write")
    /\ StoreWallet(req[r].doc, req[r].seen)
    /\ req' = [req EXCEPT ![r].at = "sync", ![r].seen = req[r].doc.index]
    /\ UNCHANGED <<stored, active, lock, history>>

-----------------------------------------------------------------------------
(* syncWallet, at the end of _store and in getBalance and getTxHistory     *)

\* getBalance and getTxHistory take no lock.
StartSync(r) ==
    /\ Begin(r, [Idle EXCEPT !.op = "sync", !.at = "sync",
                             !.doc = wallet, !.seen = wallet.index])
    /\ UNCHANGED <<wallet, stored, active, lock, overwritten, history>>

\* registerWalletV8: the explorer has registered the wallet.
Register(r) ==
    LET doc == [req[r].doc EXCEPT !.registered = TRUE]
    IN  /\ At(r, {"address", "change", "scan", "sync"}, "sync")
        /\ ~req[r].doc.registered
        /\ StoreWallet(doc, req[r].seen)
        /\ req' = [req EXCEPT ![r].doc = doc, ![r].seen = doc.index]
        /\ UNCHANGED <<stored, active, lock, history>>

\* deregisterWallet updates one field.
Unregister ==
    /\ wallet' = [wallet EXCEPT !.registered = FALSE]
    /\ UNCHANGED <<stored, active, lock, overwritten, history>>

\* The explorer's addresses differ from the stored ones: once more.
Resync(r) ==
    /\ At(r, {"address", "change", "sync"}, "sync")
    /\ req[r].doc.registered
    /\ ~req[r].resynced
    /\ Unregister
    /\ req' = [req EXCEPT ![r].doc.registered = FALSE, ![r].resynced = TRUE]

\* createAddress answers, whether the explorer has been reached or not.
AnswerAddress(r) ==
    /\ At(r, {"address"}, "sync")
    /\ given' = given \cup {req[r].addr}
    /\ repeated' = (repeated \/ req[r].addr \in given)
    /\ End(r)
    /\ UNCHANGED <<wallet, stored, active, overwritten, cut>>

\* createTx goes on with the proposal, the others with reading.
EndSync(r) ==
    /\ At(r, {"change", "sync"}, "sync")
    /\ End(r)
    /\ UNCHANGED <<wallet, stored, active, overwritten, history>>

-----------------------------------------------------------------------------
(* startScan and scan                                                      *)

StartScan(r) ==
    /\ \E step \in FirstSteps :
          Begin(r, [Idle EXCEPT !.op = "scan", !.at = "deregister",
                                !.step = step])
    /\ UNCHANGED <<wallet, stored, active, lock, overwritten, history>>

Deregister(r) ==
    /\ At(r, {"scan"}, "deregister")
    /\ Unregister
    /\ req' = [req EXCEPT ![r].at = "read"]

\* The wallet that the whole scan works on is read before the lock.
ReadForScan(r) ==
    /\ At(r, {"scan"}, "read")
    /\ req' = [req EXCEPT ![r].at = "lock", ![r].doc = wallet,
                          ![r].seen = wallet.index]
    /\ UNCHANGED <<wallet, stored, active, lock, overwritten, history>>

LockScan(r) ==
    /\ At(r, {"scan"}, "lock")
    /\ lock = Free
    /\ lock' = r
    /\ req' = [req EXCEPT ![r].at = "start", ![r].doc.scanFailed = FALSE]
    /\ UNCHANGED <<wallet, stored, active, overwritten, history>>

StoreRunning(r) ==
    /\ At(r, {"scan"}, "start")
    /\ StoreWallet(req[r].doc, req[r].seen)
    /\ req' = [req EXCEPT ![r].at = "branch", ![r].seen = req[r].doc.index]
    /\ UNCHANGED <<stored, active, lock, history>>

ScanTo(r, to) ==
    LET b == req[r].branch
        from == req[r].doc.index[b]
    IN  /\ At(r, {"scan"}, "branch")
        /\ req' = [req EXCEPT
             ![r].batch = from .. to - 1,
             ![r].doc.index[b] = to,
             ![r].at = IF to = from THEN "sync" ELSE "insert"]
        /\ UNCHANGED <<wallet, stored, active, lock, overwritten,
                       history>>

\* scanBranch: every address up to the last one found in use is to be stored.
ScanBranch(r) ==
    ScanTo(r, ScanEnd(req[r].branch, req[r].doc.index[req[r].branch], req[r].step))

\* The explorer or the database answers with an error.
ScanFails(r) ==
    /\ At(r, {"scan"}, "branch") \/ At(r, {"scan"}, "insert")
         \/ At(r, {"scan"}, "write")
    /\ req' = [req EXCEPT ![r].at = "status", ![r].failed = TRUE,
                          ![r].batch = {}]
    /\ UNCHANGED <<wallet, stored, active, lock, overwritten, history>>

\* First the main addresses, then the change.
NextBranch(r) ==
    /\ At(r, {"scan"}, "sync")
    /\ req' = [req EXCEPT
         ![r].branch = "change",
         ![r].at = IF req[r].branch = "main" THEN "branch" ELSE "status"]
    /\ UNCHANGED <<wallet, stored, active, lock, overwritten, history>>

ReadStatus(r) ==
    /\ At(r, {"scan"}, "status")
    /\ req' = [req EXCEPT ![r].at = "storeStatus", ![r].status =
         [wallet EXCEPT !.scanFailed = req[r].failed]]
    /\ UNCHANGED <<wallet, stored, active, lock, overwritten, history>>

\* Each step of the scan ends with its status, an error ends the scan.  The
\* next step goes on with the wallet of the first.
StoreStatus(r) ==
    /\ At(r, {"scan"}, "storeStatus")
    /\ StoreWallet(req[r].status, req[r].status.index)
    /\ IF req[r].failed \/ req[r].step < Factor THEN End(r)
       ELSE /\ req' = [req EXCEPT ![r].at = "branch", ![r].branch = "main",
                                  ![r].status = None,
                                  ![r].step = @ \div Factor]
            /\ UNCHANGED lock
    /\ UNCHANGED <<stored, active, history>>

-----------------------------------------------------------------------------
(* Failures, time, payments                                                *)

\* A request ends with an error of the database or the explorer, LOCKED
\* included, or without having to store anything.  An error in syncWallet does
\* not end the others, and one in a scan sets its status first.
RequestFails(r) ==
    /\ req[r].at \notin {"idle", "sync"}
    /\ req[r].op = "scan" => req[r].at \notin {"branch", "insert", "write"}
    /\ End(r)
    /\ UNCHANGED <<wallet, stored, active, overwritten, history>>

\* The server process dies; its lock stays until it expires.
Crash(r) ==
    /\ req[r] # Idle
    /\ req' = [req EXCEPT ![r] = Idle]
    /\ lock' = IF lock = r THEN Orphan ELSE lock
    /\ UNCHANGED <<wallet, stored, active, overwritten, history>>

\* clearExpiredLock: its findOne.  A scan asks the explorer for at least ScanGap
\* addresses of each branch, one after the other, and may take longer than a
\* lock lasts.
FindExpiredLock ==
    /\ lock = Orphan \/ lock \in {r \in Requests : req[r].op = "scan"}
    /\ clearing' = TRUE
    /\ UNCHANGED <<wallet, stored, active, lock, req, overwritten, history>>

\* Its releaseLock, later: by key, whoever the owner is.  It may have been
\* called more than once.
DeleteExpiredLock ==
    /\ clearing
    /\ lock' = Free
    /\ clearing' \in BOOLEAN
    /\ UNCHANGED <<wallet, stored, active, req, overwritten, history>>

\* Somebody pays to an address of the wallet.
Pay ==
    /\ \E b \in Branches : \E i \in stored[b] \ active[b] :
          active' = [active EXCEPT ![b] = @ \cup {i}]
    /\ UNCHANGED <<wallet, stored, lock, req, overwritten, history>>

-----------------------------------------------------------------------------

Proceed(r) ==
    \/ StartAddress(r) \/ ReadLatest(r) \/ FindActivity(r) \/ RefuseGap(r)
    \/ StartChange(r) \/ Derive(r) \/ RefuseScanFailed(r)
    \/ Insert(r) \/ WriteWallet(r)
    \/ StartSync(r) \/ Register(r) \/ Resync(r) \/ AnswerAddress(r) \/ EndSync(r)
    \/ StartScan(r) \/ Deregister(r) \/ ReadForScan(r) \/ LockScan(r)
    \/ StoreRunning(r) \/ ScanBranch(r) \/ ScanFails(r)
    \/ NextBranch(r) \/ ReadStatus(r) \/ StoreStatus(r)
    \/ RequestFails(r) \/ Crash(r)

Next ==
    \/ \E r \in Requests : Proceed(r) /\ UNCHANGED clearing
    \/ Pay /\ UNCHANGED clearing
    \/ FindExpiredLock \/ DeleteExpiredLock

Spec == Init /\ [][Next]_vars

-----------------------------------------------------------------------------
(* Properties                                                              *)

\* createAddress answers every address once, however many requests run at the
\* same time and wherever they stop.
NoAddressTwice == ~repeated

\* As long as nobody has replaced indices he had not read, createAddress
\* answers every address once: what a crash has left stored without its index
\* is answered by the next call, and only by that one.
GivenOnce == overwritten \/ NoAddressTwice

\* No address is skipped: what the wallet counts is stored, so that payments to
\* it are seen.  Only an insert that stops at a duplicate leaves addresses out.
NoneSkipped ==
    cut \/ \A b \in Branches :
             \A i \in Indices : i < wallet.index[b] => i \in stored[b]

\* The gap is checked before the lock is taken.  The unused addresses at the
\* end, with those that requests past the check are about to add, exceed the
\* gap by at most one for every other request in progress.  An insert that stops
\* at a duplicate may leave out the address in use that its unused ones precede.
Unused ==
    {i \in stored["main"] : \A j \in stored["main"] \cap active["main"] : j < i}

Passed == {r \in Requests : At(r, {"address"}, "lock") \/ At(r, {"address"}, "insert")}

GapBounded ==
    cut \/ Cardinality(Unused) + Cardinality(Passed) <= Gap - 1 + Cardinality(Requests)

=============================================================================
