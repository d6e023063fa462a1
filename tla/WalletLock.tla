----------------------------- MODULE WalletLock -----------------------------
(***************************************************************************)
(* The lock of one wallet: lock.ts and the three lock operations of        *)
(* storage.ts.  The lock is a document of the collection `locks' whose     *)
(* unique _id is the wallet's id; who acquired it is not written there, so *)
(* both releaseLock and clearExpiredLock delete by key whatever document   *)
(* they find.  A client is one call of Lock.acquire, on any server.        *)
(*                                                                         *)
(* Time passes in ticks of ACQUIRE_RETRY_STEP (50 ms).                     *)
(***************************************************************************)
EXTENDS Integers, FiniteSets

CONSTANTS
    Clients,
    Patient,       \* clients that pass no waitTime: they retry for ever
    Unreliable,    \* clients whose process or connection may die
    LockTime,      \* Defaults.LOCK_EXE_TIME, in ticks
    WaitTime,      \* opts.waitTime of the other clients, in ticks
    MaxClears,     \* bound: calls of clearExpiredLock followed at a time
    None, Nobody

ASSUME LockAssumption ==
    /\ Patient \subseteq Clients
    /\ Unreliable \subseteq Clients
    /\ LockTime \in Nat
    /\ WaitTime \in Nat
    /\ MaxClears \in Nat
    /\ None \notin Int
    /\ Nobody \notin Clients

VARIABLES
    age,       \* ticks since the lock document was inserted, None without one
    at,        \* at[c]: what client c is doing
    timeLeft,  \* timeLeft[c]: the fourth argument of c's next acquire
    held,      \* held[c]: ticks since c acquired the lock
    waited,    \* waited[c]: ticks since c's first acquire, up to WaitTime
    finds,     \* clearExpiredLock calls before their findOne
    deletes    \* those after it that found an expired document

vars == <<age, at, timeLeft, held, waited, finds, deletes>>

Stages == {"idle", "trying", "sleeping", "running", "releasing"}

Holding(c) == at[c] \in {"running", "releasing"}
Waiting(c) == at[c] \in {"trying", "sleeping"}

\* Mutant: a document expires at the tick its task may still run in.
ExpiredEarly == age # None /\ age >= LockTime

\* The tick at which the document's expireOn is reached is not past it yet.
Expired == age # None /\ age > LockTime

Init ==
    /\ age = None
    /\ at = [c \in Clients |-> "idle"]
    /\ timeLeft = [c \in Clients |-> None]
    /\ held = [c \in Clients |-> 0]
    /\ waited = [c \in Clients |-> 0]
    /\ finds = 0
    /\ deletes = 0

-----------------------------------------------------------------------------
(* acquire                                                                 *)

\* runLocked calls acquire without timeLeft.
Begin(c) ==
    /\ at[c] = "idle"
    /\ at' = [at EXCEPT ![c] = "trying"]
    /\ timeLeft' = [timeLeft EXCEPT ![c] = None]
    /\ waited' = [waited EXCEPT ![c] = 0]
    /\ UNCHANGED <<age, held, finds, deletes>>

\* insertOne finds no document with this _id, and the task starts.
Acquire(c) ==
    /\ at[c] = "trying"
    /\ age = None
    /\ age' = 0
    /\ at' = [at EXCEPT ![c] = "running"]
    /\ held' = [held EXCEPT ![c] = 0]
    /\ UNCHANGED <<timeLeft, waited, finds, deletes>>

\* Mutant: expired locks are not looked for.
TakenQuietly(c) ==
    /\ at[c] = "trying"
    /\ age # None
    /\ UNCHANGED <<age, held, waited, finds, deletes>>

\* E11000: an attempt that finds the lock taken sends clearExpiredLock and
\* does not wait for it.
Taken(c) ==
    /\ at[c] = "trying"
    /\ age # None
    /\ finds' = IF finds + deletes < MaxClears THEN finds + 1 ELSE finds
    /\ UNCHANGED <<age, held, waited, deletes>>

\* Mutant: without timeLeft there is no time left.
OutOfTimeAtOnce(c) == timeLeft[c] = None \/ timeLeft[c] < 0

OutOfTime(c) == timeLeft[c] # None /\ timeLeft[c] < 0

\* timeLeft < 0: LOCKED, which runLocked turns into WALLET_BUSY.
GiveUp(c) ==
    /\ Taken(c)
    /\ OutOfTime(c)
    /\ at' = [at EXCEPT ![c] = "idle"]
    /\ UNCHANGED timeLeft

\* Mutant: every retry starts with the whole waitTime again.
RetryAfresh(c) ==
    /\ Taken(c)
    /\ ~OutOfTime(c)
    /\ at' = [at EXCEPT ![c] = "sleeping"]
    /\ timeLeft' = [timeLeft EXCEPT ![c] =
          IF c \in Patient THEN None ELSE WaitTime]

RetryLater(c) ==
    /\ Taken(c)
    /\ ~OutOfTime(c)
    /\ at' = [at EXCEPT ![c] = "sleeping"]
    /\ timeLeft' = [timeLeft EXCEPT ![c] =
          IF c \in Patient THEN None
          ELSE IF @ = None THEN WaitTime
          ELSE @ - 1]

\* Any other database error ends the attempt.
AcquireFails(c) ==
    /\ c \in Unreliable
    /\ at[c] = "trying"
    /\ at' = [at EXCEPT ![c] = "idle"]
    /\ UNCHANGED <<age, timeLeft, held, waited, finds, deletes>>

-----------------------------------------------------------------------------
(* clearExpiredLock: findOne, then releaseLock                             *)

FindExpired ==
    /\ finds > 0
    /\ Expired
    /\ finds' = finds - 1
    /\ deletes' = deletes + 1
    /\ UNCHANGED <<age, at, timeLeft, held, waited>>

FindNotExpired ==
    /\ finds > 0
    /\ ~Expired
    /\ finds' = finds - 1
    /\ UNCHANGED <<age, at, timeLeft, held, waited, deletes>>

\* deleteMany by key, whichever document has the key by now.
DeleteExpired ==
    /\ deletes > 0
    /\ deletes' = deletes - 1
    /\ age' = None
    /\ UNCHANGED <<at, timeLeft, held, waited, finds>>

-----------------------------------------------------------------------------
(* runLocked: the task's answer, then release                              *)

FinishTask(c) ==
    /\ at[c] = "running"
    /\ at' = [at EXCEPT ![c] = "releasing"]
    /\ UNCHANGED <<age, timeLeft, held, waited, finds, deletes>>

Release(c) ==
    /\ at[c] = "releasing"
    /\ at' = [at EXCEPT ![c] = "idle"]
    /\ age' = None
    /\ UNCHANGED <<timeLeft, held, waited, finds, deletes>>

-----------------------------------------------------------------------------
(* Failures and time                                                       *)

\* The process dies with the lock, or its releaseLock fails, which nobody
\* looks at: the document stays.
Die(c) ==
    /\ c \in Unreliable
    /\ Holding(c)
    /\ at' = [at EXCEPT ![c] = "idle"]
    /\ UNCHANGED <<age, timeLeft, held, waited, finds, deletes>>

\* insertOne takes effect, but its answer is an error.
AnswerLost(c) ==
    /\ c \in Unreliable
    /\ at[c] = "trying"
    /\ age = None
    /\ age' = 0
    /\ at' = [at EXCEPT ![c] = "idle"]
    /\ UNCHANGED <<timeLeft, held, waited, finds, deletes>>

\* 50 ms pass and timers fire.  Assumption: a task and its release end
\* within LOCK_EXE_TIME.
Tick ==
    /\ \A c \in Clients : Holding(c) => held[c] < LockTime
    /\ age' = IF age = None \/ Expired THEN age ELSE age + 1
    /\ at' = [c \in Clients |-> IF at[c] = "sleeping" THEN "trying" ELSE at[c]]
    /\ held' = [c \in Clients |-> IF Holding(c) THEN held[c] + 1 ELSE held[c]]
    /\ waited' = [c \in Clients |->
          IF Waiting(c) /\ waited[c] < WaitTime
          THEN waited[c] + 1 ELSE waited[c]]
    /\ UNCHANGED <<timeLeft, finds, deletes>>

-----------------------------------------------------------------------------

Next ==
    \/ \E c \in Clients :
          \/ Begin(c)
          \/ Acquire(c)
          \/ GiveUp(c)
          \/ RetryLater(c)
          \/ AcquireFails(c)
          \/ FinishTask(c)
          \/ Release(c)
          \/ Die(c)
          \/ AnswerLost(c)
    \/ FindExpired
    \/ FindNotExpired
    \/ DeleteExpired
    \/ Tick

\* Timers fire, the database answers, tasks end.  Nothing is assumed about
\* who wins the race for a free lock.
Fairness ==
    /\ WF_vars(Tick)
    /\ WF_vars(FindExpired \/ FindNotExpired)
    /\ WF_vars(DeleteExpired)
    /\ \A c \in Clients :
          /\ WF_vars(Acquire(c) \/ GiveUp(c) \/ RetryLater(c))
          /\ WF_vars(FinishTask(c))
          /\ WF_vars(Release(c))

Spec == Init /\ [][Next]_vars

FairSpec == Spec /\ Fairness

-----------------------------------------------------------------------------
(* Properties                                                              *)

TypeOK ==
    /\ age \in {None} \cup 0 .. LockTime + 1
    /\ at \in [Clients -> Stages]
    /\ timeLeft \in [Clients -> {None} \cup -1 .. WaitTime]
    /\ held \in [Clients -> 0 .. LockTime]
    /\ waited \in [Clients -> 0 .. WaitTime]
    /\ finds \in Nat /\ deletes \in Nat
    /\ finds + deletes <= MaxClears

\* The tasks of one wallet run one at a time (test/lock.js: "should lock
\* tasks using the same token").
MutualExclusion ==
    \A c, d \in Clients : at[c] = "running" /\ at[d] = "running" => c = d

\* As long as nothing fails, the document of a client that is still running
\* or releasing is its own and has not expired: no clearExpiredLock, however
\* late, may take it away, and no other client's releaseLock either.
LockIsKept ==
    Unreliable = {} =>
        /\ deletes = 0
        /\ \A c \in Clients : Holding(c) => age = held[c]

\* acquire answers LOCKED no sooner than opts.waitTime after it was called,
\* although timeLeft only counts the retries, and never without waitTime.
WaitsLongEnough ==
    [][\A c \in Clients :
          GiveUp(c) => c \notin Patient /\ waited[c] = WaitTime]_vars

\* A call with a waitTime is answered: it gets the lock, WALLET_BUSY or an
\* error, even if others take the lock again and again.
Answered ==
    \A c \in Clients \ Patient : Waiting(c) ~> ~Waiting(c)

\* A lock that a dead process left behind does not block the wallet for
\* ever, unless nobody wants it any more.
LockFreed ==
    (age # None) ~> (age = None \/ \A c \in Clients : at[c] = "idle")

\* runLocked implements the abstract mutex as long as nothing fails.
Holder ==
    IF \E c \in Clients : Holding(c)
    THEN CHOOSE c \in Clients : Holding(c)
    ELSE Nobody

Mutex == INSTANCE WalletMutex WITH holder <- Holder

IsMutex == Mutex!Spec
=============================================================================
