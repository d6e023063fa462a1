-------------------------- MODULE WalletLockProofs --------------------------
(***************************************************************************)
(* The lock of a wallet, for every number of clients and every LockTime    *)
(* and WaitTime: it is typed, it excludes and implements WalletMutex as    *)
(* long as nothing fails, and a waiting call gives up only after waitTime. *)
(***************************************************************************)
EXTENDS WalletLock, TLAPS

LEMMA InitType == Init => TypeOK
BY LockAssumption DEF Init, TypeOK, Stages

LEMMA NextType ==
  ASSUME TypeOK, [Next]_vars
  PROVE  TypeOK'
<1> USE LockAssumption DEF TypeOK, Stages
<1>1. ASSUME NEW c \in Clients, Begin(c)
      PROVE  TypeOK'
  BY <1>1 DEF Begin
<1>2. ASSUME NEW c \in Clients, Acquire(c)
      PROVE  TypeOK'
  BY <1>2 DEF Acquire
<1>3. ASSUME NEW c \in Clients, GiveUp(c)
      PROVE  TypeOK'
  BY <1>3 DEF GiveUp, Taken
<1>4. ASSUME NEW c \in Clients, RetryLater(c)
      PROVE  TypeOK'
  BY <1>4 DEF RetryLater, Taken, OutOfTime
<1>5. ASSUME NEW c \in Clients, AcquireFails(c)
      PROVE  TypeOK'
  BY <1>5 DEF AcquireFails
<1>6. ASSUME NEW c \in Clients, FinishTask(c)
      PROVE  TypeOK'
  BY <1>6 DEF FinishTask
<1>7. ASSUME NEW c \in Clients, Release(c)
      PROVE  TypeOK'
  BY <1>7 DEF Release
<1>8. ASSUME NEW c \in Clients, Die(c)
      PROVE  TypeOK'
  BY <1>8 DEF Die
<1>9. ASSUME NEW c \in Clients, AnswerLost(c)
      PROVE  TypeOK'
  BY <1>9 DEF AnswerLost
<1>10. CASE FindExpired
  BY <1>10 DEF FindExpired
<1>11. CASE FindNotExpired
  BY <1>11 DEF FindNotExpired
<1>12. CASE DeleteExpired
  BY <1>12 DEF DeleteExpired
<1>13. CASE Tick
  <2>1. age' \in {None} \cup 0 .. LockTime + 1
    BY <1>13 DEF Tick, Expired
  <2>2. held' \in [Clients -> 0 .. LockTime]
    BY <1>13 DEF Tick
  <2>3. waited' \in [Clients -> 0 .. WaitTime]
    BY <1>13 DEF Tick
  <2>4. QED
    BY <1>13, <2>1, <2>2, <2>3 DEF Tick
<1>14. CASE UNCHANGED vars
  BY <1>14 DEF vars
<1>15. QED
  BY <1>1, <1>2, <1>3, <1>4, <1>5, <1>6, <1>7, <1>8, <1>9, <1>10, <1>11,
     <1>12, <1>13, <1>14 DEF Next

\* Every reachable state is well typed; in particular timeLeft never falls
\* below -1 and a task never outlives LockTime ticks.
THEOREM LockTypeCorrect == Spec => []TypeOK
<1>1. QED
  BY InitType, NextType, PTL DEF Spec

-----------------------------------------------------------------------------
(* Mutual exclusion.  MutualExclusion alone is not inductive: a client that *)
(* is running might lose its document to a release or to a clear.  ExclInv  *)
(* adds that there is a document exactly while somebody holds the lock and  *)
(* that it is as old as that client's acquisition, hence never expired.     *)

ExclInv ==
    /\ deletes = 0
    /\ \A c \in Clients : Holding(c) => age = held[c]
    /\ \A c, d \in Clients : Holding(c) /\ Holding(d) => c = d
    /\ age # None => \E c \in Clients : Holding(c)

LEMMA InitExcl == Init => ExclInv
BY DEF Init, ExclInv, Holding

LEMMA NextExcl ==
  ASSUME Unreliable = {}, TypeOK, ExclInv, [Next]_vars
  PROVE  ExclInv'
<1> USE LockAssumption DEF TypeOK, ExclInv, Holding, Stages
<1>1. ASSUME NEW c \in Clients, Begin(c)
      PROVE  ExclInv'
  BY <1>1 DEF Begin
<1>2. ASSUME NEW c \in Clients, Acquire(c)
      PROVE  ExclInv'
  <2>1. \A d \in Clients : ~Holding(d)
    BY <1>2 DEF Acquire
  <2>2. QED
    BY <1>2, <2>1 DEF Acquire
<1>3. ASSUME NEW c \in Clients, GiveUp(c)
      PROVE  ExclInv'
  BY <1>3 DEF GiveUp, Taken
<1>4. ASSUME NEW c \in Clients, RetryLater(c)
      PROVE  ExclInv'
  BY <1>4 DEF RetryLater, Taken
<1>5. ASSUME NEW c \in Clients, AcquireFails(c) \/ Die(c) \/ AnswerLost(c)
      PROVE  FALSE
  BY <1>5 DEF AcquireFails, Die, AnswerLost
<1>6. ASSUME NEW c \in Clients, FinishTask(c)
      PROVE  ExclInv'
  BY <1>6 DEF FinishTask
<1>7. ASSUME NEW c \in Clients, Release(c)
      PROVE  ExclInv'
  BY <1>7 DEF Release
<1>8. CASE FindExpired
  \* The owner's document has not expired.
  <2>1. PICK c \in Clients : Holding(c)
    BY <1>8 DEF FindExpired, Expired
  <2>2. age = held[c] /\ held[c] <= LockTime
    BY <2>1
  <2>3. QED
    BY <1>8, <2>2 DEF FindExpired, Expired
<1>9. CASE FindNotExpired
  BY <1>9 DEF FindNotExpired
<1>10. CASE DeleteExpired
  BY <1>10 DEF DeleteExpired
<1>11. CASE Tick
  <2>1. \A c \in Clients : Holding(c)' <=> Holding(c)
    BY <1>11 DEF Tick
  <2>2. ASSUME NEW c \in Clients, Holding(c)
        PROVE  age' = held'[c]
    BY <1>11, <2>2 DEF Tick, Expired
  <2>3. age' # None => age # None
    BY <1>11 DEF Tick, Expired
  <2>4. QED
    BY <1>11, <2>1, <2>2, <2>3 DEF Tick
<1>12. CASE UNCHANGED vars
  BY <1>12 DEF vars
<1>13. QED
  BY <1>1, <1>2, <1>3, <1>4, <1>5, <1>6, <1>7, <1>8, <1>9, <1>10, <1>11,
     <1>12 DEF Next

\* Without failures the tasks of a wallet run one at a time, for every number
\* of clients, however late the clearExpiredLock calls of the others arrive.
THEOREM LockExcludes ==
  ASSUME Unreliable = {}
  PROVE  Spec => []MutualExclusion
<1>1. ExclInv => MutualExclusion
  BY DEF ExclInv, MutualExclusion, Holding
<1>2. TypeOK /\ ExclInv /\ [Next]_vars => ExclInv'
  BY NextExcl
<1>3. QED
  BY <1>1, <1>2, InitExcl, LockTypeCorrect, PTL DEF Spec

\* Without failures no document is taken from its owner.
THEOREM LockIsKeptAlways == Spec => []LockIsKept
<1>1. CASE Unreliable = {}
  <2>1. ExclInv => LockIsKept
    BY DEF ExclInv, LockIsKept
  <2>2. TypeOK /\ ExclInv /\ [Next]_vars => ExclInv'
    BY <1>1, NextExcl
  <2>3. QED
    BY <2>1, <2>2, InitExcl, LockTypeCorrect, PTL DEF Spec
<1>2. CASE Unreliable # {}
  <2>1. LockIsKept
    BY <1>2 DEF LockIsKept
  <2>2. QED
    BY <2>1, PTL
<1>3. QED
  BY <1>1, <1>2

-----------------------------------------------------------------------------
(* Refinement                                                              *)

LEMMA HolderIs ==
  ASSUME ExclInv, NEW c \in Clients, Holding(c)
  PROVE  Holder = c
BY DEF ExclInv, Holder

LEMMA StepRefines ==
  ASSUME Unreliable = {}, TypeOK, ExclInv, [Next]_vars
  PROVE  [Mutex!Next]_Holder
<1>1. ExclInv'
  BY NextExcl
<1>2. ASSUME \A c \in Clients : Holding(c)' <=> Holding(c)
      PROVE  Holder' = Holder
  BY <1>2 DEF Holder
<1>3. ASSUME NEW c \in Clients, Acquire(c)
      PROVE  Mutex!Take(c)
  <2>1. \A d \in Clients : ~Holding(d)
    BY <1>3, LockAssumption DEF Acquire, ExclInv, TypeOK
  <2>2. Holder = Nobody
    BY <2>1 DEF Holder
  <2>3. Holding(c)'
    BY <1>3 DEF Acquire, Holding, TypeOK
  <2>4. Holder' = c
    BY <1>1, <2>3 DEF ExclInv, Holder
  <2>5. QED
    BY <2>2, <2>4 DEF Mutex!Take
<1>4. ASSUME NEW c \in Clients, Release(c)
      PROVE  Mutex!GiveBack(c)
  <2>1. Holding(c)
    BY <1>4 DEF Release, Holding
  <2>2. Holder = c
    BY <2>1, HolderIs
  <2>3. \A d \in Clients : ~Holding(d)'
    BY <1>4, <2>1 DEF Release, Holding, ExclInv, TypeOK
  <2>4. Holder' = Nobody
    BY <2>3 DEF Holder
  <2>5. QED
    BY <2>2, <2>4 DEF Mutex!GiveBack
<1>5. CASE \E c \in Clients : Begin(c) \/ GiveUp(c) \/ RetryLater(c)
                                \/ FinishTask(c)
  <2>1. \A c \in Clients : Holding(c)' <=> Holding(c)
    BY <1>5 DEF Begin, GiveUp, RetryLater, Taken, FinishTask, Holding, TypeOK
  <2>2. QED
    BY <1>2, <2>1
<1>6. CASE FindExpired \/ FindNotExpired \/ DeleteExpired \/ UNCHANGED vars
  BY <1>2, <1>6
     DEF FindExpired, FindNotExpired, DeleteExpired, vars, Holding
<1>7. CASE Tick
  BY <1>2, <1>7 DEF Tick, Holding, TypeOK
<1>8. ASSUME NEW c \in Clients, AcquireFails(c) \/ Die(c) \/ AnswerLost(c)
      PROVE  FALSE
  BY <1>8 DEF AcquireFails, Die, AnswerLost
<1>9. QED
  BY <1>3, <1>4, <1>5, <1>6, <1>7, <1>8 DEF Next, Mutex!Next

\* Without failures the lock documents, the retries and the clears implement
\* the mutex that createTx, publishTx and removePendingTx rely on.
THEOREM LockRefinesMutex ==
  ASSUME Unreliable = {}
  PROVE  Spec => IsMutex
<1>1. Init => Mutex!Init
  BY DEF Init, Mutex!Init, Holder, Holding
<1>2. TypeOK /\ ExclInv /\ [Next]_vars => ExclInv'
  BY NextExcl
<1>3. TypeOK /\ ExclInv /\ [Next]_vars => [Mutex!Next]_Holder
  BY StepRefines
<1>4. QED
  BY <1>1, <1>2, <1>3, InitExcl, LockTypeCorrect, PTL
     DEF Spec, IsMutex, Mutex!Spec

-----------------------------------------------------------------------------
(* waitTime.  timeLeft counts attempts and waited counts time: every        *)
(* attempt after the first one comes at least a tick after the one before.  *)

WaitInv ==
    \A c \in Clients :
        Waiting(c) /\ timeLeft[c] # None =>
            /\ c \notin Patient
            /\ at[c] = "sleeping" => waited[c] >= WaitTime - timeLeft[c]
                                       \/ waited[c] = WaitTime
            /\ at[c] = "trying" => waited[c] >= WaitTime - timeLeft[c] + 1
                                       \/ waited[c] = WaitTime

LEMMA InitWait == Init => WaitInv
BY DEF Init, WaitInv, Waiting

LEMMA NextWait ==
  ASSUME TypeOK, WaitInv, [Next]_vars
  PROVE  WaitInv'
<1> USE LockAssumption DEF TypeOK, WaitInv, Waiting, Stages
<1>1. ASSUME NEW c \in Clients, Begin(c)
      PROVE  WaitInv'
  BY <1>1 DEF Begin
<1>2. ASSUME NEW c \in Clients, Acquire(c) \/ GiveUp(c) \/ AcquireFails(c)
                 \/ FinishTask(c) \/ Release(c) \/ Die(c) \/ AnswerLost(c)
      PROVE  WaitInv'
  BY <1>2 DEF Acquire, GiveUp, Taken, AcquireFails, FinishTask, Release, Die,
              AnswerLost
<1>3. ASSUME NEW c \in Clients, RetryLater(c)
      PROVE  WaitInv'
  <2>1. timeLeft[c] = None \/ timeLeft[c] \in 0 .. WaitTime
    BY <1>3 DEF RetryLater, OutOfTime
  <2>2. CASE c \in Patient
    BY <1>3, <2>2 DEF RetryLater, Taken
  <2>3. CASE c \notin Patient /\ timeLeft[c] = None
    BY <1>3, <2>3 DEF RetryLater, Taken
  <2>4. CASE c \notin Patient /\ timeLeft[c] # None
    BY <1>3, <2>1, <2>4 DEF RetryLater, Taken
  <2>5. QED
    BY <2>2, <2>3, <2>4
<1>4. CASE Tick
  BY <1>4 DEF Tick
<1>5. CASE FindExpired \/ FindNotExpired \/ DeleteExpired \/ UNCHANGED vars
  BY <1>5 DEF FindExpired, FindNotExpired, DeleteExpired, vars
<1>6. QED
  BY <1>1, <1>2, <1>3, <1>4, <1>5 DEF Next

\* Whatever fails, WALLET_BUSY is answered to calls with a waitTime only, and
\* never before that time has passed.
THEOREM LockWaits == Spec => WaitsLongEnough
<1>1. ASSUME TypeOK, WaitInv, NEW c \in Clients, GiveUp(c)
      PROVE  c \notin Patient /\ waited[c] = WaitTime
  BY <1>1, LockAssumption
     DEF TypeOK, WaitInv, Waiting, GiveUp, Taken, OutOfTime
<1>2. TypeOK /\ WaitInv /\ [Next]_vars
         => [\A c \in Clients :
                GiveUp(c) => c \notin Patient /\ waited[c] = WaitTime]_vars
  BY <1>1
<1>3. TypeOK /\ WaitInv /\ [Next]_vars => WaitInv'
  BY NextWait
<1>4. QED
  BY <1>2, <1>3, InitWait, LockTypeCorrect, PTL DEF Spec, WaitsLongEnough
=============================================================================
