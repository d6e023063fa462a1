------------------------- MODULE SyncingNodeProofs --------------------------
(***************************************************************************)
(* The election of the syncing node, for any number of workers, crashes,   *)
(* stops and stalls, and any times with StopWait + 1 < Lease: heartbeats   *)
(* are taken over when they are stale only, a worker that does not stall   *)
(* never lets its own become stale, and no two workers import blocks.      *)
(***************************************************************************)
EXTENDS SyncingNode, TLAPS

Owns(w) == beat # None /\ beat.owner = w

(***************************************************************************)
(* The inductive invariant.                                                *)
(***************************************************************************)

\* A process that is gone has nothing under way, and only sync writes blocks.
DownIsIdle ==
    \A w \in Workers :
        /\ at[w] = "down" => sent[w] = {} /\ ~leading[w] /\ ~syncing[w]
        /\ writing[w] => syncing[w]
        /\ stalls = 0 => ~stalled[w]

\* A primary registration that still matches the heartbeat renews it, and a
\* queued one that still matches is due no sooner than the heartbeat is stale.
RegistrationsMatch ==
    \A w \in Workers :
        /\ TRUE \in sent[w] => Owns(w)
        /\ \A q \in queue[w] :
              q.same => beat # None /\ beat.age + q.due >= Lease

\* As long as nobody stalls, the heartbeat of a leading worker is renewed, or
\* about to be, in every round, and a worker that stops resigns in time.
Renewed ==
    \A w \in Workers :
        stalls = 0 /\ leading[w] /\ Owns(w) /\ TRUE \notin sent[w] =>
            /\ at[w] = "up" => beat.age <= IF rested[w] THEN 1 ELSE 0
            /\ at[w] = "stopping" => beat.age + wait[w] <= StopWait + 1

\* A worker that has begun to import blocks and has not lapsed leads and owns
\* a heartbeat that is not stale.
SyncingLeads ==
    \A w \in Workers \ lapsed :
        syncing[w] /\ at[w] # "leaving" =>
            leading[w] /\ Owns(w) /\ beat.age < Lease

IInv ==
    /\ DownIsIdle
    /\ RegistrationsMatch
    /\ Renewed
    /\ SyncingLeads
    /\ RenewedInTime

-----------------------------------------------------------------------------
(***************************************************************************)
(* Types                                                                   *)
(***************************************************************************)

LEMMA InitType == Init => TypeOK
BY LeaseAssumption DEF Init, TypeOK

\* What getSyncingNode returns is a memory, and it tells who owns what.
LEMMA StoredType ==
  ASSUME TypeOK, NEW w \in Workers
  PROVE  /\ Stored(w) \in {None} \cup [mine : BOOLEAN, age : 0 .. Lease]
         /\ IsSyncingNode(Stored(w)) <=> Owns(w) /\ beat.age < Lease
         /\ Primary(Stored(w)) <=> beat = None \/ IsSyncingNode(Stored(w))
<1>1. CASE beat = None
  BY <1>1 DEF Stored, IsSyncingNode, Owns, Primary
<1>2. CASE beat # None
  <2>1. beat \in [owner : Workers \cup {Nobody}, age : 0 .. Lease]
    BY <1>2 DEF TypeOK
  <2>2. Stored(w) = [mine |-> beat.owner = w, age |-> beat.age]
    BY <1>2 DEF Stored
  <2>3. /\ Stored(w) \in [mine : BOOLEAN, age : 0 .. Lease]
        /\ Stored(w).mine = (beat.owner = w) /\ Stored(w).age = beat.age
    BY <2>1, <2>2
  <2>4. Stored(w) # None
    BY <2>3, LeaseAssumption
  <2>5. QED
    BY <1>2, <2>3, <2>4 DEF IsSyncingNode, Owns, Primary
<1>3. QED
  BY <1>1, <1>2

LEMMA OutdatedType ==
  ASSUME NEW Q, Q \subseteq [due : 0 .. Lease, same : BOOLEAN]
  PROVE  /\ Outdated(Q) \subseteq [due : 0 .. Lease, same : BOOLEAN]
         /\ \A q \in Outdated(Q) : ~q.same
BY DEF Outdated

\* selfNominateSyncingNode either leaves the heartbeat alone or makes w its
\* owner, and then no registration under way matches any more.
LEMMA NominateWrites ==
  ASSUME TypeOK, NEW w \in Workers, NEW same \in BOOLEAN,
         NEW restSent \in SUBSET sent[w], NEW restQueue \in SUBSET queue[w],
         Nominate(w, same, restSent, restQueue)
  PROVE  /\ sent' \in [Workers -> SUBSET BOOLEAN]
         /\ queue' \in [Workers -> SUBSET [due : 0 .. Lease, same : BOOLEAN]]
         /\ \/ /\ Matches(same)
               /\ beat' = [owner |-> w, age |-> 0]
               /\ beat' \in [owner : Workers \cup {Nobody}, age : 0 .. Lease]
               /\ beat' # None
               /\ \A v \in Workers : /\ TRUE \notin sent'[v]
                                     /\ \A q \in queue'[v] : ~q.same
            \/ /\ beat # None /\ ~same
               /\ beat' = beat
               /\ \A v \in Workers : /\ sent'[v] \subseteq sent[v]
                                     /\ queue'[v] \subseteq queue[v]
               /\ \A v \in Workers \ {w} : sent'[v] = sent[v]
               /\ sent'[w] = restSent
<1>1. CASE Matches(same)
  <2>1. /\ beat' = [owner |-> w, age |-> 0]
        /\ sent' = [v \in Workers |->
                        IF (IF v = w THEN restSent ELSE sent[v]) = {}
                        THEN {} ELSE {FALSE}]
        /\ queue' = [v \in Workers |->
                         Outdated(IF v = w THEN restQueue ELSE queue[v])]
    BY <1>1 DEF Nominate
  <2>2. /\ beat' \in [owner : Workers \cup {Nobody}, age : 0 .. Lease]
        /\ beat' # None
    BY <2>1, LeaseAssumption
  <2>3. ASSUME NEW v \in Workers
        PROVE  /\ queue'[v] \subseteq [due : 0 .. Lease, same : BOOLEAN]
               /\ \A q \in queue'[v] : ~q.same
    <3>1. (IF v = w THEN restQueue ELSE queue[v])
             \subseteq [due : 0 .. Lease, same : BOOLEAN]
      BY DEF TypeOK
    <3>2. queue'[v] = Outdated(IF v = w THEN restQueue ELSE queue[v])
      BY <2>1
    <3>3. QED
      BY <3>1, <3>2, OutdatedType
  <2>4. sent' \in [Workers -> SUBSET BOOLEAN]
        /\ \A v \in Workers : TRUE \notin sent'[v]
    BY <2>1
  <2>5. QED
    BY <1>1, <2>1, <2>2, <2>3, <2>4
<1>2. CASE ~Matches(same)
  <2>1. /\ sent' = [sent EXCEPT ![w] = restSent]
        /\ queue' = [queue EXCEPT ![w] = restQueue]
        /\ beat' = beat
        /\ beat # None /\ ~same
    BY <1>2 DEF Nominate, Matches
  <2>2. QED
    BY <2>1 DEF TypeOK
<1>3. QED
  BY <1>1, <1>2

\* selfResignSyncingNode clears the heartbeat of its owner only, and then no
\* registration under way matches.
LEMMA ResignWrites ==
  ASSUME TypeOK, NEW w \in Workers, Resign(w)
  PROVE  /\ sent' \in [Workers -> SUBSET BOOLEAN]
         /\ queue' \in [Workers -> SUBSET [due : 0 .. Lease, same : BOOLEAN]]
         /\ \/ /\ Owns(w)
               /\ beat' = None
               /\ \A v \in Workers : /\ TRUE \notin sent'[v]
                                     /\ \A q \in queue'[v] : ~q.same
            \/ UNCHANGED <<beat, sent, queue>>
<1>1. CASE IsSyncingNode(Stored(w))
  <2>1. /\ beat' = None
        /\ sent' = [v \in Workers |-> IF sent[v] = {} THEN {} ELSE {FALSE}]
        /\ queue' = [v \in Workers |-> Outdated(queue[v])]
    BY <1>1 DEF Resign
  <2>2. ASSUME NEW v \in Workers
        PROVE  /\ Outdated(queue[v]) \subseteq
                      [due : 0 .. Lease, same : BOOLEAN]
               /\ \A q \in Outdated(queue[v]) : ~q.same
    BY OutdatedType DEF TypeOK
  <2>3. Owns(w)
    BY <1>1, StoredType
  <2>4. QED
    BY <2>1, <2>2, <2>3
<1>2. CASE ~IsSyncingNode(Stored(w))
  BY <1>2 DEF Resign, TypeOK
<1>3. QED
  BY <1>1, <1>2

\* The process that is gone, whichever way it went.
LEMMA GoneType ==
  ASSUME TypeOK, NEW w \in Workers, Gone(w), UNCHANGED stalls,
         crashes' \in 0 .. MaxCrashes, stops' = stops
  PROVE  TypeOK'
BY DEF TypeOK, Gone

LEMMA TickType ==
  ASSUME TypeOK, Tick
  PROVE  /\ TypeOK'
         /\ beat = None <=> beat' = None
         /\ beat # None =>
               /\ beat'.owner = beat.owner
               /\ beat'.age = IF beat.age = Lease THEN Lease ELSE beat.age + 1
<1> USE LeaseAssumption
<1>1. ASSUME beat # None
      PROVE  /\ beat' \in [owner : Workers \cup {Nobody}, age : 0 .. Lease]
             /\ beat' # None
             /\ beat'.owner = beat.owner
             /\ beat'.age = IF beat.age = Lease THEN Lease ELSE beat.age + 1
  <2>1. beat \in [owner : Workers \cup {Nobody}, age : 0 .. Lease]
    BY <1>1 DEF TypeOK
  <2>2. beat' = IF beat.age = Lease THEN beat
                ELSE [beat EXCEPT !.age = @ + 1]
    BY <1>1 DEF Tick, Older
  <2>3. QED
    BY <2>1, <2>2
<1>2. ASSUME beat = None
      PROVE  beat' = None
  BY <1>2 DEF Tick, Older
<1>3. seen' \in [Workers -> {None} \cup [mine : BOOLEAN, age : 0 .. Lease]]
  <2>1. ASSUME NEW w \in Workers
        PROVE  Older(seen[w]) \in {None} \cup [mine : BOOLEAN, age : 0 .. Lease]
    <3>1. CASE seen[w] = None \/ seen[w].age = Lease
      BY <3>1 DEF TypeOK, Older
    <3>2. CASE ~(seen[w] = None \/ seen[w].age = Lease)
      <4>1. seen[w] \in [mine : BOOLEAN, age : 0 .. Lease]
        BY <3>2 DEF TypeOK
      <4>2. Older(seen[w]) = [seen[w] EXCEPT !.age = @ + 1]
        BY <3>2 DEF Older
      <4>3. QED
        BY <3>2, <4>1, <4>2
    <3>3. QED
      BY <3>1, <3>2
  <2>2. QED
    BY <2>1 DEF Tick
<1>4. queue' \in [Workers -> SUBSET [due : 0 .. Lease, same : BOOLEAN]]
  <2>1. ASSUME NEW q \in [due : 0 .. Lease, same : BOOLEAN]
        PROVE  [q EXCEPT !.due = Less(@)]
                  \in [due : 0 .. Lease, same : BOOLEAN]
    BY DEF Less
  <2>2. ASSUME NEW w \in Workers
        PROVE  {[q EXCEPT !.due = Less(@)] : q \in queue[w]}
                  \subseteq [due : 0 .. Lease, same : BOOLEAN]
    BY <2>1 DEF TypeOK
  <2>3. QED
    BY <2>2 DEF Tick
<1>5. wait' \in [Workers -> 0 .. StopWait]
  <2>1. ASSUME NEW n \in 0 .. StopWait
        PROVE  Less(n) \in 0 .. StopWait
    BY DEF Less
  <2>2. QED
    BY <2>1 DEF Tick, TypeOK
<1>6. lapsed' \subseteq Workers /\ rested' \in [Workers -> BOOLEAN]
  BY DEF Tick, TypeOK
<1>7. QED
  BY <1>1, <1>2, <1>3, <1>4, <1>5, <1>6 DEF Tick, TypeOK, faults

LEMMA NextType ==
  ASSUME TypeOK, [Next]_vars
  PROVE  TypeOK'
<1> USE LeaseAssumption
<1>1. ASSUME NEW w \in Workers, Refresh(w)
      PROVE  TypeOK'
  <2>1. seen' \in [Workers -> {None} \cup [mine : BOOLEAN, age : 0 .. Lease]]
    BY <1>1, StoredType DEF Refresh, TypeOK
  <2>2. IsSyncingNode(Stored(w)) \in BOOLEAN
    BY StoredType DEF IsSyncingNode
  <2>3. /\ leading' \in [Workers -> BOOLEAN] /\ syncing' \in [Workers -> BOOLEAN]
        /\ rested' \in [Workers -> BOOLEAN]
    BY <1>1, <2>2 DEF Refresh, TypeOK
  <2>4. /\ at' \in [Workers -> {"down", "up", "stopping", "leaving"}]
        /\ wait' \in [Workers -> 0 .. StopWait]
    BY <1>1 DEF Refresh, TypeOK
  <2>5. sent' \in [Workers -> SUBSET BOOLEAN]
    <3>1. \/ sent' = sent
          \/ sent' = [sent EXCEPT ![w] = @ \cup {beat # None}]
      BY <1>1 DEF Refresh
    <3>2. sent[w] \cup {beat # None} \subseteq BOOLEAN
      BY DEF TypeOK
    <3>3. QED
      BY <3>1, <3>2 DEF TypeOK
  <2>6. queue' \in [Workers -> SUBSET [due : 0 .. Lease, same : BOOLEAN]]
    <3>1. \/ queue' = queue
          \/ queue' = [queue EXCEPT ![w] = {}]
          \/ queue' = [queue EXCEPT ![w] = @ \cup {Queued(w)}]
      BY <1>1 DEF Refresh
    <3>2. queue[w] \cup {Queued(w)} \subseteq [due : 0 .. Lease, same : BOOLEAN]
      <4>1. Queued(w) \in [due : 0 .. Lease, same : BOOLEAN]
        BY DEF Queued
      <4>2. queue[w] \subseteq [due : 0 .. Lease, same : BOOLEAN]
        BY DEF TypeOK
      <4>3. QED
        BY <4>1, <4>2
    <3>3. QED
      BY <3>1, <3>2 DEF TypeOK
  <2>7. QED
    BY <1>1, <2>1, <2>3, <2>4, <2>5, <2>6 DEF Refresh, TypeOK, faults
<1>2. ASSUME NEW w \in Workers, Renew(w)
      PROVE  TypeOK'
  <2>1. PICK same \in sent[w] :
           Nominate(w, same, sent[w] \ {same}, queue[w])
    BY <1>2 DEF Renew
  <2>2. same \in BOOLEAN
    BY DEF TypeOK
  <2>3. /\ sent' \in [Workers -> SUBSET BOOLEAN]
        /\ queue' \in [Workers -> SUBSET [due : 0 .. Lease, same : BOOLEAN]]
        /\ \/ beat' \in [owner : Workers \cup {Nobody}, age : 0 .. Lease]
           \/ beat' = beat
    <3>1. sent[w] \ {same} \in SUBSET sent[w] /\ queue[w] \in SUBSET queue[w]
      OBVIOUS
    <3>2. QED
      BY <2>1, <2>2, <3>1, NominateWrites
  <2>4. QED
    BY <1>2, <2>3 DEF Renew, TypeOK, faults, process
<1>3. ASSUME NEW w \in Workers, TakeOver(w)
      PROVE  TypeOK'
  <2>1. PICK q \in queue[w] :
           Nominate(w, q.same, sent[w], queue[w] \ {q})
    BY <1>3 DEF TakeOver
  <2>2. q.same \in BOOLEAN
    BY DEF TypeOK
  <2>3. /\ sent' \in [Workers -> SUBSET BOOLEAN]
        /\ queue' \in [Workers -> SUBSET [due : 0 .. Lease, same : BOOLEAN]]
        /\ \/ beat' \in [owner : Workers \cup {Nobody}, age : 0 .. Lease]
           \/ beat' = beat
    <3>1. sent[w] \in SUBSET sent[w] /\ queue[w] \ {q} \in SUBSET queue[w]
      OBVIOUS
    <3>2. QED
      BY <2>1, <2>2, <3>1, NominateWrites
  <2>4. QED
    BY <1>3, <2>3 DEF TakeOver, TypeOK, faults, process
<1>4. ASSUME NEW w \in Workers, StartBlock(w)
      PROVE  TypeOK'
  BY <1>4 DEF StartBlock, TypeOK, faults
<1>5. ASSUME NEW w \in Workers, EndBlock(w)
      PROVE  TypeOK'
  BY <1>5 DEF EndBlock, TypeOK, faults
<1>6. ASSUME NEW w \in Workers, Stop(w)
      PROVE  TypeOK'
  BY <1>6 DEF Stop, TypeOK, process
<1>7. ASSUME NEW w \in Workers, Resign(w)
      PROVE  TypeOK'
  <2>1. seen' \in [Workers -> {None} \cup [mine : BOOLEAN, age : 0 .. Lease]]
    BY <1>7, StoredType DEF Resign, TypeOK
  <2>2. queue' \in [Workers -> SUBSET [due : 0 .. Lease, same : BOOLEAN]]
    BY <1>7, ResignWrites
  <2>3. sent' \in [Workers -> SUBSET BOOLEAN]
    BY <1>7, ResignWrites
  <2>4. QED
    BY <1>7, <2>1, <2>2, <2>3 DEF Resign, TypeOK, faults
<1>8. ASSUME NEW w \in Workers, Exit(w)
      PROVE  TypeOK'
  BY <1>8, GoneType DEF Exit, faults, TypeOK
<1>9. ASSUME NEW w \in Workers, Crash(w)
      PROVE  TypeOK'
  BY <1>9, GoneType DEF Crash, TypeOK
<1>10. ASSUME NEW w \in Workers, Start(w)
      PROVE  TypeOK'
  <2>1. beat' = None
          \/ beat' \in [owner : Workers \cup {Nobody}, age : 0 .. Lease]
    BY <1>10 DEF Start, TypeOK
  <2>2. QED
    BY <1>10, <2>1 DEF Start, TypeOK, process, faults
<1>11. ASSUME NEW w \in Workers, Stall(w)
      PROVE  TypeOK'
  BY <1>11 DEF Stall, TypeOK, process
<1>12. ASSUME NEW w \in Workers, Wake(w)
      PROVE  TypeOK'
  BY <1>12 DEF Wake, TypeOK, process, faults
<1>13. CASE Tick
  BY <1>13, TickType
<1>14. CASE UNCHANGED vars
  BY <1>14 DEF vars, TypeOK
<1>15. QED
  BY <1>1, <1>2, <1>3, <1>4, <1>5, <1>6, <1>7, <1>8, <1>9, <1>10, <1>11,
     <1>12, <1>13, <1>14
  DEF Next, Act

\* The type invariant, the workers' memory of the heartbeat and their timers
\* included, for every set of workers and every bound.
THEOREM ElectionTypeCorrect == Spec => []TypeOK
<1>1. Init => TypeOK
  BY InitType
<1>2. TypeOK /\ [Next]_vars => TypeOK'
  BY NextType
<1>3. QED
  BY <1>1, <1>2, PTL DEF Spec

-----------------------------------------------------------------------------
(***************************************************************************)
(* The invariant, one lemma for every part                                 *)
(***************************************************************************)

LEMMA InitInvariant == Init => IInv
BY LeaseAssumption
DEF Init, IInv, DownIsIdle, RegistrationsMatch, Renewed, SyncingLeads,
    RenewedInTime

\* Every step keeps a process that is gone idle.
LEMMA NextIdle ==
  ASSUME TypeOK, DownIsIdle, [Next]_vars
  PROVE  DownIsIdle'
<1> USE DEF DownIsIdle, TypeOK
<1>1. ASSUME NEW w \in Workers, Refresh(w)
      PROVE  DownIsIdle'
  BY <1>1 DEF Refresh, Running, faults
<1>2. ASSUME NEW w \in Workers, Renew(w)
      PROVE  DownIsIdle'
  <2>1. PICK same \in sent[w] :
           Nominate(w, same, sent[w] \ {same}, queue[w])
    BY <1>2 DEF Renew
  <2>2. \A v \in Workers : sent[v] = {} => sent'[v] = {}
    BY <2>1 DEF Nominate
  <2>3. QED
    BY <1>2, <2>2 DEF Renew, process, faults
<1>3. ASSUME NEW w \in Workers, TakeOver(w)
      PROVE  DownIsIdle'
  <2>1. PICK q \in queue[w] :
           Nominate(w, q.same, sent[w], queue[w] \ {q})
    BY <1>3 DEF TakeOver
  <2>2. \A v \in Workers : sent[v] = {} => sent'[v] = {}
    <3>1. CASE Matches(q.same)
      <4>1. sent' = [v \in Workers |-> IF sent[v] = {} THEN {} ELSE {FALSE}]
        BY <2>1, <3>1 DEF Nominate
      <4>2. QED
        BY <4>1
    <3>2. CASE ~Matches(q.same)
      BY <2>1, <3>2 DEF Nominate
    <3>3. QED
      BY <3>1, <3>2
  <2>3. QED
    BY <1>3, <2>2 DEF TakeOver, process, faults
<1>4. ASSUME NEW w \in Workers, StartBlock(w)
      PROVE  DownIsIdle'
  BY <1>4 DEF StartBlock, faults
<1>5. ASSUME NEW w \in Workers, EndBlock(w)
      PROVE  DownIsIdle'
  BY <1>5 DEF EndBlock, faults
<1>6. ASSUME NEW w \in Workers, Stop(w)
      PROVE  DownIsIdle'
  BY <1>6 DEF Stop, process
<1>7. ASSUME NEW w \in Workers, Resign(w)
      PROVE  DownIsIdle'
  <2>1. \A v \in Workers : sent[v] = {} => sent'[v] = {}
    <3>1. CASE IsSyncingNode(Stored(w))
      <4>1. sent' = [v \in Workers |-> IF sent[v] = {} THEN {} ELSE {FALSE}]
        BY <1>7, <3>1 DEF Resign
      <4>2. QED
        BY <4>1
    <3>2. CASE ~IsSyncingNode(Stored(w))
      BY <1>7, <3>2 DEF Resign
    <3>3. QED
      BY <3>1, <3>2
  <2>2. QED
    BY <1>7, <2>1 DEF Resign, faults
<1>8. ASSUME NEW w \in Workers, Gone(w), UNCHANGED stalls
      PROVE  DownIsIdle'
  BY <1>8 DEF Gone
<1>9. ASSUME NEW w \in Workers, Start(w)
      PROVE  DownIsIdle'
  BY <1>9 DEF Start, process, faults
<1>10. ASSUME NEW w \in Workers, Stall(w)
      PROVE  DownIsIdle'
  BY <1>10 DEF Stall, process
<1>11. ASSUME NEW w \in Workers, Wake(w)
      PROVE  DownIsIdle'
  BY <1>11 DEF Wake, process, faults
<1>12. CASE Tick
  BY <1>12 DEF Tick, faults
<1>13. CASE UNCHANGED vars
  BY <1>13 DEF vars
<1>14. QED
  BY <1>1, <1>2, <1>3, <1>4, <1>5, <1>6, <1>7, <1>8, <1>9, <1>10, <1>11,
     <1>12, <1>13
  DEF Next, Act, Exit, Crash, faults

\* A registration makes somebody else the owner of a heartbeat only when that
\* heartbeat is stale.
LEMMA NominateWhenStale ==
  ASSUME TypeOK, RegistrationsMatch, NEW w \in Workers,
         Renew(w) \/ TakeOver(w), beat # None
  PROVE  \/ UNCHANGED beat
         \/ Owns(w) /\ beat' = [owner |-> w, age |-> 0]
         \/ beat.age = Lease
<1>1. ASSUME NEW same \in sent[w], Matches(same)
      PROVE  Owns(w)
  BY <1>1 DEF Matches, RegistrationsMatch, TypeOK
<1>2. ASSUME NEW q \in queue[w], q.due = 0, Matches(q.same)
      PROVE  beat.age = Lease
  <2>1. q \in [due : 0 .. Lease, same : BOOLEAN]
    BY DEF TypeOK
  <2>2. q.same /\ beat.age + q.due >= Lease
    BY <1>2, <2>1 DEF Matches, RegistrationsMatch
  <2>3. beat.age \in 0 .. Lease
    BY DEF TypeOK
  <2>4. QED
    BY <1>2, <2>2, <2>3, LeaseAssumption
<1>3. CASE Renew(w)
  BY <1>1, <1>3 DEF Renew, Nominate
<1>4. CASE TakeOver(w)
  BY <1>2, <1>4 DEF TakeOver, Nominate
<1>5. QED
  BY <1>3, <1>4

\* What a step leaves of the heartbeat, the registrations and the queue, when
\* it writes none of them.
RegistrationsKept ==
    /\ beat' = beat
    /\ \A w \in Workers : sent'[w] \subseteq sent[w] /\ queue'[w] \subseteq queue[w]

LEMMA KeptMatches ==
  ASSUME RegistrationsMatch, RegistrationsKept
  PROVE  RegistrationsMatch'
BY DEF RegistrationsMatch, RegistrationsKept, Owns

LEMMA NominateMatches ==
  ASSUME TypeOK, RegistrationsMatch, NEW w \in Workers, NEW same \in BOOLEAN,
         NEW restSent \in SUBSET sent[w], NEW restQueue \in SUBSET queue[w],
         Nominate(w, same, restSent, restQueue)
  PROVE  RegistrationsMatch'
BY NominateWrites, KeptMatches DEF RegistrationsMatch, RegistrationsKept

LEMMA NextMatches ==
  ASSUME TypeOK, DownIsIdle, RegistrationsMatch, [Next]_vars
  PROVE  RegistrationsMatch'
<1> USE LeaseAssumption
<1>1. ASSUME NEW w \in Workers, Refresh(w)
      PROVE  RegistrationsMatch'
  <2>1. beat' = beat
    BY <1>1 DEF Refresh
  <2>2. ASSUME NEW v \in Workers, TRUE \in sent'[v]
        PROVE  Owns(v)
    <3>1. CASE TRUE \in sent[v]
      BY <3>1 DEF RegistrationsMatch
    <3>2. CASE TRUE \notin sent[v]
      <4>1. /\ sent' = [sent EXCEPT ![w] = @ \cup {beat # None}]
            /\ Primary(Stored(w))
        BY <1>1, <2>2, <3>2 DEF Refresh
      <4>2. sent \in [Workers -> SUBSET BOOLEAN]
        BY DEF TypeOK
      <4>3. v = w /\ TRUE \in {beat # None}
        BY <2>2, <3>2, <4>1, <4>2
      <4>4. beat # None
        BY <4>3
      <4>5. QED
        BY <4>1, <4>3, <4>4, StoredType
    <3>3. QED
      BY <3>1, <3>2
  <2>3. ASSUME NEW v \in Workers, NEW q \in queue'[v], q.same
        PROVE  beat # None /\ beat.age + q.due >= Lease
    <3>1. CASE q \in queue[v]
      BY <2>3, <3>1 DEF RegistrationsMatch
    <3>2. CASE q \notin queue[v]
      <4>1. v = w /\ q = Queued(w) /\ ~Primary(Stored(w))
        BY <1>1, <3>2 DEF Refresh, TypeOK
      <4>2. beat # None
        BY <4>1, StoredType
      <4>3. q.due = Lease /\ beat.age \in 0 .. Lease
        BY <4>1, <4>2 DEF Queued, TypeOK
      <4>4. QED
        BY <4>2, <4>3
    <3>3. QED
      BY <3>1, <3>2
  <2>4. QED
    BY <2>1, <2>2, <2>3 DEF RegistrationsMatch, Owns
<1>2. ASSUME NEW w \in Workers, Renew(w)
      PROVE  RegistrationsMatch'
  <2>1. PICK same \in sent[w] :
           Nominate(w, same, sent[w] \ {same}, queue[w])
    BY <1>2 DEF Renew
  <2>2. /\ same \in BOOLEAN
        /\ sent[w] \ {same} \in SUBSET sent[w] /\ queue[w] \in SUBSET queue[w]
    BY DEF TypeOK
  <2>3. QED
    BY <2>1, <2>2, NominateMatches
<1>3. ASSUME NEW w \in Workers, TakeOver(w)
      PROVE  RegistrationsMatch'
  <2>1. PICK q \in queue[w] :
           Nominate(w, q.same, sent[w], queue[w] \ {q})
    BY <1>3 DEF TakeOver
  <2>2. /\ q.same \in BOOLEAN
        /\ sent[w] \in SUBSET sent[w] /\ queue[w] \ {q} \in SUBSET queue[w]
    BY DEF TypeOK
  <2>3. QED
    BY <2>1, <2>2, NominateMatches
<1>4. ASSUME NEW w \in Workers, Resign(w)
      PROVE  RegistrationsMatch'
  <2>1. CASE UNCHANGED <<beat, sent, queue>>
    BY <2>1, KeptMatches DEF RegistrationsKept
  <2>2. CASE ~UNCHANGED <<beat, sent, queue>>
    BY <1>4, <2>2, ResignWrites DEF RegistrationsMatch
  <2>3. QED
    BY <2>1, <2>2
<1>5. ASSUME NEW w \in Workers, Gone(w)
      PROVE  RegistrationsMatch'
  BY <1>5, KeptMatches DEF Gone, RegistrationsKept, TypeOK
<1>6. ASSUME NEW w \in Workers, Start(w)
      PROVE  RegistrationsMatch'
  <2>1. CASE UNCHANGED beat
    BY <1>6, <2>1, KeptMatches DEF Start, RegistrationsKept
  <2>2. CASE ~UNCHANGED beat
    <3>1. /\ at[w] = "down" /\ Owns(w)
          /\ beat' = [beat EXCEPT !.owner = Nobody]
          /\ sent' = sent /\ queue' = queue
      BY <1>6, <2>2 DEF Start, Owns
    <3>2. beat \in [owner : Workers \cup {Nobody}, age : 0 .. Lease]
      BY <3>1 DEF TypeOK, Owns
    <3>3. beat' # None /\ beat'.age = beat.age
      BY <3>1, <3>2
    <3>4. \A v \in Workers : TRUE \notin sent[v]
      BY <3>1 DEF RegistrationsMatch, DownIsIdle, Owns
    <3>5. QED
      BY <3>1, <3>3, <3>4 DEF RegistrationsMatch
  <2>3. QED
    BY <2>1, <2>2
<1>7. CASE Tick
  <2>1. /\ beat = None <=> beat' = None
        /\ beat # None =>
              /\ beat'.owner = beat.owner
              /\ beat'.age = IF beat.age = Lease THEN Lease ELSE beat.age + 1
              /\ beat.age \in 0 .. Lease
    BY <1>7, TickType DEF TypeOK
  <2>2. ASSUME NEW v \in Workers, TRUE \in sent'[v]
        PROVE  Owns(v)'
    BY <1>7, <2>1, <2>2 DEF Tick, RegistrationsMatch, Owns
  <2>3. ASSUME NEW v \in Workers, NEW q \in queue'[v], q.same
        PROVE  beat' # None /\ beat'.age + q.due >= Lease
    <3>1. PICK p \in queue[v] : q = [p EXCEPT !.due = Less(@)]
      BY <1>7, <2>3 DEF Tick
    <3>2. p \in [due : 0 .. Lease, same : BOOLEAN]
      BY DEF TypeOK
    <3>3. /\ q.same = p.same /\ p.due \in 0 .. Lease
          /\ q.due = IF p.due = 0 THEN 0 ELSE p.due - 1
      BY <3>1, <3>2 DEF Less
    <3>4. beat # None /\ beat.age + p.due >= Lease
      BY <2>3, <3>3 DEF RegistrationsMatch
    <3>5. QED
      BY <2>1, <3>3, <3>4
  <2>4. QED
    BY <2>2, <2>3 DEF RegistrationsMatch
<1>8. ASSUME NEW w \in Workers,
             StartBlock(w) \/ EndBlock(w) \/ Stop(w) \/ Stall(w) \/ Wake(w)
      PROVE  RegistrationsMatch'
  BY <1>8, KeptMatches
  DEF StartBlock, EndBlock, Stop, Stall, Wake, RegistrationsKept, TypeOK
<1>9. CASE UNCHANGED vars
  BY <1>9, KeptMatches DEF vars, RegistrationsKept
<1>10. QED
  BY <1>1, <1>2, <1>3, <1>4, <1>5, <1>6, <1>7, <1>8, <1>9
  DEF Next, Act, Exit, Crash

-----------------------------------------------------------------------------

\* An owner that loses the heartbeat to a registration had let it go stale.
\* Only Resign of its owner, Start of a process that follows it and a
\* registration change the owner.
LEMMA NextOwner ==
  ASSUME TypeOK, RegistrationsMatch, [Next]_vars, ~Tick,
         NEW w \in Workers, Owns(w), beat.age < Lease,
         ~Resign(w), at[w] # "down"
  PROVE  Owns(w)' /\ (beat'.age = beat.age \/ beat'.age = 0)
<1>1. ASSUME NEW v \in Workers, Renew(v) \/ TakeOver(v)
      PROVE  Owns(w)' /\ (beat'.age = beat.age \/ beat'.age = 0)
  <2>1. UNCHANGED beat \/ (Owns(v) /\ beat' = [owner |-> v, age |-> 0])
    BY <1>1, NominateWhenStale, LeaseAssumption DEF Owns
  <2>2. [owner |-> v, age |-> 0] # None
    BY LeaseAssumption
  <2>3. QED
    BY <2>1, <2>2 DEF Owns
<1>2. ASSUME NEW v \in Workers \ {w}, Resign(v)
      PROVE  UNCHANGED beat
  BY <1>2, ResignWrites DEF Owns
<1>3. ASSUME NEW v \in Workers, Start(v)
      PROVE  UNCHANGED beat
  BY <1>3 DEF Start, Owns
<1>4. ASSUME NEW v \in Workers,
             \/ Refresh(v) \/ StartBlock(v) \/ EndBlock(v) \/ Stop(v)
             \/ Gone(v) \/ Stall(v) \/ Wake(v)
      PROVE  UNCHANGED beat
  BY <1>4 DEF Refresh, StartBlock, EndBlock, Stop, Gone, Stall, Wake
<1>5. CASE UNCHANGED vars
  BY <1>5 DEF vars, Owns
<1>6. QED
  BY <1>1, <1>2, <1>3, <1>4, <1>5 DEF Next, Act, Exit, Crash, Owns

\* A step that makes w the owner writes a new heartbeat.
LEMMA NextNewOwner ==
  ASSUME TypeOK, [Next]_vars, NEW w \in Workers, ~Owns(w), Owns(w)'
  PROVE  beat'.age = 0 /\ (Renew(w) \/ TakeOver(w))
<1>1. ASSUME NEW v \in Workers, Renew(v) \/ TakeOver(v)
      PROVE  beat'.age = 0 /\ (Renew(w) \/ TakeOver(w))
  <2>1. UNCHANGED beat \/ beat' = [owner |-> v, age |-> 0]
    BY <1>1 DEF Renew, TakeOver, Nominate
  <2>2. beat' = [owner |-> v, age |-> 0]
    BY <2>1 DEF Owns
  <2>3. v = w /\ beat'.age = 0
    BY <2>2 DEF Owns
  <2>4. QED
    BY <1>1, <2>3
<1>2. ASSUME NEW v \in Workers,
             \/ Refresh(v) \/ StartBlock(v) \/ EndBlock(v) \/ Stop(v)
             \/ Gone(v) \/ Stall(v) \/ Wake(v)
      PROVE  FALSE
  BY <1>2 DEF Refresh, StartBlock, EndBlock, Stop, Gone, Stall, Wake, Owns
<1>3. ASSUME NEW v \in Workers, Resign(v)
      PROVE  FALSE
  BY <1>3, ResignWrites DEF Owns
<1>4. ASSUME NEW v \in Workers, Start(v)
      PROVE  FALSE
  <2>1. beat # None /\ beat' = [beat EXCEPT !.owner = Nobody]
    BY <1>4 DEF Start, Owns
  <2>2. beat'.owner = Nobody
    BY <2>1 DEF TypeOK
  <2>3. QED
    BY <2>2, LeaseAssumption DEF Owns
<1>5. CASE Tick
  BY <1>5, TickType DEF Owns
<1>6. CASE UNCHANGED vars
  BY <1>6 DEF vars, Owns
<1>7. QED
  BY <1>1, <1>2, <1>3, <1>4, <1>5, <1>6 DEF Next, Act, Exit, Crash

LEMMA NextSyncing ==
  ASSUME TypeOK, DownIsIdle, RegistrationsMatch, SyncingLeads, [Next]_vars
  PROVE  SyncingLeads'
<1> SUFFICES ASSUME NEW w \in Workers, w \notin lapsed',
                    syncing'[w], at'[w] # "leaving"
             PROVE  leading'[w] /\ Owns(w)' /\ beat'.age < Lease
  BY DEF SyncingLeads
<1>1. CASE Tick
  <2>1. /\ syncing[w] /\ at[w] # "leaving" /\ w \notin lapsed
        /\ leading' = leading
    BY <1>1 DEF Tick
  <2>2. leading[w] /\ Owns(w) /\ beat.age < Lease
    BY <2>1 DEF SyncingLeads
  <2>3. beat.age \in 0 .. Lease
    BY <2>2 DEF TypeOK, Owns
  <2>4. Owns(w)' /\ beat'.age = beat.age + 1
    BY <1>1, <2>2, <2>3, TickType, LeaseAssumption DEF Owns
  <2>5. beat'.age # Lease
    BY <1>1, <2>2, <2>4 DEF Tick, Owns
  <2>6. QED
    BY <2>1, <2>2, <2>3, <2>4, <2>5, LeaseAssumption
<1>2. ASSUME Refresh(w)
      PROVE  leading'[w] /\ Owns(w)' /\ beat'.age < Lease
  <2>1. /\ at[w] # "leaving" /\ w \notin lapsed
        /\ beat' = beat
        /\ leading'[w] = IsSyncingNode(Stored(w))
        /\ syncing'[w] = (syncing[w] \/ IsSyncingNode(Stored(w)))
    BY <1>2 DEF Refresh, Running, TypeOK
  <2>2. Owns(w) /\ beat.age < Lease
    BY <2>1, StoredType DEF SyncingLeads
  <2>3. QED
    BY <2>1, <2>2, StoredType DEF Owns
<1>3. ASSUME ~Tick, ~Refresh(w)
      PROVE  leading'[w] /\ Owns(w)' /\ beat'.age < Lease
  <2>1. ASSUME NEW v \in Workers, Gone(v)
        PROVE  v # w /\ at'[w] = at[w] /\ lapsed' \cup {v} = lapsed \cup {v}
               /\ syncing[w] /\ leading'[w] = leading[w]
    BY <2>1 DEF Gone, TypeOK
  <2>2. /\ syncing[w] /\ at[w] # "leaving" /\ at[w] # "down"
        /\ w \notin lapsed
        /\ leading'[w] = leading[w]
        /\ ~Resign(w)
    <3>1. ASSUME NEW v \in Workers, Gone(v)
          PROVE  /\ syncing[w] /\ at[w] # "leaving" /\ w \notin lapsed
                 /\ leading'[w] = leading[w]
      BY <3>1, <2>1
    <3>2. ASSUME NEW v \in Workers \ {w}, Refresh(v)
          PROVE  /\ syncing[w] /\ at[w] # "leaving" /\ w \notin lapsed
                 /\ leading'[w] = leading[w]
      BY <3>2 DEF Refresh, TypeOK
    <3>3. ASSUME NEW v \in Workers,
                 \/ Renew(v) \/ TakeOver(v) \/ StartBlock(v) \/ EndBlock(v)
                 \/ Stop(v) \/ Resign(v) \/ Start(v) \/ Stall(v) \/ Wake(v)
          PROVE  /\ syncing[w] /\ w \notin lapsed
                 /\ leading'[w] = leading[w]
                 /\ at[w] # "leaving"
      BY <3>3 DEF Renew, TakeOver, StartBlock, EndBlock, Stop, Resign, Start,
                  Stall, Wake, Running, process, TypeOK
    <3>4. ASSUME UNCHANGED vars
          PROVE  /\ syncing[w] /\ at[w] # "leaving" /\ w \notin lapsed
                 /\ leading'[w] = leading[w]
      BY <3>4 DEF vars
    <3>5. /\ syncing[w] /\ at[w] # "leaving" /\ w \notin lapsed
          /\ leading'[w] = leading[w]
      BY <1>3, <3>1, <3>2, <3>3, <3>4 DEF Next, Act, Exit, Crash
    <3>6. ~Resign(w)
      BY DEF Resign, TypeOK
    <3>7. QED
      BY <3>5, <3>6 DEF DownIsIdle
  <2>3. leading[w] /\ Owns(w) /\ beat.age < Lease
    BY <2>2 DEF SyncingLeads
  <2>4. Owns(w)' /\ (beat'.age = beat.age \/ beat'.age = 0)
    BY <1>3, <2>2, <2>3, NextOwner
  <2>5. QED
    BY <2>2, <2>3, <2>4, LeaseAssumption
<1>4. QED
  BY <1>1, <1>2, <1>3

LEMMA NextRenewed ==
  ASSUME TypeOK, TypeOK', DownIsIdle, RegistrationsMatch, Renewed,
         [Next]_vars
  PROVE  Renewed'
<1> USE LeaseAssumption
<1> DEFINE InTime(w) ==
      /\ at[w] = "up" => beat.age <= IF rested[w] THEN 1 ELSE 0
      /\ at[w] = "stopping" => beat.age + wait[w] <= StopWait + 1
<1> SUFFICES ASSUME NEW w \in Workers, stalls' = 0, leading'[w], Owns(w)',
                    TRUE \notin sent'[w]
             PROVE  InTime(w)'
  BY DEF Renewed
<1>1. CASE beat'.age = 0
  BY <1>1 DEF TypeOK
<1>2. ASSUME leading[w], Owns(w), TRUE \notin sent[w], stalls = 0
      PROVE  InTime(w)
  BY <1>2 DEF Renewed
<1>3. Owns(w) => beat.age \in 0 .. Lease
  BY DEF TypeOK, Owns
<1>4. CASE Tick
  <2>1. /\ leading[w] /\ stalls = 0
        /\ at' = at /\ sent' = sent
        /\ rested'[w] = TRUE /\ wait'[w] = Less(wait[w])
    BY <1>4 DEF Tick, faults
  <2>2. Owns(w)
    BY <1>4, TickType DEF Owns
  <2>3. InTime(w)
    BY <1>2, <2>1, <2>2
  <2>4. at[w] # "down" /\ ~stalled[w]
    BY <2>1 DEF DownIsIdle
  <2>5. /\ at[w] = "up" => ~rested[w]
        /\ at[w] = "stopping" => wait[w] > 0
    BY <1>4, <2>4 DEF Tick, OnTime
  <2>6. at[w] = "up" => beat.age = 0
    BY <1>3, <2>2, <2>3, <2>5
  <2>7. beat'.age <= beat.age + 1
    BY <1>3, <1>4, <2>2, TickType DEF Owns
  <2>8. wait[w] \in Nat /\ beat'.age \in Nat
    BY DEF TypeOK, Owns
  <2>9. at[w] = "stopping" => beat'.age + wait'[w] <= StopWait + 1
    BY <1>3, <2>1, <2>2, <2>3, <2>5, <2>7, <2>8 DEF Less
  <2>10. QED
    BY <1>3, <2>1, <2>2, <2>6, <2>7, <2>8, <2>9
<1>5. ASSUME Refresh(w)
      PROVE  FALSE
  <2>1. IsSyncingNode(Stored(w))
    BY <1>5 DEF Refresh, TypeOK
  <2>2. Primary(Stored(w)) /\ beat # None
    BY <2>1, StoredType DEF Owns
  <2>3. sent'[w] = sent[w] \cup {beat # None}
    BY <1>5, <2>1, <2>2 DEF Refresh, TypeOK
  <2>4. QED
    BY <2>2, <2>3
<1>6. ASSUME NEW v \in Workers, Renew(v), beat'.age # 0
      PROVE  InTime(w)'
  <2>1. PICK same \in sent[v] :
           Nominate(v, same, sent[v] \ {same}, queue[v])
    BY <1>6 DEF Renew
  <2>2. same \in BOOLEAN
    BY DEF TypeOK
  <2>3. beat' # [owner |-> v, age |-> 0]
    BY <1>6
  <2>4. /\ beat' = beat /\ ~same
        /\ sent' = [sent EXCEPT ![v] = sent[v] \ {same}]
    BY <2>1, <2>2, <2>3 DEF Nominate, Matches
  <2>5. TRUE \notin sent[w]
    BY <2>4 DEF TypeOK
  <2>6. /\ leading[w] /\ Owns(w) /\ stalls = 0
        /\ at' = at /\ rested' = rested /\ wait' = wait
    BY <1>6, <2>4 DEF Renew, process, faults, Owns
  <2>7. QED
    BY <1>2, <2>4, <2>5, <2>6
<1>7. ASSUME NEW v \in Workers, TakeOver(v), beat'.age # 0
      PROVE  InTime(w)'
  <2>1. PICK q \in queue[v] :
           Nominate(v, q.same, sent[v], queue[v] \ {q})
    BY <1>7 DEF TakeOver
  <2>2. beat' # [owner |-> v, age |-> 0]
    BY <1>7
  <2>3. beat' = beat /\ sent' = [sent EXCEPT ![v] = sent[v]]
    BY <2>1, <2>2 DEF Nominate
  <2>4. beat' = beat /\ sent'[w] = sent[w]
    BY <2>3 DEF TypeOK
  <2>5. /\ leading[w] /\ Owns(w) /\ stalls = 0
        /\ at' = at /\ rested' = rested /\ wait' = wait
    BY <1>7, <2>4 DEF TakeOver, process, faults, Owns
  <2>6. QED
    BY <1>2, <2>4, <2>5
<1>8. ASSUME Stop(w)
      PROVE  InTime(w)'
  <2>1. /\ leading[w] /\ Owns(w) /\ TRUE \notin sent[w] /\ stalls = 0
        /\ at[w] = "up" /\ beat' = beat
        /\ at'[w] = "stopping" /\ wait'[w] = StopWait
    BY <1>8 DEF Stop, Running, process, TypeOK, Owns
  <2>2. QED
    BY <1>2, <1>3, <2>1
<1>9. ASSUME Resign(w)
      PROVE  InTime(w)'
  BY <1>9 DEF Resign, TypeOK
<1>10. ~Gone(w) /\ ~Start(w)
  BY DEF Gone, Start, process, TypeOK, DownIsIdle
<1>11. ASSUME /\ beat' = beat /\ sent'[w] = sent[w]
              /\ leading'[w] = leading[w] /\ at'[w] = at[w]
              /\ rested'[w] = rested[w] /\ wait'[w] = wait[w]
              /\ stalls = 0
       PROVE  InTime(w)'
  BY <1>2, <1>11 DEF Owns
<1>12. ASSUME NEW v \in Workers \ {w}, Resign(v) \/ Start(v), beat'.age # 0
       PROVE  InTime(w)'
  <2>1. Owns(w)
    BY <1>12, NextNewOwner
  <2>2. beat' = beat /\ sent'[w] = sent[w]
    BY <1>12, <2>1, ResignWrites DEF Start, Owns
  <2>3. QED
    BY <1>11, <1>12, <2>2 DEF Resign, Start, process, faults, TypeOK
<1>13. ASSUME NEW v \in Workers \ {w},
              Refresh(v) \/ Stop(v) \/ Gone(v), UNCHANGED stalls
       PROVE  InTime(w)'
  <2>1. CASE Refresh(v)
    <3>1. /\ beat' = beat /\ leading'[w] = leading[w]
          /\ rested'[w] = rested[w] /\ at'[w] = at[w] /\ wait'[w] = wait[w]
      <4>1. /\ at' = at \/ at' = [at EXCEPT ![v] = "stopping"]
            /\ wait' = wait \/ wait' = [wait EXCEPT ![v] = StopWait]
        BY <2>1 DEF Refresh
      <4>2. at'[w] = at[w] /\ wait'[w] = wait[w]
        BY <1>13, <4>1 DEF TypeOK
      <4>3. QED
        BY <1>13, <2>1, <4>2 DEF Refresh, TypeOK
    <3>2. \/ sent' = sent
          \/ sent' = [sent EXCEPT ![v] = @ \cup {beat # None}]
      BY <2>1 DEF Refresh
    <3>3. sent'[w] = sent[w]
      BY <1>13, <3>2 DEF TypeOK
    <3>4. QED
      BY <1>11, <1>13, <3>1, <3>3
  <2>2. CASE Stop(v)
    BY <1>11, <1>13, <2>2 DEF Stop, process, TypeOK
  <2>3. CASE Gone(v)
    <3>1. /\ beat' = beat /\ sent'[w] = sent[w]
          /\ leading'[w] = leading[w] /\ at'[w] = at[w]
          /\ rested'[w] = rested[w] /\ wait'[w] = wait[w]
      BY <1>13, <2>3 DEF Gone, TypeOK
    <3>2. QED
      BY <1>11, <1>13, <3>1
  <2>4. QED
    BY <1>13, <2>1, <2>2, <2>3
<1>14. ASSUME NEW v \in Workers,
              StartBlock(v) \/ EndBlock(v) \/ Stall(v) \/ Wake(v)
       PROVE  InTime(w)'
  <2>1. CASE StartBlock(v) \/ EndBlock(v)
    BY <1>11, <2>1 DEF StartBlock, EndBlock, faults
  <2>2. CASE Wake(v)
    BY <1>11, <2>2 DEF Wake, process, faults
  <2>3. CASE Stall(v)
    BY <2>3 DEF Stall, TypeOK
  <2>4. QED
    BY <1>14, <2>1, <2>2, <2>3
<1>15. CASE UNCHANGED vars
  BY <1>11, <1>15 DEF vars
<1>16. QED
  BY <1>1, <1>4, <1>5, <1>6, <1>7, <1>8, <1>9, <1>10, <1>12, <1>13, <1>14,
     <1>15
  DEF Next, Act, Exit, Crash, Refresh, Stop, faults

-----------------------------------------------------------------------------
(***************************************************************************)
(* The theorems                                                            *)
(***************************************************************************)

LEMMA NextInTime ==
  ASSUME TypeOK, IInv, [Next]_vars
  PROVE  RenewedInTime'
<1> USE LeaseAssumption
<1>1. CASE Tick
  <2>1. SUFFICES ASSUME stalls = 0, NEW w \in Workers, leading[w],
                        beat' # None, beat'.owner = w, beat'.age = Lease
                 PROVE  FALSE
    BY <1>1 DEF Tick, faults, IInv, RenewedInTime
  <2>2. /\ Owns(w)
        /\ beat.age \in 0 .. Lease
        /\ beat'.age <= beat.age + 1
    BY <1>1, <2>1, TickType DEF Owns, TypeOK
  <2>3. ~stalled[w] /\ at[w] # "down" /\ OnTime(w)
    BY <1>1, <2>1 DEF Tick, IInv, DownIsIdle
  <2>4. TRUE \notin sent[w]
    BY <2>3 DEF OnTime
  <2>5. CASE at[w] = "up"
    <3>1. ~rested[w]
      BY <2>3, <2>5 DEF OnTime
    <3>2. beat.age <= 0
      BY <2>1, <2>2, <2>4, <2>5, <3>1 DEF IInv, Renewed
    <3>3. QED
      BY <2>1, <2>2, <3>2
  <2>6. CASE at[w] = "stopping"
    <3>1. wait[w] > 0 /\ wait[w] \in Nat
      BY <2>3, <2>6 DEF OnTime, TypeOK
    <3>2. beat.age + wait[w] <= StopWait + 1
      BY <2>1, <2>2, <2>4, <2>6 DEF IInv, Renewed
    <3>3. QED
      BY <2>1, <2>2, <3>1, <3>2
  <2>7. QED
    BY <2>3, <2>5, <2>6 DEF OnTime, TypeOK
<1>2. ASSUME NEW w \in Workers, Gone(w), UNCHANGED stalls
      PROVE  RenewedInTime'
  BY <1>2 DEF Gone, IInv, RenewedInTime
<1>3. ASSUME NEW w \in Workers, Stall(w)
      PROVE  RenewedInTime'
  BY <1>3 DEF Stall, RenewedInTime, TypeOK
<1>4. ASSUME UNCHANGED <<stalls, lapsed>>
      PROVE  RenewedInTime'
  BY <1>4 DEF IInv, RenewedInTime
<1>5. QED
  BY <1>1, <1>2, <1>3, <1>4
  DEF Next, Act, Exit, Crash, Refresh, Renew, TakeOver, StartBlock, EndBlock,
      Stop, Resign, Start, Wake, faults, process, vars

LEMMA NextInvariant ==
  ASSUME TypeOK, TypeOK', IInv, [Next]_vars
  PROVE  IInv'
BY NextIdle, NextMatches, NextRenewed, NextSyncing, NextInTime DEF IInv

LEMMA ElectionInvariant == Spec => [](TypeOK /\ IInv)
<1>1. Init => TypeOK /\ IInv
  BY InitType, InitInvariant
<1>2. TypeOK /\ IInv /\ [Next]_vars => (TypeOK /\ IInv)'
  BY NextType, NextInvariant
<1>3. QED
  BY <1>1, <1>2, PTL DEF Spec

\* A worker that does not stall renews its heartbeat before it is stale, or
\* resigns, whoever else crashes, stops or starts again.
THEOREM RenewedInTimeAlways == Spec => []RenewedInTime
<1>1. IInv => RenewedInTime
  BY DEF IInv
<1>2. QED
  BY <1>1, ElectionInvariant, PTL

\* No two workers import blocks at the same time, unless the heartbeat of one
\* became stale on it or it resigned in the middle of a block.
THEOREM OneWriterAlways == Spec => []OneWriter
<1>1. ASSUME TypeOK, IInv
      PROVE  OneWriter
  <2>1. ASSUME NEW w \in Workers \ lapsed, writing[w], at[w] # "leaving"
        PROVE  Owns(w)
    BY <1>1, <2>1 DEF IInv, DownIsIdle, SyncingLeads
  <2>2. QED
    BY <2>1 DEF OneWriter, Owns
<1>2. QED
  BY <1>1, ElectionInvariant, PTL

\* A heartbeat passes from one worker to another only when it is stale, or
\* its owner has resigned, however long a registration was queued.
THEOREM TakenWhenStaleAlways == Spec => TakenWhenStale
<1> DEFINE Step ==
      beat # None /\ beat' # None /\ beat'.owner \in Workers \ {beat.owner}
         => beat.age = Lease
<1>1. ASSUME TypeOK, IInv, [Next]_vars
      PROVE  [Step]_vars
  <2>1. SUFFICES ASSUME beat # None, beat' # None,
                        NEW w \in Workers, beat'.owner = w, beat.owner # w
                 PROVE  beat.age = Lease
    OBVIOUS
  <2>2. Renew(w) \/ TakeOver(w)
    BY <1>1, <2>1, NextNewOwner DEF Owns
  <2>3. QED
    BY <1>1, <2>1, <2>2, NominateWhenStale DEF IInv, Owns
<1>2. QED
  BY <1>1, ElectionInvariant, PTL DEF Spec, TakenWhenStale
=============================================================================
