---------------------------- MODULE SyncingNode -----------------------------
(***************************************************************************)
(* Which of several bitcore-node processes synchronises a chain: the       *)
(* heartbeat of models/state.ts, BaseP2PWorker of services/p2p.ts and      *)
(* start and stop of modules/bitcoin/p2p.ts.                               *)
(*                                                                         *)
(* The heartbeat names a process and a time.  Its owner renews it about    *)
(* twice a second; another worker takes it over with a registration that   *)
(* it has queued for five minutes and that only replaces the heartbeat it  *)
(* was queued with.  A tick is the pause between two rounds of a worker;   *)
(* Lease ticks stand for the five minutes.  Whether a remembered heartbeat *)
(* is still the stored one is kept as a flag, which every write clears.    *)
(***************************************************************************)
EXTENDS Integers, FiniteSets

CONSTANTS
    Workers,
    Lease,        \* ticks until a heartbeat is stale, and in the queue
    StopWait,     \* ticks unregisterSyncingNode waits
    MaxCrashes, MaxStops, MaxStalls,      \* bounds
    Nobody,       \* a process that is gone
    None

ASSUME LeaseAssumption ==
    /\ Lease \in Nat /\ StopWait \in Nat
    /\ 0 < StopWait /\ StopWait + 1 < Lease
    /\ {MaxCrashes, MaxStops, MaxStalls} \subseteq Nat
    /\ {Nobody, None} \cap Workers = {}
    /\ None \notin [owner : Workers \cup {Nobody}, age : Nat]
    /\ None \notin [mine : BOOLEAN, age : Nat]

VARIABLES
    beat,      \* the stored heartbeat, or None
    at,        \* at[w]: "down", "up", "stopping" or "leaving"
    seen,      \* seen[w]: lastHeartBeat, with whether it is w's own
    leading,   \* leading[w]: isSyncingNode
    syncing,   \* syncing[w]: w has started sync()
    writing,   \* writing[w]: w is in the middle of a block
    sent,      \* sent[w]: primary registrations under way
    queue,     \* queue[w]: the queued registrations
    rested,    \* rested[w]: the pause since the last round is over
    wait,      \* wait[w]: ticks left before a stopping worker resigns
    stalled,   \* stalled[w]: w gets nothing done
    crashes, stops, stalls,
    lapsed     \* history: workers whose heartbeat became stale on them

vars == <<beat, at, seen, leading, syncing, writing, sent, queue, rested,
          wait, stalled, crashes, stops, stalls, lapsed>>

faults == <<crashes, stops, stalls>>
process == <<seen, leading, syncing, writing>>

Running(w) == at[w] = "up" /\ ~stalled[w]

Init ==
    /\ beat = None
    /\ at = [w \in Workers |-> "up"]
    /\ seen = [w \in Workers |-> None]
    /\ leading = [w \in Workers |-> FALSE]
    /\ syncing = [w \in Workers |-> FALSE]
    /\ writing = [w \in Workers |-> FALSE]
    /\ sent = [w \in Workers |-> {}]
    /\ queue = [w \in Workers |-> {}]
    /\ rested = [w \in Workers |-> TRUE]
    /\ wait = [w \in Workers |-> 0]
    /\ stalled = [w \in Workers |-> FALSE]
    /\ crashes = 0 /\ stops = 0 /\ stalls = 0
    /\ lapsed = {}

-----------------------------------------------------------------------------
(* refreshSyncingNode                                                      *)

Stored(w) ==
    IF beat = None THEN None ELSE [mine |-> beat.owner = w, age |-> beat.age]

\* getIsSyncingNode, of a remembered heartbeat.
IsSyncingNode(b) == b # None /\ b.mine /\ b.age < Lease

\* Mutant: a delay of one tick.
QueuedShortly(w) == [due |-> 1, same |-> TRUE]

\* registerSyncingNode({ primary: false })
Queued(w) == [due |-> Lease, same |-> TRUE]

\* Mutant: a heartbeat of one's own is not renewed.
PrimaryOnce(b) == b = None

\* !this.lastHeartBeat || this.getIsSyncingNode()
Primary(b) == b = None \/ IsSyncingNode(b)

\* One round: read the heartbeat, start or give up the synchronisation, and
\* register for the next one.
Refresh(w) ==
    LET was == IsSyncingNode(seen[w])
        now == IsSyncingNode(Stored(w))
        lost == was /\ ~now
    IN  /\ Running(w)
        /\ rested[w]
        /\ seen' = [seen EXCEPT ![w] = Stored(w)]
        /\ leading' = [leading EXCEPT ![w] = now]
        /\ syncing' = [syncing EXCEPT ![w] = @ \/ now]
        /\ rested' = [rested EXCEPT ![w] = FALSE]
        /\ IF lost   \* "Syncing Node Renewal Failure" ends in stop()
           THEN /\ at' = [at EXCEPT ![w] = "stopping"]
                /\ wait' = [wait EXCEPT ![w] = StopWait]
                /\ queue' = [queue EXCEPT ![w] = {}]
                /\ UNCHANGED sent
           ELSE /\ IF Primary(Stored(w))
                   THEN /\ sent' = [sent EXCEPT ![w] = @ \cup {beat # None}]
                        /\ UNCHANGED queue
                   ELSE /\ queue' = [queue EXCEPT ![w] = @ \cup {Queued(w)}]
                        /\ UNCHANGED sent
                /\ UNCHANGED <<at, wait>>
        /\ UNCHANGED <<beat, writing, stalled, faults, lapsed>>

\* What was remembered of the heartbeat is the stored one no longer.
Outdated(Q) == {[q EXCEPT !.same = FALSE] : q \in Q}

\* Mutants: the heartbeat is replaced in any case, or never set when missing.
MatchesAlways(same) == TRUE
MatchesEqual(same) == same

\* The filter of selfNominateSyncingNode.
Matches(same) == beat = None \/ same

\* selfNominateSyncingNode, with a remembered heartbeat that may have been
\* replaced, or cleared.
Nominate(w, same, restSent, restQueue) ==
    IF Matches(same)
    THEN /\ beat' = [owner |-> w, age |-> 0]
         /\ sent' = [v \in Workers |->
                        IF (IF v = w THEN restSent ELSE sent[v]) = {}
                        THEN {} ELSE {FALSE}]
         /\ queue' = [v \in Workers |->
                         Outdated(IF v = w THEN restQueue ELSE queue[v])]
    ELSE /\ sent' = [sent EXCEPT ![w] = restSent]
         /\ queue' = [queue EXCEPT ![w] = restQueue]
         /\ UNCHANGED beat

\* A primary registration reaches the database, even of a worker that has
\* begun to stop.
Renew(w) ==
    /\ at[w] # "down" /\ ~stalled[w]
    /\ \E same \in sent[w] :
          Nominate(w, same, sent[w] \ {same}, queue[w])
    /\ UNCHANGED <<at, process, rested, wait, stalled, faults, lapsed>>

\* A queued registration is due.
TakeOver(w) ==
    /\ Running(w)
    /\ \E q \in queue[w] :
          /\ q.due = 0
          /\ Nominate(w, q.same, sent[w], queue[w] \ {q})
    /\ UNCHANGED <<at, process, rested, wait, stalled, faults, lapsed>>

-----------------------------------------------------------------------------
(* sync, once started, goes on until the process is disconnected            *)

StartBlock(w) ==
    /\ at[w] \in {"up", "stopping"} /\ ~stalled[w]
    /\ syncing[w]
    /\ ~writing[w]
    /\ writing' = [writing EXCEPT ![w] = TRUE]
    /\ UNCHANGED <<beat, at, seen, leading, syncing, sent, queue, rested,
                   wait, stalled, faults, lapsed>>

EndBlock(w) ==
    /\ writing[w] /\ ~stalled[w]
    /\ writing' = [writing EXCEPT ![w] = FALSE]
    /\ UNCHANGED <<beat, at, seen, leading, syncing, sent, queue, rested,
                   wait, stalled, faults, lapsed>>

-----------------------------------------------------------------------------
(* start and stop                                                          *)

\* stop: no more rounds, and clearTimeout for all that is queued.
Stop(w) ==
    /\ Running(w)
    /\ stops < MaxStops
    /\ stops' = stops + 1
    /\ at' = [at EXCEPT ![w] = "stopping"]
    /\ wait' = [wait EXCEPT ![w] = StopWait]
    /\ queue' = [queue EXCEPT ![w] = {}]
    /\ UNCHANGED <<beat, process, sent, rested, stalled, crashes, stalls,
                   lapsed>>

\* unregisterSyncingNode and selfResignSyncingNode, then disconnect.
Resign(w) ==
    /\ at[w] = "stopping" /\ ~stalled[w]
    /\ wait[w] = 0
    /\ seen' = [seen EXCEPT ![w] = Stored(w)]
    /\ IF IsSyncingNode(Stored(w))
       THEN /\ beat' = None
            /\ sent' = [v \in Workers |-> IF sent[v] = {} THEN {} ELSE {FALSE}]
            /\ queue' = [v \in Workers |-> Outdated(queue[v])]
       ELSE UNCHANGED <<beat, sent, queue>>
    /\ at' = [at EXCEPT ![w] = "leaving"]
    /\ UNCHANGED <<leading, syncing, writing, rested, wait, stalled, faults,
                   lapsed>>

\* The process is gone, after stop or in a crash.
Gone(w) ==
    /\ at' = [at EXCEPT ![w] = "down"]
    /\ seen' = [seen EXCEPT ![w] = None]
    /\ leading' = [leading EXCEPT ![w] = FALSE]
    /\ syncing' = [syncing EXCEPT ![w] = FALSE]
    /\ writing' = [writing EXCEPT ![w] = FALSE]
    /\ sent' = [sent EXCEPT ![w] = {}]
    /\ queue' = [queue EXCEPT ![w] = {}]
    /\ stalled' = [stalled EXCEPT ![w] = FALSE]
    /\ lapsed' = lapsed \ {w}
    /\ UNCHANGED <<beat, rested, wait>>

Exit(w) ==
    /\ at[w] = "leaving" /\ ~stalled[w]
    /\ Gone(w)
    /\ UNCHANGED faults

Crash(w) ==
    /\ at[w] # "down"
    /\ crashes < MaxCrashes
    /\ crashes' = crashes + 1
    /\ Gone(w)
    /\ UNCHANGED <<stops, stalls>>

\* A new process, which may have the process id of the old one.
Start(w) ==
    /\ at[w] = "down"
    /\ at' = [at EXCEPT ![w] = "up"]
    /\ rested' = [rested EXCEPT ![w] = TRUE]
    /\ \/ UNCHANGED beat
       \/ /\ beat # None
          /\ beat.owner = w
          /\ beat' = [beat EXCEPT !.owner = Nobody]
    /\ UNCHANGED <<process, sent, queue, wait, stalled, faults, lapsed>>

-----------------------------------------------------------------------------
(* Time                                                                    *)

Stall(w) ==
    /\ Running(w)
    /\ stalls < MaxStalls
    /\ stalls' = stalls + 1
    /\ stalled' = [stalled EXCEPT ![w] = TRUE]
    /\ UNCHANGED <<beat, at, process, sent, queue, rested, wait, crashes,
                   stops, lapsed>>

Wake(w) ==
    /\ stalled[w]
    /\ stalled' = [stalled EXCEPT ![w] = FALSE]
    /\ UNCHANGED <<beat, at, process, sent, queue, rested, wait, faults,
                   lapsed>>

\* A worker that does not stall makes its rounds and has its timers and
\* database calls answered within a tick.
OnTime(w) ==
    \/ at[w] = "down"
    \/ stalled[w]
    \/ /\ sent[w] = {}
       /\ at[w] = "up" => ~rested[w] /\ \A q \in queue[w] : q.due > 0
       /\ at[w] = "stopping" => wait[w] > 0
       /\ at[w] # "leaving"

Older(b) == IF b = None \/ b.age = Lease THEN b ELSE [b EXCEPT !.age = @ + 1]
Less(n) == IF n = 0 THEN 0 ELSE n - 1

Tick ==
    /\ \A w \in Workers : OnTime(w)
    /\ beat' = Older(beat)
    /\ seen' = [w \in Workers |-> Older(seen[w])]
    /\ queue' = [w \in Workers |->
                    {[q EXCEPT !.due = Less(@)] : q \in queue[w]}]
    /\ wait' = [w \in Workers |-> Less(wait[w])]
    /\ rested' = [w \in Workers |-> TRUE]
    /\ lapsed' = lapsed \cup
           {w \in Workers : /\ leading[w]
                            /\ beat' # None
                            /\ beat'.owner = w
                            /\ beat'.age = Lease}
    /\ UNCHANGED <<at, leading, syncing, writing, sent, stalled, faults>>

Act(w) ==
    \/ Refresh(w)
    \/ Renew(w)
    \/ TakeOver(w)
    \/ EndBlock(w)
    \/ Resign(w)
    \/ Exit(w)
    \/ Wake(w)

Next ==
    \/ \E w \in Workers :
          \/ Act(w)
          \/ StartBlock(w)
          \/ Stop(w)
          \/ Crash(w)
          \/ Start(w)
          \/ Stall(w)
    \/ Tick

Spec == Init /\ [][Next]_vars

\* Timers run out, calls are answered and a process that stops ends; nobody
\* has to start a worker.
FairSpec ==
    /\ Spec
    /\ WF_vars(Tick)
    /\ \A w \in Workers :
          /\ WF_vars(Refresh(w)) /\ WF_vars(Renew(w)) /\ WF_vars(TakeOver(w))
          /\ WF_vars(EndBlock(w)) /\ WF_vars(Resign(w)) /\ WF_vars(Exit(w))
          /\ WF_vars(Wake(w))

-----------------------------------------------------------------------------
(* Properties                                                              *)

\* The heartbeat, the workers' memory of it and the timers have their types.
TypeOK ==
    /\ beat = None \/ beat \in [owner : Workers \cup {Nobody}, age : 0 .. Lease]
    /\ at \in [Workers -> {"down", "up", "stopping", "leaving"}]
    /\ seen \in [Workers ->
                    {None} \cup [mine : BOOLEAN, age : 0 .. Lease]]
    /\ leading \in [Workers -> BOOLEAN] /\ syncing \in [Workers -> BOOLEAN]
    /\ writing \in [Workers -> BOOLEAN] /\ rested \in [Workers -> BOOLEAN]
    /\ stalled \in [Workers -> BOOLEAN]
    /\ sent \in [Workers -> SUBSET BOOLEAN]
    /\ queue \in [Workers -> SUBSET [due : 0 .. Lease, same : BOOLEAN]]
    /\ wait \in [Workers -> 0 .. StopWait]
    /\ crashes \in 0 .. MaxCrashes /\ stops \in 0 .. MaxStops
    /\ stalls \in 0 .. MaxStalls
    /\ lapsed \subseteq Workers

\* A worker that does not stall renews its heartbeat before it is stale, or
\* resigns.
RenewedInTime == stalls = 0 => lapsed = {}

\* No two workers import blocks at the same time, unless the heartbeat of one
\* became stale, or it resigned while it was in the middle of a block.
OneWriter ==
    \A v, w \in Workers \ lapsed :
        v # w /\ writing[v] /\ writing[w] =>
            at[v] = "leaving" \/ at[w] = "leaving"

\* A heartbeat passes from one worker to another only when it is stale, or
\* its owner has resigned: no registration, however long it was queued, cuts
\* off a worker that renews.
TakenWhenStale ==
    [][beat # None /\ beat' # None /\ beat'.owner \in Workers \ {beat.owner}
          => beat.age = Lease]_vars

\* As long as some worker stays up, the chain has a syncing node again and
\* again, whoever crashes, stops, stalls or starts again meanwhile.
SyncGoesOn ==
    \A w \in Workers :
        <>[](at[w] = "up") =>
            []<>(\E v \in Workers : at[v] = "up" /\ leading[v])

=============================================================================
