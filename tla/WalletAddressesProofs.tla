----------------------- MODULE WalletAddressesProofs -----------------------
(***************************************************************************)
(* What holds of WalletAddresses for any number of requests, gaps, steps   *)
(* of a scan and addresses in use: what the wallet counts is stored, no    *)
(* address is answered twice, and the gap is kept.                         *)
(***************************************************************************)
EXTENDS WalletAddresses, FiniteSetTheorems, WellFoundedInduction, TLAPS

-----------------------------------------------------------------------------
(* The inductive invariant                                                 *)

\* An address has been derived and its index is not stored yet.
Deriving(q) == q.op \in {"address", "change"} /\ q.at \in {"insert", "write"}

\* A request that may write the wallet it holds.
Holding(q) ==
    \/ Deriving(q)
    \/ q.op \in {"address", "change"} /\ q.at = "sync"
    \/ q.op = "sync"
    \/ q.op = "scan" /\ q.at \notin {"deregister", "read"} /\ ~q.failed

\* The addresses below an index of branch b are stored, or are in extra.
Counts(index, b, extra) ==
    /\ index[b] <= MaxIndex[b]
    /\ cut \/ \A i \in Indices : i < index[b] => i \in stored[b] \cup extra

Good(index) == \A b \in Branches : Counts(index, b, {})

\* What a request has still to store of a branch.
Coming(q, b) == IF q.at = "insert" /\ q.branch = b THEN q.batch ELSE {}

\* What a request holds.
HoldsFit(q) ==
    /\ q.failed => q.op = "scan" /\ q.at \in {"status", "storeStatus"}
    /\ Holding(q) =>
          /\ q.doc \in Wallet /\ q.seen \in Index
          /\ \A b \in Branches : /\ q.seen[b] <= q.doc.index[b]
                                 /\ Counts(q.doc.index, b, Coming(q, b))
    /\ q.at = "storeStatus" => q.status \in Wallet /\ Good(q.status.index)

\* The address it has derived.
DerivedFit(q) ==
    /\ q.op = "address" => q.branch = "main"
    /\ q.op = "change" => q.branch = "change"
    /\ Deriving(q) =>
          /\ q.addr \in Indices
          /\ q.seen[q.branch] = q.addr
          /\ q.doc.index[q.branch] = q.addr + 1
          /\ q.at = "insert" => q.batch = {q.addr}
    /\ q.op = "address" /\ q.at = "sync" => q.addr \in Indices

\* The addresses it looks up, and those a scan has found: the last is in use.
ListsFit(q) ==
    /\ q.op = "address" /\ q.at = "activity" => q.list \subseteq stored["main"]
    /\ q.op = "scan" /\ q.at = "insert" =>
          LET top == q.doc.index[q.branch] - 1
          IN  /\ top \in q.batch \cap active[q.branch]
              /\ \A n \in q.batch : n <= top

Fit(q) == HoldsFit(q) /\ DerivedFit(q) /\ ListsFit(q)

WalletFits ==
    /\ Good(wallet.index)
    /\ \A b \in Branches : stored[b] \cup active[b] \subseteq 0 .. MaxIndex[b] - 1

\* Requests that are past the check of the gap, or would be if the addresses X
\* were paid, and the unused addresses behind those in use and X.
Passing(X) ==
    Passed \cup {r \in Requests : /\ At(r, {"address"}, "activity")
                                  /\ req[r].list \cap (active["main"] \cup X) # {}}

Beyond(X) ==
    {i \in stored["main"] :
        \A j \in (stored["main"] \cap active["main"]) \cup X : j < i}

\* Whatever has been paid by the time they look, the gap is kept.
GapKept ==
    cut \/ \A X \in SUBSET stored["main"] :
             Cardinality(Beyond(X)) + Cardinality(Passing(X)) <=
                 Gap - 1 + Cardinality(Requests)

\* Who has written the index of its address, and will answer it.
Answering(q) == q.op = "address" /\ q.at = "sync"

Answers ==
    \/ overwritten
    \/ /\ ~repeated
       /\ \A g \in given : g < wallet.index["main"]
       /\ \A r \in Requests : Answering(req[r]) =>
             /\ req[r].addr < wallet.index["main"]
             /\ req[r].addr \notin given
             /\ \A s \in Requests \ {r} :
                   Answering(req[s]) => req[s].addr # req[r].addr

IInv ==
    /\ Types
    /\ WalletFits
    /\ \A r \in Requests : Fit(req[r])
    /\ GapKept
    /\ Answers

-----------------------------------------------------------------------------
(* Numbers                                                                 *)

LEMMA Smallest ==
  ASSUME NEW T, T \subseteq Nat, T # {}
  PROVE  \E m \in T : \A n \in T : m <= n
<1> DEFINE R == {ss \in Nat \X Nat : ss[1] < ss[2]}
<1>1. IsWellFoundedOn(R, Nat)
  BY NatLessThanWellFounded DEF OpToRel
<1>2. \A m, n \in Nat : <<n, m>> \notin R => m <= n
  OBVIOUS
<1> HIDE DEF R
<1>3. \E m \in T : \A n \in T : <<n, m>> \notin R
  BY <1>1, WFMin
<1>4. QED
  BY <1>2, <1>3

LEMMA IndexNat ==
  ASSUME NEW index \in Index, NEW b \in Branches
  PROVE  index[b] \in Nat
BY BoundAssumption DEF Index, Indices

\* What a branch has room for is an index.
LEMMA IndexIn ==
  ASSUME NEW index \in [Branches -> Nat], \A b \in Branches : index[b] <= MaxIndex[b]
  PROVE  index \in Index
<1>1. ASSUME NEW b \in Branches
      PROVE  index[b] \in Indices \cup {i + 1 : i \in Indices} \cup {0}
  <2>1. MaxIndex[b] \in Nat /\ index[b] \in Nat /\ index[b] <= MaxIndex[b]
    BY BoundAssumption
  <2>2. CASE index[b] # 0
    <3>1. index[b] - 1 \in 0 .. MaxIndex[b] - 1
      BY <2>1, <2>2
    <3>2. index[b] - 1 \in Indices
      BY <3>1 DEF Indices
    <3>3. index[b] = (index[b] - 1) + 1
      BY <2>1
    <3>4. QED
      BY <3>2, <3>3
  <2>3. QED
    BY <2>2
<1>2. QED
  BY <1>1 DEF Index

LEMMA IndicesNat ==
  /\ Indices \subseteq Nat
  /\ \A b \in Branches : 0 .. MaxIndex[b] - 1 \subseteq Indices
BY BoundAssumption DEF Indices

LEMMA Times ==
  ASSUME NEW n \in Nat, NEW step \in Nat \ {0}
  PROVE  n * step \in Nat /\ n <= n * step
OBVIOUS

\* A scan ends behind an address in use, or where it began.
LEMMA ScanEndsInUse ==
  ASSUME NEW b \in Branches, NEW from \in Nat, NEW step \in Nat \ {0},
         from <= MaxIndex[b], active[b] \subseteq 0 .. MaxIndex[b] - 1
  PROVE  LET to == ScanEnd(b, from, step)
         IN  /\ to \in Nat /\ from <= to /\ to <= MaxIndex[b]
             /\ to # from => to - 1 \in active[b]
<1> DEFINE inUse(n) == from + n * step - 1 \in active[b]
           next(n) == n + 1 .. n + Patience(step)
           unused(k) == \A n \in next(k) : ~inUse(n)
           k == Rounds(b, from, step)
<1>1. MaxIndex[b] \in Nat /\ Patience(step) \in Nat \ {0}
  BY BoundAssumption, GapAssumption DEF Patience
<1>2. unused(MaxIndex[b])
  <2>1. ASSUME NEW n \in next(MaxIndex[b])
        PROVE  ~inUse(n)
    <3>1. n \in Nat /\ n > MaxIndex[b]
      BY <1>1
    <3>2. n * step \in Nat /\ n <= n * step
      BY <3>1, Times
    <3>3. QED
      BY <1>1, <3>1, <3>2
  <2>2. QED
    BY <2>1
<1> HIDE DEF inUse
<1>3. \E m \in 0 .. MaxIndex[b] : /\ unused(m)
                                  /\ \A n \in 0 .. m - 1 : ~unused(n)
  <2> DEFINE T == {m \in 0 .. MaxIndex[b] : unused(m)}
  <2>1. MaxIndex[b] \in T
    BY <1>1, <1>2
  <2>2. T \subseteq Nat
    BY <1>1
  <2> HIDE DEF T
  <2>3. PICK m \in T : \A n \in T : m <= n
    BY <2>1, <2>2, Smallest
  <2>4. m \in 0 .. MaxIndex[b] /\ unused(m)
    BY <2>3 DEF T
  <2>5. ASSUME NEW n \in 0 .. m - 1
        PROVE  ~unused(n)
    <3>1. n \in 0 .. MaxIndex[b] /\ ~(m <= n)
      BY <1>1, <2>4
    <3>2. QED
      BY <2>3, <3>1 DEF T
  <2>6. QED
    BY <2>4, <2>5
<1>4. /\ k \in 0 .. MaxIndex[b] /\ unused(k)
      /\ \A m \in 0 .. k - 1 : \E n \in next(m) : inUse(n)
  <2>1. \E m \in 0 .. MaxIndex[b] :
            /\ unused(m)
            /\ \A i \in 0 .. m - 1 : \E n \in next(i) : inUse(n)
    BY <1>3
  <2>2. QED
    BY <2>1 DEF Rounds, inUse
<1> HIDE DEF k
<1>5. k \in Nat /\ k * step \in Nat
  BY <1>1, <1>4, Times
<1>6. ScanEnd(b, from, step) = from + k * step
  BY DEF ScanEnd, k
<1>7. CASE k = 0
  BY <1>5, <1>6, <1>7
<1>8. CASE k # 0
  <2>1. PICK n \in next(k - 1) : inUse(n)
    BY <1>4, <1>5, <1>8
  <2>2. n \in Nat /\ k <= n /\ n < k + Patience(step)
    BY <1>1, <1>5, <1>8
  <2>3. n = k
    BY <1>1, <1>4, <1>5, <2>1, <2>2
  <2>4. from + k * step - 1 \in active[b]
    BY <2>1, <2>3 DEF inUse
  <2>5. QED
    BY <1>1, <1>5, <1>6, <2>4
<1>9. QED
  BY <1>7, <1>8

-----------------------------------------------------------------------------
(* Steps that leave the addresses alone                                    *)

Became(r, q) == req' = [req EXCEPT ![r] = q]

Locks == Requests \cup {Free, Orphan}

\* At a stage that counts for the gap.
Near(q) == q.op = "address" /\ q.at \in {"activity", "lock", "insert"}

\* What is stored, used or cut later is no harm to what a request holds.
LEMMA FitKept ==
  ASSUME NEW q, cut => cut',
         \A b \in Branches : stored[b] \subseteq stored'[b] /\ active[b] \subseteq active'[b],
         q.branch \in Branches, Fit(q)
  PROVE  Fit(q)'
<1>1. "main" \in Branches
  BY DEF Branches
<1>2. ASSUME NEW index, NEW b \in Branches, NEW extra, Counts(index, b, extra)
      PROVE  Counts(index, b, extra)'
  BY <1>2 DEF Counts
<1>3. HoldsFit(q)'
  <2>1. HoldsFit(q)
    BY DEF Fit
  <2>2. Holding(q)' = Holding(q) /\ \A b \in Branches : Coming(q, b)' = Coming(q, b)
    BY DEF Holding, Deriving, Coming
  <2>3. ASSUME Holding(q), NEW b \in Branches
        PROVE  Counts(q.doc.index, b, Coming(q, b))'
    <3>1. Counts(q.doc.index, b, Coming(q, b))
      BY <2>1, <2>3 DEF HoldsFit
    <3>2. QED
      BY <1>2, <2>2, <3>1
  <2>4. ASSUME q.at = "storeStatus"
        PROVE  Good(q.status.index)'
    BY <1>2, <2>1, <2>4 DEF HoldsFit, Good
  <2>5. QED
    BY <2>1, <2>2, <2>3, <2>4 DEF HoldsFit
<1>4. DerivedFit(q)'
  BY DEF Fit, DerivedFit, Deriving
<1>5. ListsFit(q)'
  BY <1>1 DEF Fit, ListsFit
<1>6. QED
  BY <1>3, <1>4, <1>5 DEF Fit

LEMMA FitOfAll ==
  ASSUME Types, \A s \in Requests : Fit(req[s]), cut => cut',
         NEW r \in Requests, NEW q \in Request, Became(r, q), Fit(q)',
         \A b \in Branches : stored[b] \subseteq stored'[b] /\ active[b] \subseteq active'[b]
  PROVE  /\ req' \in [Requests -> Request]
         /\ (\A s \in Requests : Fit(req[s]))'
<1>1. \A s \in Requests : req[s] \in Request
  BY DEF Types
<1>2. req' \in [Requests -> Request]
  BY DEF Types, Became
<1>3. ASSUME NEW s \in Requests
      PROVE  Fit(req[s])'
  <2>1. PICK p \in Request : p = req[s] /\ (s # r => req'[s] = p)
    BY <1>1 DEF Types, Became
  <2>2. Fit(p)'
    BY <2>1, FitKept DEF Request
  <2>3. CASE s # r
    BY <2>1, <2>2, <2>3 DEF Fit, HoldsFit, DerivedFit, ListsFit, Coming, Counts, Good,
       Holding, Deriving
  <2>4. CASE s = r
    <3>1. req'[s] = q
      BY <2>4 DEF Became, Types
    <3>2. QED
      BY <3>1 DEF Fit, HoldsFit, DerivedFit, ListsFit, Coming, Counts, Good,
         Holding, Deriving
  <2>5. QED
    BY <2>3, <2>4
<1>4. QED
  BY <1>2, <1>3

LEMMA Finite ==
  ASSUME Types, WalletFits, NEW X
  PROVE  /\ IsFiniteSet(Beyond(X)) /\ Cardinality(Beyond(X)) \in Nat
         /\ Passing(X) \subseteq Requests
         /\ IsFiniteSet(Passing(X)) /\ Cardinality(Passing(X)) \in Nat
         /\ Cardinality(Passing(X)) <= Cardinality(Requests)
         /\ Cardinality(Requests) \in Nat
         /\ IsFiniteSet(stored["main"]) /\ Cardinality(stored["main"]) \in Nat
<1>1. stored["main"] \subseteq 0 .. MaxIndex["main"] - 1 /\ MaxIndex["main"] \in Nat
  BY BoundAssumption DEF WalletFits, Branches
<1>2. IsFiniteSet(0 .. MaxIndex["main"] - 1)
  BY <1>1, FS_Interval
<1>3. Beyond(X) \subseteq stored["main"]
  BY DEF Beyond
<1>4. IsFiniteSet(stored["main"])
  BY <1>1, <1>2, FS_Subset
<1>5. IsFiniteSet(Beyond(X))
  BY <1>3, <1>4, FS_Subset
<1>6. Passing(X) \subseteq Requests
  BY DEF Passing, Passed
<1>7. IsFiniteSet(Passing(X)) /\ Cardinality(Passing(X)) <= Cardinality(Requests)
  BY <1>6, RequestsAssumption, FS_Subset
<1>8. QED
  BY <1>4, <1>5, <1>6, <1>7, RequestsAssumption, FS_CardinalityType

\* The gap is kept if a request only goes on that was past the check.
LEMMA GapSame ==
  ASSUME IInv, NEW r \in Requests, NEW q \in Request, Became(r, q),
         cut' = cut,
         stored'["main"] = stored["main"], active'["main"] = active["main"],
         Near(q) => r \in Passing({})
  PROVE  GapKept'
<1> SUFFICES ASSUME ~cut, NEW X \in SUBSET stored["main"]
             PROVE  Cardinality(Beyond(X)') + Cardinality(Passing(X)') <=
                        Gap - 1 + Cardinality(Requests)
  BY DEF GapKept
<1>1. Beyond(X)' = Beyond(X)
  BY DEF Beyond
<1>2. Passing(X)' \subseteq Passing(X)
  <2>1. \A s \in Requests : req'[s] = IF s = r THEN q ELSE req[s]
    BY DEF Became, IInv, Types
  <2>2. Passing({}) \subseteq Passing(X)
    BY DEF Passing
  <2>3. Passing(X)' \subseteq Requests
    BY DEF Passing, Passed
  <2>4. ASSUME NEW s \in Requests, s \in Passing(X)', s # r
        PROVE  s \in Passing(X)
    BY <2>1, <2>4 DEF Passing, Passed, At
  <2>5. ASSUME r \in Passing(X)'
        PROVE  Near(q)
    BY <2>1, <2>5 DEF Passing, Passed, At, Near
  <2>6. QED
    BY <2>2, <2>3, <2>4, <2>5
<1>3. Cardinality(Passing(X)') <= Cardinality(Passing(X)) /\ Cardinality(Passing(X)') \in Nat
  BY <1>2, Finite, FS_Subset, FS_CardinalityType DEF IInv
<1>4. Cardinality(Beyond(X)) + Cardinality(Passing(X)) <= Gap - 1 + Cardinality(Requests)
  BY DEF IInv, GapKept
<1>5. /\ Cardinality(Beyond(X)) \in Nat /\ Cardinality(Passing(X)) \in Nat
      /\ Cardinality(Requests) \in Nat /\ Gap \in Nat
  BY Finite, GapAssumption DEF IInv
<1>6. QED
  BY <1>1, <1>3, <1>4, <1>5

LEMMA AnswersSame ==
  ASSUME IInv, NEW r \in Requests, NEW q \in Request, Became(r, q),
         UNCHANGED <<given, repeated>>,
         wallet.index["main"] \in Nat, wallet'.index["main"] \in Nat,
         overwritten' \/ (~overwritten /\ wallet.index["main"] <= wallet'.index["main"]),
         Answering(q) => Answering(req[r]) /\ q.addr = req[r].addr
  PROVE  Answers'
<1> SUFFICES ASSUME ~overwritten', ~overwritten
             PROVE  Answers'
  BY DEF Answers
<1>1. \A s \in Requests : req'[s] = IF s = r THEN q ELSE req[s]
  BY DEF Became, IInv, Types
<1>2. /\ ~repeated
      /\ \A g \in given : g < wallet.index["main"]
      /\ \A s \in Requests : Answering(req[s]) =>
            /\ req[s].addr < wallet.index["main"]
            /\ req[s].addr \notin given
            /\ \A p \in Requests \ {s} : Answering(req[p]) => req[p].addr # req[s].addr
  BY DEF IInv, Answers
<1>3. \A s \in Requests : Answering(req'[s]) =>
          Answering(req[s]) /\ req'[s].addr = req[s].addr
  BY <1>1
<1>4. \A s \in Requests : Answering(req[s]) => req[s].addr \in Nat
  BY IndicesNat DEF IInv, Fit, DerivedFit, Answering
<1>5. given \subseteq Nat
  BY IndicesNat DEF IInv, Types
<1>6. ASSUME NEW s \in Requests, Answering(req'[s])
      PROVE  /\ req'[s].addr < wallet'.index["main"] /\ req'[s].addr \notin given
             /\ \A p \in Requests \ {s} : Answering(req'[p]) => req'[p].addr # req'[s].addr
  BY <1>2, <1>3, <1>4, <1>6
<1>7. \A g \in given : g < wallet'.index["main"]
  BY <1>2, <1>5
<1>8. QED
  BY <1>2, <1>6, <1>7 DEF Answers, Answering

LEMMA MainIndex ==
  ASSUME Types
  PROVE  /\ wallet.index \in Index /\ \A b \in Branches : wallet.index[b] \in Nat
         /\ wallet.index["main"] \in Nat
BY IndexNat DEF Types, Wallet, Branches

\* A step that writes no more than the wallet.
LEMMA Writes ==
  ASSUME IInv, NEW r \in Requests, NEW q \in Request, Became(r, q), Fit(q),
         lock' \in Locks, UNCHANGED <<stored, active, history>>,
         wallet' \in Wallet, Good(wallet'.index), overwritten' \in BOOLEAN,
         Near(q) => r \in Passing({}), Answers'
  PROVE  IInv'
<1>1. UNCHANGED <<stored, active, cut, given, repeated>>
  BY DEF history
<1>2. \A s \in Requests : Fit(req[s])
  BY DEF IInv
<1>3. Types /\ WalletFits
  BY DEF IInv
<1>4. Fit(q)'
  BY <1>1, FitKept DEF Request
<1>5. req' \in [Requests -> Request] /\ (\A s \in Requests : Fit(req[s]))'
  BY <1>1, <1>2, <1>3, <1>4, FitOfAll
<1>6. Types'
  BY <1>1, <1>3, <1>5 DEF Types, Locks
<1>7. WalletFits'
  <2>1. Good(wallet.index)'
    BY <1>1 DEF Good, Counts
  <2>2. QED
    BY <1>1, <1>3, <2>1 DEF WalletFits
<1>8. GapKept'
  BY <1>1, GapSame
<1>9. QED
  BY <1>5, <1>6, <1>7, <1>8 DEF IInv

\* A step after which nobody new is about to answer.
LEMMA Usual ==
  ASSUME IInv, NEW r \in Requests, NEW q \in Request, Became(r, q), Fit(q),
         lock' \in Locks, UNCHANGED <<stored, active, history>>,
         wallet' \in Wallet, Good(wallet'.index), overwritten' \in BOOLEAN,
         overwritten' \/ (~overwritten /\ wallet.index["main"] <= wallet'.index["main"]),
         Near(q) => r \in Passing({}),
         Answering(q) => Answering(req[r]) /\ q.addr = req[r].addr
  PROVE  IInv'
<1>1. UNCHANGED <<given, repeated>>
  BY DEF history
<1>2. wallet.index["main"] \in Nat /\ wallet'.index["main"] \in Nat
  BY IndexNat DEF IInv, Types, Wallet, Branches
<1>3. Answers'
  BY <1>1, <1>2, AnswersSame
<1>4. QED
  BY <1>3, Writes

\* A step that writes nothing.
LEMMA Quiet ==
  ASSUME IInv, NEW r \in Requests, NEW q \in Request, Became(r, q), Fit(q),
         lock' \in Locks, UNCHANGED <<wallet, stored, active, overwritten, history>>,
         Near(q) => r \in Passing({}),
         Answering(q) => Answering(req[r]) /\ q.addr = req[r].addr
  PROVE  IInv'
<1>1. /\ wallet' \in Wallet /\ Good(wallet'.index) /\ overwritten' \in BOOLEAN
      /\ overwritten' \/ (~overwritten /\ wallet.index["main"] <= wallet'.index["main"])
  BY MainIndex DEF IInv, Types, WalletFits
<1>2. UNCHANGED <<stored, active, history>>
  OBVIOUS
<1>3. QED
  BY <1>1, <1>2, Usual

-----------------------------------------------------------------------------
(* Requests that begin, end or read                                        *)

LEMMA IdleFits ==
  /\ Idle \in Request /\ Fit(Idle) /\ ~Near(Idle) /\ ~Answering(Idle)
BY DEF Idle, Request, Stages, Branches, Fit, HoldsFit, DerivedFit, ListsFit,
       Holding, Deriving, Near, Answering

LEMMA Ends ==
  ASSUME IInv, NEW r \in Requests, req' = [req EXCEPT ![r] = Idle], lock' \in Locks,
         UNCHANGED <<wallet, stored, active, overwritten, history>>
  PROVE  IInv'
<1>1. Became(r, Idle)
  BY DEF Became
<1> DEFINE q == Idle
<1> HIDE DEF q
<1>2. q \in Request /\ Fit(q) /\ ~Near(q) /\ ~Answering(q) /\ Became(r, q)
  BY <1>1, IdleFits DEF q
<1>3. QED
  BY <1>2, Quiet

LEMMA EndLocks ==
  ASSUME IInv, NEW r \in Requests, End(r)
  PROVE  lock' \in Locks /\ req' = [req EXCEPT ![r] = Idle]
BY DEF IInv, Types, End, Locks

LEMMA StartAddressKeeps ==
  ASSUME IInv, NEW r \in Requests, StartAddress(r)
  PROVE  IInv'
<1> DEFINE q == [Idle EXCEPT !.op = "address", !.at = "gap"]
<1>1. /\ q \in Request /\ q.op = "address" /\ q.at = "gap" /\ q.branch = "main"
      /\ q.doc = None /\ q.status = None /\ ~q.failed
  BY IdleFits DEF Idle, Request, Stages, Branches
<1>2. Became(r, q) /\ lock' \in Locks
  BY DEF StartAddress, Begin, Became, IInv, Types, Locks
<1> HIDE DEF q
<1>3. Fit(q) /\ ~Near(q) /\ ~Answering(q)
  BY <1>1 DEF Fit, HoldsFit, DerivedFit, ListsFit, Holding, Deriving, Near, Answering
<1>4. QED
  BY <1>1, <1>2, <1>3, Quiet DEF StartAddress

LEMMA StartChangeKeeps ==
  ASSUME IInv, NEW r \in Requests, StartChange(r)
  PROVE  IInv'
<1> DEFINE q == [Idle EXCEPT !.op = "change", !.at = "lock", !.branch = "change"]
<1>1. /\ q \in Request /\ q.op = "change" /\ q.at = "lock" /\ q.branch = "change"
      /\ q.doc = None /\ q.status = None /\ ~q.failed
  BY IdleFits DEF Idle, Request, Stages, Branches
<1>2. Became(r, q) /\ lock' \in Locks
  BY DEF StartChange, Begin, Became, IInv, Types, Locks
<1> HIDE DEF q
<1>3. Fit(q) /\ ~Near(q) /\ ~Answering(q)
  BY <1>1 DEF Fit, HoldsFit, DerivedFit, ListsFit, Holding, Deriving, Near, Answering
<1>4. QED
  BY <1>1, <1>2, <1>3, Quiet DEF StartChange

LEMMA StartScanKeeps ==
  ASSUME IInv, NEW r \in Requests, StartScan(r)
  PROVE  IInv'
<1>1. PICK step \in FirstSteps :
          Begin(r, [Idle EXCEPT !.op = "scan", !.at = "deregister", !.step = step])
  BY DEF StartScan
<1> DEFINE q == [Idle EXCEPT !.op = "scan", !.at = "deregister", !.step = step]
<1>2. /\ q \in Request /\ q.op = "scan" /\ q.at = "deregister"
      /\ q.doc = None /\ q.status = None /\ ~q.failed
  BY StepAssumption DEF Idle, Request, Stages, Branches
<1>3. Became(r, q) /\ lock' \in Locks
  BY <1>1 DEF StartScan, Begin, Became, IInv, Types, Locks
<1> HIDE DEF q
<1>4. Fit(q) /\ ~Near(q) /\ ~Answering(q)
  BY <1>2 DEF Fit, HoldsFit, DerivedFit, ListsFit, Holding, Deriving, Near, Answering
<1>5. QED
  BY <1>2, <1>3, <1>4, Quiet DEF StartScan

\* What a request takes from the wallet is as good as the wallet.
LEMMA WalletTaken ==
  ASSUME IInv
  PROVE  /\ wallet \in Wallet /\ wallet.index \in Index
         /\ \A b \in Branches : wallet.index[b] <= wallet.index[b]
         /\ \A b \in Branches : Counts(wallet.index, b, {})
BY MainIndex DEF IInv, Types, Wallet, WalletFits, Good

LEMMA StartSyncKeeps ==
  ASSUME IInv, NEW r \in Requests, StartSync(r)
  PROVE  IInv'
<1> DEFINE q == [Idle EXCEPT !.op = "sync", !.at = "sync",
                             !.doc = wallet, !.seen = wallet.index]
<1>1. /\ q \in Request /\ q.op = "sync" /\ q.at = "sync"
      /\ q.doc = wallet /\ q.seen = wallet.index /\ q.status = None /\ ~q.failed
  BY IdleFits, WalletTaken DEF Idle, Request, Stages, Branches
<1>2. Became(r, q) /\ lock' \in Locks
  BY DEF StartSync, Begin, Became, IInv, Types, Locks
<1> HIDE DEF q
<1>3. /\ Fit(q) /\ ~Near(q) /\ ~Answering(q)
  BY <1>1, WalletTaken
     DEF Fit, HoldsFit, DerivedFit, ListsFit, Holding, Deriving, Near, Answering, Coming
<1>4. QED
  BY <1>1, <1>2, <1>3, Quiet DEF StartSync

\* What is known of the request that goes on.
LEMMA Known ==
  ASSUME IInv, NEW r \in Requests
  PROVE  req[r] \in Request /\ Fit(req[r]) /\ lock \in Locks
BY DEF IInv, Types, Locks

LEMMA FindActivityKeeps ==
  ASSUME IInv, NEW r \in Requests, FindActivity(r)
  PROVE  IInv'
<1> DEFINE q == [req[r] EXCEPT !.at = "lock", !.list = {}]
<1>1. /\ q \in Request /\ q.op = "address" /\ q.at = "lock" /\ q.branch = req[r].branch
      /\ q.doc = req[r].doc /\ q.status = req[r].status /\ q.failed = req[r].failed
  BY Known DEF Request, Stages, FindActivity, At
<1>2. Became(r, q) /\ lock' \in Locks
  BY Known DEF FindActivity, Became, IInv, Types
<1> HIDE DEF q
<1>3. req[r].op = "address" /\ req[r].at = "activity"
  BY DEF FindActivity, At
<1>4. Fit(q) /\ ~Answering(q)
  BY <1>1, <1>3, Known DEF Fit, HoldsFit, DerivedFit, ListsFit, Holding, Deriving,
     Answering, Coming
<1>5. r \in Passing({})
  BY DEF FindActivity, Passing
<1>6. QED
  BY <1>1, <1>2, <1>4, <1>5, Quiet DEF FindActivity

LEMMA ReadForScanKeeps ==
  ASSUME IInv, NEW r \in Requests, ReadForScan(r)
  PROVE  IInv'
<1> DEFINE q == [req[r] EXCEPT !.at = "lock", !.doc = wallet, !.seen = wallet.index]
<1>1. /\ q \in Request /\ q.op = "scan" /\ q.at = "lock"
      /\ q.doc = wallet /\ q.seen = wallet.index
      /\ q.status = req[r].status /\ q.failed = req[r].failed
  BY Known, WalletTaken DEF Request, Stages, ReadForScan, At
<1>2. Became(r, q) /\ lock' \in Locks
  BY Known DEF ReadForScan, Became, IInv, Types
<1> HIDE DEF q
<1>3. req[r].op = "scan" /\ req[r].at = "read"
  BY DEF ReadForScan, At
<1>4. Fit(q) /\ ~Near(q) /\ ~Answering(q)
  BY <1>1, <1>3, Known, WalletTaken
     DEF Fit, HoldsFit, DerivedFit, ListsFit, Holding, Deriving, Near, Answering, Coming
<1>5. QED
  BY <1>1, <1>2, <1>4, Quiet DEF ReadForScan

LEMMA LockScanKeeps ==
  ASSUME IInv, NEW r \in Requests, LockScan(r)
  PROVE  IInv'
<1>1. req[r].op = "scan" /\ req[r].at = "lock"
  BY DEF LockScan, At
<1>2. Holding(req[r])
  BY <1>1, Known DEF Fit, HoldsFit, Holding
<1>3. /\ req[r].doc \in Wallet /\ ~req[r].failed /\ req[r].seen \in Index
      /\ \A b \in Branches : /\ req[r].seen[b] <= req[r].doc.index[b]
                             /\ Counts(req[r].doc.index, b, {})
  BY <1>1, <1>2, Known DEF Fit, HoldsFit, Coming
<1> DEFINE doc == [req[r].doc EXCEPT !.scanFailed = FALSE]
           q == [req[r] EXCEPT !.at = "start", !.doc = doc]
<1>4. doc \in Wallet /\ doc.index = req[r].doc.index
  BY <1>3 DEF Wallet
<1>5. Became(r, q) /\ lock' \in Locks
  BY Known DEF LockScan, Became, IInv, Types, Locks
<1> HIDE DEF doc
<1>6. /\ q \in Request /\ q.op = "scan" /\ q.at = "start"
      /\ q.doc = doc /\ q.seen = req[r].seen /\ q.failed = req[r].failed
  BY <1>1, <1>4, Known DEF Request, Stages
<1> HIDE DEF q
<1>7. Fit(q) /\ ~Near(q) /\ ~Answering(q)
  BY <1>1, <1>3, <1>4, <1>6
     DEF Fit, HoldsFit, DerivedFit, ListsFit, Holding, Deriving, Near, Answering, Coming
<1>8. QED
  BY <1>5, <1>6, <1>7, Quiet DEF LockScan

LEMMA DeriveKeeps ==
  ASSUME IInv, NEW r \in Requests, Derive(r)
  PROVE  IInv'
<1> DEFINE b == req[r].branch
           i == wallet.index[b]
           index == [wallet.index EXCEPT ![b] = i + 1]
           doc == [wallet EXCEPT !.index = index]
           q == [req[r] EXCEPT !.at = "insert", !.batch = {i}, !.addr = i,
                               !.seen = wallet.index, !.doc = doc]
<1>1. /\ req[r].op \in {"address", "change"} /\ req[r].at = "lock"
      /\ b \in Branches /\ i \in Nat /\ MaxIndex[b] \in Nat
  BY Known, MainIndex, BoundAssumption DEF Derive, DeriveAt, At, Request, IInv
<1>2. i + 0 = i
  BY <1>1
<1>3. i < MaxIndex[b] /\ lock' = r
  BY <1>2 DEF Derive, DeriveAt
<1>4. i \in Indices
  BY <1>1, <1>3, IndicesNat
<1>5. /\ index \in Index /\ index[b] = i + 1
      /\ \A c \in Branches : wallet.index[c] <= index[c] /\ (c # b => index[c] = wallet.index[c])
  <2>1. wallet.index \in [Branches -> Nat]
    BY MainIndex DEF IInv, Index
  <2>2. \A c \in Branches : wallet.index[c] <= MaxIndex[c]
    BY DEF IInv, WalletFits, Good, Counts
  <2>3. /\ index \in [Branches -> Nat] /\ index[b] = i + 1
        /\ \A c \in Branches : c # b => index[c] = wallet.index[c]
    BY <1>1, <2>1
  <2>4. \A c \in Branches : index[c] <= MaxIndex[c] /\ wallet.index[c] <= index[c]
    BY <1>1, <1>3, <2>1, <2>2, <2>3
  <2> HIDE DEF index
  <2>5. QED
    BY <2>3, <2>4, IndexIn
<1>6. Became(r, q) /\ lock' \in Locks
  BY <1>2, <1>3, Known DEF Derive, DeriveAt, Became, Locks
<1> HIDE DEF index
<1>7. doc \in Wallet /\ doc.index = index
  BY <1>5, WalletTaken DEF Wallet
<1> HIDE DEF doc
<1>8. /\ q \in Request /\ q.op = req[r].op /\ q.at = "insert" /\ q.batch = {i} /\ q.addr = i
      /\ q.branch = b /\ q.doc = doc /\ q.seen = wallet.index /\ q.failed = req[r].failed
  BY <1>4, <1>7, Known, WalletTaken DEF Request, Stages
<1> HIDE DEF q
<1>9. \A c \in Branches : Counts(index, c, Coming(q, c))
  <2>1. ASSUME NEW c \in Branches
        PROVE  Counts(index, c, Coming(q, c))
    <3>1. Counts(wallet.index, c, {})
      BY WalletTaken
    <3>2. CASE c = b
      <4>1. Coming(q, c) = {i} /\ index[c] = i + 1
        BY <1>5, <1>8, <3>2 DEF Coming
      <4>2. \A j \in Indices : j < i + 1 => j < i \/ j = i
        <5>1. \A j, n \in Nat : j < n + 1 => j < n \/ j = n
          OBVIOUS
        <5>2. Indices \subseteq Nat
          BY IndicesNat
        <5>3. QED
          BY <1>1, <5>1, <5>2
      <4>3. QED
        BY <1>1, <1>3, <3>1, <3>2, <4>1, <4>2 DEF Counts
    <3>3. CASE c # b
      <4>1. index[c] = wallet.index[c]
        BY <1>5, <3>3
      <4>2. QED
        BY <3>1, <4>1 DEF Counts
    <3>4. QED
      BY <3>2, <3>3
  <2>2. QED
    BY <2>1
<1>10. /\ ~req[r].failed
       /\ req[r].op = "address" => b = "main"
       /\ req[r].op = "change" => b = "change"
  BY <1>1, Known DEF Fit, HoldsFit, DerivedFit
<1>11. Fit(q) /\ ~Answering(q)
  <2>1. HoldsFit(q)
    BY <1>1, <1>5, <1>7, <1>8, <1>9, <1>10, WalletTaken DEF HoldsFit, Holding, Deriving
  <2>2. DerivedFit(q)
    BY <1>1, <1>4, <1>5, <1>7, <1>8, <1>10 DEF DerivedFit, Deriving
  <2>3. QED
    BY <1>1, <1>8, <2>1, <2>2 DEF Fit, ListsFit, Answering
<1>12. Near(q) => r \in Passing({})
  BY <1>1, <1>8 DEF Near, Passing, Passed, At
<1>13. QED
  BY <1>6, <1>8, <1>11, <1>12, Quiet DEF Derive, DeriveAt

LEMMA RefuseGapKeeps ==
  ASSUME IInv, NEW r \in Requests, RefuseGap(r)
  PROVE  IInv'
BY EndLocks, Ends DEF RefuseGap

LEMMA RefuseScanFailedKeeps ==
  ASSUME IInv, NEW r \in Requests, RefuseScanFailed(r)
  PROVE  IInv'
BY EndLocks, Ends DEF RefuseScanFailed

LEMMA EndSyncKeeps ==
  ASSUME IInv, NEW r \in Requests, EndSync(r)
  PROVE  IInv'
BY EndLocks, Ends DEF EndSync

LEMMA RequestFailsKeeps ==
  ASSUME IInv, NEW r \in Requests, RequestFails(r)
  PROVE  IInv'
BY EndLocks, Ends DEF RequestFails

LEMMA CrashKeeps ==
  ASSUME IInv, NEW r \in Requests, Crash(r)
  PROVE  IInv'
<1>1. lock' \in Locks
  BY Known DEF Crash, Locks
<1>2. QED
  BY <1>1, Ends DEF Crash

\* A scan that has found addresses ends behind one in use.
LEMMA ScanBranchKeeps ==
  ASSUME IInv, NEW r \in Requests, ScanBranch(r)
  PROVE  IInv'
<1> DEFINE b == req[r].branch
           from == req[r].doc.index[b]
           to == ScanEnd(b, from, req[r].step)
           index == [req[r].doc.index EXCEPT ![b] = to]
           doc == [req[r].doc EXCEPT !.index = index]
           at == IF to = from THEN "sync" ELSE "insert"
           q == [req[r] EXCEPT !.batch = from .. to - 1, !.doc = doc, !.at = at]
<1>1. /\ req[r].op = "scan" /\ req[r].at = "branch" /\ ~req[r].failed
      /\ b \in Branches /\ req[r].step \in Nat \ {0} /\ MaxIndex[b] \in Nat
      /\ active[b] \subseteq 0 .. MaxIndex[b] - 1
  BY Known, BoundAssumption DEF ScanBranch, ScanTo, At, Request, Fit, HoldsFit, IInv, WalletFits
<1>2. /\ req[r].doc \in Wallet /\ req[r].seen \in Index
      /\ \A c \in Branches : /\ req[r].seen[c] <= req[r].doc.index[c]
                             /\ Counts(req[r].doc.index, c, {})
  BY <1>1, Known DEF Fit, HoldsFit, Holding, Coming
<1>3. req[r].doc.index \in Index /\ req[r].doc.index \in [Branches -> Nat]
      /\ req[r].seen \in [Branches -> Nat]
  BY <1>2, IndexNat DEF Wallet, Index
<1>4. /\ from \in Nat /\ from <= MaxIndex[b]
      /\ to \in Nat /\ from <= to /\ to <= MaxIndex[b]
      /\ to # from => to - 1 \in active[b]
  <2>1. from \in Nat /\ from <= MaxIndex[b]
    BY <1>1, <1>2, <1>3 DEF Counts
  <2>2. QED
    BY <1>1, <2>1, ScanEndsInUse
<1>5. Became(r, q) /\ lock' \in Locks
  BY Known DEF ScanBranch, ScanTo, Became, IInv, Types
<1> HIDE DEF to
<1>6. /\ index \in Index /\ index[b] = to
      /\ \A c \in Branches : /\ req[r].doc.index[c] <= index[c]
                             /\ c # b => index[c] = req[r].doc.index[c]
                             /\ index[c] <= MaxIndex[c]
  <2>1. /\ index \in [Branches -> Nat] /\ index[b] = to
        /\ \A c \in Branches : c # b => index[c] = req[r].doc.index[c]
    BY <1>1, <1>3, <1>4
  <2>2. \A c \in Branches : req[r].doc.index[c] <= MaxIndex[c]
    BY <1>2 DEF Counts
  <2>3. \A c \in Branches : req[r].doc.index[c] <= index[c] /\ index[c] <= MaxIndex[c]
    BY <1>3, <1>4, <2>1, <2>2
  <2> HIDE DEF index
  <2>4. QED
    BY <2>1, <2>3, IndexIn
<1>7. \A c \in Branches : req[r].seen[c] <= index[c]
  <2>1. \A c \in Branches : /\ req[r].seen[c] \in Nat /\ index[c] \in Nat
                            /\ req[r].doc.index[c] \in Nat
    BY <1>3, <1>6, IndexNat
  <2>2. QED
    BY <1>2, <1>6, <2>1
<1> HIDE DEF index
<1>8. doc \in Wallet /\ doc.index = index
  BY <1>2, <1>6 DEF Wallet
<1> HIDE DEF doc
<1>9. from .. to - 1 \subseteq Indices
  BY <1>1, <1>4, IndicesNat
<1>10. at \in {"sync", "insert"} /\ (at = "insert" => to # from) /\ (at = "sync" => to = from)
  OBVIOUS
<1> HIDE DEF at
<1>11. /\ q \in Request /\ q.op = "scan" /\ q.at = at /\ q.batch = from .. to - 1
       /\ q.branch = b /\ q.doc = doc /\ q.seen = req[r].seen /\ ~q.failed
  BY <1>1, <1>8, <1>9, <1>10, Known DEF Request, Stages
<1> HIDE DEF q
<1>12. \A c \in Branches : Counts(index, c, Coming(q, c))
  <2>1. ASSUME NEW c \in Branches
        PROVE  Counts(index, c, Coming(q, c))
    <3>1. Counts(req[r].doc.index, c, {}) /\ index[c] <= MaxIndex[c]
      BY <1>2, <1>6
    <3>2. CASE c = b /\ to # from
      <4>1. Coming(q, c) = from .. to - 1 /\ index[c] = to
        BY <1>6, <1>10, <1>11, <3>2 DEF Coming
      <4>2. \A j \in Indices : j < to => j < from \/ j \in from .. to - 1
        BY <1>4, IndicesNat
      <4>3. QED
        BY <3>1, <3>2, <4>1, <4>2 DEF Counts
    <3>3. CASE ~(c = b /\ to # from)
      <4>1. index[c] = req[r].doc.index[c]
        BY <1>6, <3>3
      <4>2. QED
        BY <3>1, <4>1 DEF Counts
    <3>4. QED
      BY <3>2, <3>3
  <2>2. QED
    BY <2>1
<1>13. Fit(q) /\ ~Near(q) /\ ~Answering(q)
  <2>1. HoldsFit(q)
    BY <1>2, <1>7, <1>8, <1>10, <1>11, <1>12 DEF HoldsFit
  <2>2. DerivedFit(q)
    BY <1>11 DEF DerivedFit, Deriving
  <2>3. ListsFit(q)
    <3>1. CASE at = "sync"
      BY <1>11, <3>1 DEF ListsFit
    <3>2. CASE at = "insert"
      <4>1. to # from /\ to - 1 \in active[b] /\ index[b] = to
        BY <1>4, <1>6, <1>10, <3>2
      <4>2. to - 1 \in from .. to - 1 /\ \A n \in from .. to - 1 : n <= to - 1
        BY <1>4, <4>1
      <4>3. QED
        BY <1>8, <1>11, <4>1, <4>2 DEF ListsFit
    <3>3. QED
      BY <1>10, <3>1, <3>2
  <2>4. QED
    BY <1>11, <2>1, <2>2, <2>3 DEF Fit, Near, Answering
<1>14. QED
  BY <1>5, <1>11, <1>13, Quiet DEF ScanBranch, ScanTo

LEMMA ScanFailsKeeps ==
  ASSUME IInv, NEW r \in Requests, ScanFails(r)
  PROVE  IInv'
<1> DEFINE q == [req[r] EXCEPT !.at = "status", !.failed = TRUE, !.batch = {}]
<1>1. /\ q \in Request /\ q.op = "scan" /\ q.at = "status" /\ q.failed
  BY Known DEF Request, Stages, ScanFails, At
<1>2. Became(r, q) /\ lock' \in Locks
  BY Known DEF ScanFails, Became, IInv, Types
<1> HIDE DEF q
<1>3. Fit(q) /\ ~Near(q) /\ ~Answering(q)
  BY <1>1 DEF Fit, HoldsFit, DerivedFit, ListsFit, Holding, Deriving, Near, Answering
<1>4. QED
  BY <1>1, <1>2, <1>3, Quiet DEF ScanFails

LEMMA NextBranchKeeps ==
  ASSUME IInv, NEW r \in Requests, NextBranch(r)
  PROVE  IInv'
<1> DEFINE at == IF req[r].branch = "main" THEN "branch" ELSE "status"
           q == [req[r] EXCEPT !.branch = "change", !.at = at]
<1>1. req[r].op = "scan" /\ req[r].at = "sync"
  BY DEF NextBranch, At
<1>2. at \in {"branch", "status"}
  OBVIOUS
<1>3. Became(r, q) /\ lock' \in Locks
  BY Known DEF NextBranch, Became, IInv, Types
<1> HIDE DEF at
<1>4. /\ q \in Request /\ q.op = "scan" /\ q.at = at
      /\ q.doc = req[r].doc /\ q.seen = req[r].seen /\ q.failed = req[r].failed
  BY <1>1, <1>2, Known DEF Request, Stages, Branches
<1> HIDE DEF q
<1>5. Fit(q) /\ ~Near(q) /\ ~Answering(q)
  BY <1>1, <1>2, <1>4, Known
     DEF Fit, HoldsFit, DerivedFit, ListsFit, Holding, Deriving, Near, Answering, Coming
<1>6. QED
  BY <1>3, <1>4, <1>5, Quiet DEF NextBranch

LEMMA ReadStatusKeeps ==
  ASSUME IInv, NEW r \in Requests, ReadStatus(r)
  PROVE  IInv'
<1> DEFINE status == [wallet EXCEPT !.scanFailed = req[r].failed]
           q == [req[r] EXCEPT !.at = "storeStatus", !.status = status]
<1>1. req[r].op = "scan" /\ req[r].at = "status"
  BY DEF ReadStatus, At
<1>2. status \in Wallet /\ status.index = wallet.index
  BY Known, WalletTaken DEF Wallet, Request
<1>3. Became(r, q) /\ lock' \in Locks
  BY Known DEF ReadStatus, Became, IInv, Types
<1> HIDE DEF status
<1>4. /\ q \in Request /\ q.op = "scan" /\ q.at = "storeStatus" /\ q.status = status
      /\ q.doc = req[r].doc /\ q.seen = req[r].seen /\ q.failed = req[r].failed
  BY <1>1, <1>2, Known DEF Request, Stages
<1> HIDE DEF q
<1>5. Good(status.index)
  BY <1>2, WalletTaken DEF Good
<1>6. Fit(q) /\ ~Near(q) /\ ~Answering(q)
  BY <1>1, <1>2, <1>4, <1>5, Known
     DEF Fit, HoldsFit, DerivedFit, ListsFit, Holding, Deriving, Near, Answering, Coming
<1>7. QED
  BY <1>3, <1>4, <1>6, Quiet DEF ReadStatus

-----------------------------------------------------------------------------
(* Requests that write the wallet                                          *)

LEMMA Stored ==
  ASSUME IInv, NEW doc \in Wallet, NEW seen \in Index, StoreWallet(doc, seen),
         \A b \in Branches : seen[b] <= doc.index[b] /\ Counts(doc.index, b, {})
  PROVE  /\ wallet' \in Wallet /\ Good(wallet'.index) /\ overwritten' \in BOOLEAN
         /\ overwritten' \/ (~overwritten /\ wallet.index["main"] <= wallet'.index["main"])
<1>1. wallet' = doc /\ overwritten' = (overwritten \/ wallet.index # seen)
  BY DEF StoreWallet
<1>2. overwritten \in BOOLEAN /\ "main" \in Branches
  BY DEF IInv, Types, Branches
<1>3. Good(wallet'.index)
  BY <1>1 DEF Good
<1>4. overwritten' \in BOOLEAN
  BY <1>1, <1>2
<1>5. CASE overwritten \/ wallet.index # seen
  BY <1>1, <1>3, <1>4, <1>5
<1>6. CASE ~overwritten /\ wallet.index = seen
  BY <1>1, <1>2, <1>3, <1>4, <1>6
<1>7. QED
  BY <1>2, <1>5, <1>6

\* deregisterWallet leaves the indices.
LEMMA Unregistered ==
  ASSUME IInv, Unregister
  PROVE  /\ UNCHANGED <<stored, active, lock, history>>
         /\ wallet' \in Wallet /\ Good(wallet'.index) /\ overwritten' \in BOOLEAN
         /\ overwritten' \/ (~overwritten /\ wallet.index["main"] <= wallet'.index["main"])
<1>1. wallet' \in Wallet /\ wallet'.index = wallet.index
  BY WalletTaken DEF Unregister, Wallet
<1>2. Good(wallet'.index) /\ wallet.index["main"] <= wallet'.index["main"]
  BY <1>1, WalletTaken DEF Good, Branches
<1>3. QED
  BY <1>1, <1>2 DEF Unregister, IInv, Types

LEMMA DeregisterKeeps ==
  ASSUME IInv, NEW r \in Requests, Deregister(r)
  PROVE  IInv'
<1> DEFINE q == [req[r] EXCEPT !.at = "read"]
<1>1. req[r].op = "scan" /\ req[r].at = "deregister"
  BY DEF Deregister, At
<1>2. Became(r, q) /\ lock \in Locks
  BY Known DEF Deregister, Became
<1>3. /\ q \in Request /\ q.op = "scan" /\ q.at = "read" /\ q.failed = req[r].failed
  BY <1>1, Known DEF Request, Stages
<1> HIDE DEF q
<1>4. Fit(q) /\ ~Near(q) /\ ~Answering(q)
  BY <1>1, <1>3, Known
     DEF Fit, HoldsFit, DerivedFit, ListsFit, Holding, Deriving, Near, Answering
<1>5. QED
  BY <1>2, <1>3, <1>4, Unregistered, Usual DEF Deregister

\* What a request writes is what it holds.
LEMMA Held ==
  ASSUME IInv, NEW r \in Requests, Holding(req[r]), req[r].at # "insert"
  PROVE  /\ req[r].doc \in Wallet /\ req[r].seen \in Index
         /\ \A b \in Branches : /\ req[r].seen[b] <= req[r].doc.index[b]
                                /\ Counts(req[r].doc.index, b, {})
         /\ ~req[r].failed /\ req[r].doc.index \in Index
         /\ \A b \in Branches : req[r].doc.index[b] <= req[r].doc.index[b]
<1>1. /\ req[r].doc \in Wallet /\ req[r].seen \in Index
      /\ \A b \in Branches : /\ req[r].seen[b] <= req[r].doc.index[b]
                             /\ Counts(req[r].doc.index, b, {})
  BY Known DEF Fit, HoldsFit, Coming
<1>2. ~req[r].failed
  BY Known DEF Fit, HoldsFit, Holding, Deriving
<1>3. req[r].doc.index \in Index
  BY <1>1 DEF Wallet
<1>4. \A b \in Branches : req[r].doc.index[b] <= req[r].doc.index[b]
  BY <1>3, IndexNat
<1>5. QED
  BY <1>1, <1>2, <1>3, <1>4

LEMMA StoreRunningKeeps ==
  ASSUME IInv, NEW r \in Requests, StoreRunning(r)
  PROVE  IInv'
<1> DEFINE q == [req[r] EXCEPT !.at = "branch", !.seen = req[r].doc.index]
<1>1. req[r].op = "scan" /\ req[r].at = "start"
  BY DEF StoreRunning, At
<1>2. Holding(req[r])
  BY <1>1, Known DEF Fit, HoldsFit, Holding
<1>3. Became(r, q) /\ lock' \in Locks
  BY Known DEF StoreRunning, Became
<1>4. /\ q \in Request /\ q.op = "scan" /\ q.at = "branch"
      /\ q.doc = req[r].doc /\ q.seen = req[r].doc.index /\ q.failed = req[r].failed
  BY <1>1, <1>2, Known, Held DEF Request, Stages
<1> HIDE DEF q
<1>5. Fit(q) /\ ~Near(q) /\ ~Answering(q)
  BY <1>1, <1>2, <1>4, Held
     DEF Fit, HoldsFit, DerivedFit, ListsFit, Holding, Deriving, Near, Answering, Coming
<1>6. /\ wallet' \in Wallet /\ Good(wallet'.index) /\ overwritten' \in BOOLEAN
      /\ overwritten' \/ (~overwritten /\ wallet.index["main"] <= wallet'.index["main"])
  BY <1>1, <1>2, Held, Stored DEF StoreRunning
<1>7. QED
  BY <1>3, <1>4, <1>5, <1>6, Usual DEF StoreRunning

\* A change of what a request holds that leaves the indices.
LEMMA SameIndices ==
  ASSUME IInv, NEW r \in Requests, NEW q \in Request, Holding(req[r]),
         q.op = req[r].op, q.at = "sync", req[r].at = "sync", q.doc \in Wallet,
         q.doc.index = req[r].doc.index, q.branch = req[r].branch,
         q.seen \in {req[r].seen, req[r].doc.index}, q.failed = req[r].failed,
         q.addr = req[r].addr
  PROVE  /\ Fit(q) /\ ~Near(q)
         /\ Answering(q) => Answering(req[r]) /\ q.addr = req[r].addr
<1>1. /\ q.doc \in Wallet /\ q.seen \in Index
      /\ \A b \in Branches : /\ q.seen[b] <= q.doc.index[b]
                             /\ Counts(q.doc.index, b, Coming(q, b))
  BY Held DEF Coming
<1>2. HoldsFit(q)
  BY <1>1, Held DEF HoldsFit
<1>3. DerivedFit(q)
  BY Known DEF Fit, DerivedFit, Deriving
<1>4. QED
  BY <1>2, <1>3 DEF Fit, ListsFit, Near, Answering

LEMMA RegisterKeeps ==
  ASSUME IInv, NEW r \in Requests, Register(r)
  PROVE  IInv'
<1> DEFINE doc == [req[r].doc EXCEPT !.registered = TRUE]
           q == [req[r] EXCEPT !.doc = doc, !.seen = doc.index]
<1>1. req[r].op \in {"address", "change", "scan", "sync"} /\ req[r].at = "sync"
  BY DEF Register, At
<1>2. Holding(req[r])
  BY <1>1, Known DEF Fit, HoldsFit, Holding
<1>3. doc \in Wallet /\ doc.index = req[r].doc.index
  BY <1>1, <1>2, Held DEF Wallet
<1>4. /\ Became(r, q) /\ lock' \in Locks /\ StoreWallet(doc, req[r].seen)
      /\ UNCHANGED <<stored, active, history>>
  <2>1. /\ req' = [req EXCEPT ![r].doc = doc, ![r].seen = doc.index]
        /\ StoreWallet(doc, req[r].seen) /\ UNCHANGED <<stored, active, lock, history>>
    BY Zenon DEF Register
  <2> HIDE DEF doc
  <2>2. QED
    BY <2>1, Known DEF Became
<1> HIDE DEF doc
<1>5. /\ q \in Request /\ q.op = req[r].op /\ q.at = "sync" /\ q.doc = doc
      /\ q.seen = req[r].doc.index /\ q.failed = req[r].failed
      /\ q.branch = req[r].branch /\ q.addr = req[r].addr
  BY <1>1, <1>2, <1>3, Known, Held DEF Request
<1> HIDE DEF q
<1>6. /\ Fit(q) /\ ~Near(q)
      /\ Answering(q) => Answering(req[r]) /\ q.addr = req[r].addr
  BY <1>1, <1>2, <1>3, <1>5, SameIndices
<1>7. /\ wallet' \in Wallet /\ Good(wallet'.index) /\ overwritten' \in BOOLEAN
      /\ overwritten' \/ (~overwritten /\ wallet.index["main"] <= wallet'.index["main"])
  BY <1>1, <1>2, <1>3, <1>4, Held, Stored
<1>8. QED
  BY <1>4, <1>5, <1>6, <1>7, Usual

LEMMA ResyncKeeps ==
  ASSUME IInv, NEW r \in Requests, Resync(r)
  PROVE  IInv'
<1> DEFINE doc == [req[r].doc EXCEPT !.registered = FALSE]
           q == [req[r] EXCEPT !.doc = doc, !.resynced = TRUE]
<1>1. req[r].op \in {"address", "change", "sync"} /\ req[r].at = "sync"
  BY DEF Resync, At
<1>2. Holding(req[r])
  BY <1>1 DEF Holding
<1>3. doc \in Wallet /\ doc.index = req[r].doc.index
  BY <1>1, <1>2, Held DEF Wallet
<1>4. Became(r, q) /\ lock \in Locks /\ Unregister
  BY Known DEF Resync, Became
<1> HIDE DEF doc
<1>5. /\ q \in Request /\ q.op = req[r].op /\ q.at = "sync" /\ q.doc = doc
      /\ q.seen = req[r].seen /\ q.failed = req[r].failed
      /\ q.branch = req[r].branch /\ q.addr = req[r].addr
  BY <1>1, <1>3, Known DEF Request
<1> HIDE DEF q
<1>6. /\ Fit(q) /\ ~Near(q)
      /\ Answering(q) => Answering(req[r]) /\ q.addr = req[r].addr
  BY <1>1, <1>2, <1>3, <1>5, SameIndices
<1>7. QED
  BY <1>4, <1>5, <1>6, Unregistered, Usual

LEMMA StoreStatusKeeps ==
  ASSUME IInv, NEW r \in Requests, StoreStatus(r)
  PROVE  IInv'
<1> DEFINE status == req[r].status
           step == req[r].step \div Factor
<1>1. req[r].op = "scan" /\ req[r].at = "storeStatus"
  BY DEF StoreStatus, At
<1>2. status \in Wallet /\ Good(status.index)
  BY <1>1, Known DEF Fit, HoldsFit
<1>3. /\ wallet' \in Wallet /\ Good(wallet'.index) /\ overwritten' \in BOOLEAN
      /\ overwritten' \/ (~overwritten /\ wallet.index["main"] <= wallet'.index["main"])
  <2>1. status.index \in Index /\ \A b \in Branches : status.index[b] <= status.index[b]
    BY <1>2, IndexNat DEF Wallet
  <2>2. StoreWallet(status, status.index)
    BY DEF StoreStatus
  <2>3. QED
    BY <1>2, <2>1, <2>2, Stored DEF Good
<1>4. UNCHANGED <<stored, active, history>>
  BY DEF StoreStatus
<1>5. CASE req[r].failed \/ req[r].step < Factor
  <2>1. Became(r, Idle) /\ lock' \in Locks
    BY <1>5, EndLocks DEF StoreStatus, Became
  <2> DEFINE q == Idle
  <2> HIDE DEF q
  <2>2. q \in Request /\ Fit(q) /\ ~Near(q) /\ ~Answering(q) /\ Became(r, q)
    BY <2>1, IdleFits DEF q
  <2>3. QED
    BY <1>3, <1>4, <2>1, <2>2, Usual
<1>6. CASE ~(req[r].failed \/ req[r].step < Factor)
  <2> DEFINE q == [req[r] EXCEPT !.at = "branch", !.branch = "main", !.status = None,
                                 !.step = step]
  <2>1. Became(r, q) /\ lock' \in Locks
    BY <1>6, Known DEF StoreStatus, Became
  <2>2. step \in Nat \ {0}
    <3>1. \A m, n \in Nat \ {0} : ~(m < n) => m \div n \in Nat \ {0}
      OBVIOUS
    <3>2. Factor \in Nat \ {0} /\ req[r].step \in Nat \ {0}
      BY StepAssumption, Known DEF Request
    <3>3. QED
      BY <1>6, <3>1, <3>2
  <2>3. Holding(req[r])
    BY <1>1, <1>6 DEF Holding
  <2> HIDE DEF step
  <2>4. /\ q \in Request /\ q.op = "scan" /\ q.at = "branch"
        /\ q.doc = req[r].doc /\ q.seen = req[r].seen /\ q.failed = req[r].failed
    BY <1>1, <2>2, Known DEF Request, Stages, Branches
  <2> HIDE DEF q
  <2>5. Fit(q) /\ ~Near(q) /\ ~Answering(q)
    BY <1>1, <2>3, <2>4, Held
       DEF Fit, HoldsFit, DerivedFit, ListsFit, Holding, Deriving, Near, Answering, Coming
  <2>6. QED
    BY <1>3, <1>4, <2>1, <2>4, <2>5, Usual
<1>7. QED
  BY <1>5, <1>6

\* Whoever writes the index that follows its address will answer it.
LEMMA NextAnswer ==
  ASSUME IInv, NEW r \in Requests, NEW q \in Request, Became(r, q), WriteWallet(r),
         req[r].op = "address", q.op = "address", q.addr = req[r].addr
  PROVE  Answers'
<1> SUFFICES ASSUME ~overwritten'
             PROVE  Answers'
  BY DEF Answers
<1> DEFINE a == req[r].addr
<1>1. req[r].at = "write" /\ Deriving(req[r])
  BY DEF WriteWallet, At, Deriving
<1>2. a \in Indices /\ req[r].seen["main"] = a /\ req[r].doc.index["main"] = a + 1
  BY <1>1, Known DEF Fit, DerivedFit
<1>3. ~overwritten /\ wallet.index["main"] = a /\ wallet'.index["main"] = a + 1
  BY <1>2 DEF WriteWallet, StoreWallet, IInv, Types
<1>4. /\ ~repeated
      /\ \A g \in given : g < a
      /\ \A s \in Requests : Answering(req[s]) =>
            /\ req[s].addr < a
            /\ req[s].addr \notin given
            /\ \A p \in Requests \ {s} : Answering(req[p]) => req[p].addr # req[s].addr
  BY <1>3 DEF IInv, Answers
<1>5. \A s \in Requests : req'[s] = IF s = r THEN q ELSE req[s]
  BY DEF Became, IInv, Types
<1>6. \A s \in Requests : Answering(req[s]) => req[s].addr \in Nat
  BY IndicesNat DEF IInv, Fit, DerivedFit, Answering
<1>7. given \subseteq Nat /\ a \in Nat
  BY <1>2, IndicesNat DEF IInv, Types
<1> HIDE DEF a
<1>8. a \notin given
  BY <1>4, <1>7
<1>9. given' = given /\ repeated' = repeated
  BY DEF WriteWallet, history
<1>10. \A g \in given : g < wallet'.index["main"]
  BY <1>3, <1>4, <1>7
<1>11. q.addr = a
  BY DEF a
<1>12. ASSUME NEW s \in Requests, Answering(req'[s])
       PROVE  /\ req'[s].addr < wallet'.index["main"] /\ req'[s].addr \notin given
              /\ \A p \in Requests \ {s} : Answering(req'[p]) => req'[p].addr # req'[s].addr
  <2>1. CASE s = r
    <3>1. req'[s].addr = a
      BY <1>5, <1>11, <2>1
    <3>2. \A p \in Requests \ {s} : Answering(req'[p]) => req'[p].addr # a
      BY <1>4, <1>5, <1>6, <1>7, <2>1
    <3>3. QED
      BY <1>3, <1>7, <1>8, <3>1, <3>2
  <2>2. CASE s # r
    <3>1. Answering(req[s]) /\ req'[s] = req[s]
      BY <1>5, <1>12, <2>2
    <3>2. req[s].addr < a /\ req[s].addr \notin given /\ req[s].addr \in Nat
      BY <1>4, <1>6, <3>1
    <3>3. ASSUME NEW p \in Requests \ {s}, Answering(req'[p])
          PROVE  req'[p].addr # req[s].addr
      <4>1. CASE p = r
        BY <1>5, <1>7, <1>11, <3>2, <4>1
      <4>2. CASE p # r
        BY <1>4, <1>5, <3>1, <3>3, <4>2
      <4>3. QED
        BY <4>1, <4>2
    <3>4. QED
      BY <1>3, <1>7, <3>1, <3>2, <3>3
  <2>3. QED
    BY <2>1, <2>2
<1>13. QED
  BY <1>4, <1>9, <1>10, <1>12 DEF Answers, Answering

LEMMA WriteWalletKeeps ==
  ASSUME IInv, NEW r \in Requests, WriteWallet(r)
  PROVE  IInv'
<1> DEFINE q == [req[r] EXCEPT !.at = "sync", !.seen = req[r].doc.index]
<1>1. req[r].op \in {"address", "change", "scan"} /\ req[r].at = "write"
  BY DEF WriteWallet, At
<1>2. Holding(req[r])
  BY <1>1, Known DEF Fit, HoldsFit, Holding, Deriving
<1>3. /\ Became(r, q) /\ lock' \in Locks /\ StoreWallet(req[r].doc, req[r].seen)
      /\ UNCHANGED <<stored, active, history>>
  BY Known DEF WriteWallet, Became
<1>4. /\ q \in Request /\ q.op = req[r].op /\ q.at = "sync" /\ q.branch = req[r].branch
      /\ q.addr = req[r].addr
      /\ q.doc = req[r].doc /\ q.seen = req[r].doc.index /\ q.failed = req[r].failed
  BY <1>1, <1>2, Known, Held DEF Request, Stages
<1> HIDE DEF q
<1>5. HoldsFit(q)
  BY <1>1, <1>2, <1>4, Held DEF HoldsFit, Coming
<1>6. DerivedFit(q)
  BY <1>1, <1>4, Known DEF Fit, DerivedFit, Deriving
<1>7. Fit(q) /\ ~Near(q)
  BY <1>4, <1>5, <1>6 DEF Fit, ListsFit, Near
<1>8. /\ wallet' \in Wallet /\ Good(wallet'.index) /\ overwritten' \in BOOLEAN
      /\ overwritten' \/ (~overwritten /\ wallet.index["main"] <= wallet'.index["main"])
  BY <1>1, <1>2, <1>3, Held, Stored
<1>9. CASE req[r].op = "address"
  <2>1. Answers'
    BY <1>3, <1>4, <1>9, NextAnswer
  <2>2. QED
    BY <1>3, <1>4, <1>7, <1>8, <2>1, Writes
<1>10. CASE req[r].op # "address"
  <2>1. ~Answering(q)
    BY <1>4, <1>10 DEF Answering
  <2>2. QED
    BY <1>3, <1>4, <1>7, <1>8, <2>1, Usual
<1>11. QED
  BY <1>9, <1>10

-----------------------------------------------------------------------------
(* The check of the gap                                                    *)

LEMMA Counting ==
  ASSUME NEW n \in Nat
  PROVE  IsFiniteSet(0 .. n - 1) /\ Cardinality(0 .. n - 1) = n
<1>1. 0 \in Int /\ n - 1 \in Int
  OBVIOUS
<1>2. IsFiniteSet(0 .. n - 1)
  BY <1>1, FS_Interval
<1>3. Cardinality(0 .. n - 1) = IF 0 > n - 1 THEN 0 ELSE n - 1 - 0 + 1
  BY <1>1, FS_Interval
<1>4. (IF 0 > n - 1 THEN 0 ELSE n - 1 - 0 + 1) = n
  OBVIOUS
<1>5. QED
  BY <1>2, <1>3, <1>4

\* Of at least G numbers, G are followed by fewer than G others.
LEMMA LatestOnes ==
  ASSUME NEW S, S \subseteq Nat, IsFiniteSet(S), NEW G \in Nat, G <= Cardinality(S)
  PROVE  Cardinality({i \in S : Cardinality({j \in S : j > i}) < G}) = G
<1> DEFINE after(i) == {j \in S : j > i}
           L == {i \in S : Cardinality(after(i)) < G}
           n == Cardinality(S)
           f == [i \in S |-> Cardinality(after(i))]
           g == [i \in L |-> Cardinality(after(i))]
<1>1. n \in Nat
  BY FS_CardinalityType
<1>2. ASSUME NEW i \in S
      PROVE  /\ IsFiniteSet(after(i)) /\ Cardinality(after(i)) \in 0 .. n - 1
             /\ \A j \in S : j > i => Cardinality(after(j)) < Cardinality(after(i))
  <2>1. /\ IsFiniteSet(after(i)) /\ Cardinality(after(i)) \in Nat
        /\ Cardinality(after(i)) <= n /\ (n = Cardinality(after(i)) => S = after(i))
    <3>1. after(i) \in SUBSET S
      OBVIOUS
    <3> HIDE DEF after
    <3>2. QED
      BY <3>1, FS_Subset, FS_CardinalityType
  <2>2. i \notin after(i)
    OBVIOUS
  <2>3. ASSUME NEW j \in S, j > i
        PROVE  Cardinality(after(j)) < Cardinality(after(i))
    <3>1. after(j) \in SUBSET after(i) /\ j \in after(i) /\ j \notin after(j)
      <4>1. \A k \in S : k > j => k > i
        <5>1. \A k, l, m \in Nat : k > l /\ l > m => k > m
          OBVIOUS
        <5>2. QED
          BY <2>3, <5>1
      <4>2. ~(j > j)
        BY S \subseteq Nat
      <4>3. QED
        BY <2>3, <4>1, <4>2
    <3> HIDE DEF after
    <3>2. /\ Cardinality(after(j)) <= Cardinality(after(i))
          /\ Cardinality(after(i)) # Cardinality(after(j))
      BY <2>1, <3>1, FS_Subset
    <3>3. Cardinality(after(j)) \in Nat
      BY <2>1, <3>1, FS_Subset, FS_CardinalityType
    <3>4. QED
      BY <2>1, <3>2, <3>3
  <2> HIDE DEF after
  <2>4. n # Cardinality(after(i))
    BY <2>1, <2>2
  <2>5. Cardinality(after(i)) \in 0 .. n - 1
    BY <1>1, <2>1, <2>4
  <2>6. QED
    BY <2>1, <2>3, <2>5
<1>3. ASSUME NEW i \in S, NEW j \in S, Cardinality(after(i)) = Cardinality(after(j))
      PROVE  i = j
  <2>1. i \in Nat /\ j \in Nat
    OBVIOUS
  <2>2. ~(j > i) /\ ~(i > j)
    BY <1>2, <1>3
  <2>3. QED
    BY <2>1, <2>2
<1> HIDE DEF after
<1>4. f \in Injection(S, 0 .. n - 1)
  BY <1>2, <1>3 DEF Injection, IsInjective
<1>5. IsFiniteSet(0 .. n - 1) /\ Cardinality(0 .. n - 1) = n
  BY <1>1, Counting
<1>6. f \in Surjection(S, 0 .. n - 1)
  BY <1>4, <1>5, FS_Injection
<1>7. g \in Injection(L, 0 .. G - 1)
  <2>1. \A i \in L : Cardinality(after(i)) \in 0 .. G - 1
    BY <1>1, <1>2
  <2>2. QED
    BY <1>3, <2>1 DEF Injection, IsInjective
<1>8. g \in Surjection(L, 0 .. G - 1)
  <2>1. ASSUME NEW t \in 0 .. G - 1
        PROVE  \E i \in L : g[i] = t
    <3>1. t \in 0 .. n - 1 /\ t < G
      BY <1>1
    <3>2. PICK i \in S : f[i] = t
      BY <1>6, <3>1 DEF Surjection
    <3>3. i \in L /\ g[i] = t
      BY <3>1, <3>2
    <3>4. QED
      BY <3>3
  <2> HIDE DEF g
  <2>2. g \in [L -> 0 .. G - 1]
    BY <1>7 DEF Injection
  <2>3. QED
    BY <2>1, <2>2 DEF Surjection
<1> HIDE DEF g, L
<1>9. IsFiniteSet(0 .. G - 1) /\ Cardinality(0 .. G - 1) = G
  BY Counting
<1>10. Cardinality(L) = G
  BY <1>7, <1>8, <1>9, FS_Injection
<1>11. QED
  BY <1>10 DEF L, after

\* Whoever joins those past the check does so with few unused addresses.
LEMMA GapJoined ==
  ASSUME IInv, NEW r \in Requests, NEW q \in Request, Became(r, q),
         UNCHANGED <<stored, active, cut>>,
         \/ Cardinality(stored["main"]) < Gap
         \/ q.at = "activity" /\ q.list = Latest
  PROVE  GapKept'
<1> SUFFICES ASSUME ~cut, NEW X \in SUBSET stored["main"]
             PROVE  Cardinality(Beyond(X)') + Cardinality(Passing(X)') <=
                        Gap - 1 + Cardinality(Requests)
  BY DEF GapKept
<1> DEFINE new == Passing(X)'
<1>1. Beyond(X)' = Beyond(X)
  BY DEF Beyond
<1>2. \A s \in Requests : req'[s] = IF s = r THEN q ELSE req[s]
  BY DEF Became, IInv, Types
<1>3. new \subseteq Requests
  BY DEF Passing, Passed
<1>4. /\ IsFiniteSet(new) /\ Cardinality(new) \in Nat
      /\ Cardinality(new) <= Cardinality(Requests)
  <2> HIDE DEF new
  <2>1. QED
    BY <1>3, RequestsAssumption, FS_Subset, FS_CardinalityType
<1>5. /\ IsFiniteSet(stored["main"]) /\ Cardinality(stored["main"]) \in Nat
      /\ Cardinality(Beyond(X)) \in Nat /\ Cardinality(Passing(X)) \in Nat
      /\ IsFiniteSet(Passing(X)) /\ Cardinality(Requests) \in Nat /\ Gap \in Nat \ {0}
  BY Finite, GapAssumption DEF IInv
<1>6. Cardinality(Beyond(X)) + Cardinality(Passing(X)) <= Gap - 1 + Cardinality(Requests)
  BY DEF IInv, GapKept
<1>7. CASE r \notin new
  <2>1. new \subseteq Passing(X)
    BY <1>2, <1>3, <1>7 DEF Passing, Passed, At
  <2> HIDE DEF new
  <2>2. Cardinality(new) <= Cardinality(Passing(X))
    BY <1>5, <2>1, FS_Subset
  <2>3. QED
    BY <1>1, <1>4, <1>5, <1>6, <2>2 DEF new
<1>8. CASE Cardinality(stored["main"]) < Gap
  <2>1. Beyond(X) \subseteq stored["main"]
    BY DEF Beyond
  <2>2. Cardinality(Beyond(X)) <= Cardinality(stored["main"])
    BY <1>5, <2>1, FS_Subset
  <2> HIDE DEF new
  <2>3. QED
    BY <1>1, <1>4, <1>5, <1>8, <2>2 DEF new
<1>9. CASE r \in new /\ q.at = "activity" /\ q.list = Latest
  <2>1. q.list \cap (active["main"] \cup X) # {}
    BY <1>2, <1>9 DEF Passing, Passed, At
  <2>2. PICK a \in Latest : a \in active["main"] \cup X
    BY <1>9, <2>1
  <2> DEFINE after == {j \in stored["main"] : j > a}
  <2>3. a \in stored["main"] /\ Cardinality(after) < Gap
    BY DEF Latest
  <2>4. a \in (stored["main"] \cap active["main"]) \cup X
    BY <2>2, <2>3
  <2>5. stored["main"] \subseteq Nat
    BY IndicesNat DEF IInv, Types, Branches
  <2>6. Beyond(X) \subseteq after /\ after \subseteq stored["main"]
    BY <2>3, <2>4, <2>5 DEF Beyond
  <2> HIDE DEF after
  <2>7. IsFiniteSet(after) /\ Cardinality(after) \in Nat
    BY <1>5, <2>6, FS_Subset, FS_CardinalityType
  <2>8. Cardinality(Beyond(X)) <= Cardinality(after)
    BY <2>6, <2>7, FS_Subset
  <2> HIDE DEF new
  <2>9. QED
    BY <1>1, <1>4, <1>5, <2>3, <2>7, <2>8 DEF new
<1>10. QED
  BY <1>7, <1>8, <1>9

LEMMA ReadLatestKeeps ==
  ASSUME IInv, NEW r \in Requests, ReadLatest(r)
  PROVE  IInv'
<1> DEFINE full == [req[r] EXCEPT !.at = "activity", !.list = Latest]
           free == [req[r] EXCEPT !.at = "lock"]
<1>1. req[r].op = "address" /\ req[r].at = "gap"
  BY DEF ReadLatest, LookBack, At
<1>2. UNCHANGED <<wallet, stored, active, lock, overwritten, history>>
  BY DEF ReadLatest, LookBack
<1>3. stored["main"] \subseteq Indices /\ IsFiniteSet(stored["main"])
  BY Finite DEF IInv, Types, Branches
<1>4. PICK q \in Request :
         /\ Became(r, q) /\ q.op = "address" /\ q.branch = req[r].branch
         /\ q.failed = req[r].failed /\ q.at \in {"activity", "lock"}
         /\ q.at = "activity" => q.list = Latest
         /\ \/ Cardinality(stored["main"]) < Gap
            \/ q.at = "activity" /\ q.list = Latest
  <2>1. CASE Cardinality(Latest) = Gap
    <3>1. Latest \subseteq Indices
      BY <1>3 DEF Latest
    <3>2. Became(r, full)
      BY <2>1, Known DEF ReadLatest, LookBack, Became
    <3>3. /\ full \in Request /\ full.op = "address" /\ full.branch = req[r].branch
          /\ full.failed = req[r].failed /\ full.at = "activity" /\ full.list = Latest
      BY <1>1, <3>1, Known DEF Request, Stages
    <3> HIDE DEF full
    <3>4. QED
      BY <3>2, <3>3
  <2>2. CASE Cardinality(Latest) # Gap
    <3>1. Cardinality(stored["main"]) \in Nat /\ stored["main"] \subseteq Nat /\ Gap \in Nat
      BY <1>3, IndicesNat, FS_CardinalityType, GapAssumption
    <3>2. ~(Gap <= Cardinality(stored["main"]))
      BY <1>3, <2>2, <3>1, LatestOnes DEF Latest
    <3>3. Cardinality(stored["main"]) < Gap
      BY <3>1, <3>2
    <3>4. Became(r, free)
      BY <2>2, Known DEF ReadLatest, LookBack, Became
    <3>5. /\ free \in Request /\ free.op = "address" /\ free.branch = req[r].branch
          /\ free.failed = req[r].failed /\ free.at = "lock"
      BY <1>1, Known DEF Request, Stages
    <3> HIDE DEF free
    <3>6. QED
      BY <3>3, <3>4, <3>5
  <2>3. QED
    BY <2>1, <2>2
<1>5. Latest \subseteq stored["main"]
  BY DEF Latest
<1>6. Fit(q) /\ ~Answering(q)
  BY <1>1, <1>4, <1>5, Known
     DEF Fit, HoldsFit, DerivedFit, ListsFit, Holding, Deriving, Answering
<1>7. UNCHANGED <<stored, active, cut, given, repeated>>
  BY <1>2 DEF history
<1>8. GapKept'
  BY <1>4, <1>7, GapJoined
<1>9. Fit(q)'
  BY <1>6, <1>7, FitKept DEF Request
<1>10. req' \in [Requests -> Request] /\ (\A s \in Requests : Fit(req[s]))'
  BY <1>4, <1>7, <1>9, FitOfAll DEF IInv
<1>11. Types'
  BY <1>2, <1>7, <1>10 DEF IInv, Types
<1>12. WalletFits'
  <2>1. Good(wallet.index)'
    BY <1>2, <1>7 DEF IInv, WalletFits, Good, Counts
  <2>2. QED
    BY <1>7, <2>1 DEF IInv, WalletFits
<1>13. Answers'
  <2>1. overwritten \in BOOLEAN /\ wallet.index["main"] \in Nat
    BY MainIndex DEF IInv, Types
  <2>2. overwritten' \/ (~overwritten /\ wallet.index["main"] <= wallet'.index["main"])
    BY <1>2, <2>1
  <2>3. QED
    BY <1>2, <1>4, <1>6, <1>7, <2>1, <2>2, AnswersSame
<1>14. QED
  BY <1>8, <1>10, <1>11, <1>12, <1>13 DEF IInv

-----------------------------------------------------------------------------
(* Addresses are inserted, answered and paid                               *)

\* What an inserting request holds is within its branch.
LEMMA BatchBounded ==
  ASSUME IInv, NEW r \in Requests, At(r, {"address", "change", "scan"}, "insert")
  PROVE  /\ Holding(req[r]) /\ ~req[r].failed /\ req[r].branch \in Branches
         /\ req[r].doc \in Wallet /\ req[r].seen \in Index
         /\ \A b \in Branches : /\ req[r].seen[b] <= req[r].doc.index[b]
                                /\ Counts(req[r].doc.index, b, Coming(req[r], b))
         /\ req[r].batch \subseteq 0 .. MaxIndex[req[r].branch] - 1
<1>1. req[r].op \in {"address", "change", "scan"} /\ req[r].at = "insert"
  BY DEF At
<1>2. Holding(req[r]) /\ ~req[r].failed /\ req[r].branch \in Branches
  BY <1>1, Known DEF Fit, HoldsFit, Holding, Deriving, Request
<1>3. /\ req[r].doc \in Wallet /\ req[r].seen \in Index
      /\ \A b \in Branches : /\ req[r].seen[b] <= req[r].doc.index[b]
                             /\ Counts(req[r].doc.index, b, Coming(req[r], b))
  BY <1>2, Known DEF Fit, HoldsFit
<1> DEFINE b == req[r].branch
           end == req[r].doc.index[b]
<1>4. end \in Nat /\ MaxIndex[b] \in Nat /\ end <= MaxIndex[b]
  BY <1>2, <1>3, IndexNat, BoundAssumption DEF Wallet, Counts
<1>5. req[r].batch \subseteq Nat
  BY Known, IndicesNat DEF Request
<1>6. \A n \in req[r].batch : n <= end - 1
  <2>1. CASE req[r].op = "scan"
    BY <1>1, <2>1, Known DEF Fit, ListsFit
  <2>2. CASE req[r].op # "scan"
    <3>1. req[r].batch = {req[r].addr} /\ end = req[r].addr + 1 /\ req[r].addr \in Nat
      BY <1>1, <2>2, Known, IndicesNat DEF Fit, DerivedFit, Deriving
    <3>2. QED
      BY <3>1
  <2>3. QED
    BY <2>1, <2>2
<1> HIDE DEF end, b
<1>7. \A n \in req[r].batch : n \in 0 .. MaxIndex[b] - 1
  BY <1>4, <1>5, <1>6
<1>8. QED
  BY <1>2, <1>3, <1>7 DEF b

\* The addresses a request has looked up were there before.
LEMMA PassingAfter ==
  ASSUME IInv, NEW r \in Requests, NEW q \in Request, Became(r, q), ~Near(q),
         active' = active, NEW X
  PROVE  Passing(X)' \subseteq Passing(X \cap stored["main"]) \ {r}
<1>1. \A s \in Requests : req'[s] = IF s = r THEN q ELSE req[s]
  BY DEF Became, IInv, Types
<1>2. Passing(X)' \subseteq Requests
  BY DEF Passing, Passed
<1>3. r \notin Passing(X)'
  BY <1>1 DEF Passing, Passed, At, Near
<1>4. ASSUME NEW s \in Requests, s \in Passing(X)', s # r
      PROVE  s \in Passing(X \cap stored["main"])
  <2>1. req'[s] = req[s]
    BY <1>1, <1>4
  <2>2. CASE s \in Passed'
    BY <2>1, <2>2 DEF Passing, Passed, At
  <2>3. CASE At(s, {"address"}, "activity")' /\ req'[s].list \cap (active'["main"] \cup X) # {}
    <3>1. At(s, {"address"}, "activity") /\ req[s].list \cap (active["main"] \cup X) # {}
      BY <2>1, <2>3 DEF At
    <3>2. req[s].list \subseteq stored["main"]
      BY <3>1 DEF At, IInv, Fit, ListsFit
    <3>3. QED
      BY <3>1, <3>2 DEF Passing
  <2>4. QED
    BY <1>4, <2>2, <2>3 DEF Passing
<1>5. QED
  BY <1>2, <1>3, <1>4

LEMMA InsertKeepsGap ==
  ASSUME IInv, NEW r \in Requests, NEW q \in Request, Became(r, q), ~Near(q), Insert(r)
  PROVE  GapKept'
<1> SUFFICES ASSUME ~cut', NEW X \in SUBSET stored'["main"]
             PROVE  Cardinality(Beyond(X)') + Cardinality(Passing(X)') <=
                        Gap - 1 + Cardinality(Requests)
  BY DEF GapKept
<1> DEFINE b == req[r].branch
           batch == req[r].batch
           old == batch \cap stored[b]
           new == {i \in batch : \A j \in old : Before(req[r], i, j)}
           Y == X \cap stored["main"]
           more == Beyond(X)'
           pass == Passing(X)'
<1>1. At(r, {"address", "change", "scan"}, "insert")
  BY DEF Insert, InsertThen
<1>2. /\ stored' = [stored EXCEPT ![b] = @ \cup new] /\ active' = active
      /\ cut' = (cut \/ batch \ (old \cup new) # {})
  BY DEF Insert, InsertThen
<1>3. /\ b \in Branches /\ "main" \in Branches /\ stored \in [Branches -> SUBSET Indices]
      /\ batch \subseteq Indices /\ stored["main"] \subseteq Nat /\ Indices \subseteq Nat
  BY <1>1, BatchBounded, Known, IndicesNat DEF IInv, Types, Branches, Request
<1> HIDE DEF new
<1>4. ~cut /\ batch \subseteq old \cup new /\ new \subseteq batch
  BY <1>2 DEF new
<1>5. /\ IsFiniteSet(stored["main"]) /\ IsFiniteSet(Beyond(Y)) /\ IsFiniteSet(Passing(Y))
      /\ Cardinality(Beyond(Y)) \in Nat /\ Cardinality(Passing(Y)) \in Nat
      /\ Cardinality(Requests) \in Nat /\ Gap \in Nat \ {0}
  BY Finite, GapAssumption DEF IInv
<1>6. Cardinality(Beyond(Y)) + Cardinality(Passing(Y)) <= Gap - 1 + Cardinality(Requests)
  BY <1>4 DEF IInv, GapKept
<1>7. pass \subseteq Passing(Y) \ {r}
  BY <1>2, PassingAfter
<1> HIDE DEF pass
<1>8. CASE b = "main" /\ req[r].op = "address"
  <2> DEFINE a == req[r].addr
  <2>1. batch = {a}
    BY <1>1, <1>8, Known DEF At, Fit, DerivedFit, Deriving
  <2>2. r \in Passing(Y)
    BY <1>1, <1>8 DEF At, Passing, Passed
  <2>3. stored["main"] \subseteq stored'["main"] /\ stored'["main"] \subseteq stored["main"] \cup {a}
    BY <1>2, <1>3, <1>4, <1>8, <2>1
  <2>4. more \subseteq Beyond(Y) \cup {a}
    BY <1>2, <2>3 DEF Beyond
  <2> HIDE DEF a, more
  <2>5. /\ IsFiniteSet(Beyond(Y) \cup {a})
        /\ Cardinality(Beyond(Y) \cup {a}) <= Cardinality(Beyond(Y)) + 1
        /\ Cardinality(Beyond(Y) \cup {a}) \in Nat
    <3>1. /\ IsFiniteSet(Beyond(Y) \cup {a})
          /\ Cardinality(Beyond(Y) \cup {a}) =
                IF a \in Beyond(Y) THEN Cardinality(Beyond(Y)) ELSE Cardinality(Beyond(Y)) + 1
      BY <1>5, FS_AddElement
    <3>2. QED
      BY <1>5, <3>1
  <2>6. Cardinality(more) <= Cardinality(Beyond(Y) \cup {a}) /\ Cardinality(more) \in Nat
    BY <2>4, <2>5, FS_Subset, FS_CardinalityType
  <2>7. /\ IsFiniteSet(Passing(Y) \ {r})
        /\ Cardinality(Passing(Y) \ {r}) = Cardinality(Passing(Y)) - 1
    BY <1>5, <2>2, FS_RemoveElement
  <2>8. Cardinality(pass) <= Cardinality(Passing(Y)) - 1 /\ Cardinality(pass) \in Nat
    <3>1. IsFiniteSet(pass) /\ Cardinality(pass) <= Cardinality(Passing(Y) \ {r})
      BY <1>7, <2>7, FS_Subset
    <3>2. QED
      BY <2>7, <3>1, FS_CardinalityType
  <2>9. QED
    BY <1>5, <1>6, <2>5, <2>6, <2>8 DEF more, pass
<1>9. CASE more \subseteq Beyond(Y)
  <2>1. pass \subseteq Passing(Y)
    BY <1>7
  <2> HIDE DEF more
  <2>2. Cardinality(pass) <= Cardinality(Passing(Y)) /\ Cardinality(pass) \in Nat
    BY <1>5, <2>1, FS_Subset, FS_CardinalityType
  <2>3. Cardinality(more) <= Cardinality(Beyond(Y)) /\ Cardinality(more) \in Nat
    BY <1>5, <1>9, FS_Subset, FS_CardinalityType
  <2>4. QED
    BY <1>5, <1>6, <2>2, <2>3 DEF more, pass
<1>10. CASE b = "main" /\ req[r].op = "scan"
  <2> DEFINE top == req[r].doc.index["main"] - 1
  <2>1. top \in batch \cap active["main"] /\ \A n \in batch : n <= top
    BY <1>1, <1>10, Known DEF At, Fit, ListsFit
  <2> HIDE DEF top
  <2>2. stored["main"] \subseteq stored'["main"] /\ stored'["main"] = stored["main"] \cup batch
    BY <1>2, <1>3, <1>4, <1>10
  <2>3. top \in stored'["main"] \cap active'["main"]
    BY <1>2, <2>1, <2>2
  <2>4. ASSUME NEW i \in more
        PROVE  i \in Beyond(Y)
    <3>1. /\ i \in stored'["main"] /\ top < i
          /\ \A j \in (stored'["main"] \cap active'["main"]) \cup X : j < i
      BY <2>3 DEF Beyond
    <3>2. top \in Nat /\ i \in Nat
      BY <1>3, <2>1, <2>2, <3>1
    <3>3. i \notin batch
      BY <2>1, <3>1, <3>2
    <3>4. QED
      BY <1>2, <2>2, <3>1, <3>3 DEF Beyond
  <2>5. QED
    BY <1>9, <2>4
<1>11. CASE b # "main"
  <2>1. stored'["main"] = stored["main"]
    BY <1>2, <1>3, <1>11
  <2>2. QED
    BY <1>2, <1>9, <2>1 DEF Beyond
<1>12. QED
  <2>1. b = "main" => req[r].op \in {"address", "scan"}
    BY <1>1, Known DEF At, Fit, DerivedFit
  <2>2. QED
    BY <1>8, <1>10, <1>11, <2>1

LEMMA InsertKeeps ==
  ASSUME IInv, NEW r \in Requests, Insert(r)
  PROVE  IInv'
<1> DEFINE q == [req[r] EXCEPT !.at = "write", !.batch = {}]
           b == req[r].branch
           batch == req[r].batch
           old == batch \cap stored[b]
           new == {i \in batch : \A j \in old : Before(req[r], i, j)}
<1>1. req[r].op \in {"address", "change", "scan"} /\ req[r].at = "insert"
  BY DEF Insert, InsertThen, At
<1>2. At(r, {"address", "change", "scan"}, "insert")
  BY <1>1 DEF At
<1>3. /\ stored' = [stored EXCEPT ![b] = @ \cup new]
      /\ cut' = (cut \/ batch \ (old \cup new) # {})
      /\ UNCHANGED <<wallet, active, lock, given, repeated, overwritten>>
  BY DEF Insert, InsertThen
<1> HIDE DEF new
<1>4. Became(r, q)
  BY Known DEF Insert, InsertThen, Became
<1>5. PICK p \in Request :
         /\ p.op = req[r].op /\ p.at = "write" /\ p.branch = b
         /\ p.doc = req[r].doc /\ p.seen = req[r].seen /\ p.addr = req[r].addr
         /\ p.failed = req[r].failed
         /\ Became(r, p)
  <2>1. /\ q \in Request /\ q.op = req[r].op /\ q.at = "write" /\ q.branch = b
        /\ q.doc = req[r].doc /\ q.seen = req[r].seen /\ q.addr = req[r].addr
        /\ q.failed = req[r].failed
    BY <1>1, Known DEF Request, Stages
  <2> HIDE DEF q
  <2>2. QED
    BY <1>4, <2>1
<1>6. new \subseteq batch /\ (~cut' => ~cut /\ batch \subseteq stored[b] \cup new)
  BY <1>3 DEF new
<1>7. /\ b \in Branches /\ stored \in [Branches -> SUBSET Indices] /\ batch \subseteq Indices
      /\ cut \in BOOLEAN
  BY <1>2, BatchBounded, Known DEF IInv, Types, Request
<1>8. /\ \A c \in Branches : stored[c] \subseteq stored'[c] /\ active[c] \subseteq active'[c]
      /\ \A c \in Branches : stored'[c] \subseteq stored[c] \cup Coming(req[r], c)
      /\ ~cut' => \A c \in Branches : stored[c] \cup Coming(req[r], c) \subseteq stored'[c]
  <2>1. \A c \in Branches : Coming(req[r], c) = IF c = b THEN batch ELSE {}
    BY <1>1 DEF Coming
  <2>2. \A c \in Branches : stored'[c] = IF c = b THEN stored[b] \cup new ELSE stored[c]
    BY <1>3, <1>7
  <2>3. QED
    BY <1>3, <1>6, <2>1, <2>2
<1>9. cut => cut'
  BY <1>3
<1>10. Fit(p)'
  <2>1. \A c \in Branches : Coming(p, c)' = {}
    BY <1>5 DEF Coming
  <2>2. ASSUME NEW c \in Branches
        PROVE  Counts(p.doc.index, c, Coming(p, c))'
    <3>1. Counts(req[r].doc.index, c, Coming(req[r], c))
      BY <1>2, BatchBounded
    <3>2. QED
      BY <1>5, <1>8, <1>9, <2>1, <3>1 DEF Counts
  <2>3. HoldsFit(p)'
    BY <1>2, <1>5, <2>2, BatchBounded DEF HoldsFit
  <2>4. DerivedFit(p)'
    BY <1>1, <1>5, Known DEF Fit, DerivedFit, Deriving
  <2>5. QED
    BY <1>5, <2>3, <2>4 DEF Fit, ListsFit
<1>11. ~Near(p) /\ ~Answering(p)
  BY <1>5 DEF Near, Answering
<1>12. req' \in [Requests -> Request] /\ (\A s \in Requests : Fit(req[s]))'
  BY <1>4, <1>5, <1>8, <1>9, <1>10, FitOfAll DEF IInv
<1>13. Types'
  <2>1. stored' \in [Branches -> SUBSET Indices]
    BY <1>3, <1>6, <1>7
  <2>2. cut' \in BOOLEAN
    BY <1>3, <1>7
  <2>3. QED
    BY <1>3, <1>12, <2>1, <2>2 DEF IInv, Types
<1>14. WalletFits'
  <2>1. Good(wallet.index)'
    BY <1>3, <1>8, <1>9 DEF IInv, WalletFits, Good, Counts
  <2>2. \A c \in Branches : Coming(req[r], c) \subseteq 0 .. MaxIndex[c] - 1
    BY <1>2, BatchBounded DEF Coming
  <2>3. \A c \in Branches : stored'[c] \cup active'[c] \subseteq 0 .. MaxIndex[c] - 1
    BY <1>3, <1>8, <2>2 DEF IInv, WalletFits
  <2>4. QED
    BY <2>1, <2>3 DEF WalletFits
<1>15. GapKept'
  BY <1>4, <1>5, <1>11, InsertKeepsGap
<1>16. Answers'
  <2>1. overwritten \in BOOLEAN /\ wallet.index["main"] \in Nat
    BY MainIndex DEF IInv, Types
  <2>2. overwritten' \/ (~overwritten /\ wallet.index["main"] <= wallet'.index["main"])
    BY <1>3, <2>1
  <2>3. QED
    BY <1>3, <1>4, <1>5, <1>11, <2>1, <2>2, AnswersSame
<1>17. QED
  BY <1>12, <1>13, <1>14, <1>15, <1>16 DEF IInv

LEMMA AnswerAddressKeeps ==
  ASSUME IInv, NEW r \in Requests, AnswerAddress(r)
  PROVE  IInv'
<1> DEFINE a == req[r].addr
<1>1. req[r].op = "address" /\ req[r].at = "sync" /\ Answering(req[r])
  BY DEF AnswerAddress, At, Answering
<1>2. /\ given' = given \cup {a} /\ repeated' = (repeated \/ a \in given)
      /\ UNCHANGED <<wallet, stored, active, overwritten, cut>>
      /\ lock' \in Locks
  BY EndLocks DEF AnswerAddress
<1>3. PICK q \in Request : Fit(q) /\ ~Near(q) /\ ~Answering(q) /\ Became(r, q)
  <2> DEFINE q == Idle
  <2>1. Became(r, q)
    BY EndLocks DEF AnswerAddress, Became
  <2> HIDE DEF q
  <2>2. q \in Request /\ Fit(q) /\ ~Near(q) /\ ~Answering(q)
    BY IdleFits DEF q
  <2>3. QED
    BY <2>1, <2>2
<1>4. a \in Indices
  BY <1>1, Known DEF Fit, DerivedFit
<1>5. Fit(q)'
  BY <1>2, <1>3, FitKept DEF Request
<1>6. req' \in [Requests -> Request] /\ (\A s \in Requests : Fit(req[s]))'
  BY <1>2, <1>3, <1>5, FitOfAll DEF IInv
<1>7. Types'
  BY <1>2, <1>4, <1>6 DEF IInv, Types, Locks
<1>8. WalletFits'
  <2>1. Good(wallet.index)'
    BY <1>2 DEF IInv, WalletFits, Good, Counts
  <2>2. QED
    BY <1>2, <2>1 DEF IInv, WalletFits
<1>9. GapKept'
  BY <1>2, <1>3, GapSame
<1>10. Answers'
  <2> SUFFICES ASSUME ~overwritten
               PROVE  Answers'
    BY <1>2 DEF Answers
  <2>1. /\ ~repeated
        /\ \A g \in given : g < wallet.index["main"]
        /\ \A s \in Requests : Answering(req[s]) =>
              /\ req[s].addr < wallet.index["main"]
              /\ req[s].addr \notin given
              /\ \A p \in Requests \ {s} : Answering(req[p]) => req[p].addr # req[s].addr
    BY DEF IInv, Answers
  <2>2. \A s \in Requests : req'[s] = IF s = r THEN q ELSE req[s]
    BY <1>3 DEF Became, IInv, Types
  <2>3. ~repeated' /\ \A g \in given' : g < wallet'.index["main"]
    BY <1>1, <1>2, <2>1
  <2>4. ASSUME NEW s \in Requests, Answering(req'[s])
        PROVE  /\ req'[s].addr < wallet'.index["main"] /\ req'[s].addr \notin given'
               /\ \A p \in Requests \ {s} : Answering(req'[p]) => req'[p].addr # req'[s].addr
    <3>1. s # r /\ req'[s] = req[s]
      BY <1>3, <2>2, <2>4
    <3>2. req[s].addr # a
      BY <1>1, <2>1, <2>4, <3>1
    <3>3. \A p \in Requests \ {s} : Answering(req'[p]) => req'[p] = req[p]
      BY <1>3, <2>2
    <3>4. QED
      BY <1>2, <2>1, <2>4, <3>1, <3>2, <3>3
  <2>5. QED
    BY <2>3, <2>4 DEF Answers, Answering
<1>11. QED
  BY <1>6, <1>7, <1>8, <1>9, <1>10 DEF IInv

\* Nothing but the lock changes.
LEMMA SameButLock ==
  ASSUME IInv, lock' \in Locks,
         UNCHANGED <<wallet, stored, active, req, overwritten, history>>
  PROVE  IInv'
<1>1. UNCHANGED <<given, repeated, cut>>
  BY DEF history
<1>2. Types'
  BY <1>1 DEF IInv, Types, Locks
<1>3. WalletFits'
  BY <1>1 DEF IInv, WalletFits, Good, Counts
<1>4. \A b \in Branches : stored[b] \subseteq stored'[b] /\ active[b] \subseteq active'[b]
  OBVIOUS
<1>5. (\A r \in Requests : Fit(req[r]))'
  <2>1. ASSUME NEW r \in Requests
        PROVE  Fit(req[r])'
    <3>1. PICK p \in Request : p = req[r] /\ p = req'[r]
      BY Known
    <3>2. Fit(p)'
      BY <1>1, <1>4, <3>1, Known, FitKept DEF Request
    <3>3. QED
      BY <3>1, <3>2 DEF Fit, HoldsFit, DerivedFit, ListsFit, Coming, Counts, Good,
         Holding, Deriving
  <2>2. QED
    BY <2>1
<1>6. GapKept'
  BY <1>1 DEF IInv, GapKept, Beyond, Passing, Passed, At
<1>7. Answers'
  BY <1>1 DEF IInv, Answers, Answering
<1>8. QED
  BY <1>2, <1>3, <1>5, <1>6, <1>7 DEF IInv

LEMMA ExpiredLockKeeps ==
  ASSUME IInv, FindExpiredLock \/ DeleteExpiredLock
  PROVE  IInv'
<1>1. lock \in Locks
  BY DEF IInv, Types, Locks
<1>2. QED
  BY <1>1, SameButLock DEF FindExpiredLock, DeleteExpiredLock, Locks

\* A payment is one of those that have been reckoned with.
LEMMA PayKeeps ==
  ASSUME IInv, Pay
  PROVE  IInv'
<1>1. PICK b \in Branches :
         \E i \in stored[b] : active' = [active EXCEPT ![b] = @ \cup {i}]
  BY DEF Pay
<1> PICK i \in stored[b] : active' = [active EXCEPT ![b] = @ \cup {i}]
  BY <1>1
<1>2. UNCHANGED <<wallet, stored, lock, req, overwritten, cut, given, repeated>>
  BY DEF Pay, history
<1>3. /\ stored \in [Branches -> SUBSET Indices] /\ active \in [Branches -> SUBSET Indices]
      /\ \A c \in Branches : stored[c] \cup active[c] \subseteq 0 .. MaxIndex[c] - 1
      /\ "main" \in Branches
  BY DEF IInv, Types, WalletFits, Branches
<1>4. /\ active' \in [Branches -> SUBSET Indices]
      /\ \A c \in Branches : active'[c] = IF c = b THEN active[b] \cup {i} ELSE active[c]
  BY <1>1, <1>3
<1>5. \A c \in Branches : stored[c] \subseteq stored'[c] /\ active[c] \subseteq active'[c]
  BY <1>2, <1>4
<1>6. Types'
  BY <1>2, <1>4 DEF IInv, Types
<1>7. WalletFits'
  <2>1. Good(wallet.index)'
    BY <1>2 DEF IInv, WalletFits, Good, Counts
  <2>2. \A c \in Branches : stored'[c] \cup active'[c] \subseteq 0 .. MaxIndex[c] - 1
    BY <1>2, <1>3, <1>4
  <2>3. QED
    BY <2>1, <2>2 DEF WalletFits
<1>8. (\A r \in Requests : Fit(req[r]))'
  <2>1. ASSUME NEW r \in Requests
        PROVE  Fit(req[r])'
    <3>1. PICK p \in Request : p = req[r] /\ p = req'[r]
      BY <1>2, Known
    <3>2. Fit(p)'
      BY <1>2, <1>5, <3>1, Known, FitKept DEF Request
    <3>3. QED
      BY <3>1, <3>2 DEF Fit, HoldsFit, DerivedFit, ListsFit, Coming, Counts, Good,
         Holding, Deriving
  <2>2. QED
    BY <2>1
<1>9. GapKept'
  <2> SUFFICES ASSUME ~cut, NEW X \in SUBSET stored["main"]
               PROVE  Cardinality(Beyond(X)') + Cardinality(Passing(X)') <=
                          Gap - 1 + Cardinality(Requests)
    BY <1>2 DEF GapKept
  <2> DEFINE Y == X \cup (active'["main"] \cap stored["main"])
             pass == Passing(X)'
  <2>1. Y \in SUBSET stored["main"]
    OBVIOUS
  <2>2. (stored'["main"] \cap active'["main"]) \cup X =
            (stored["main"] \cap active["main"]) \cup Y
    BY <1>2, <1>3, <1>5
  <2> HIDE DEF Y
  <2>3. Beyond(X)' = Beyond(Y)
    BY <1>2, <2>2 DEF Beyond
  <2>4. pass \subseteq Passing(Y)
    <3>1. ASSUME NEW s \in pass
          PROVE  s \in Passing(Y)
      <4>1. CASE s \in Passed
        BY <4>1 DEF Passing
      <4>2. CASE /\ s \in Requests /\ At(s, {"address"}, "activity")
                 /\ req[s].list \cap (active'["main"] \cup X) # {}
        <5>1. req[s].list \subseteq stored["main"]
          BY <4>2 DEF At, IInv, Fit, ListsFit
        <5>2. req[s].list \cap (active["main"] \cup Y) # {}
          BY <4>2, <5>1 DEF Y
        <5>3. QED
          BY <4>2, <5>2 DEF Passing
      <4>3. QED
        BY <1>2, <3>1, <4>1, <4>2 DEF Passing, Passed, At
    <3>2. QED
      BY <3>1
  <2> HIDE DEF pass
  <2>5. /\ IsFiniteSet(Passing(Y)) /\ Cardinality(Beyond(Y)) \in Nat
        /\ Cardinality(Passing(Y)) \in Nat
        /\ Cardinality(Requests) \in Nat /\ Gap \in Nat
    BY Finite, GapAssumption DEF IInv
  <2>6. Cardinality(pass) <= Cardinality(Passing(Y)) /\ Cardinality(pass) \in Nat
    BY <2>4, <2>5, FS_Subset, FS_CardinalityType
  <2>7. Cardinality(Beyond(Y)) + Cardinality(Passing(Y)) <= Gap - 1 + Cardinality(Requests)
    BY <2>1 DEF IInv, GapKept
  <2>8. QED
    BY <2>3, <2>5, <2>6, <2>7 DEF pass
<1>10. Answers'
  BY <1>2 DEF IInv, Answers, Answering
<1>11. QED
  BY <1>6, <1>7, <1>8, <1>9, <1>10 DEF IInv

-----------------------------------------------------------------------------
(* The theorems                                                            *)

LEMMA InitInv ==
  ASSUME Init
  PROVE  IInv
<1>1. \A r \in Requests : req[r] = Idle
  BY DEF Init
<1>2. "main" \in Branches /\ "change" \in Branches
  BY DEF Branches
<1>3. Types
  <2>1. wallet \in Wallet
    <3>1. [b \in Branches |-> 0] \in Index
      BY DEF Index
    <3>2. QED
      BY <3>1 DEF Init, Wallet
  <2>2. active \in [Branches -> SUBSET Indices]
    <3>1. \A b \in Branches : active[b] \subseteq Indices
      BY IndicesNat DEF Init
    <3>2. QED
      BY <3>1 DEF Init
  <2>3. req \in [Requests -> Request]
    BY IdleFits DEF Init
  <2>4. QED
    BY <2>1, <2>2, <2>3 DEF Init, Types
<1>4. WalletFits
  <2>1. \A b \in Branches : wallet.index[b] = 0 /\ stored[b] = {}
    BY DEF Init
  <2>2. \A b \in Branches : 0 <= MaxIndex[b]
    BY BoundAssumption
  <2>3. \A j \in Indices : ~(j < 0)
    BY IndicesNat
  <2>4. Good(wallet.index)
    BY <2>1, <2>2, <2>3 DEF Good, Counts
  <2>5. QED
    BY <2>1, <2>4 DEF WalletFits, Init
<1>5. \A r \in Requests : Fit(req[r])
  BY <1>1, IdleFits
<1>6. GapKept
  <2> SUFFICES ASSUME NEW X \in SUBSET stored["main"]
               PROVE  Cardinality(Beyond(X)) + Cardinality(Passing(X)) <=
                          Gap - 1 + Cardinality(Requests)
    BY DEF GapKept
  <2>1. Beyond(X) = {}
    BY <1>2 DEF Init, Beyond
  <2>2. Passing(X) = {}
    BY <1>1 DEF Passing, Passed, At, Idle
  <2>3. Cardinality({}) = 0 /\ Cardinality(Requests) \in Nat /\ Gap \in Nat \ {0}
    BY FS_EmptySet, FS_CardinalityType, RequestsAssumption, GapAssumption
  <2>4. QED
    BY <2>1, <2>2, <2>3
<1>7. Answers
  BY <1>1, IdleFits DEF Init, Answers
<1>8. QED
  BY <1>3, <1>4, <1>5, <1>6, <1>7 DEF IInv

LEMMA NextInv ==
  ASSUME IInv, [Next]_vars
  PROVE  IInv'
<1>1. ASSUME NEW r \in Requests, Proceed(r)
      PROVE  IInv'
  <2>1. CASE StartAddress(r) \/ ReadLatest(r) \/ FindActivity(r) \/ RefuseGap(r)
    BY <2>1, StartAddressKeeps, ReadLatestKeeps, FindActivityKeeps, RefuseGapKeeps
  <2>2. CASE StartChange(r) \/ Derive(r) \/ RefuseScanFailed(r)
    BY <2>2, StartChangeKeeps, DeriveKeeps, RefuseScanFailedKeeps
  <2>3. CASE Insert(r) \/ WriteWallet(r)
    BY <2>3, InsertKeeps, WriteWalletKeeps
  <2>4. CASE StartSync(r) \/ Register(r) \/ Resync(r) \/ AnswerAddress(r) \/ EndSync(r)
    BY <2>4, StartSyncKeeps, RegisterKeeps, ResyncKeeps, AnswerAddressKeeps, EndSyncKeeps
  <2>5. CASE StartScan(r) \/ Deregister(r) \/ ReadForScan(r) \/ LockScan(r)
    BY <2>5, StartScanKeeps, DeregisterKeeps, ReadForScanKeeps, LockScanKeeps
  <2>6. CASE StoreRunning(r) \/ ScanBranch(r) \/ ScanFails(r)
    BY <2>6, StoreRunningKeeps, ScanBranchKeeps, ScanFailsKeeps
  <2>7. CASE NextBranch(r) \/ ReadStatus(r) \/ StoreStatus(r)
    BY <2>7, NextBranchKeeps, ReadStatusKeeps, StoreStatusKeeps
  <2>8. CASE RequestFails(r) \/ Crash(r)
    BY <2>8, RequestFailsKeeps, CrashKeeps
  <2>9. QED
    BY <1>1, <2>1, <2>2, <2>3, <2>4, <2>5, <2>6, <2>7, <2>8 DEF Proceed
<1>2. CASE FindExpiredLock \/ DeleteExpiredLock \/ Pay
  BY <1>2, ExpiredLockKeeps, PayKeeps
<1>3. CASE UNCHANGED vars
  BY <1>3, SameButLock DEF vars, IInv, Types, Locks
<1>4. QED
  BY <1>1, <1>2, <1>3 DEF Next

LEMMA Invariant == Spec => []IInv
<1>1. Init => IInv
  BY InitInv
<1>2. IInv /\ [Next]_vars => IInv'
  BY NextInv
<1>3. QED
  BY <1>1, <1>2, PTL DEF Spec

\* The wallet, its addresses and every request stay what they are declared to
\* be, the scans' ends among them.
THEOREM AddressesTypeCorrect == Spec => []TypeOK
<1>1. IInv => Types
  BY DEF IInv
<1>2. Init => clearing \in BOOLEAN
  BY DEF Init
<1>3. clearing \in BOOLEAN /\ [Next]_vars => (clearing \in BOOLEAN)'
  BY DEF Next, vars, FindExpiredLock, DeleteExpiredLock
<1>4. TypeOK <=> Types /\ clearing \in BOOLEAN
  BY DEF TypeOK
<1>5. QED
  BY <1>1, <1>2, <1>3, <1>4, Invariant, PTL DEF Spec

\* However many requests create addresses at the same time, and wherever they
\* stop, createAddress answers no address twice as long as nobody has replaced
\* indices he had not read.
THEOREM GivenOnceAlways == Spec => []GivenOnce
<1>1. IInv => GivenOnce
  BY DEF IInv, Answers, GivenOnce, NoAddressTwice
<1>2. QED
  BY <1>1, Invariant, PTL

\* What the wallet counts is stored, on both branches, unless an insert has
\* stopped at a duplicate: storeAddressAndWallet inserts before it counts, and
\* no index is written, however old, whose addresses are not there.
THEOREM NoneSkippedAlways == Spec => []NoneSkipped
<1>1. IInv => NoneSkipped
  BY DEF IInv, WalletFits, Good, Counts, NoneSkipped
<1>2. QED
  BY <1>1, Invariant, PTL

\* _canCreateAddress is asked before the lock.  Still the unused addresses at
\* the end, with those about to be added, exceed the gap by at most one for
\* every other request.
THEOREM GapBoundedAlways == Spec => []GapBounded
<1>1. ASSUME IInv
      PROVE  GapBounded
  <2> SUFFICES ASSUME ~cut
               PROVE  Cardinality(Unused) + Cardinality(Passed) <=
                          Gap - 1 + Cardinality(Requests)
    BY DEF GapBounded
  <2>1. Unused = Beyond({}) /\ Passed \subseteq Passing({})
    BY DEF Unused, Beyond, Passing
  <2>2. Cardinality(Beyond({})) + Cardinality(Passing({})) <= Gap - 1 + Cardinality(Requests)
    BY <1>1 DEF IInv, GapKept
  <2>3. /\ IsFiniteSet(Passing({})) /\ Cardinality(Passing({})) \in Nat
        /\ Cardinality(Beyond({})) \in Nat /\ Cardinality(Requests) \in Nat /\ Gap \in Nat
    BY <1>1, Finite, GapAssumption DEF IInv
  <2>4. Cardinality(Passed) <= Cardinality(Passing({})) /\ Cardinality(Passed) \in Nat
    BY <2>1, <2>3, FS_Subset, FS_CardinalityType
  <2>5. QED
    BY <2>1, <2>2, <2>3, <2>4
<1>2. QED
  BY <1>1, Invariant, PTL

=============================================================================
