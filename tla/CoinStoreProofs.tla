--------------------------- MODULE CoinStoreProofs ---------------------------
(***************************************************************************)
(* What the chain has stored stands beside everything that runs at the     *)
(* same time, the collections of coins and transactions agree, and pending *)
(* transactions hold what they spend, for every graph of transactions, any *)
(* number of relays, rollbacks and crashes; and so they do beside requests *)
(* of the API that add addresses to a wallet, which leave a wallet with    *)
(* all it should have (WalletImport).                                      *)
(***************************************************************************)
EXTENDS WalletImport, FiniteSetTheorems, TLAPS

(***************************************************************************)
(* The blocks                                                              *)
(***************************************************************************)

\* What the chain spends it has mined.
ChainFits ==
  \A h \in 1 .. Height : \A t \in chain[h] : \A c \in Spends[t] :
    \E i \in 1 .. h : \E s \in chain[i] : c \in Mints[s]

\* While a block is imported, and when that was cut off, it is the next one.
NextFits ==
  importing # {} => ValidBlock(importing) /\ Height < MaxHeight

Importing == {"mint", "find", "relate", "mark", "spend", "write"}

\* What the jobs do: relays import pending transactions, the block job the
\* block on top of the chain, or it rolls back what was there.
JobsFit ==
  /\ \A r \in Relays : job[r].height = Pending
  /\ job["block"].stage \in Importing =>
        /\ importing # {} /\ importing \subseteq inv
        /\ job["block"].txs = importing
        /\ job["block"].height = Height + 1
  /\ job["block"].stage = "undo" =>
        importing = {} /\ job["block"].height = Height + 1

\* Jobs that are not marking have nothing to mark; no two relays import the
\* same transaction.
MarksFit ==
  /\ \A j \in Jobs : job[j].stage \notin {"mark", "undo"} => job[j].marks = {}
  /\ \A j \in Jobs : job[j].stage = "idle" => job[j] = Idle
  /\ job["block"].stage = "undo" => job["block"].related = {}
  /\ \A r \in Relays : job[r].stage # "undo" /\ job[r].txs \subseteq inv
  /\ job["pruner"].stage \in {"idle", "relate", "mark"}
  /\ \A r, q \in Relays : r # q => job[r].txs \cap job[q].txs = {}

(***************************************************************************)
(* What stands in the store of a transaction t of the block at height h    *)
(***************************************************************************)

MintStands(t, h) ==
  \A c \in Mints[t] :
    /\ coins[c] # None
    /\ coins[c].mint \in {h, Conflicting}
    /\ t \in disturbed \/ coins[c].mint = h

SpendStands(t, h) ==
  \A c \in Spends[t] :
    /\ coins[c] # None
    /\ coins[c].spent = h
    /\ coins[c].by = t

TxStands(t, h) == t \in disturbed \/ (txs[t] # None /\ txs[t].height = h)

\* The import of the block has got that far.
Minting == job["block"].stage \in Importing \ {"mint"}
Writing == job["block"].stage = "write"

BlockStands ==
  \A h \in Nat : h = Height + 1 =>
    /\ Minting => \A t \in importing : MintStands(t, h)
    /\ Writing => \A t \in importing : SpendStands(t, h)

ChainStands ==
  \A h \in 1 .. Height : \A t \in chain[h] :
    MintStands(t, h) /\ SpendStands(t, h) /\ TxStands(t, h)

\* A coin that is stored as spent by a block is spent by it: by a block of
\* the chain, by the one that is or was being imported, or by one that is
\* being rolled back.
SpentFit ==
  \A c \in Coins : coins[c] # None /\ coins[c].spent > 0 =>
    \/ /\ coins[c].spent <= Height
       /\ coins[c].by \in chain[coins[c].spent]
       /\ c \in Spends[coins[c].by]
    \/ /\ coins[c].spent = Height + 1
       /\ coins[c].by \in importing
       /\ c \in Spends[coins[c].by]
    \/ coins[c].spent > Height /\ job["block"].stage = "undo"

StoreInv == ChainFits /\ BlockStands /\ ChainStands /\ SpentFit

-----------------------------------------------------------------------------
(***************************************************************************)
(* Documents and jobs                                                      *)
(***************************************************************************)

LEMMA Constants ==
  /\ MaxHeight \in Nat /\ MaxHeight > 0
  /\ MaxReorgs \in Nat /\ MaxCrashes \in Nat
  /\ Pending \in Heights /\ Conflicting \in Heights
  /\ Pending < 0 /\ Conflicting < 0 /\ Pending # Conflicting
  /\ Heights \subseteq Int
BY CoinAssumption DEF Heights, Pending, Conflicting

LEMMA CoinFields ==
  ASSUME NEW d \in CoinDocs
  PROVE  /\ d # None
         /\ d.mint \in Heights /\ d.mint \in Int
         /\ d.spent \in {Unspent, Pending} \cup 1 .. MaxHeight /\ d.spent \in Int
         /\ d.by \in Txs \cup {None}
         /\ d.tag \in BOOLEAN
         /\ d = [mint |-> d.mint, spent |-> d.spent, by |-> d.by, tag |-> d.tag]
<1>1. d # None
  BY NoneAssumption
<1>2. /\ d.mint \in Heights
      /\ d.spent \in {Unspent, Pending} \cup 1 .. MaxHeight
      /\ d.by \in Txs \cup {None}
      /\ d.tag \in BOOLEAN
      /\ d = [mint |-> d.mint, spent |-> d.spent, by |-> d.by, tag |-> d.tag]
  BY DEF CoinDocs
<1>3. d.mint \in Int /\ d.spent \in Int
  BY <1>2, Constants DEF Unspent, Pending
<1>4. QED
  BY <1>1, <1>2, <1>3

LEMMA TxFields ==
  ASSUME NEW d \in TxDocs
  PROVE  /\ d # None
         /\ d.height \in Heights /\ d.height \in Int
         /\ d.tag \in BOOLEAN
BY NoneAssumption, Constants DEF TxDocs

Stages == {"idle", "mint", "find", "relate", "mark", "spend", "write", "undo"}

LEMMA JobFields ==
  ASSUME NEW r \in JobDocs
  PROVE  /\ r.stage \in Stages
         /\ r.txs \subseteq Txs /\ r.height \in Heights /\ r.height \in Int
         /\ r.found \subseteq Addresses
         /\ r.todo \subseteq Txs /\ r.walk \subseteq Txs
         /\ r.seen \subseteq Txs /\ r.related \subseteq Txs
         /\ r.marks \subseteq {"txs", "coins"}
         /\ r.tagged \subseteq Txs
BY Constants DEF JobDocs, Stages

LEMMA IdleFields ==
  /\ Idle \in JobDocs
  /\ Idle.stage = "idle" /\ Idle.txs = {} /\ Idle.height = Pending
  /\ Idle.marks = {} /\ Idle.related = {}
BY Constants DEF Idle, JobDocs

\* One job takes a step.
LEMMA JobStep ==
  ASSUME job \in [Jobs -> JobDocs], NEW j \in Jobs, NEW r \in JobDocs,
         job' = [job EXCEPT ![j] = r]
  PROVE  /\ job' \in [Jobs -> JobDocs]
         /\ job'[j] = r
         /\ \A k \in Jobs \ {j} : job'[k] = job[k]
OBVIOUS

LEMMA ContinuedFields ==
  ASSUME NEW r \in JobDocs, NEW q \in Continued(r), r.stage # "undo"
  PROVE  /\ q \in JobDocs
         /\ q.txs = r.txs /\ q.height = r.height /\ q.marks = r.marks
         /\ q.stage \in {"spend", "relate"}
<1>1. CASE r.todo = {}
  BY <1>1 DEF Continued, JobDocs
<1>2. CASE r.todo # {}
  <2>1. PICK root \in r.todo :
          q = [r EXCEPT !.stage = "relate", !.todo = @ \ {root},
                        !.walk = {root}, !.seen = {}, !.related = {root}]
    BY <1>2 DEF Continued
  <2>2. root \in Txs
    BY JobFields
  <2>3. QED
    BY <2>1, <2>2 DEF JobDocs
<1>3. QED
  BY <1>1, <1>2

LEMMA WalkedFields ==
  ASSUME TypeOK, NEW j \in Jobs, NEW t \in job[j].walk
  PROVE  /\ Walked(j, t) \in JobDocs
         /\ Walked(j, t).txs = job[j].txs
         /\ Walked(j, t).height = job[j].height
         /\ Walked(j, t).stage \in {"relate", "mark"}
         /\ Walked(j, t).stage # "mark" => Walked(j, t).marks = {}
         /\ Walked(j, t).marks \in {{}, {"txs", "coins"}}
<1>1. job[j] \in JobDocs
  BY DEF TypeOK
<1>2. t \in Txs
  BY <1>1, JobFields
<1> DEFINE spenders == {coins[c].by : c \in OutputsOf(t)} \ {None}
           seen == job[j].seen \cup IF OutputsOf(t) = {} THEN {} ELSE {t}
           walk == (job[j].walk \ {t}) \cup (spenders \ seen)
           done == walk = {}
<1>3. spenders \subseteq Txs
  <2>1. ASSUME NEW c \in OutputsOf(t)
        PROVE  coins[c].by \in Txs \cup {None}
    <3>1. c \in Coins /\ coins[c] # None
      BY <1>2, CoinAssumption DEF OutputsOf
    <3>2. coins[c] \in CoinDocs
      BY <3>1 DEF TypeOK
    <3>3. QED
      BY <3>2, CoinFields
  <2>2. QED
    BY <2>1
<1>4. seen \subseteq Txs
  BY <1>1, <1>2, JobFields
<1>5. walk \subseteq Txs
  BY <1>1, <1>3, JobFields
<1>5a. job[j].related \cup spenders \subseteq Txs
  BY <1>1, <1>3, JobFields
<1>6. Walked(j, t) =
        [job[j] EXCEPT !.stage = IF done THEN "mark" ELSE "relate",
                       !.walk = walk,
                       !.seen = IF done THEN {} ELSE seen,
                       !.related = @ \cup spenders,
                       !.marks = IF done THEN {"txs", "coins"} ELSE {}]
  BY DEF Walked
<1> HIDE DEF spenders, seen, walk
<1>7. CASE done
  <2> DEFINE q == [job[j] EXCEPT !.stage = "mark", !.walk = walk, !.seen = {},
                                 !.related = @ \cup spenders,
                                 !.marks = {"txs", "coins"}]
  <2>1. Walked(j, t) = q
    BY <1>6, <1>7
  <2>2. q \in JobDocs
    BY <1>1, <1>5, <1>5a DEF JobDocs
  <2>3. /\ q.stage = "mark" /\ q.marks = {"txs", "coins"}
        /\ q.txs = job[j].txs /\ q.height = job[j].height
    BY <1>1 DEF JobDocs
  <2>4. QED
    BY <2>1, <2>2, <2>3
<1>8. CASE ~done
  <2> DEFINE q == [job[j] EXCEPT !.stage = "relate", !.walk = walk,
                                 !.seen = seen,
                                 !.related = @ \cup spenders,
                                 !.marks = {}]
  <2>1. Walked(j, t) = q
    BY <1>6, <1>8
  <2>2. q \in JobDocs
    BY <1>1, <1>4, <1>5, <1>5a DEF JobDocs
  <2>3. /\ q.stage = "relate" /\ q.marks = {}
        /\ q.txs = job[j].txs /\ q.height = job[j].height
    BY <1>1 DEF JobDocs
  <2>4. QED
    BY <2>1, <2>2, <2>3
<1>9. QED
  BY <1>7, <1>8

LEMMA WithStage ==
  ASSUME NEW r \in JobDocs, NEW s \in Stages
  PROVE  LET q == [r EXCEPT !.stage = s] IN
         /\ q \in JobDocs
         /\ q.stage = s /\ q.txs = r.txs /\ q.height = r.height
         /\ q.marks = r.marks /\ q.related = r.related
BY DEF JobDocs, Stages

LEMMA MintedFields ==
  ASSUME TypeOK, NEW c \in Coins, NEW h \in Heights, NEW found
  PROVE  /\ Minted(c, h, found) \in CoinDocs
         /\ coins[c] = None =>
               /\ Minted(c, h, found).mint = h
               /\ Minted(c, h, found).spent = Unspent
               /\ Minted(c, h, found).by = None
         /\ coins[c] # None =>
               /\ Minted(c, h, found).mint = IF h = Pending THEN coins[c].mint ELSE h
               /\ Minted(c, h, found).spent = coins[c].spent
               /\ Minted(c, h, found).by = coins[c].by
<1>1. CASE coins[c] = None
  <2> DEFINE d == [mint |-> h, spent |-> Unspent, by |-> None,
                   tag |-> AddressOf[c] \in found]
  <2>1. Minted(c, h, found) = d
    BY <1>1 DEF Minted, NewCoin
  <2>2. d \in CoinDocs
    BY DEF CoinDocs
  <2>3. QED
    BY <1>1, <2>1, <2>2
<1>2. CASE coins[c] # None
  <2>1. coins[c] \in CoinDocs
    BY <1>2 DEF TypeOK
  <2>2. (AddressOf[c] \in found) \in BOOLEAN
    OBVIOUS
  <2>3. QED
    BY <1>2, <2>1, <2>2 DEF Minted, CoinDocs
<1>3. QED
  BY <1>1, <1>2

LEMMA MarkedCoinFields ==
  ASSUME TypeOK, NEW c \in Coins, NEW old \in BOOLEAN
  PROVE  /\ MarkedCoin(c, old) \in CoinDocs \cup {None}
         /\ MarkedCoin(c, old) # None =>
               /\ coins[c] # None
               /\ MarkedCoin(c, old).mint =
                     IF old THEN coins[c].mint ELSE Conflicting
               /\ MarkedCoin(c, old).spent = coins[c].spent
               /\ MarkedCoin(c, old).by = coins[c].by
         /\ coins[c] # None /\ MarkedCoin(c, old) = None =>
               old /\ coins[c].mint = Pending
         /\ old /\ coins[c] # None /\ coins[c].mint = Pending =>
               MarkedCoin(c, old) = None
<1>1. CASE coins[c] = None
  BY <1>1 DEF MarkedCoin
<1>2. CASE coins[c] # None
  <2>1. coins[c] \in CoinDocs
    BY <1>2 DEF TypeOK
  <2>2. [coins[c] EXCEPT !.mint = Conflicting] \in CoinDocs
    BY <2>1, Constants DEF CoinDocs
  <2>3. [coins[c] EXCEPT !.mint = Conflicting] # None
    BY <2>2, NoneAssumption
  <2>4. QED
    BY <1>2, <2>1, <2>2, <2>3 DEF MarkedCoin, CoinDocs
<1>3. QED
  BY <1>1, <1>2

LEMMA MarkedTxFields ==
  ASSUME TypeOK, NEW t \in Txs, NEW old \in BOOLEAN
  PROVE  /\ MarkedTx(t, old) \in TxDocs \cup {None}
         /\ MarkedTx(t, old) # None =>
               /\ txs[t] # None
               /\ MarkedTx(t, old).height =
                     IF old THEN txs[t].height ELSE Conflicting
         /\ txs[t] # None /\ MarkedTx(t, old) = None =>
               old /\ txs[t].height = Pending
         /\ old /\ txs[t] # None /\ txs[t].height = Pending =>
               MarkedTx(t, old) = None
<1>1. CASE txs[t] = None
  BY <1>1 DEF MarkedTx
<1>2. CASE txs[t] # None
  <2>1. txs[t] \in TxDocs
    BY <1>2 DEF TypeOK
  <2>2. [txs[t] EXCEPT !.height = Conflicting] \in TxDocs
    BY <2>1, Constants DEF TxDocs
  <2>3. [txs[t] EXCEPT !.height = Conflicting] # None
    BY <2>2, NoneAssumption
  <2>4. QED
    BY <1>2, <2>1, <2>2, <2>3 DEF MarkedTx, TxDocs
<1>3. QED
  BY <1>1, <1>2

LEMMA SpenderInFact ==
  ASSUME NEW T \in SUBSET Txs, NEW c \in Inputs(T)
  PROVE  SpenderIn(T, c) \in T /\ c \in Spends[SpenderIn(T, c)]
<1>1. \E t \in T : c \in Spends[t]
  BY DEF Inputs
<1>2. QED
  BY <1>1 DEF SpenderIn

LEMMA SpentByFields ==
  ASSUME TypeOK, NEW T \in SUBSET Txs, NEW h \in {Pending} \cup 1 .. MaxHeight,
         NEW c \in Coins
  PROVE  /\ SpentBy(T, h)[c] \in CoinDocs \cup {None}
         /\ c \notin Inputs(T) \/ ~Spendable(c) => SpentBy(T, h)[c] = coins[c]
         /\ c \in Inputs(T) /\ Spendable(c) =>
               /\ SpentBy(T, h)[c] # None
               /\ SpentBy(T, h)[c].spent = h
               /\ SpentBy(T, h)[c].by = SpenderIn(T, c)
               /\ SpentBy(T, h)[c].mint = coins[c].mint
<1>1. CASE c \in Inputs(T) /\ Spendable(c)
  <2>1. coins[c] \in CoinDocs
    BY <1>1 DEF TypeOK, Spendable
  <2>2. SpenderIn(T, c) \in Txs
    BY <1>1, SpenderInFact
  <2>3. SpentBy(T, h)[c] =
          [coins[c] EXCEPT !.spent = h, !.by = SpenderIn(T, c)]
    BY <1>1 DEF SpentBy
  <2>4. SpentBy(T, h)[c] \in CoinDocs
    BY <2>1, <2>2, <2>3 DEF CoinDocs
  <2>5. SpentBy(T, h)[c] # None
    BY <2>4, NoneAssumption
  <2>6. QED
    BY <1>1, <2>1, <2>3, <2>4, <2>5 DEF CoinDocs
<1>2. CASE ~(c \in Inputs(T) /\ Spendable(c))
  BY <1>2 DEF SpentBy, TypeOK
<1>3. QED
  BY <1>1, <1>2

-----------------------------------------------------------------------------
(***************************************************************************)
(* Type correctness                                                        *)
(***************************************************************************)

TypeInv == TypeOK /\ NextFits /\ JobsFit /\ MarksFit

NodeSame == UNCHANGED <<chain, importing, inv>>

LEMMA JobNames ==
  /\ "block" \in Jobs /\ "pruner" \in Jobs /\ Relays \subseteq Jobs
  /\ "block" \notin Relays /\ "pruner" \notin Relays
BY CoinAssumption DEF Jobs

\* An import, a rollback or a pruning goes on, or a job ends.
LEMMA JobGoesOn ==
  ASSUME TypeInv, NodeSame, NEW j \in Jobs, NEW r \in JobDocs,
         job' = [job EXCEPT ![j] = r],
         \/ r = Idle
         \/ /\ j # "pruner" /\ job[j].stage \in Importing
            /\ r.stage \in Importing
            /\ r.txs = job[j].txs /\ r.height = job[j].height
            /\ r.stage # "mark" => r.marks = {}
         \/ /\ j = "pruner" /\ r.stage \in {"relate", "mark"}
            /\ r.stage # "mark" => r.marks = {}
         \/ /\ j = "block" /\ job[j].stage = "undo" /\ r.stage = "undo"
            /\ r.height = job[j].height /\ r.related = {}
  PROVE  job' \in [Jobs -> JobDocs] /\ NextFits' /\ JobsFit' /\ MarksFit'
<1>1. /\ job' \in [Jobs -> JobDocs] /\ job'[j] = r
      /\ \A k \in Jobs \ {j} : job'[k] = job[k]
  BY JobStep DEF TypeInv, TypeOK
<1>2. chain' = chain /\ importing' = importing /\ inv' = inv
  BY DEF NodeSame
<1>3. Height' = Height /\ OnChain' = OnChain
  BY <1>2 DEF Height, OnChain
<1>4. NextFits'
  BY <1>2, <1>3 DEF TypeInv, NextFits, ValidBlock
<1>5. JobsFit'
  <2>1. \A q \in Relays : job'[q].height = Pending
    BY <1>1, JobNames, IdleFields DEF TypeInv, JobsFit
  <2>2. ASSUME job'["block"].stage \in Importing
        PROVE  /\ importing # {} /\ importing \subseteq inv
               /\ job'["block"].txs = importing
               /\ job'["block"].height = Height + 1
    <3>1. CASE j = "block"
      <4>1. r # Idle /\ r.stage # "undo"
        BY <1>1, <2>2, <3>1, IdleFields DEF Importing
      <4>2. job[j].stage \in Importing /\ r.txs = job[j].txs
            /\ r.height = job[j].height
        BY <3>1, <4>1
      <4>3. QED
        BY <1>1, <3>1, <4>2 DEF TypeInv, JobsFit
    <3>2. CASE j # "block"
      BY <1>1, <2>2, <3>2, JobNames DEF TypeInv, JobsFit
    <3>3. QED
      BY <3>1, <3>2
  <2>3. ASSUME job'["block"].stage = "undo"
        PROVE  importing = {} /\ job'["block"].height = Height + 1
    <3>1. CASE j = "block"
      <4>1. job[j].stage = "undo" /\ r.height = job[j].height
        BY <1>1, <2>3, <3>1, IdleFields DEF Importing
      <4>2. QED
        BY <1>1, <3>1, <4>1 DEF TypeInv, JobsFit
    <3>2. CASE j # "block"
      BY <1>1, <2>3, <3>2, JobNames DEF TypeInv, JobsFit
    <3>3. QED
      BY <3>1, <3>2
  <2>4. QED
    BY <1>2, <1>3, <2>1, <2>2, <2>3 DEF JobsFit
<1>6. MarksFit'
  <2>1. \A k \in Jobs : job'[k].stage \notin {"mark", "undo"} => job'[k].marks = {}
    BY <1>1, IdleFields DEF TypeInv, MarksFit, Importing
  <2>2. \A k \in Jobs : job'[k].stage = "idle" => job'[k] = Idle
    BY <1>1, IdleFields DEF TypeInv, MarksFit, Importing
  <2>3. job'["block"].stage = "undo" => job'["block"].related = {}
    BY <1>1, JobNames, IdleFields DEF TypeInv, MarksFit, Importing
  <2>4. \A q \in Relays : job'[q].stage # "undo" /\ job'[q].txs \subseteq inv
    BY <1>1, JobNames, IdleFields DEF TypeInv, MarksFit, Importing
  <2>5. job'["pruner"].stage \in {"idle", "relate", "mark"}
    BY <1>1, JobNames, IdleFields DEF TypeInv, MarksFit
  <2>6. ASSUME NEW q \in Relays, NEW p \in Relays, q # p
        PROVE  job'[q].txs \cap job'[p].txs = {}
    <3>1. job'[q].txs \subseteq job[q].txs /\ job'[p].txs \subseteq job[p].txs
      BY <1>1, JobNames, IdleFields
    <3>2. job[q].txs \cap job[p].txs = {}
      BY <2>6 DEF TypeInv, MarksFit
    <3>3. QED
      BY <3>1, <3>2
  <2>7. QED
    BY <1>2, <2>1, <2>2, <2>3, <2>4, <2>5, <2>6 DEF MarksFit
<1>7. QED
  BY <1>1, <1>4, <1>5, <1>6

StoreTyped ==
  /\ coins \in [Coins -> CoinDocs \cup {None}]
  /\ \A c \in Coins : coins[c] # None =>
        (coins[c].spent = Unspent <=> coins[c].by = None)
  /\ txs \in [Txs -> TxDocs \cup {None}]

LEMMA TypeFromParts ==
  ASSUME TypeInv, NodeSame, UNCHANGED <<addresses, reorgs, crashes>>,
         StoreTyped', disturbed' \subseteq Txs, deprived' \subseteq Txs,
         job' \in [Jobs -> JobDocs], NextFits', JobsFit', MarksFit'
  PROVE  TypeInv'
BY DEF TypeInv, TypeOK, NodeSame, StoreTyped

LEMMA ImportingTxs ==
  ASSUME TypeInv, NEW j \in Jobs
  PROVE  /\ job[j] \in JobDocs
         /\ job[j].txs \in SUBSET Txs /\ job[j].related \in SUBSET Txs
         /\ job[j].height \in Heights
         /\ job[j].stage = "undo" => j = "block"
         /\ job[j].stage \in Importing \ {"relate", "mark"} => j # "pruner"
         /\ j # "pruner" /\ job[j].stage \in Importing =>
               job[j].height \in {Pending} \cup 1 .. MaxHeight
<1>1. /\ job[j] \in JobDocs
      /\ job[j].txs \in SUBSET Txs /\ job[j].related \in SUBSET Txs
      /\ job[j].height \in Heights
  BY JobFields DEF TypeInv, TypeOK
<1>2. job[j].stage = "undo" => j = "block"
  BY JobNames DEF TypeInv, MarksFit, Jobs
<1>3. job[j].stage \in Importing \ {"relate", "mark"} => j # "pruner"
  BY DEF TypeInv, MarksFit, Importing
<1>4. ASSUME j # "pruner", job[j].stage \in Importing
      PROVE  job[j].height \in {Pending} \cup 1 .. MaxHeight
  <2>1. CASE j \in Relays
    BY <2>1 DEF TypeInv, JobsFit
  <2>2. CASE j = "block"
    <3>1. job[j].height = Height + 1 /\ importing # {}
      BY <1>4, <2>2 DEF TypeInv, JobsFit
    <3>2. Height < MaxHeight /\ Height \in Nat
      BY <3>1 DEF TypeInv, NextFits, TypeOK, Height
    <3>3. QED
      BY <3>1, <3>2, Constants
  <2>3. QED
    BY <1>4, <2>1, <2>2 DEF Jobs
<1>5. QED
  BY <1>1, <1>2, <1>3, <1>4

LEMMA InputsTyped ==
  ASSUME NEW T \in SUBSET Txs
  PROVE  /\ Inputs(T) \subseteq Coins /\ Outputs(T) \subseteq Coins
         /\ \A c \in Inputs(T) : \E t \in T : c \in Spends[t]
         /\ \A t \in T : Spends[t] \subseteq Inputs(T) /\ Mints[t] \subseteq Outputs(T)
BY CoinAssumption DEF Inputs, Outputs

LEMMA MintTypes ==
  ASSUME TypeInv, NEW j \in Jobs, Mint(j)
  PROVE  TypeInv'
<1>1. job[j] \in JobDocs /\ job[j].height \in Heights /\ j # "pruner"
      /\ job[j].stage = "mint"
  BY ImportingTxs DEF Mint, Importing
<1> DEFINE r == [job[j] EXCEPT !.stage = "find"]
<1>2. r \in JobDocs /\ r.stage = "find" /\ r.txs = job[j].txs
      /\ r.height = job[j].height /\ r.marks = job[j].marks
  BY <1>1, WithStage DEF Stages
<1>3. job' = [job EXCEPT ![j] = r]
  BY DEF Mint, Goto
<1>4. NodeSame /\ UNCHANGED <<addresses, reorgs, crashes, disturbed, deprived, txs>>
  BY DEF Mint, NodeSame, node, history
<1>5. job[j].marks = {}
  BY <1>1 DEF TypeInv, MarksFit
<1> HIDE DEF r
<1>6. job' \in [Jobs -> JobDocs] /\ NextFits' /\ JobsFit' /\ MarksFit'
  BY <1>1, <1>2, <1>3, <1>4, <1>5, JobGoesOn DEF Importing
<1>7. StoreTyped'
  <2>1. coins' = [c \in Coins |->
                    IF c \in Outputs(job[j].txs)
                    THEN Minted(c, job[j].height, job[j].found)
                    ELSE coins[c]]
    BY DEF Mint
  <2>2. ASSUME NEW c \in Coins
        PROVE  /\ coins'[c] \in CoinDocs \cup {None}
               /\ coins'[c] # None =>
                     (coins'[c].spent = Unspent <=> coins'[c].by = None)
    BY <1>1, <2>1, MintedFields DEF TypeInv, TypeOK
  <2>3. QED
    BY <1>4, <2>1, <2>2 DEF StoreTyped, TypeInv, TypeOK
<1>8. QED
  BY <1>4, <1>6, <1>7, TypeFromParts DEF TypeInv, TypeOK

LEMMA RivalsTyped ==
  ASSUME TypeInv, NEW j \in Jobs
  PROVE  Rivals(job[j].txs) \subseteq Txs
<1>1. ASSUME NEW c \in Inputs(job[j].txs), coins[c] # None,
             coins[c].spent = Pending
      PROVE  coins[c].by \in Txs
  <2>1. c \in Coins
    BY ImportingTxs, InputsTyped
  <2>2. coins[c] \in CoinDocs
    BY <1>1, <2>1 DEF TypeInv, TypeOK
  <2>3. coins[c].by # None
    BY <1>1, <2>1 DEF TypeInv, TypeOK, Pending, Unspent
  <2>4. QED
    BY <2>2, <2>3, CoinFields
<1>2. QED
  BY <1>1 DEF Rivals

LEMMA FindGoesOn ==
  ASSUME TypeInv, NEW j \in Jobs, FindRivals(j)
  PROVE  /\ job[j].stage = "find" /\ j # "pruner" /\ job[j].marks = {}
         /\ NodeSame /\ UNCHANGED <<store, reorgs, crashes, disturbed, deprived>>
         /\ \E r \in JobDocs :
               /\ job' = [job EXCEPT ![j] = r]
               /\ r.txs = job[j].txs /\ r.height = job[j].height
               /\ r.marks = {} /\ r.stage \in {"spend", "relate"}
<1>1. job[j] \in JobDocs /\ j # "pruner" /\ job[j].stage = "find"
      /\ job[j].txs \in SUBSET Txs
  BY ImportingTxs DEF FindRivals, Importing
<1>2. Rivals(job[j].txs) \subseteq Txs
  BY RivalsTyped
<1> DEFINE p == [job[j] EXCEPT !.todo = Rivals(job[j].txs)]
<1>3. p \in JobDocs
  BY <1>1, <1>2 DEF JobDocs
<1>4. p.txs = job[j].txs /\ p.height = job[j].height /\ p.stage = "find"
      /\ p.marks = job[j].marks
  BY <1>1 DEF JobDocs
<1>5. PICK r \in Continued(p) : job' = [job EXCEPT ![j] = r]
  BY DEF FindRivals
<1> HIDE DEF p
<1>6. r \in JobDocs /\ r.txs = job[j].txs /\ r.height = job[j].height
      /\ r.marks = job[j].marks /\ r.stage \in {"spend", "relate"}
  BY <1>3, <1>4, ContinuedFields
<1>7. NodeSame /\ UNCHANGED <<store, reorgs, crashes, disturbed, deprived>>
  BY DEF FindRivals, NodeSame, node, history
<1>8. job[j].marks = {}
  BY <1>1 DEF TypeInv, MarksFit
<1>9. QED
  BY <1>1, <1>5, <1>6, <1>7, <1>8

LEMMA FindTypes ==
  ASSUME TypeInv, NEW j \in Jobs, FindRivals(j)
  PROVE  TypeInv'
<1>1. /\ job[j].stage = "find" /\ j # "pruner"
      /\ NodeSame /\ UNCHANGED <<addresses, reorgs, crashes, disturbed, deprived, txs, coins>>
  BY FindGoesOn DEF store
<1>2. job' \in [Jobs -> JobDocs] /\ NextFits' /\ JobsFit' /\ MarksFit'
  <2>1. PICK r \in JobDocs :
          /\ job' = [job EXCEPT ![j] = r]
          /\ r.txs = job[j].txs /\ r.height = job[j].height
          /\ r.marks = {} /\ r.stage \in {"spend", "relate"}
    BY FindGoesOn
  <2>2. QED
    BY <1>1, <2>1, JobGoesOn DEF Importing
<1>3. QED
  BY <1>1, <1>2, TypeFromParts DEF TypeInv, TypeOK, StoreTyped

LEMMA RelateTypes ==
  ASSUME TypeInv, NEW j \in Jobs, NEW t \in Txs, Relate(j, t)
  PROVE  TypeInv'
<1>1. /\ job[j] \in JobDocs /\ job[j].stage = "relate" /\ t \in job[j].walk
      /\ NodeSame /\ UNCHANGED <<addresses, reorgs, crashes, disturbed, deprived, txs, coins>>
  BY ImportingTxs DEF Relate, NodeSame, node, store, history
<1>2. job' \in [Jobs -> JobDocs] /\ NextFits' /\ JobsFit' /\ MarksFit'
  <2>1. CASE j = "pruner" /\ \E c \in OutputsOf(t) : Confirmed(c)
    <3>1. job' = [job EXCEPT ![j] = Idle]
      BY <2>1 DEF Relate
    <3>2. QED
      BY <1>1, <3>1, IdleFields, JobGoesOn
  <2>2. CASE ~(j = "pruner" /\ \E c \in OutputsOf(t) : Confirmed(c))
    <3>1. job' = [job EXCEPT ![j] = Walked(j, t)]
      BY <2>2 DEF Relate
    <3>2. /\ Walked(j, t) \in JobDocs
          /\ Walked(j, t).txs = job[j].txs
          /\ Walked(j, t).height = job[j].height
          /\ Walked(j, t).stage \in {"relate", "mark"}
          /\ Walked(j, t).stage # "mark" => Walked(j, t).marks = {}
      BY <1>1, WalkedFields DEF TypeInv
    <3>3. QED
      BY <1>1, <3>1, <3>2, JobGoesOn DEF Importing
  <2>3. QED
    BY <2>1, <2>2
<1>3. QED
  BY <1>1, <1>2, TypeFromParts DEF TypeInv, TypeOK, StoreTyped

LEMMA OvertakenTxs ==
  ASSUME TypeInv, NEW j \in Jobs, NEW old
  PROVE  Overtaken(j, old) \subseteq Txs
BY ImportingTxs DEF Overtaken

\* What becomes of a job that has made an update.
LEMMA MarkGoesOn ==
  ASSUME TypeInv, NEW j \in Jobs, NEW m \in {"txs", "coins"}, Mark(j, m)
  PROVE  \E r \in JobDocs :
           /\ job' = [job EXCEPT ![j] = r]
           /\ IF job[j].marks \ {m} # {}
              THEN /\ r.stage = "mark" /\ r.marks = job[j].marks \ {m}
                   /\ r.txs = job[j].txs /\ r.height = job[j].height
                   /\ r.related = job[j].related
              ELSE IF j = "pruner" THEN r = Idle
              ELSE /\ r.stage \in {"spend", "relate"} /\ r.marks = {}
                   /\ r.txs = job[j].txs /\ r.height = job[j].height
<1> DEFINE left == job[j].marks \ {m}
<1>1. job[j] \in JobDocs /\ job[j].stage = "mark" /\ job[j].marks \subseteq {"txs", "coins"}
  BY ImportingTxs, JobFields DEF Mark
<1>2. PICK r \in IF left # {} THEN {[job[j] EXCEPT !.marks = left]}
                 ELSE IF j = "pruner" THEN {Idle}
                 ELSE Continued([job[j] EXCEPT !.marks = {}]) :
        job' = [job EXCEPT ![j] = r]
  BY DEF Mark
<1>3. CASE left # {}
  <2>1. r = [job[j] EXCEPT !.marks = left]
    BY <1>2, <1>3
  <2>2. r \in JobDocs /\ r.stage = "mark" /\ r.marks = left
        /\ r.txs = job[j].txs /\ r.height = job[j].height
        /\ r.related = job[j].related
    BY <1>1, <2>1 DEF JobDocs
  <2>3. QED
    BY <1>2, <1>3, <2>2
<1>4. CASE left = {} /\ j = "pruner"
  <2>1. r = Idle
    BY <1>2, <1>4
  <2>2. QED
    BY <1>2, <1>4, <2>1, IdleFields
<1>5. CASE left = {} /\ j # "pruner"
  <2> DEFINE p == [job[j] EXCEPT !.marks = {}]
  <2>1. p \in JobDocs /\ p.stage = "mark" /\ p.marks = {}
        /\ p.txs = job[j].txs /\ p.height = job[j].height
    BY <1>1 DEF JobDocs
  <2>2. r \in Continued(p)
    BY <1>2, <1>5
  <2> HIDE DEF p
  <2>3. r \in JobDocs /\ r.stage \in {"spend", "relate"} /\ r.marks = {}
        /\ r.txs = job[j].txs /\ r.height = job[j].height
    BY <2>1, <2>2, ContinuedFields
  <2>4. QED
    BY <1>2, <1>5, <2>3
<1>6. QED
  BY <1>3, <1>4, <1>5

LEMMA MarkTypes ==
  ASSUME TypeInv, NEW j \in Jobs, NEW m \in {"txs", "coins"}, Mark(j, m)
  PROVE  TypeInv'
<1>1. /\ job[j] \in JobDocs /\ job[j].stage = "mark"
      /\ NodeSame /\ UNCHANGED <<addresses, reorgs, crashes>>
  BY ImportingTxs DEF Mark, NodeSame, node
<1>2. job' \in [Jobs -> JobDocs] /\ NextFits' /\ JobsFit' /\ MarksFit'
  <2>1. PICK r \in JobDocs :
           /\ job' = [job EXCEPT ![j] = r]
           /\ IF job[j].marks \ {m} # {}
              THEN /\ r.stage = "mark" /\ r.marks = job[j].marks \ {m}
                   /\ r.txs = job[j].txs /\ r.height = job[j].height
                   /\ r.related = job[j].related
              ELSE IF j = "pruner" THEN r = Idle
              ELSE /\ r.stage \in {"spend", "relate"} /\ r.marks = {}
                   /\ r.txs = job[j].txs /\ r.height = job[j].height
    BY MarkGoesOn
  <2>2. QED
    BY <1>1, <2>1, JobGoesOn DEF Importing
<1> DEFINE old == j = "pruner" /\ job[j].height = Pending
           hit == job[j].related
<1>3. StoreTyped'
  <2>1. CASE m = "txs"
    <3>1. coins' = coins
          /\ txs' = [t \in Txs |-> IF t \in hit THEN MarkedTx(t, old) ELSE txs[t]]
      BY <2>1 DEF Mark
    <3> HIDE DEF hit
    <3>2. \A t \in Txs : MarkedTx(t, old) \in TxDocs \cup {None}
      BY MarkedTxFields DEF TypeInv
    <3> HIDE DEF old
    <3>3. txs \in [Txs -> TxDocs \cup {None}]
      BY DEF TypeInv, TypeOK
    <3>4. txs' \in [Txs -> TxDocs \cup {None}]
      BY <3>1, <3>2, <3>3
    <3>5. QED
      BY <3>1, <3>4 DEF StoreTyped, TypeInv, TypeOK
  <2>2. CASE m = "coins"
    <3>1. txs' = txs
          /\ coins' = [c \in Coins |-> IF c \in Outputs(hit) THEN MarkedCoin(c, old) ELSE coins[c]]
      BY <2>2 DEF Mark
    <3> HIDE DEF hit
    <3>2. ASSUME NEW c \in Coins
          PROVE  /\ coins'[c] \in CoinDocs \cup {None}
                 /\ coins'[c] # None =>
                       (coins'[c].spent = Unspent <=> coins'[c].by = None)
      BY <3>1, MarkedCoinFields DEF TypeInv, TypeOK
    <3> HIDE DEF old
    <3>3. coins' = [c \in Coins |-> coins'[c]]
      BY <3>1
    <3>4. coins' \in [Coins -> CoinDocs \cup {None}]
      BY <3>2, <3>3
    <3>5. QED
      BY <3>1, <3>2, <3>4 DEF StoreTyped, TypeInv, TypeOK
  <2>3. QED
    BY <2>1, <2>2
<1>4. disturbed' \subseteq Txs /\ deprived' \subseteq Txs
  BY OvertakenTxs DEF Mark, TypeInv, TypeOK
<1>5. QED
  BY <1>1, <1>2, <1>3, <1>4, TypeFromParts

LEMMA LosersTxs ==
  ASSUME TypeInv, NEW j \in Jobs
  PROVE  Losers(j) \subseteq Txs
BY ImportingTxs DEF Losers

LEMMA SpendGoesOn ==
  ASSUME TypeInv, NEW j \in Jobs, Spend(j)
  PROVE  /\ coins' = SpentBy(job[j].txs, job[j].height)
         /\ \A c \in Coins :
               /\ coins'[c] \in CoinDocs \cup {None}
               /\ coins'[c] # None =>
                     (coins'[c].spent = Unspent <=> coins'[c].by = None)
         /\ \E r \in JobDocs :
               /\ job' = [job EXCEPT ![j] = r]
               /\ r.stage = "write" /\ r.marks = job[j].marks
               /\ r.txs = job[j].txs /\ r.height = job[j].height
<1> DEFINE T == job[j].txs
           h == job[j].height
           mine(c) == /\ coins'[c] # None
                      /\ IF h > 0 THEN coins'[c].spent = h
                                  ELSE coins'[c].by \in T
           tagged == {coins'[c].by : c \in {d \in Coins : mine(d) /\ coins'[d].tag}}
<1>1. /\ job[j].stage = "spend"
      /\ coins' = SpentBy(T, h)
      /\ job' = [job EXCEPT ![j].stage = "write", ![j].tagged = tagged]
  BY DEF Spend
<1>2. job[j] \in JobDocs /\ T \in SUBSET Txs /\ h \in {Pending} \cup 1 .. MaxHeight
  BY <1>1, ImportingTxs DEF Importing
<1> HIDE DEF T, h
<1>3. ASSUME NEW c \in Coins
      PROVE  /\ coins'[c] \in CoinDocs \cup {None}
             /\ coins'[c] # None =>
                   (coins'[c].spent = Unspent <=> coins'[c].by = None)
  <2>1. CASE c \in Inputs(T) /\ Spendable(c)
    <3>1. /\ coins'[c] \in CoinDocs \cup {None} /\ coins'[c] # None
          /\ coins'[c].spent = h /\ coins'[c].by = SpenderIn(T, c)
      BY <1>1, <1>2, <2>1, SpentByFields DEF TypeInv
    <3>2. coins'[c].by \in Txs
      BY <1>2, <2>1, <3>1, SpenderInFact
    <3>3. coins'[c].by # None
      BY <3>2, NoneAssumption
    <3>4. h # Unspent
      BY <1>2, Constants DEF Pending, Unspent
    <3>5. QED
      BY <3>1, <3>3, <3>4
  <2>2. CASE ~(c \in Inputs(T) /\ Spendable(c))
    <3>1. coins'[c] = coins[c]
      BY <1>1, <1>2, <2>2, SpentByFields DEF TypeInv
    <3>2. QED
      BY <3>1 DEF TypeInv, TypeOK
  <2>3. QED
    BY <2>1, <2>2
<1>4. tagged \in SUBSET Txs
  <2>1. ASSUME NEW c \in Coins, mine(c)
        PROVE  coins'[c].by \in Txs
    <3>1. CASE h > 0
      <4>1. coins'[c] \in CoinDocs /\ coins'[c].spent = h
        BY <1>3, <2>1, <3>1
      <4>2. coins'[c].by # None
        BY <1>3, <3>1, <4>1, NoneAssumption DEF Unspent
      <4>3. QED
        BY <4>1, <4>2, CoinFields
    <3>2. CASE ~(h > 0)
      BY <1>2, <2>1, <3>2
    <3>3. QED
      BY <3>1, <3>2
  <2> HIDE DEF mine
  <2>2. QED
    BY <2>1
<1> HIDE DEF tagged
<1> DEFINE r == [job[j] EXCEPT !.stage = "write", !.tagged = tagged]
<1>5. r \in JobDocs
  BY <1>2, <1>4 DEF JobDocs
<1>6. r.stage = "write" /\ r.marks = job[j].marks
      /\ r.txs = job[j].txs /\ r.height = job[j].height
  BY <1>2 DEF JobDocs
<1>7. job' = [job EXCEPT ![j] = r]
  <2>1. job \in [Jobs -> JobDocs]
    BY DEF TypeInv, TypeOK
  <2>2. QED
    BY <1>1, <2>1
<1> HIDE DEF r
<1>8. QED
  BY <1>1, <1>3, <1>5, <1>6, <1>7 DEF T, h

LEMMA SpendTypes ==
  ASSUME TypeInv, NEW j \in Jobs, Spend(j)
  PROVE  TypeInv'
<1>1. /\ job[j].stage = "spend" /\ j # "pruner" /\ job[j].marks = {}
      /\ NodeSame /\ UNCHANGED <<addresses, reorgs, crashes, txs, disturbed>>
  BY ImportingTxs DEF Spend, NodeSame, node, Importing, TypeInv, MarksFit
<1>2. job' \in [Jobs -> JobDocs] /\ NextFits' /\ JobsFit' /\ MarksFit'
  <2>1. PICK r \in JobDocs :
           /\ job' = [job EXCEPT ![j] = r]
           /\ r.stage = "write" /\ r.marks = job[j].marks
           /\ r.txs = job[j].txs /\ r.height = job[j].height
    BY SpendGoesOn
  <2>2. QED
    BY <1>1, <2>1, JobGoesOn DEF Importing
<1>3. StoreTyped'
  <2>1. coins' = [c \in Coins |-> coins'[c]]
    BY SpendGoesOn DEF SpentBy
  <2>2. \A c \in Coins :
           /\ coins'[c] \in CoinDocs \cup {None}
           /\ coins'[c] # None =>
                 (coins'[c].spent = Unspent <=> coins'[c].by = None)
    BY SpendGoesOn
  <2>3. coins' \in [Coins -> CoinDocs \cup {None}]
    BY <2>1, <2>2
  <2>4. QED
    BY <1>1, <2>2, <2>3 DEF StoreTyped, TypeInv, TypeOK
<1>4. disturbed' \subseteq Txs /\ deprived' \subseteq Txs
  BY LosersTxs DEF Spend, TypeInv, TypeOK
<1>5. QED
  BY <1>1, <1>2, <1>3, <1>4, TypeFromParts

LEMMA WrittenFields ==
  ASSUME TypeInv, NEW j \in Jobs, NEW t \in Txs
  PROVE  /\ Written(j, t) \in TxDocs \cup {None}
         /\ txs[t] # None /\ job[j].height = Pending => Written(j, t) = txs[t]
         /\ ~(txs[t] # None /\ job[j].height = Pending) =>
               Written(j, t) # None /\ Written(j, t).height = job[j].height
<1>1. CASE txs[t] # None /\ job[j].height = Pending
  BY <1>1 DEF Written, TypeInv, TypeOK
<1>2. CASE ~(txs[t] # None /\ job[j].height = Pending)
  <2> DEFINE tag == \/ t \in job[j].tagged
                    \/ \E c \in Mints[t] : AddressOf[c] \in job[j].found
  <2>1. Written(j, t) = [height |-> job[j].height, tag |-> tag]
    BY <1>2 DEF Written
  <2>2. tag \in BOOLEAN
    OBVIOUS
  <2> HIDE DEF tag
  <2>3. job[j].height \in Heights
    BY ImportingTxs
  <2>4. Written(j, t) \in TxDocs /\ Written(j, t).height = job[j].height
    BY <2>1, <2>2, <2>3 DEF TxDocs
  <2>5. Written(j, t) # None
    BY <2>4, NoneAssumption
  <2>6. QED
    BY <1>2, <2>4, <2>5
<1>3. QED
  BY <1>1, <1>2

LEMMA WriteTypes ==
  ASSUME TypeInv, NEW j \in Jobs, WriteTxs(j)
  PROVE  TypeInv'
<1>1. job[j] \in JobDocs /\ job[j].stage = "write" /\ j # "pruner"
      /\ job[j].txs \in SUBSET Txs
  BY ImportingTxs DEF WriteTxs, Importing
<1>2. /\ job' = [job EXCEPT ![j] = Idle]
      /\ UNCHANGED <<coins, addresses, inv, reorgs, crashes, disturbed, deprived>>
      /\ txs' = [t \in Txs |-> IF t \in job[j].txs THEN Written(j, t) ELSE txs[t]]
  BY DEF WriteTxs, history
<1>3. txs' \in [Txs -> TxDocs \cup {None}]
  <2>1. \A t \in Txs : Written(j, t) \in TxDocs \cup {None}
    BY WrittenFields
  <2>2. txs \in [Txs -> TxDocs \cup {None}]
    BY DEF TypeInv, TypeOK
  <2>3. QED
    BY <1>2, <2>1, <2>2
<1>4. StoreTyped'
  BY <1>2, <1>3 DEF StoreTyped, TypeInv, TypeOK
<1>5. CASE j # "block"
  <2>1. NodeSame
    BY <1>2, <1>5 DEF WriteTxs, NodeSame
  <2>2. job' \in [Jobs -> JobDocs] /\ NextFits' /\ JobsFit' /\ MarksFit'
    BY <1>2, <2>1, IdleFields, JobGoesOn
  <2>3. QED
    BY <1>2, <1>4, <2>1, <2>2, TypeFromParts DEF TypeInv, TypeOK
<1>6. CASE j = "block"
  <2>1. /\ job' \in [Jobs -> JobDocs] /\ job'["block"] = Idle
        /\ \A k \in Jobs \ {"block"} : job'[k] = job[k]
    BY <1>2, <1>6, IdleFields, JobStep DEF TypeInv, TypeOK
  <2>2. chain' = Append(chain, job[j].txs) /\ importing' = {}
    BY <1>6 DEF WriteTxs
  <2>3. job["block"].height = Height + 1 /\ Height < MaxHeight /\ Height \in Nat
    <3>1. job["block"].stage \in Importing
      BY <1>1, <1>6 DEF Importing
    <3>2. QED
      BY <3>1 DEF TypeInv, JobsFit, NextFits, TypeOK, Height
  <2>4. chain' \in Seq(SUBSET Txs) /\ Len(chain') <= MaxHeight
    BY <1>1, <2>2, <2>3, Constants DEF TypeInv, TypeOK, Height
  <2>5. NextFits'
    BY <2>2 DEF NextFits
  <2>6. JobsFit'
    BY <2>1, JobNames, IdleFields DEF TypeInv, JobsFit, Importing
  <2>7. MarksFit'
    <3>1. \A k \in Jobs : job'[k] = job[k] \/ job'[k] = Idle
      BY <2>1
    <3>2. \A k \in Relays \cup {"pruner"} : job'[k] = job[k]
      BY <2>1, JobNames
    <3>3. QED
      BY <1>2, <2>1, <3>1, <3>2, IdleFields DEF TypeInv, MarksFit
  <2>8. QED
    BY <1>2, <1>4, <2>1, <2>2, <2>4, <2>5, <2>6, <2>7
       DEF TypeInv, TypeOK, StoreTyped
<1>7. QED
  BY <1>5, <1>6

LEMMA BeginFields ==
  ASSUME TypeInv, NEW j \in Jobs, NEW T \in SUBSET Txs, NEW h \in Heights,
         Begin(j, T, h)
  PROVE  /\ job' \in [Jobs -> JobDocs]
         /\ job'[j].stage = "mint" /\ job'[j].txs = T /\ job'[j].height = h
         /\ job'[j].marks = {} /\ job'[j].related = {}
         /\ \A k \in Jobs \ {j} : job'[k] = job[k]
<1> DEFINE found == {AddressOf[c] : c \in
                        {d \in Outputs(T) : addresses[AddressOf[d]] # "none"}}
           r == [Idle EXCEPT !.stage = "mint", !.txs = T, !.height = h,
                             !.found = found]
<1>1. found \subseteq Addresses
  BY InputsTyped, CoinAssumption
<1>2. job' = [job EXCEPT ![j] = r]
  BY DEF Begin
<1> HIDE DEF found
<1>3. r \in JobDocs
  BY <1>1, IdleFields DEF JobDocs
<1>4. r.stage = "mint" /\ r.txs = T /\ r.height = h /\ r.marks = {}
      /\ r.related = {}
  BY DEF Idle
<1> HIDE DEF r
<1>5. QED
  BY <1>2, <1>3, <1>4, JobStep DEF TypeInv, TypeOK

LEMMA BlockArrivesTypes ==
  ASSUME TypeInv, NEW T \in SUBSET Txs, BlockArrives(T)
  PROVE  TypeInv'
<1>1. /\ job["block"] = Idle /\ Height < MaxHeight
      /\ importing' = T /\ inv' = inv \cup T
      /\ disturbed' = disturbed \ T /\ deprived' = deprived \ T
      /\ UNCHANGED <<store, chain, reorgs, crashes>>
      /\ Begin("block", T, Height + 1)
  BY DEF BlockArrives, NewHeight
<1>2. T # {} /\ ValidBlock(T)
  BY DEF BlockArrives, TypeInv, NextFits, ValidBlock
<1>3. Height \in Nat /\ Height + 1 \in Heights
  BY <1>1, Constants DEF TypeInv, TypeOK, Height, Heights
<1>4. /\ job' \in [Jobs -> JobDocs]
      /\ job'["block"].stage = "mint" /\ job'["block"].txs = T
      /\ job'["block"].height = Height + 1
      /\ job'["block"].marks = {}
      /\ \A k \in Jobs \ {"block"} : job'[k] = job[k]
  BY <1>1, <1>3, JobNames, BeginFields
<1>5. Height' = Height /\ OnChain' = OnChain
  BY <1>1 DEF Height, OnChain
<1>6. NextFits'
  BY <1>1, <1>2, <1>5 DEF NextFits, ValidBlock
<1>7. JobsFit'
  <2>1. \A q \in Relays : job'[q].height = Pending
    BY <1>4, JobNames DEF TypeInv, JobsFit
  <2>2. QED
    BY <1>1, <1>2, <1>4, <1>5, <2>1 DEF JobsFit
<1>8. MarksFit'
  <2>1. \A k \in Relays \cup {"pruner"} : job'[k] = job[k]
    BY <1>4, JobNames
  <2>2. \A k \in Jobs : job'[k].stage \notin {"mark", "undo"} => job'[k].marks = {}
    BY <1>4 DEF TypeInv, MarksFit
  <2>3. \A k \in Jobs : job'[k].stage = "idle" => job'[k] = Idle
    BY <1>4 DEF TypeInv, MarksFit
  <2>4. \A q \in Relays : job'[q].stage # "undo" /\ job'[q].txs \subseteq inv'
    BY <1>1, <2>1 DEF TypeInv, MarksFit
  <2>5. QED
    BY <1>4, <2>1, <2>2, <2>3, <2>4 DEF TypeInv, MarksFit
<1>9. QED
  BY <1>1, <1>4, <1>6, <1>7, <1>8 DEF TypeInv, TypeOK, store

LEMMA TxArrivesTypes ==
  ASSUME TypeInv, NEW r \in Relays, NEW t \in Txs, TxArrives(r, t)
  PROVE  TypeInv'
<1>1. /\ job[r] = Idle /\ t \notin inv
      /\ inv' = inv \cup {t}
      /\ disturbed' \subseteq disturbed \cup {t} /\ deprived' \subseteq deprived
      /\ UNCHANGED <<store, chain, importing, reorgs, crashes>>
      /\ Begin(r, {t}, Pending)
  BY DEF TxArrives
<1>2. r \in Jobs /\ r # "block" /\ r # "pruner"
  BY JobNames
<1>3. /\ job' \in [Jobs -> JobDocs]
      /\ job'[r].stage = "mint" /\ job'[r].txs = {t}
      /\ job'[r].height = Pending /\ job'[r].marks = {}
      /\ \A k \in Jobs \ {r} : job'[k] = job[k]
  BY <1>1, <1>2, Constants, BeginFields
<1>4. Height' = Height /\ OnChain' = OnChain
  BY <1>1 DEF Height, OnChain
<1>5. NextFits'
  BY <1>1, <1>4 DEF TypeInv, NextFits, ValidBlock
<1>6. job'["block"] = job["block"] /\ job'["pruner"] = job["pruner"]
  BY <1>2, <1>3, JobNames
<1>7. JobsFit'
  <2>1. \A q \in Relays : job'[q].height = Pending
    BY <1>3, JobNames DEF TypeInv, JobsFit
  <2>2. QED
    BY <1>1, <1>4, <1>6, <2>1 DEF TypeInv, JobsFit
<1>8. MarksFit'
  <2>1. \A k \in Jobs : job'[k].stage \notin {"mark", "undo"} => job'[k].marks = {}
    BY <1>3 DEF TypeInv, MarksFit
  <2>2. \A k \in Jobs : job'[k].stage = "idle" => job'[k] = Idle
    BY <1>3 DEF TypeInv, MarksFit
  <2>3. \A q \in Relays : job'[q].stage # "undo" /\ job'[q].txs \subseteq inv'
    BY <1>1, <1>3, JobNames DEF TypeInv, MarksFit
  <2>4. ASSUME NEW q \in Relays, NEW p \in Relays, q # p
        PROVE  job'[q].txs \cap job'[p].txs = {}
    <3>1. \A k \in Relays \ {r} : job'[k].txs = job[k].txs /\ t \notin job[k].txs
      BY <1>1, <1>3, JobNames DEF TypeInv, MarksFit
    <3>2. job[q].txs \cap job[p].txs = {}
      BY <2>4 DEF TypeInv, MarksFit
    <3>3. CASE q = r
      BY <1>3, <2>4, <3>1, <3>3
    <3>4. CASE p = r
      BY <1>3, <2>4, <3>1, <3>4
    <3>5. CASE q # r /\ p # r
      BY <3>1, <3>2, <3>5
    <3>6. QED
      BY <3>3, <3>4, <3>5
  <2>5. QED
    BY <1>6, <2>1, <2>2, <2>3, <2>4 DEF TypeInv, MarksFit
<1>9. QED
  BY <1>1, <1>3, <1>5, <1>7, <1>8 DEF TypeInv, TypeOK, store

LEMMA ReorgTypes ==
  ASSUME TypeInv, NEW h \in 2 .. Height, Reorg(h)
  PROVE  /\ TypeInv'
         /\ Height' = h - 1
         /\ \A i \in 1 .. h - 1 : chain'[i] = chain[i]
         /\ job'["block"].stage = "undo" /\ job'["block"].marks = {"txs", "coins"}
         /\ job'["block"].related = {}
         /\ \A k \in Jobs \ {"block"} : job'[k] = job[k]
<1> DEFINE r == [Idle EXCEPT !.stage = "undo", !.height = h,
                             !.marks = {"txs", "coins"}]
<1>1. /\ job["block"] = Idle /\ importing = {}
      /\ reorgs < MaxReorgs /\ reorgs' = reorgs + 1
      /\ chain' = SubSeq(chain, 1, h - 1)
      /\ UNCHANGED <<store, importing, inv, crashes>>
      /\ job' = [job EXCEPT !["block"] = r]
  BY DEF Reorg
<1>2. h \in Nat /\ h >= 2 /\ h <= Height /\ Height <= MaxHeight /\ Height \in Nat
      /\ chain \in Seq(SUBSET Txs)
  BY Constants DEF TypeInv, TypeOK, Height
<1>3. h \in Heights
  BY <1>2, Constants DEF Heights
<1>4. r \in JobDocs
  BY <1>3, IdleFields DEF JobDocs
<1>5. r.stage = "undo" /\ r.height = h /\ r.marks = {"txs", "coins"}
      /\ r.related = {} /\ r.txs = {}
  BY DEF Idle
<1> HIDE DEF r
<1>6. /\ job' \in [Jobs -> JobDocs] /\ job'["block"] = r
      /\ \A k \in Jobs \ {"block"} : job'[k] = job[k]
  BY <1>1, <1>4, JobNames, JobStep DEF TypeInv, TypeOK
<1>7. chain' \in Seq(SUBSET Txs) /\ Len(chain') = h - 1
      /\ \A i \in 1 .. h - 1 : chain'[i] = chain[i]
  BY <1>1, <1>2 DEF Height
<1>8. Height' = h - 1
  BY <1>7 DEF Height
<1>9. disturbed' \subseteq Txs /\ deprived' \subseteq Txs
  <2>1. Unsettled \subseteq Txs
    BY ImportingTxs, JobNames DEF Unsettled, TypeInv, TypeOK
  <2>2. disturbed' \subseteq disturbed \cup Unsettled /\ deprived' = deprived
    BY DEF Reorg
  <2>3. QED
    BY <2>1, <2>2 DEF TypeInv, TypeOK
<1>10. NextFits'
  BY <1>1 DEF NextFits
<1>11. JobsFit'
  <2>1. \A q \in Relays : job'[q].height = Pending
    BY <1>6, JobNames DEF TypeInv, JobsFit
  <2>2. h = Height' + 1
    BY <1>2, <1>8
  <2>3. QED
    BY <1>1, <1>5, <1>6, <2>1, <2>2 DEF JobsFit, Importing
<1>12. MarksFit'
  <2>1. \A k \in Relays \cup {"pruner"} : job'[k] = job[k]
    BY <1>6, JobNames
  <2>2. \A k \in Jobs : job'[k].stage \notin {"mark", "undo"} => job'[k].marks = {}
    BY <1>5, <1>6 DEF TypeInv, MarksFit
  <2>3. \A k \in Jobs : job'[k].stage = "idle" => job'[k] = Idle
    BY <1>5, <1>6 DEF TypeInv, MarksFit
  <2>4. QED
    BY <1>1, <1>5, <1>6, <2>1, <2>2, <2>3 DEF TypeInv, MarksFit
<1>13. TypeOK'
  <2>1. reorgs' \in 0 .. MaxReorgs
    BY <1>1, Constants DEF TypeInv, TypeOK
  <2>2. Len(chain') <= MaxHeight
    BY <1>2, <1>7, Constants
  <2>3. QED
    BY <1>1, <1>6, <1>7, <1>9, <2>1, <2>2 DEF TypeInv, TypeOK, store
<1>14. QED
  BY <1>5, <1>6, <1>7, <1>8, <1>10, <1>11, <1>12, <1>13 DEF TypeInv

LEMMA UndoMinedGoesOn ==
  ASSUME TypeInv, NEW m \in {"txs", "coins"}, UndoMined(m)
  PROVE  /\ job["block"].stage = "undo"
         /\ job["block"].height = Height + 1 /\ importing = {}
         /\ \E r \in JobDocs :
               /\ job' = [job EXCEPT !["block"] = r]
               /\ r.stage = "undo" /\ r.height = job["block"].height
               /\ r.related = {} /\ r.txs = job["block"].txs
               /\ r.marks = job["block"].marks \ {m}
<1> DEFINE r == [job["block"] EXCEPT !.marks = @ \ {m}]
<1>1. job["block"] \in JobDocs /\ job["block"].stage = "undo"
      /\ job["block"].height = Height + 1 /\ importing = {}
      /\ job["block"].related = {}
  BY JobNames, ImportingTxs DEF UndoMined, TypeInv, JobsFit, MarksFit
<1>2. job' = [job EXCEPT !["block"] = r]
  BY JobNames DEF UndoMined, TypeInv, TypeOK
<1>3. job["block"].marks \ {m} \subseteq {"txs", "coins"}
  BY <1>1, JobFields
<1>4. r \in JobDocs
  BY <1>1, <1>3 DEF JobDocs
<1>5. r.stage = "undo" /\ r.height = job["block"].height /\ r.related = {}
      /\ r.txs = job["block"].txs /\ r.marks = job["block"].marks \ {m}
  BY <1>1 DEF JobDocs
<1> HIDE DEF r
<1>6. QED
  BY <1>1, <1>2, <1>4, <1>5

LEMMA UndoMinedTypes ==
  ASSUME TypeInv, NEW m \in {"txs", "coins"}, UndoMined(m)
  PROVE  TypeInv'
<1> DEFINE h == job["block"].height
           gone == {c \in Coins : coins[c] # None /\ coins[c].mint >= h}
<1>1. NodeSame /\ UNCHANGED <<addresses, reorgs, crashes>>
  BY DEF UndoMined, NodeSame, node
<1>2. job' \in [Jobs -> JobDocs] /\ NextFits' /\ JobsFit' /\ MarksFit'
  <2>1. job["block"].stage = "undo"
    BY UndoMinedGoesOn
  <2>2. PICK r \in JobDocs :
               /\ job' = [job EXCEPT !["block"] = r]
               /\ r.stage = "undo" /\ r.height = job["block"].height
               /\ r.related = {}
    BY UndoMinedGoesOn
  <2>3. QED
    BY <1>1, <2>1, <2>2, JobNames, JobGoesOn
<1>3. CASE m = "txs"
  <2>1. UNCHANGED <<coins, disturbed, deprived>>
        /\ txs' = [t \in Txs |-> IF txs[t] # None /\ txs[t].height >= h
                                 THEN None ELSE txs[t]]
    BY <1>3 DEF UndoMined
  <2>2. txs \in [Txs -> TxDocs \cup {None}]
    BY DEF TypeInv, TypeOK
  <2> HIDE DEF h
  <2>3. txs' \in [Txs -> TxDocs \cup {None}]
    BY <2>1, <2>2
  <2>4. StoreTyped'
    BY <2>1, <2>3 DEF StoreTyped, TypeInv, TypeOK
  <2>5. QED
    BY <1>1, <1>2, <2>1, <2>4, TypeFromParts DEF TypeInv, TypeOK
<1>4. CASE m = "coins"
  <2>1. txs' = txs
        /\ coins' = [c \in Coins |-> IF c \in gone THEN None ELSE coins[c]]
        /\ disturbed' = disturbed
        /\ deprived' = deprived \cup ({coins[c].by : c \in gone} \ {None})
    BY <1>4 DEF UndoMined
  <2>2. ASSUME NEW c \in gone
        PROVE  coins[c].by \in Txs \cup {None}
    <3>1. coins[c] \in CoinDocs
      BY DEF TypeInv, TypeOK
    <3>2. QED
      BY <3>1, CoinFields
  <2>3. disturbed' \subseteq Txs /\ deprived' \subseteq Txs
    BY <2>1, <2>2 DEF TypeInv, TypeOK
  <2>4. coins \in [Coins -> CoinDocs \cup {None}]
    BY DEF TypeInv, TypeOK
  <2> HIDE DEF gone
  <2>5. coins' \in [Coins -> CoinDocs \cup {None}]
    BY <2>1, <2>4
  <2>6. \A c \in Coins : coins'[c] # None => coins'[c] = coins[c]
    BY <2>1
  <2>7. StoreTyped'
    BY <2>1, <2>5, <2>6 DEF StoreTyped, TypeInv, TypeOK
  <2>8. QED
    BY <1>1, <1>2, <2>3, <2>7, TypeFromParts
<1>5. QED
  BY <1>3, <1>4

LEMMA UndoSpendsGoesOn ==
  ASSUME TypeInv, UndoSpends, NEW c \in Coins
  PROVE  /\ coins[c] # None /\ coins[c].spent > Height =>
               /\ coins'[c] \in CoinDocs
               /\ coins'[c].spent = Unspent /\ coins'[c].by = None
               /\ coins'[c].mint = coins[c].mint
         /\ ~(coins[c] # None /\ coins[c].spent > Height) => coins'[c] = coins[c]
<1>1. /\ job["block"].height = Height + 1
      /\ coins' = [d \in Coins |->
                    IF coins[d] # None /\ coins[d].spent >= job["block"].height
                    THEN [coins[d] EXCEPT !.spent = Unspent, !.by = None]
                    ELSE coins[d]]
  BY DEF UndoSpends, TypeInv, JobsFit
<1>2. Height \in Nat
  BY DEF TypeInv, TypeOK, Height
<1>3. CASE coins[c] # None
  <2>1. coins[c] \in CoinDocs /\ coins[c].spent \in Int
    BY <1>3, CoinFields DEF TypeInv, TypeOK
  <2>1a. \A x \in Int, n \in Nat : (x >= n + 1) <=> (x > n)
    OBVIOUS
  <2>2. coins[c].spent >= job["block"].height <=> coins[c].spent > Height
    BY <1>1, <1>2, <2>1, <2>1a
  <2> DEFINE d == [coins[c] EXCEPT !.spent = Unspent, !.by = None]
  <2>3. d \in CoinDocs /\ d.spent = Unspent /\ d.by = None /\ d.mint = coins[c].mint
    BY <2>1 DEF CoinDocs
  <2>4. coins'[c] = IF coins[c].spent > Height THEN d ELSE coins[c]
    BY <1>1, <1>3, <2>2
  <2> HIDE DEF d
  <2>5. QED
    BY <1>3, <2>3, <2>4
<1>4. CASE coins[c] = None
  BY <1>1, <1>4
<1>5. QED
  BY <1>3, <1>4

LEMMA UndoSpendsTypes ==
  ASSUME TypeInv, UndoSpends
  PROVE  TypeInv'
<1>1. NodeSame /\ UNCHANGED <<addresses, reorgs, crashes, txs, disturbed, deprived>>
      /\ job' = [job EXCEPT !["block"] = Idle]
  BY DEF UndoSpends, NodeSame, node, history
<1>2. job' \in [Jobs -> JobDocs] /\ NextFits' /\ JobsFit' /\ MarksFit'
  BY <1>1, JobNames, IdleFields, JobGoesOn
<1>3. ASSUME NEW c \in Coins
      PROVE  /\ coins'[c] \in CoinDocs \cup {None}
             /\ coins'[c] # None =>
                   (coins'[c].spent = Unspent <=> coins'[c].by = None)
  BY UndoSpendsGoesOn DEF TypeInv, TypeOK
<1>4. coins' = [c \in Coins |-> coins'[c]]
  BY DEF UndoSpends
<1>5. coins' \in [Coins -> CoinDocs \cup {None}]
  BY <1>3, <1>4
<1>6. StoreTyped'
  BY <1>1, <1>3, <1>5 DEF StoreTyped, TypeInv, TypeOK
<1>7. QED
  BY <1>1, <1>2, <1>6, TypeFromParts DEF TypeInv, TypeOK

LEMMA PruneTypes ==
  ASSUME TypeInv, NEW t \in Txs, PruneTx(t)
  PROVE  /\ TypeInv' /\ NodeSame /\ UNCHANGED <<store, disturbed, deprived>>
         /\ job'["pruner"].marks = {}
         /\ \A k \in Jobs \ {"pruner"} : job'[k] = job[k]
<1> DEFINE r == [Idle EXCEPT !.stage = "relate", !.height = txs[t].height,
                             !.walk = {t}, !.related = {t}]
<1>1. /\ NodeSame /\ UNCHANGED <<addresses, reorgs, crashes, disturbed, deprived, txs, coins>>
      /\ txs[t].height \in {Pending, Conflicting}
      /\ job' = [job EXCEPT !["pruner"] = r]
  BY DEF PruneTx, NodeSame, node, store, history
<1>2. r \in JobDocs
  BY <1>1, Constants, IdleFields DEF JobDocs
<1>3. r.stage = "relate" /\ r.marks = {}
  BY DEF Idle
<1> HIDE DEF r
<1>4. job' \in [Jobs -> JobDocs] /\ NextFits' /\ JobsFit' /\ MarksFit'
  BY <1>1, <1>2, <1>3, JobNames, JobGoesOn
<1>5. TypeInv'
  BY <1>1, <1>4, TypeFromParts DEF TypeInv, TypeOK, StoreTyped
<1>6. job'["pruner"] = r /\ \A k \in Jobs \ {"pruner"} : job'[k] = job[k]
  BY <1>1, <1>2, JobNames, JobStep DEF TypeInv, TypeOK
<1>7. QED
  BY <1>1, <1>3, <1>5, <1>6 DEF store

LEMMA HalfMarkedTxs ==
  ASSUME TypeInv, NEW J \in SUBSET Jobs
  PROVE  HalfMarked(J) \subseteq Txs
BY ImportingTxs DEF HalfMarked

LEMMA NodeCrashTypes ==
  ASSUME TypeInv, NodeCrashes
  PROVE  /\ TypeInv'
         /\ job["block"].stage # "undo"
         /\ UNCHANGED <<store, chain, importing>>
         /\ \A j \in Jobs \ {"pruner"} : job'[j] = Idle
         /\ job'["pruner"] = job["pruner"]
<1>1. /\ job' = [j \in Jobs |-> IF j = "pruner" THEN job[j] ELSE Idle]
      /\ crashes < MaxCrashes /\ crashes' = crashes + 1
      /\ inv' = {} /\ job["block"].stage # "undo"
      /\ UNCHANGED <<store, chain, importing, reorgs>>
      /\ disturbed' = disturbed \cup HalfMarked(Jobs \ {"pruner"})
                        \cup UNION {job[r].txs : r \in Relays}
      /\ deprived' = deprived
  BY DEF NodeCrashes
<1>2. /\ job' \in [Jobs -> JobDocs]
      /\ \A j \in Jobs \ {"pruner"} : job'[j] = Idle
      /\ job'["pruner"] = job["pruner"]
  BY <1>1, JobNames, IdleFields DEF TypeInv, TypeOK
<1>3. NextFits'
  BY <1>1 DEF TypeInv, NextFits, ValidBlock, OnChain, Height
<1>4. JobsFit'
  BY <1>2, JobNames, IdleFields DEF JobsFit, Importing
<1>5. MarksFit'
  BY <1>2, JobNames, IdleFields DEF TypeInv, MarksFit
<1>6. disturbed' \subseteq Txs /\ deprived' \subseteq Txs
  <2>1. \A r \in Relays : job[r].txs \subseteq Txs
    BY ImportingTxs, JobNames
  <2>2. QED
    BY <1>1, <2>1, HalfMarkedTxs DEF TypeInv, TypeOK
<1>7. crashes' \in 0 .. MaxCrashes
  BY <1>1, Constants DEF TypeInv, TypeOK
<1>8. QED
  BY <1>1, <1>2, <1>3, <1>4, <1>5, <1>6, <1>7 DEF TypeInv, TypeOK, store

LEMMA PrunerCrashTypes ==
  ASSUME TypeInv, PrunerCrashes
  PROVE  /\ TypeInv' /\ NodeSame /\ UNCHANGED store
         /\ job'["pruner"] = Idle
         /\ \A k \in Jobs \ {"pruner"} : job'[k] = job[k]
<1>1. /\ job' = [job EXCEPT !["pruner"] = Idle]
      /\ crashes < MaxCrashes /\ crashes' = crashes + 1
      /\ NodeSame /\ UNCHANGED <<store, reorgs>>
      /\ disturbed' = disturbed \cup HalfMarked({"pruner"})
      /\ deprived' = deprived
  BY DEF PrunerCrashes, NodeSame
<1>2. job' \in [Jobs -> JobDocs] /\ NextFits' /\ JobsFit' /\ MarksFit'
  BY <1>1, JobNames, IdleFields, JobGoesOn
<1>3. job'["pruner"] = Idle /\ \A k \in Jobs \ {"pruner"} : job'[k] = job[k]
  BY <1>1, JobNames, IdleFields, JobStep DEF TypeInv, TypeOK
<1>4. disturbed' \subseteq Txs /\ deprived' \subseteq Txs
  BY <1>1, JobNames, HalfMarkedTxs DEF TypeInv, TypeOK
<1>5. crashes' \in 0 .. MaxCrashes
  BY <1>1, Constants DEF TypeInv, TypeOK
<1>6. QED
  BY <1>1, <1>2, <1>3, <1>4, <1>5 DEF TypeInv, TypeOK, NodeSame, store

LEMMA InitTypes ==
  ASSUME Init
  PROVE  TypeInv
<1>1. /\ coins = [c \in Coins |->
                     IF c \in Outputs(Base) THEN NewCoin(c, 1) ELSE None]
      /\ txs = [t \in Txs |->
                   IF t \in Base THEN [height |-> 1, tag |-> FALSE] ELSE None]
      /\ chain = <<Base>> /\ importing = {} /\ inv = {}
      /\ job = [j \in Jobs |-> Idle]
      /\ reorgs = 0 /\ crashes = 0 /\ disturbed = {} /\ deprived = {}
      /\ addresses = [x \in Addresses |-> "none"]
  BY DEF Init
<1>2. 1 \in Heights
  BY Constants DEF Heights
<1>3. \A c \in Coins : NewCoin(c, 1) \in CoinDocs
                       /\ NewCoin(c, 1).spent = Unspent /\ NewCoin(c, 1).by = None
  BY <1>2 DEF NewCoin, CoinDocs
<1>4. coins \in [Coins -> CoinDocs \cup {None}]
      /\ \A c \in Coins : coins[c] # None =>
            (coins[c].spent = Unspent <=> coins[c].by = None)
  BY <1>1, <1>3
<1>5. [height |-> 1, tag |-> FALSE] \in TxDocs
  BY <1>2 DEF TxDocs
<1>6. txs \in [Txs -> TxDocs \cup {None}]
  BY <1>1, <1>5
<1>7. job \in [Jobs -> JobDocs]
  BY <1>1, IdleFields
<1>8. chain \in Seq(SUBSET Txs) /\ Len(chain) = 1
  BY <1>1, CoinAssumption
<1>9. TypeOK
  BY <1>1, <1>4, <1>6, <1>7, <1>8, Constants DEF TypeOK
<1>10. \A j \in Jobs : job[j] = Idle
  BY <1>1
<1>11. NextFits /\ JobsFit
  BY <1>1, <1>10, JobNames, IdleFields DEF NextFits, JobsFit, Importing
<1>12. MarksFit
  BY <1>10, JobNames, IdleFields DEF MarksFit
<1>13. QED
  BY <1>9, <1>11, <1>12 DEF TypeInv

LEMMA StepTypes ==
  ASSUME TypeInv, [Next]_vars
  PROVE  TypeInv'
<1>1. CASE UNCHANGED vars
  BY <1>1 DEF vars, TypeInv, TypeOK, NextFits, JobsFit, MarksFit, ValidBlock,
              OnChain, Height
<1>2. CASE Next
  <2>1. CASE \E T \in SUBSET Txs : BlockArrives(T)
    BY <2>1, BlockArrivesTypes
  <2>2. CASE \E r \in Relays, t \in Txs : TxArrives(r, t)
    BY <2>2, TxArrivesTypes
  <2>3. CASE \E j \in Relays \cup {"block"} : Import(j)
    BY <2>3, JobNames, MintTypes, FindTypes, SpendTypes, WriteTypes DEF Import
  <2>4. CASE \E j \in Jobs : Prune(j)
    BY <2>4, RelateTypes, MarkTypes DEF Prune
  <2>5. CASE \E h \in 2 .. Height : Reorg(h)
    BY <2>5, ReorgTypes
  <2>6. CASE \E m \in {"txs", "coins"} : UndoMined(m)
    BY <2>6, UndoMinedTypes
  <2>7. CASE UndoSpends
    BY <2>7, UndoSpendsTypes
  <2>8. CASE \E t \in Txs : PruneTx(t)
    BY <2>8, PruneTypes
  <2>9. CASE NodeCrashes \/ PrunerCrashes
    BY <2>9, NodeCrashTypes, PrunerCrashTypes
  <2>10. QED
    BY <1>2, <2>1, <2>2, <2>3, <2>4, <2>5, <2>6, <2>7, <2>8, <2>9 DEF Next
<1>3. QED
  BY <1>1, <1>2

\* The stored documents and the jobs have their types, however imports,
\* rollbacks, pruning and crashes interleave.
THEOREM CoinsTypeCorrect == Spec => []TypeOK
<1>1. Init => TypeInv
  BY InitTypes
<1>2. TypeInv /\ [Next]_vars => TypeInv'
  BY StepTypes
<1>3. TypeInv => TypeOK
  BY DEF TypeInv
<1>4. QED
  BY <1>1, <1>2, <1>3, PTL DEF Spec

-----------------------------------------------------------------------------
(***************************************************************************)
(* What the chain has stored stands                                        *)
(***************************************************************************)

\* Transactions whose outputs are stored with the height of a block.
Standing == OnChain \cup IF Minting THEN importing ELSE {}

LEMMA ChainTxs ==
  ASSUME TypeInv
  PROVE  /\ Height \in Nat /\ Height = Len(chain)
         /\ \A h \in 1 .. Height : chain[h] \in SUBSET Txs /\ chain[h] \subseteq OnChain
         /\ \A t \in OnChain : \E h \in 1 .. Height : t \in chain[h]
         /\ importing \subseteq Txs /\ OnChain \subseteq Txs
         /\ Standing \subseteq Txs
BY DEF TypeInv, TypeOK, Height, OnChain, Standing

\* The outputs of what stands are stored, with a height or as conflicting.
LEMMA StandingMints ==
  ASSUME TypeInv, StoreInv, NEW t \in Standing, NEW c \in Mints[t]
  PROVE  /\ c \in Coins /\ coins[c] \in CoinDocs
         /\ coins[c].mint = Conflicting
              \/ (coins[c].mint > 0 /\ coins[c].mint <= Height + 1)
         /\ t \in OnChain => coins[c].mint <= Height
<1>1. t \in Txs /\ c \in Coins
  BY ChainTxs, CoinAssumption
<1>2. Height \in Nat
  BY ChainTxs
<1>3. CASE t \in OnChain
  <2>1. PICK h \in 1 .. Height : t \in chain[h]
    BY <1>3, ChainTxs
  <2>2. coins[c] # None /\ coins[c].mint \in {h, Conflicting}
    BY <2>1 DEF StoreInv, ChainStands, MintStands
  <2>3. QED
    BY <1>1, <1>2, <2>1, <2>2 DEF TypeInv, TypeOK, Conflicting
<1>4. CASE t \notin OnChain
  <2>1. Minting /\ t \in importing
    BY <1>4 DEF Standing
  <2>2. coins[c] # None /\ coins[c].mint \in {Height + 1, Conflicting}
    BY <1>2, <2>1 DEF StoreInv, BlockStands, MintStands
  <2>3. QED
    BY <1>1, <1>2, <1>4, <2>2 DEF TypeInv, TypeOK, Conflicting
<1>5. QED
  BY <1>3, <1>4

\* What is spent by the chain, or by a block whose spends are stored, is
\* minted by something that stands.
LEMMA SpentStanding ==
  ASSUME TypeInv, StoreInv, NEW t \in Txs, NEW c \in Spends[t],
         t \in OnChain \/ (Minting /\ t \in importing)
  PROVE  \E s \in Standing : c \in Mints[s] /\ (t \in OnChain => s \in OnChain)
<1>1. CASE t \in OnChain
  <2>1. PICK h \in 1 .. Height : t \in chain[h]
    BY <1>1, ChainTxs
  <2>2. PICK i \in 1 .. h : \E s \in chain[i] : c \in Mints[s]
    BY <2>1 DEF StoreInv, ChainFits
  <2>3. i \in 1 .. Height
    BY <2>1, <2>2, ChainTxs
  <2>4. QED
    BY <2>2, <2>3, ChainTxs DEF Standing
<1>2. CASE t \notin OnChain
  <2>1. Minting /\ t \in importing
    BY <1>2
  <2>2. c \in Outputs(OnChain \cup importing)
    BY <2>1, ChainTxs, InputsTyped DEF TypeInv, NextFits, ValidBlock
  <2>3. PICK s \in OnChain \cup importing : c \in Mints[s]
    BY <2>2 DEF Outputs
  <2>4. QED
    BY <1>2, <2>1, <2>3 DEF Standing
<1>3. QED
  BY <1>1, <1>2

\* Steps that leave the chain alone keep what stands in the store, if they
\* keep the spends of blocks, and the outputs and the transactions of what
\* stands, or mark them as conflicting and say so.
LEMMA StoreKept ==
  ASSUME TypeInv, StoreInv, chain' = chain, importing' = importing,
         Minting' => Minting,
         Writing' => Writing,
         job["block"].stage = "undo" => job'["block"].stage = "undo",
         \A t \in Standing : t \in disturbed => t \in disturbed',
         \A t \in Standing : \A c \in Mints[t] :
            /\ coins'[c] # None
            /\ \/ coins'[c].mint = coins[c].mint
               \/ coins'[c].mint = Conflicting /\ t \in disturbed',
         \A c \in Coins :
            /\ coins[c] # None /\ coins[c].spent > 0 /\ coins'[c] # None =>
                  coins'[c].spent = coins[c].spent /\ coins'[c].by = coins[c].by
            /\ coins'[c] # None /\ coins'[c].spent > 0 =>
                  /\ coins[c] # None
                  /\ coins'[c].spent = coins[c].spent /\ coins'[c].by = coins[c].by,
         \A t \in OnChain : t \notin disturbed' /\ txs[t] # None /\ txs[t].height > 0 =>
            txs'[t] # None /\ txs'[t].height = txs[t].height
  PROVE  StoreInv'
<1>1. Height' = Height /\ OnChain' = OnChain /\ Height \in Nat
  BY ChainTxs DEF Height, OnChain
<1>2. ASSUME NEW t \in Standing, NEW h, MintStands(t, h)
      PROVE  MintStands(t, h)'
  BY <1>2 DEF MintStands
<1>3. ASSUME NEW t \in Txs, NEW h \in Nat, h > 0, SpendStands(t, h),
             t \in OnChain \/ (Minting /\ t \in importing)
      PROVE  SpendStands(t, h)'
  <2>1. ASSUME NEW c \in Spends[t]
        PROVE  coins'[c] # None /\ coins'[c].spent = h /\ coins'[c].by = t
    <3>1. c \in Coins
      BY CoinAssumption
    <3>2. coins[c] # None /\ coins[c].spent = h /\ coins[c].by = t
      BY <1>3 DEF SpendStands
    <3>3. PICK s \in Standing : c \in Mints[s]
      BY <1>3, SpentStanding
    <3>4. coins'[c] # None
      BY <3>3
    <3>5. QED
      BY <1>3, <3>1, <3>2, <3>4
  <2>2. QED
    BY <2>1 DEF SpendStands
<1>4. ChainFits'
  BY <1>1 DEF StoreInv, ChainFits
<1>5. BlockStands'
  <2>1. ASSUME NEW h \in Nat, h = Height + 1
        PROVE  /\ Minting' => \A t \in importing : MintStands(t, h)'
               /\ Writing' => \A t \in importing : SpendStands(t, h)'
    <3>1. ASSUME Minting', NEW t \in importing
          PROVE  MintStands(t, h)'
      BY <1>2, <2>1, <3>1 DEF StoreInv, BlockStands, Standing
    <3>2. ASSUME Writing', NEW t \in importing
          PROVE  SpendStands(t, h)'
      <4>1. Writing /\ Minting
        BY <3>2 DEF Writing, Minting, Importing
      <4>2. t \in Txs /\ SpendStands(t, h)
        BY <2>1, <4>1, ChainTxs DEF StoreInv, BlockStands
      <4>3. h > 0
        BY <1>1, <2>1
      <4>4. QED
        BY <1>3, <4>1, <4>2, <4>3
    <3>3. QED
      BY <3>1, <3>2
  <2>2. QED
    BY <1>1, <2>1 DEF BlockStands
<1>6. ChainStands'
  <2>1. ASSUME NEW h \in 1 .. Height, NEW t \in chain[h]
        PROVE  MintStands(t, h)' /\ SpendStands(t, h)' /\ TxStands(t, h)'
    <3>1. t \in Txs /\ t \in OnChain /\ t \in Standing
      BY ChainTxs DEF Standing
    <3>2. MintStands(t, h) /\ SpendStands(t, h) /\ TxStands(t, h)
      BY DEF StoreInv, ChainStands
    <3>3. h \in Nat /\ h > 0
      BY <1>1
    <3>4. TxStands(t, h)'
      BY <3>1, <3>2, <3>3 DEF TxStands
    <3>5. QED
      BY <1>2, <1>3, <3>1, <3>2, <3>3, <3>4
  <2>2. QED
    BY <1>1, <2>1 DEF ChainStands
<1>7. SpentFit'
  <2>1. ASSUME NEW c \in Coins, coins'[c] # None, coins'[c].spent > 0
        PROVE  \/ /\ coins'[c].spent <= Height
                  /\ coins'[c].by \in chain[coins'[c].spent]
                  /\ c \in Spends[coins'[c].by]
               \/ /\ coins'[c].spent = Height + 1
                  /\ coins'[c].by \in importing
                  /\ c \in Spends[coins'[c].by]
               \/ coins'[c].spent > Height /\ job'["block"].stage = "undo"
    BY <2>1 DEF StoreInv, SpentFit
  <2>2. QED
    BY <1>1, <2>1 DEF SpentFit
<1>8. QED
  BY <1>4, <1>5, <1>6, <1>7 DEF StoreInv

\* Steps that write neither coins nor transactions.
LEMMA StoreUnchanged ==
  ASSUME TypeInv, StoreInv, chain' = chain, importing' = importing,
         coins' = coins, txs' = txs,
         Minting' => Minting,
         Writing' => Writing,
         job["block"].stage = "undo" => job'["block"].stage = "undo",
         \A t \in Standing : t \in disturbed => t \in disturbed'
  PROVE  StoreInv'
<1>1. ASSUME NEW t \in Standing, NEW c \in Mints[t]
      PROVE  coins[c] # None
  BY StandingMints, NoneAssumption
<1>2. QED
  BY <1>1, StoreKept

LEMMA MintStore ==
  ASSUME TypeInv, TypeInv', StoreInv, NEW j \in Relays \cup {"block"}, Mint(j)
  PROVE  StoreInv'
<1> DEFINE T == job[j].txs
           h == job[j].height
           found == job[j].found
           r == [job[j] EXCEPT !.stage = "find"]
<1>1. /\ job[j] \in JobDocs /\ j \in Jobs /\ job[j].stage = "mint"
      /\ T \in SUBSET Txs /\ h \in Heights
  BY JobNames, ImportingTxs DEF Mint
<1>2. /\ chain' = chain /\ importing' = importing /\ txs' = txs
      /\ disturbed' = disturbed
      /\ job' = [job EXCEPT ![j] = r]
      /\ coins' = [c \in Coins |->
                     IF c \in Outputs(T) THEN Minted(c, h, found) ELSE coins[c]]
  BY DEF Mint, Goto, node, history
<1>3. r \in JobDocs /\ r.stage = "find"
  BY <1>1, WithStage DEF Stages
<1>4. job'[j] = r /\ \A k \in Jobs \ {j} : job'[k] = job[k]
  BY <1>1, <1>2, <1>3, JobStep DEF TypeInv, TypeOK
<1>5. Height' = Height /\ OnChain' = OnChain /\ Height \in Nat
  BY <1>2, ChainTxs DEF Height, OnChain
<1> HIDE DEF T, h, found, r
\* The spends are not touched.
<1>6. ASSUME NEW c \in Coins
      PROVE  /\ coins[c] # None =>
                   /\ coins'[c] # None
                   /\ coins'[c].spent = coins[c].spent /\ coins'[c].by = coins[c].by
             /\ coins'[c] # None /\ coins'[c].spent > 0 => coins[c] # None
  <2>1. CASE c \in Outputs(T)
    <3>1. coins'[c] = Minted(c, h, found)
      BY <1>2, <2>1
    <3>2. QED
      BY <1>1, <3>1, MintedFields, NoneAssumption DEF TypeInv, Unspent
  <2>2. CASE c \notin Outputs(T)
    BY <1>2, <2>2
  <2>3. QED
    BY <2>1, <2>2
<1>7. CASE j \in Relays
  <2>1. j # "block" /\ h = Pending
    BY <1>7, JobNames DEF h, TypeInv, JobsFit
  <2>2. job'["block"] = job["block"]
    BY <1>4, <2>1, JobNames
  <2>3. ASSUME NEW t \in Standing, NEW c \in Mints[t]
        PROVE  coins'[c] # None /\ coins'[c].mint = coins[c].mint
    <3>1. c \in Coins /\ coins[c] \in CoinDocs /\ coins[c] # None
      BY StandingMints, NoneAssumption
    <3>2. CASE c \in Outputs(T)
      <4>1. coins'[c] = Minted(c, h, found)
        BY <1>2, <3>1, <3>2
      <4>2. QED
        BY <1>1, <2>1, <3>1, <4>1, MintedFields, NoneAssumption DEF TypeInv
    <3>3. CASE c \notin Outputs(T)
      BY <1>2, <3>1, <3>3
    <3>4. QED
      BY <3>2, <3>3
  <2>4. QED
    BY <1>2, <1>6, <2>2, <2>3, StoreKept DEF Minting, Writing
<1>8. CASE j = "block"
  <2>1. /\ T = importing /\ h = Height + 1 /\ h \in Nat /\ h # Pending
    BY <1>1, <1>5, <1>8 DEF T, h, TypeInv, JobsFit, Importing, Pending
  <2>2. ~Minting /\ ~Writing /\ ~Writing' /\ Minting' /\ Standing = OnChain
        /\ job["block"].stage # "undo" /\ job'["block"].stage # "undo"
    BY <1>1, <1>3, <1>4, <1>8 DEF Minting, Writing, Importing, Standing
  <2>3. importing \cap OnChain = {}
    BY <1>1, <1>8 DEF TypeInv, JobsFit, NextFits, ValidBlock, Importing
  <2>4. ASSUME NEW t \in importing, NEW c \in Mints[t]
        PROVE  coins'[c] # None /\ coins'[c].mint = h
    <3>1. c \in Coins /\ c \in Outputs(T)
      BY <1>1, <2>1, InputsTyped
    <3>2. coins'[c] = Minted(c, h, found)
      BY <1>2, <3>1
    <3>3. QED
      BY <1>1, <2>1, <3>1, <3>2, MintedFields, NoneAssumption DEF TypeInv
  <2>5. ASSUME NEW t \in OnChain, NEW c \in Mints[t]
        PROVE  coins'[c] = coins[c] /\ coins[c] # None
    <3>1. c \in Coins /\ coins[c] # None
      BY <2>2, StandingMints, NoneAssumption
    <3>2. c \notin Outputs(T)
      BY <2>1, <2>3, <3>1, ChainTxs, CoinAssumption DEF Outputs
    <3>3. QED
      BY <1>2, <3>1, <3>2
  <2>6. ChainFits'
    BY <1>2, <1>5 DEF StoreInv, ChainFits
  <2>7. BlockStands'
    <3>1. PICK n \in Nat : n = Height + 1
      BY <2>1
    <3>2. \A t \in importing : MintStands(t, n)'
      BY <2>1, <2>4, <3>1 DEF MintStands
    <3>3. QED
      BY <1>2, <1>5, <2>2, <3>1, <3>2 DEF BlockStands
  <2>8. ChainStands'
    <3>1. ASSUME NEW i \in 1 .. Height, NEW t \in chain[i]
          PROVE  MintStands(t, i)' /\ SpendStands(t, i)' /\ TxStands(t, i)'
      <4>1. t \in OnChain /\ t \in Txs
        BY ChainTxs
      <4>2. MintStands(t, i) /\ SpendStands(t, i) /\ TxStands(t, i)
        BY DEF StoreInv, ChainStands
      <4>3. MintStands(t, i)'
        BY <1>2, <2>5, <4>1, <4>2 DEF MintStands
      <4>4. SpendStands(t, i)'
        BY <1>6, <4>1, <4>2, CoinAssumption DEF SpendStands
      <4>5. TxStands(t, i)'
        BY <1>2, <4>2 DEF TxStands
      <4>6. QED
        BY <4>3, <4>4, <4>5
    <3>2. QED
      BY <1>2, <1>5, <3>1 DEF ChainStands
  <2>9. SpentFit'
    <3>1. ASSUME NEW c \in Coins, coins'[c] # None, coins'[c].spent > 0
          PROVE  \/ /\ coins'[c].spent <= Height
                    /\ coins'[c].by \in chain[coins'[c].spent]
                    /\ c \in Spends[coins'[c].by]
                 \/ /\ coins'[c].spent = Height + 1
                    /\ coins'[c].by \in importing
                    /\ c \in Spends[coins'[c].by]
      BY <1>6, <2>2, <3>1 DEF StoreInv, SpentFit
    <3>2. QED
      BY <1>2, <1>5, <3>1 DEF SpentFit
  <2>10. QED
    BY <2>6, <2>7, <2>8, <2>9 DEF StoreInv
<1>9. QED
  BY <1>7, <1>8

LEMMA FindStore ==
  ASSUME TypeInv, TypeInv', StoreInv, NEW j \in Relays \cup {"block"}, FindRivals(j)
  PROVE  StoreInv'
<1>1. /\ j \in Jobs /\ job[j].stage = "find"
      /\ UNCHANGED <<store, chain, importing, disturbed>>
      /\ \A k \in Jobs \ {j} : job'[k] = job[k]
  BY JobNames DEF FindRivals, node, TypeInv, TypeOK, history
<1>2. job'["block"] = job["block"] \/ job["block"].stage = "find"
  BY <1>1, JobNames
<1>3. job["block"].stage = "find" => ~Writing'
  <2>1. ASSUME job["block"].stage = "find", j = "block"
        PROVE  job'["block"].stage \in {"spend", "relate"}
    <3>1. PICK r \in JobDocs :
            /\ job' = [job EXCEPT ![j] = r]
            /\ r.stage \in {"spend", "relate"}
      BY <1>1, FindGoesOn
    <3>2. QED
      BY <1>1, <2>1, <3>1 DEF TypeInv, TypeOK
  <2>2. QED
    BY <1>1, <2>1, JobNames DEF Writing
<1>4. QED
  BY <1>1, <1>2, <1>3, StoreUnchanged DEF Minting, Writing, Importing, store

LEMMA RelateStore ==
  ASSUME TypeInv, TypeInv', StoreInv, NEW j \in Jobs, NEW t \in Txs, Relate(j, t)
  PROVE  StoreInv'
<1>1. /\ job[j].stage = "relate" /\ t \in job[j].walk
      /\ UNCHANGED <<store, chain, importing, disturbed>>
      /\ \A k \in Jobs \ {j} : job'[k] = job[k]
  BY DEF Relate, node, TypeInv, TypeOK, history
<1>2. j = "block" => job'["block"].stage \in {"relate", "mark"}
  BY <1>1, JobNames, WalkedFields DEF Relate, TypeInv, TypeOK
<1>3. QED
  BY <1>1, <1>2, JobNames, StoreUnchanged DEF Minting, Writing, Importing, store

LEMMA MarkStore ==
  ASSUME TypeInv, TypeInv', StoreInv, NEW j \in Jobs, NEW m \in {"txs", "coins"},
         Mark(j, m)
  PROVE  StoreInv'
<1> DEFINE old == j = "pruner" /\ job[j].height = Pending
           hit == job[j].related
<1>1. /\ job[j].stage = "mark"
      /\ chain' = chain /\ importing' = importing
      /\ disturbed' = disturbed \cup Overtaken(j, old)
      /\ hit \in SUBSET Txs
  BY ImportingTxs DEF Mark, node
<1>2. /\ Minting' => Minting
      /\ Writing' => Writing
      /\ job["block"].stage = "undo" => job'["block"].stage = "undo"
  <2>1. PICK r \in JobDocs :
           /\ job' = [job EXCEPT ![j] = r]
           /\ IF job[j].marks \ {m} # {}
              THEN /\ r.stage = "mark" /\ r.marks = job[j].marks \ {m}
                   /\ r.txs = job[j].txs /\ r.height = job[j].height
                   /\ r.related = job[j].related
              ELSE IF j = "pruner" THEN r = Idle
              ELSE /\ r.stage \in {"spend", "relate"} /\ r.marks = {}
                   /\ r.txs = job[j].txs /\ r.height = job[j].height
    BY MarkGoesOn
  <2>2. job'[j] = r /\ \A k \in Jobs \ {j} : job'[k] = job[k]
    BY <2>1, JobStep DEF TypeInv, TypeOK
  <2>3. j = "block" => r.stage \in {"mark", "spend", "relate"}
    BY <2>1
  <2>4. QED
    BY <1>1, <2>2, <2>3, JobNames DEF Minting, Writing, Importing
\* What an update wrongly hits is disturbed.
<1>3. ASSUME NEW t \in Standing, t \in hit, ~old
      PROVE  t \in disturbed'
  <2>1. CASE t \in OnChain
    BY <1>1, <1>3, <2>1 DEF Overtaken
  <2>2. CASE t \in importing
    BY <1>1, <1>3, <2>2 DEF Overtaken, Unsettled
  <2>3. QED
    BY <2>1, <2>2 DEF Standing
<1>4. CASE m = "txs"
  <2>1. coins' = coins
        /\ txs' = [t \in Txs |-> IF t \in hit THEN MarkedTx(t, old) ELSE txs[t]]
    BY <1>4 DEF Mark
  <2>2. old \in BOOLEAN
    OBVIOUS
  <2>3. ASSUME NEW t \in OnChain, t \notin disturbed', txs[t] # None, txs[t].height > 0
        PROVE  txs'[t] # None /\ txs'[t].height = txs[t].height
    <3>1. t \in Txs /\ t \in Standing
      BY ChainTxs DEF Standing
    <3>2. CASE t \in hit
      <4>1. old
        BY <1>3, <2>3, <3>1, <3>2
      <4>2. txs'[t] = MarkedTx(t, old)
        BY <2>1, <3>1, <3>2
      <4>3. txs[t].height # Pending
        BY <2>3 DEF Pending
      <4> HIDE DEF old
      <4>4. QED
        BY <2>2, <2>3, <3>1, <4>1, <4>2, <4>3, MarkedTxFields DEF TypeInv
    <3>3. CASE t \notin hit
      <4> HIDE DEF old, hit
      <4>1. QED
        BY <2>1, <2>3, <3>1, <3>3
    <3>4. QED
      BY <3>2, <3>3
  <2>4. \A t \in Standing : \A c \in Mints[t] : coins'[c] # None
    BY <2>1, StandingMints, NoneAssumption
  <2>5. \A t \in Standing : t \in disturbed => t \in disturbed'
    BY <1>1
  <2> HIDE DEF old, hit
  <2>6. QED
    BY <1>1, <1>2, <2>1, <2>3, <2>4, <2>5, StoreKept
<1>5. CASE m = "coins"
  <2>1. txs' = txs
        /\ coins' = [c \in Coins |-> IF c \in Outputs(hit) THEN MarkedCoin(c, old) ELSE coins[c]]
    BY <1>5 DEF Mark
  <2>2. old \in BOOLEAN
    OBVIOUS
  <2>3. ASSUME NEW t \in Standing, NEW c \in Mints[t]
        PROVE  /\ coins'[c] # None
               /\ \/ coins'[c].mint = coins[c].mint
                  \/ coins'[c].mint = Conflicting /\ t \in disturbed'
    <3>1. /\ t \in Txs /\ c \in Coins /\ coins[c] \in CoinDocs /\ coins[c] # None
          /\ coins[c].mint # Pending
      BY ChainTxs, StandingMints, NoneAssumption DEF Pending, Conflicting
    <3>2. CASE c \in Outputs(hit)
      <4>1. t \in hit
        BY <1>1, <3>1, <3>2, CoinAssumption DEF Outputs
      <4>2. coins'[c] = MarkedCoin(c, old)
        BY <2>1, <3>1, <3>2
      <4>3. ~old => t \in disturbed'
        BY <1>3, <4>1
      <4> HIDE DEF old
      <4>4. QED
        BY <2>2, <3>1, <4>2, <4>3, MarkedCoinFields DEF TypeInv
    <3>3. CASE c \notin Outputs(hit)
      BY <2>1, <3>1, <3>3
    <3>4. QED
      BY <3>2, <3>3
  <2> HIDE DEF hit
  <2>4. ASSUME NEW c \in Coins
        PROVE  coins'[c] # None =>
                  /\ coins[c] # None
                  /\ coins'[c].spent = coins[c].spent /\ coins'[c].by = coins[c].by
    <3>1. CASE c \in Outputs(hit)
      <4>1. coins'[c] = MarkedCoin(c, old)
        BY <2>1, <3>1
      <4> HIDE DEF old
      <4>2. QED
        BY <2>2, <4>1, MarkedCoinFields DEF TypeInv
    <3>2. CASE c \notin Outputs(hit)
      BY <2>1, <3>2
    <3>3. QED
      BY <3>1, <3>2
  <2>5. \A t \in Standing : t \in disturbed => t \in disturbed'
    BY <1>1
  <2>6. \A t \in OnChain : txs[t] # None => txs'[t] # None /\ txs'[t].height = txs[t].height
    BY <2>1
  <2> HIDE DEF old
  <2>7. QED
    BY <1>1, <1>2, <2>3, <2>4, <2>5, <2>6, StoreKept
<1>6. QED
  BY <1>4, <1>5

LEMMA SpendStore ==
  ASSUME TypeInv, TypeInv', StoreInv, NEW j \in Relays \cup {"block"}, Spend(j)
  PROVE  StoreInv'
<1> DEFINE T == job[j].txs
           h == job[j].height
<1>1. /\ j \in Jobs /\ job[j].stage = "spend"
      /\ T \in SUBSET Txs /\ h \in {Pending} \cup 1 .. MaxHeight
  BY JobNames, ImportingTxs DEF Spend, Importing
<1>2. /\ chain' = chain /\ importing' = importing /\ txs' = txs
      /\ disturbed' = disturbed
      /\ coins' = SpentBy(T, h)
  BY SpendGoesOn DEF Spend, node
<1>3. PICK r \in JobDocs :
        /\ job' = [job EXCEPT ![j] = r]
        /\ r.stage = "write"
  BY <1>1, SpendGoesOn
<1>4. job'[j] = r /\ \A k \in Jobs \ {j} : job'[k] = job[k]
  BY <1>1, <1>3, JobStep DEF TypeInv, TypeOK
<1>5. Height' = Height /\ OnChain' = OnChain /\ Height \in Nat
  BY <1>2, ChainTxs DEF Height, OnChain
<1> HIDE DEF T, h
<1>6. ASSUME NEW c \in Coins
      PROVE  /\ coins'[c] # None <=> coins[c] # None
             /\ coins[c] # None => coins'[c].mint = coins[c].mint
             /\ c \in Inputs(T) /\ Spendable(c) =>
                   /\ coins'[c].spent = h
                   /\ coins'[c].by = SpenderIn(T, c)
             /\ ~(c \in Inputs(T) /\ Spendable(c)) => coins'[c] = coins[c]
  BY <1>1, <1>2, SpentByFields DEF TypeInv, Spendable
<1>7. ASSUME NEW c \in Coins, coins[c] # None, coins[c].spent > 0
      PROVE  coins'[c] = coins[c]
  <2>1. ~Spendable(c)
    <3>1. coins[c].spent \in Int
      BY <1>7, CoinFields DEF TypeInv, TypeOK
    <3>2. QED
      BY <1>7, <3>1 DEF Spendable
  <2>2. QED
    BY <1>6, <2>1
<1>8. CASE j \in Relays
  <2>1. j # "block" /\ h = Pending
    BY <1>8, JobNames DEF h, TypeInv, JobsFit
  <2>2. job'["block"] = job["block"]
    BY <1>4, <2>1, JobNames
  <2>3. \A t \in Standing : \A c \in Mints[t] :
           coins'[c] # None /\ coins'[c].mint = coins[c].mint
    BY <1>6, StandingMints, NoneAssumption
  <2>4. ASSUME NEW c \in Coins, coins'[c] # None, coins'[c].spent > 0
        PROVE  coins'[c] = coins[c]
    BY <1>6, <2>1, <2>4 DEF Pending
  <2>5. \A t \in Standing : t \in disturbed => t \in disturbed'
    BY <1>2
  <2>6. QED
    BY <1>2, <1>6, <1>7, <2>2, <2>3, <2>4, <2>5, StoreKept DEF Minting, Writing
<1>9. CASE j = "block"
  <2>1. /\ T = importing /\ h = Height + 1 /\ h \in Nat /\ h > 0
    BY <1>1, <1>5, <1>9 DEF T, h, TypeInv, JobsFit, Importing
  <2>2. Minting /\ Minting' /\ Writing' /\ importing # {}
        /\ job["block"].stage # "undo" /\ job'["block"].stage # "undo"
    BY <1>1, <1>3, <1>4, <1>9 DEF Minting, Writing, Importing, TypeInv, JobsFit
  <2>3. ValidBlock(importing)
    BY <2>2 DEF TypeInv, NextFits
  <2>4. PICK n \in Nat : n = Height + 1
    BY <1>5
  \* The inputs of the block are its own now.
  <2>5. ASSUME NEW t \in importing, NEW c \in Spends[t]
        PROVE  coins'[c] # None /\ coins'[c].spent = n /\ coins'[c].by = t
    <3>1. t \in Txs /\ c \in Coins /\ c \in Inputs(T)
      BY <1>1, <2>1, InputsTyped, CoinAssumption
    <3>2. PICK s \in Standing : c \in Mints[s]
      BY <2>2, <3>1, SpentStanding
    <3>3. coins[c] \in CoinDocs /\ coins[c] # None
      BY <3>2, StandingMints, NoneAssumption
    <3>4. coins[c].spent \in Int /\ coins[c].spent # 0
      BY <3>3, CoinFields DEF Unspent, Pending
    <3>5. \A u \in importing : c \in Spends[u] => u = t
      BY <2>3 DEF ValidBlock
    <3>6. CASE Spendable(c)
      <4>1. SpenderIn(T, c) = t
        BY <1>1, <2>1, <3>1, <3>5, SpenderInFact
      <4>2. QED
        BY <1>6, <2>1, <2>4, <3>1, <3>3, <3>6, <4>1
    <3>7. CASE ~Spendable(c)
      <4>1. coins[c].spent > 0
        BY <3>3, <3>4, <3>7 DEF Spendable
      <4>2. coins'[c] = coins[c]
        BY <1>6, <3>1, <3>7
      <4>3. \/ /\ coins[c].spent <= Height
               /\ coins[c].by \in chain[coins[c].spent]
               /\ c \in Spends[coins[c].by]
            \/ /\ coins[c].spent = Height + 1
               /\ coins[c].by \in importing
               /\ c \in Spends[coins[c].by]
        BY <2>2, <3>1, <3>3, <4>1 DEF StoreInv, SpentFit
      <4>4. CASE coins[c].spent <= Height
        <5>1. coins[c].spent \in 1 .. Height
          BY <1>5, <3>4, <4>1, <4>4
        <5>2. coins[c].by \in OnChain /\ c \in Spends[coins[c].by]
          BY <1>5, <4>3, <4>4, <5>1, ChainTxs
        <5>3. c \in Inputs(OnChain) /\ c \in Inputs(importing)
          BY <2>1, <3>1, <5>2, ChainTxs, InputsTyped
        <5>4. QED
          BY <2>3, <5>3 DEF ValidBlock
      <4>5. CASE ~(coins[c].spent <= Height)
        BY <2>4, <3>3, <3>5, <4>2, <4>3, <4>5
      <4>6. QED
        BY <4>4, <4>5
    <3>8. QED
      BY <3>6, <3>7
  <2>6. ChainFits'
    BY <1>2, <1>5 DEF StoreInv, ChainFits
  <2>7. ASSUME NEW t \in Txs, NEW i, MintStands(t, i)
        PROVE  MintStands(t, i)'
    BY <1>2, <1>6, <2>7, CoinAssumption DEF MintStands
  <2>8. BlockStands'
    <3>1. \A t \in importing : MintStands(t, n)'
      BY <2>2, <2>4, <2>7, ChainTxs DEF StoreInv, BlockStands
    <3>2. \A t \in importing : SpendStands(t, n)'
      BY <2>5 DEF SpendStands
    <3>3. QED
      BY <1>2, <1>5, <2>4, <3>1, <3>2 DEF BlockStands
  <2>9. ChainStands'
    <3>1. ASSUME NEW i \in 1 .. Height, NEW t \in chain[i]
          PROVE  MintStands(t, i)' /\ SpendStands(t, i)' /\ TxStands(t, i)'
      <4>1. t \in OnChain /\ t \in Txs /\ i > 0
        BY <1>5, ChainTxs
      <4>2. MintStands(t, i) /\ SpendStands(t, i) /\ TxStands(t, i)
        BY DEF StoreInv, ChainStands
      <4>3. SpendStands(t, i)'
        BY <1>7, <4>1, <4>2, CoinAssumption DEF SpendStands
      <4>4. TxStands(t, i)'
        BY <1>2, <4>2 DEF TxStands
      <4>5. QED
        BY <2>7, <4>1, <4>2, <4>3, <4>4
    <3>2. QED
      BY <1>2, <1>5, <3>1 DEF ChainStands
  <2>10. SpentFit'
    <3>1. ASSUME NEW c \in Coins, coins'[c] # None, coins'[c].spent > 0
          PROVE  \/ /\ coins'[c].spent <= Height
                    /\ coins'[c].by \in chain[coins'[c].spent]
                    /\ c \in Spends[coins'[c].by]
                 \/ /\ coins'[c].spent = Height + 1
                    /\ coins'[c].by \in importing
                    /\ c \in Spends[coins'[c].by]
      <4>1. CASE c \in Inputs(T) /\ Spendable(c)
        BY <1>1, <1>6, <2>1, <4>1, SpenderInFact
      <4>2. CASE ~(c \in Inputs(T) /\ Spendable(c))
        BY <1>6, <2>2, <3>1, <4>2 DEF StoreInv, SpentFit
      <4>3. QED
        BY <4>1, <4>2
    <3>2. QED
      BY <1>2, <1>5, <3>1 DEF SpentFit
  <2>11. QED
    BY <2>6, <2>8, <2>9, <2>10 DEF StoreInv
<1>10. QED
  BY <1>8, <1>9

LEMMA WriteStore ==
  ASSUME TypeInv, TypeInv', StoreInv, NEW j \in Relays \cup {"block"}, WriteTxs(j)
  PROVE  StoreInv'
<1>1. /\ j \in Jobs /\ job[j].stage = "write" /\ job[j].txs \in SUBSET Txs
      /\ coins' = coins /\ disturbed' = disturbed
      /\ txs' = [t \in Txs |-> IF t \in job[j].txs THEN Written(j, t) ELSE txs[t]]
      /\ job' = [job EXCEPT ![j] = Idle]
  BY JobNames, ImportingTxs DEF WriteTxs, history
<1>2. job'[j] = Idle /\ \A k \in Jobs \ {j} : job'[k] = job[k]
  BY <1>1, IdleFields, JobStep DEF TypeInv, TypeOK
<1>3. CASE j \in Relays
  <2>1. j # "block" /\ job[j].height = Pending
    BY <1>3, JobNames DEF TypeInv, JobsFit
  <2>2. chain' = chain /\ importing' = importing /\ job'["block"] = job["block"]
    BY <1>2, <2>1, JobNames DEF WriteTxs
  <2>3. ASSUME NEW t \in OnChain, txs[t] # None
        PROVE  txs'[t] = txs[t]
    BY <1>1, <2>1, <2>3, ChainTxs DEF Written
  <2>4. \A t \in Standing : \A c \in Mints[t] : coins'[c] # None
    BY <1>1, StandingMints, NoneAssumption
  <2>5. QED
    BY <1>1, <2>2, <2>3, <2>4, StoreKept DEF Minting, Writing
<1>4. CASE j = "block"
  <2>1. /\ Writing /\ Minting /\ importing # {}
        /\ job[j].txs = importing /\ job[j].height = Height + 1
    BY <1>1, <1>4 DEF Writing, Minting, Importing, TypeInv, JobsFit
  <2>2. /\ chain' = Append(chain, importing) /\ importing' = {}
        /\ ValidBlock(importing)
    BY <1>4, <2>1 DEF WriteTxs, TypeInv, NextFits
  <2>3. chain \in Seq(SUBSET Txs) /\ Height \in Nat /\ importing \in SUBSET Txs
    BY <1>1, <2>1 DEF TypeInv, TypeOK, Height
  <2>4. /\ Height' = Height + 1
        /\ chain'[Height + 1] = importing
        /\ \A i \in 1 .. Height : chain'[i] = chain[i]
    BY <2>2, <2>3 DEF Height
  <2>5. ~Minting' /\ ~Writing' /\ job["block"].stage # "undo"
    BY <1>1, <1>2, <1>4, IdleFields DEF Minting, Writing, Importing
  <2>6. PICK n \in Nat : n = Height + 1
    BY <2>3
  <2>7. 1 .. Height' = (1 .. Height) \cup {n} /\ n \notin 1 .. Height
    BY <2>3, <2>4, <2>6
  <2>8. importing \cap OnChain = {}
    BY <2>2 DEF ValidBlock
  <2>9. ChainFits'
    <3>1. ASSUME NEW h \in 1 .. Height, NEW t \in chain[h], NEW c \in Spends[t]
          PROVE  \E i \in 1 .. h : \E s \in chain'[i] : c \in Mints[s]
      <4>1. PICK i \in 1 .. h : \E s \in chain[i] : c \in Mints[s]
        BY DEF StoreInv, ChainFits
      <4>2. i \in 1 .. Height
        BY <2>3, <4>1
      <4>3. QED
        BY <2>4, <4>1, <4>2
    <3>2. ASSUME NEW t \in importing, NEW c \in Spends[t]
          PROVE  \E i \in 1 .. n : \E s \in chain'[i] : c \in Mints[s]
      <4>1. c \in Outputs(OnChain \cup importing)
        BY <2>2, <2>3, InputsTyped DEF ValidBlock
      <4>2. PICK s \in OnChain \cup importing : c \in Mints[s]
        BY <4>1 DEF Outputs
      <4>3. CASE s \in importing
        BY <2>3, <2>4, <2>6, <4>2, <4>3
      <4>4. CASE s \in OnChain
        <5>1. PICK i \in 1 .. Height : s \in chain[i]
          BY <4>4, ChainTxs
        <5>2. i \in 1 .. n
          BY <2>3, <2>6, <5>1
        <5>3. QED
          BY <2>4, <4>2, <5>1, <5>2
      <4>5. QED
        BY <4>2, <4>3, <4>4
    <3>3. QED
      BY <2>4, <2>6, <2>7, <3>1, <3>2 DEF ChainFits
  <2>10. BlockStands'
    BY <2>5 DEF BlockStands
  <2>11. ChainStands'
    <3>1. ASSUME NEW h \in 1 .. Height, NEW t \in chain[h]
          PROVE  MintStands(t, h)' /\ SpendStands(t, h)' /\ TxStands(t, h)'
      <4>1. MintStands(t, h) /\ SpendStands(t, h) /\ TxStands(t, h)
        BY DEF StoreInv, ChainStands
      <4>2. t \in Txs /\ t \notin importing
        BY <2>8, ChainTxs
      <4>3. txs'[t] = txs[t]
        BY <1>1, <2>1, <4>2
      <4>4. QED
        BY <1>1, <4>1, <4>3 DEF MintStands, SpendStands, TxStands
    <3>2. ASSUME NEW t \in importing
          PROVE  MintStands(t, n)' /\ SpendStands(t, n)' /\ TxStands(t, n)'
      <4>1. MintStands(t, n) /\ SpendStands(t, n)
        BY <2>1, <2>6 DEF StoreInv, BlockStands
      <4>2. txs'[t] = Written(j, t) /\ t \in Txs
        BY <1>1, <2>1
      <4>3. job[j].height = n /\ n # Pending
        BY <2>1, <2>6 DEF Pending
      <4>4. txs'[t] # None /\ txs'[t].height = n
        BY <1>1, <4>2, <4>3, WrittenFields
      <4>5. QED
        BY <1>1, <4>1, <4>4 DEF MintStands, SpendStands, TxStands
    <3>3. QED
      BY <2>4, <2>6, <2>7, <3>1, <3>2 DEF ChainStands
  <2>12. SpentFit'
    <3>1. ASSUME NEW c \in Coins, coins[c] # None, coins[c].spent > 0
          PROVE  /\ coins[c].spent <= n
                 /\ coins[c].by \in chain'[coins[c].spent]
                 /\ c \in Spends[coins[c].by]
      <4>1. coins[c].spent \in Int
        BY <3>1, CoinFields DEF TypeInv, TypeOK
      <4>2. \/ /\ coins[c].spent <= Height
               /\ coins[c].by \in chain[coins[c].spent]
               /\ c \in Spends[coins[c].by]
            \/ /\ coins[c].spent = Height + 1
               /\ coins[c].by \in importing
               /\ c \in Spends[coins[c].by]
        BY <2>5, <3>1 DEF StoreInv, SpentFit
      <4>3. CASE coins[c].spent <= Height
        <5>1. coins[c].spent \in 1 .. Height /\ coins[c].spent # Height + 1
          BY <2>3, <3>1, <4>1, <4>3
        <5>2. coins[c].spent <= n
          BY <2>3, <2>6, <4>1, <4>3
        <5>3. QED
          BY <2>4, <4>2, <5>1, <5>2
      <4>4. CASE ~(coins[c].spent <= Height)
        BY <2>3, <2>4, <2>6, <4>2, <4>4
      <4>5. QED
        BY <4>3, <4>4
    <3>2. QED
      BY <1>1, <2>4, <2>6, <3>1 DEF SpentFit
  <2>13. QED
    BY <2>9, <2>10, <2>11, <2>12 DEF StoreInv
<1>5. QED
  BY <1>3, <1>4

LEMMA BlockArrivesStore ==
  ASSUME TypeInv, TypeInv', StoreInv, NEW T \in SUBSET Txs, BlockArrives(T)
  PROVE  StoreInv'
<1>1. /\ job["block"] = Idle /\ importing' = T
      /\ importing # {} => T = importing
      /\ disturbed' = disturbed \ T
      /\ chain' = chain /\ coins' = coins /\ txs' = txs
      /\ Begin("block", T, Height + 1)
  BY DEF BlockArrives, NewHeight, store
<1>2. T \cap OnChain = {}
  BY DEF BlockArrives, TypeInv, NextFits, ValidBlock
<1>3. Height' = Height /\ OnChain' = OnChain /\ Height \in Nat
  BY <1>1, ChainTxs DEF Height, OnChain
<1>4. job'["block"].stage = "mint" /\ job["block"].stage # "undo"
  <2>1. Height + 1 \in Heights
    BY Constants DEF BlockArrives, TypeInv, TypeOK, Height, Heights
  <2>2. QED
    BY <1>1, <2>1, JobNames, IdleFields, BeginFields
<1>5. ~Minting' /\ ~Writing'
  BY <1>4 DEF Minting, Writing
<1>6. ChainFits' /\ BlockStands'
  BY <1>1, <1>3, <1>5 DEF StoreInv, ChainFits, BlockStands
<1>7. ChainStands'
  <2>1. ASSUME NEW h \in 1 .. Height, NEW t \in chain[h]
        PROVE  MintStands(t, h)' /\ SpendStands(t, h)' /\ TxStands(t, h)'
    <3>1. MintStands(t, h) /\ SpendStands(t, h) /\ TxStands(t, h)
      BY DEF StoreInv, ChainStands
    <3>2. t \notin T
      BY <1>2, ChainTxs
    <3>3. QED
      BY <1>1, <3>1, <3>2 DEF MintStands, SpendStands, TxStands
  <2>2. QED
    BY <1>1, <1>3, <2>1 DEF ChainStands
<1>8. SpentFit'
  BY <1>1, <1>3, <1>4 DEF StoreInv, SpentFit
<1>9. QED
  BY <1>6, <1>7, <1>8 DEF StoreInv

LEMMA TxArrivesStore ==
  ASSUME TypeInv, TypeInv', StoreInv, NEW r \in Relays, NEW t \in Txs, TxArrives(r, t)
  PROVE  StoreInv'
<1>1. /\ t \notin inv \cup OnChain /\ Begin(r, {t}, Pending)
      /\ UNCHANGED <<coins, txs, chain, importing>>
  BY DEF TxArrives, store
<1>2. job'["block"] = job["block"]
  <2>1. r \in Jobs /\ r # "block"
    BY JobNames
  <2>2. {t} \in SUBSET Txs /\ Pending \in Heights /\ Begin(r, {t}, Pending)
    BY <1>1, Constants
  <2>3. \A k \in Jobs \ {r} : job'[k] = job[k]
    BY <2>1, <2>2, BeginFields
  <2>4. QED
    BY <2>1, <2>3, JobNames
<1>3. \A s \in disturbed : s # t => s \in disturbed'
  BY DEF TxArrives
<1>4. t \notin Standing
  <2>1. Minting => importing \subseteq inv
    BY DEF Minting, TypeInv, JobsFit
  <2>2. QED
    BY <1>1, <2>1 DEF Standing
<1>5. QED
  BY <1>1, <1>2, <1>3, <1>4, StoreUnchanged DEF Minting, Writing

LEMMA ReorgStore ==
  ASSUME TypeInv, TypeInv', StoreInv, NEW h \in 2 .. Height, Reorg(h)
  PROVE  StoreInv'
<1>1. /\ importing = {} /\ importing' = {} /\ coins' = coins /\ txs' = txs
      /\ disturbed \subseteq disturbed'
      /\ job["block"] = Idle
  BY DEF Reorg, store
<1>2. /\ Height' = h - 1
      /\ \A i \in 1 .. h - 1 : chain'[i] = chain[i]
      /\ job'["block"].stage = "undo"
  BY ReorgTypes
<1>3. Height \in Nat /\ h \in Nat /\ h >= 2 /\ h <= Height
  BY ChainTxs
<1>4. ~Minting' /\ ~Writing' /\ job["block"].stage # "undo"
  BY <1>1, <1>2, IdleFields DEF Minting, Writing, Importing
<1>5. ASSUME NEW i \in 1 .. h - 1
      PROVE  i \in 1 .. Height /\ chain'[i] = chain[i]
  BY <1>2, <1>3
<1>6. ChainFits'
  <2>1. ASSUME NEW k \in 1 .. h - 1, NEW t \in chain[k], NEW c \in Spends[t]
        PROVE  \E i \in 1 .. k : \E s \in chain'[i] : c \in Mints[s]
    <3>1. PICK i \in 1 .. k : \E s \in chain[i] : c \in Mints[s]
      BY <1>5 DEF StoreInv, ChainFits
    <3>2. i \in 1 .. h - 1
      BY <1>3, <3>1
    <3>3. QED
      BY <1>2, <3>1, <3>2
  <2>2. QED
    BY <1>2, <2>1 DEF ChainFits
<1>7. BlockStands'
  BY <1>4 DEF BlockStands
<1>8. ChainStands'
  <2>1. ASSUME NEW k \in 1 .. h - 1, NEW t \in chain[k]
        PROVE  MintStands(t, k)' /\ SpendStands(t, k)' /\ TxStands(t, k)'
    <3>1. MintStands(t, k) /\ SpendStands(t, k) /\ TxStands(t, k)
      BY <1>5 DEF StoreInv, ChainStands
    <3>2. QED
      BY <1>1, <3>1 DEF MintStands, SpendStands, TxStands
  <2>2. QED
    BY <1>2, <2>1 DEF ChainStands
<1>9. SpentFit'
  <2>1. ASSUME NEW c \in Coins, coins[c] # None, coins[c].spent > 0
        PROVE  \/ /\ coins[c].spent <= h - 1
                  /\ coins[c].by \in chain'[coins[c].spent]
                  /\ c \in Spends[coins[c].by]
               \/ coins[c].spent > h - 1
    <3>1. coins[c].spent \in Int
      BY <2>1, CoinFields DEF TypeInv, TypeOK
    <3>2. /\ coins[c].by \in chain[coins[c].spent]
          /\ c \in Spends[coins[c].by]
      BY <1>1, <1>4, <2>1 DEF StoreInv, SpentFit
    <3>3. CASE coins[c].spent <= h - 1
      <4>1. coins[c].spent \in 1 .. h - 1
        BY <1>3, <2>1, <3>1, <3>3
      <4>2. QED
        BY <1>2, <3>2, <3>3, <4>1
    <3>4. CASE ~(coins[c].spent <= h - 1)
      BY <1>3, <3>1, <3>4
    <3>5. QED
      BY <3>3, <3>4
  <2>2. QED
    BY <1>1, <1>2, <2>1 DEF SpentFit
<1>10. QED
  BY <1>6, <1>7, <1>8, <1>9 DEF StoreInv

LEMMA UndoMinedStore ==
  ASSUME TypeInv, TypeInv', StoreInv, NEW m \in {"txs", "coins"}, UndoMined(m)
  PROVE  StoreInv'
<1>1. /\ job["block"].stage = "undo" /\ job["block"].height = Height + 1
      /\ job'["block"].stage = "undo"
  <2>1. /\ job["block"].stage = "undo" /\ job["block"].height = Height + 1
    BY UndoMinedGoesOn
  <2>2. PICK r \in JobDocs : job' = [job EXCEPT !["block"] = r] /\ r.stage = "undo"
    BY UndoMinedGoesOn
  <2>3. QED
    BY <2>1, <2>2, JobNames DEF TypeInv, TypeOK
<1>2. /\ chain' = chain /\ importing' = importing /\ disturbed \subseteq disturbed'
      /\ ~Minting /\ ~Writing /\ ~Minting' /\ ~Writing'
  BY <1>1 DEF UndoMined, node, Minting, Writing, Importing
<1>3. Height \in Nat
  BY ChainTxs
<1>4. ASSUME NEW c \in Coins, coins[c] # None, coins[c].mint <= Height
      PROVE  coins'[c] = coins[c]
  <2>1. coins[c].mint \in Int
    BY <1>4, CoinFields DEF TypeInv, TypeOK
  <2>2. ~(coins[c].mint >= job["block"].height)
    BY <1>1, <1>3, <1>4, <2>1
  <2>3. QED
    BY <2>2 DEF UndoMined
<1>5. ASSUME NEW c \in Coins
      PROVE  coins'[c] = None \/ coins'[c] = coins[c]
  BY DEF UndoMined
<1>6. ASSUME NEW t \in Txs, txs[t] # None, txs[t].height <= Height
      PROVE  txs'[t] = txs[t]
  <2>1. txs[t].height \in Int
    BY <1>6, TxFields DEF TypeInv, TypeOK
  <2>2. ~(txs[t].height >= job["block"].height)
    BY <1>1, <1>3, <1>6, <2>1
  <2>3. QED
    BY <2>2 DEF UndoMined
<1>7. Standing = OnChain
  BY <1>2 DEF Standing
<1>8. ASSUME NEW t \in Standing, NEW c \in Mints[t]
      PROVE  coins'[c] = coins[c] /\ coins[c] # None
  BY <1>4, <1>7, StandingMints, NoneAssumption
<1>9. ASSUME NEW t \in OnChain, t \notin disturbed', txs[t] # None, txs[t].height > 0
      PROVE  txs'[t] # None /\ txs'[t].height = txs[t].height
  <2>1. PICK h \in 1 .. Height : t \in chain[h]
    BY ChainTxs
  <2>2. txs[t].height = h
    BY <1>2, <1>9, <2>1 DEF StoreInv, ChainStands, TxStands
  <2>3. QED
    BY <1>6, <1>9, <2>1, <2>2, ChainTxs
<1>10. QED
  BY <1>1, <1>2, <1>5, <1>8, <1>9, StoreKept

LEMMA UndoSpendsStore ==
  ASSUME TypeInv, TypeInv', StoreInv, UndoSpends
  PROVE  StoreInv'
<1>1. /\ chain' = chain /\ importing' = importing /\ importing = {}
      /\ txs' = txs /\ disturbed' = disturbed
      /\ job' = [job EXCEPT !["block"] = Idle]
  BY DEF UndoSpends, node, TypeInv, JobsFit, history
<1>2. job'["block"].stage = "idle"
  BY <1>1, JobNames, IdleFields DEF TypeInv, TypeOK
<1>3. ~Minting' /\ ~Writing'
  BY <1>2 DEF Minting, Writing, Importing
<1>4. Height' = Height /\ OnChain' = OnChain /\ Height \in Nat
  BY <1>1, ChainTxs DEF Height, OnChain
<1>5. ASSUME NEW c \in Coins
      PROVE  /\ coins'[c] # None <=> coins[c] # None
             /\ coins[c] # None => coins'[c].mint = coins[c].mint
             /\ coins[c] # None /\ coins[c].spent <= Height =>
                   coins'[c].spent = coins[c].spent /\ coins'[c].by = coins[c].by
             /\ coins'[c] # None =>
                   \/ coins'[c].spent = Unspent
                   \/ coins'[c] = coins[c] /\ coins[c].spent <= Height
  <2>1. CASE coins[c] = None
    BY <2>1, UndoSpendsGoesOn
  <2>2. CASE coins[c] # None
    <3>1. coins[c].spent \in Int
      BY <2>2, CoinFields DEF TypeInv, TypeOK
    <3>2. (coins[c].spent > Height) <=> ~(coins[c].spent <= Height)
      BY <1>4, <3>1
    <3>3. QED
      BY <2>2, <3>2, UndoSpendsGoesOn, NoneAssumption
  <2>3. QED
    BY <2>1, <2>2
<1>6. ChainFits' /\ BlockStands'
  BY <1>1, <1>3, <1>4 DEF StoreInv, ChainFits, BlockStands
<1>7. ChainStands'
  <2>1. ASSUME NEW h \in 1 .. Height, NEW t \in chain[h]
        PROVE  MintStands(t, h)' /\ SpendStands(t, h)' /\ TxStands(t, h)'
    <3>1. MintStands(t, h) /\ SpendStands(t, h) /\ TxStands(t, h)
      BY DEF StoreInv, ChainStands
    <3>2. t \in Txs /\ h <= Height
      BY ChainTxs
    <3>3. MintStands(t, h)'
      BY <1>1, <1>5, <3>1, <3>2, CoinAssumption DEF MintStands
    <3>4. SpendStands(t, h)'
      BY <1>5, <3>1, <3>2, CoinAssumption DEF SpendStands
    <3>5. TxStands(t, h)'
      BY <1>1, <3>1 DEF TxStands
    <3>6. QED
      BY <3>3, <3>4, <3>5
  <2>2. QED
    BY <1>1, <1>4, <2>1 DEF ChainStands
<1>8. SpentFit'
  <2>1. ASSUME NEW c \in Coins, coins'[c] # None, coins'[c].spent > 0
        PROVE  /\ coins'[c].spent <= Height
               /\ coins'[c].by \in chain[coins'[c].spent]
               /\ c \in Spends[coins'[c].by]
    <3>1. coins'[c] = coins[c] /\ coins[c].spent <= Height
      BY <1>5, <2>1 DEF Unspent
    <3>2. coins[c].spent # Height + 1 /\ ~(coins[c].spent > Height)
      <4>1. coins[c].spent \in Int
        BY <2>1, <3>1, CoinFields DEF TypeInv, TypeOK
      <4>2. QED
        BY <1>4, <3>1, <4>1
    <3>3. QED
      BY <2>1, <3>1, <3>2 DEF StoreInv, SpentFit
  <2>2. QED
    BY <1>1, <1>4, <2>1 DEF SpentFit
<1>9. QED
  BY <1>6, <1>7, <1>8 DEF StoreInv

LEMMA NodeCrashStore ==
  ASSUME TypeInv, TypeInv', StoreInv, NodeCrashes
  PROVE  StoreInv'
<1>1. /\ job'["block"] = Idle /\ job["block"].stage # "undo"
      /\ UNCHANGED <<store, chain, importing>>
      /\ disturbed \subseteq disturbed'
  BY JobNames, NodeCrashTypes DEF NodeCrashes
<1>2. ~Minting' /\ ~Writing'
  BY <1>1, IdleFields DEF Minting, Writing, Importing
<1>3. QED
  BY <1>1, <1>2, StoreUnchanged DEF store

LEMMA InitStore ==
  ASSUME Init
  PROVE  StoreInv
<1>1. /\ coins = [c \in Coins |->
                     IF c \in Outputs(Base) THEN NewCoin(c, 1) ELSE None]
      /\ txs = [t \in Txs |->
                   IF t \in Base THEN [height |-> 1, tag |-> FALSE] ELSE None]
      /\ chain = <<Base>> /\ job = [j \in Jobs |-> Idle]
  BY DEF Init
<1>2. Height = 1 /\ chain[1] = Base /\ Base \in SUBSET Txs
  BY <1>1, CoinAssumption DEF Height
<1>3. \A t \in Base : Spends[t] = {}
  BY CoinAssumption
<1>4. TypeInv
  BY InitTypes
<1>5. ~Minting /\ ~Writing
  BY <1>1, JobNames, IdleFields DEF Minting, Writing, Importing
<1>6. ChainFits /\ BlockStands
  BY <1>2, <1>3, <1>5 DEF ChainFits, BlockStands
<1>7. ASSUME NEW c \in Coins, coins[c] # None
      PROVE  c \in Outputs(Base) /\ coins[c].mint = 1 /\ coins[c].spent = Unspent
  BY <1>1, <1>7 DEF NewCoin
<1>8. ChainStands
  <2>1. ASSUME NEW t \in Base
        PROVE  MintStands(t, 1) /\ SpendStands(t, 1) /\ TxStands(t, 1)
    <3>1. t \in Txs
      BY <1>2
    <3>2. ASSUME NEW c \in Mints[t]
          PROVE  coins[c] # None /\ coins[c].mint = 1
      <4>1. c \in Coins /\ c \in Outputs(Base)
        BY <1>2, <3>1, InputsTyped
      <4>2. coins[c] = NewCoin(c, 1)
        BY <1>1, <4>1
      <4>3. 1 \in Heights
        BY Constants DEF Heights
      <4>4. NewCoin(c, 1) \in CoinDocs
        BY <4>3 DEF NewCoin, CoinDocs
      <4>5. QED
        BY <1>7, <4>1, <4>2, <4>4, NoneAssumption
    <3>3. txs[t] # None /\ txs[t].height = 1
      <4>1. txs[t] = [height |-> 1, tag |-> FALSE]
        BY <1>1, <3>1
      <4>2. 1 \in Heights
        BY Constants DEF Heights
      <4>3. [height |-> 1, tag |-> FALSE] \in TxDocs
        BY <4>2 DEF TxDocs
      <4>4. txs[t] \in TxDocs /\ txs[t].height = 1
        BY <4>1, <4>3
      <4>5. QED
        BY <4>4, NoneAssumption
    <3>4. QED
      BY <1>3, <3>2, <3>3 DEF MintStands, SpendStands, TxStands
  <2>2. \A h \in 1 .. 1 : h = 1
    OBVIOUS
  <2>3. QED
    BY <1>2, <2>1, <2>2 DEF ChainStands
<1>9. SpentFit
  BY <1>7 DEF SpentFit, Unspent
<1>10. QED
  BY <1>6, <1>8, <1>9 DEF StoreInv

LEMMA StepStore ==
  ASSUME TypeInv, StoreInv, [Next]_vars
  PROVE  StoreInv'
<1>1. TypeInv'
  BY StepTypes
<1>2. CASE UNCHANGED vars
  BY <1>2, StoreUnchanged DEF vars, Minting, Writing
<1>3. CASE Next
  <2>1. CASE \E T \in SUBSET Txs : BlockArrives(T)
    BY <1>1, <2>1, BlockArrivesStore
  <2>2. CASE \E r \in Relays, t \in Txs : TxArrives(r, t)
    BY <1>1, <2>2, TxArrivesStore
  <2>3. CASE \E j \in Relays \cup {"block"} : Import(j)
    BY <1>1, <2>3, MintStore, FindStore, SpendStore, WriteStore DEF Import
  <2>4. CASE \E j \in Jobs : Prune(j)
    BY <1>1, <2>4, RelateStore, MarkStore DEF Prune
  <2>5. CASE \E h \in 2 .. Height : Reorg(h)
    BY <1>1, <2>5, ReorgStore
  <2>6. CASE \E m \in {"txs", "coins"} : UndoMined(m)
    BY <1>1, <2>6, UndoMinedStore
  <2>7. CASE UndoSpends
    BY <1>1, <2>7, UndoSpendsStore
  <2>8. CASE \E t \in Txs : PruneTx(t)
    <3>1. job'["block"] = job["block"] /\ UNCHANGED <<store, chain, importing, disturbed>>
      BY <2>8, JobNames, PruneTypes DEF NodeSame
    <3>2. QED
      BY <3>1, StoreUnchanged DEF Minting, Writing, store
  <2>9. CASE NodeCrashes
    BY <1>1, <2>9, NodeCrashStore
  <2>10. CASE PrunerCrashes
    <3>1. job'["block"] = job["block"] /\ UNCHANGED <<store, chain, importing>>
          /\ disturbed \subseteq disturbed'
      BY <2>10, JobNames, PrunerCrashTypes DEF NodeSame, PrunerCrashes
    <3>2. QED
      BY <3>1, StoreUnchanged DEF Minting, Writing, store
  <2>11. QED
    BY <1>3, <2>1, <2>2, <2>3, <2>4, <2>5, <2>6, <2>7, <2>8, <2>9, <2>10 DEF Next
<1>4. QED
  BY <1>2, <1>3

\* When no block is on its way in or out, what the chain spends is stored as
\* spent by it, and its transactions and coins stand at their heights unless
\* they are disturbed: batchImport, pruneMempool, handleReorg and the pruning
\* service do not undo each other's confirmed work.
THEOREM ConfirmedStandsAlways == Spec => []ConfirmedStands
<1>1. Init => TypeInv /\ StoreInv
  BY InitTypes, InitStore
<1>2. TypeInv /\ StoreInv /\ [Next]_vars => TypeInv' /\ StoreInv'
  BY StepTypes, StepStore
<1>3. TypeInv /\ StoreInv => ConfirmedStands
  BY DEF StoreInv, ChainStands, MintStands, SpendStands, TxStands,
         ConfirmedStands, StoredAt
<1>4. QED
  BY <1>1, <1>2, <1>3, PTL DEF Spec

-----------------------------------------------------------------------------
(***************************************************************************)
(* The two collections                                                     *)
(***************************************************************************)

Undoing(m) == job["block"].stage = "undo" /\ m \in job["block"].marks

\* Only what is mined, is about to be or is being rolled back has a height.
MinedFit ==
  \A t \in Txs :
    /\ txs[t] # None /\ txs[t].height > 0 =>
         \/ txs[t].height <= Height /\ t \in chain[txs[t].height]
         \/ txs[t].height > Height /\ Undoing("txs")
    /\ \A c \in Mints[t] : coins[c] # None /\ coins[c].mint > 0 =>
         \/ coins[c].mint <= Height /\ t \in chain[coins[c].mint]
         \/ coins[c].mint = Height + 1 /\ t \in importing
         \/ coins[c].mint > Height /\ Undoing("coins")

\* The heights of a transaction and of a coin as a rollback that goes on will
\* leave them; 0 is not to be stored.
KeptHeight(t) ==
  IF txs[t] = None THEN 0 ELSE IF txs[t].height > Height THEN 0 ELSE txs[t].height
KeptMint(c) ==
  IF coins[c] = None THEN 0 ELSE IF coins[c].mint > Height THEN 0 ELSE coins[c].mint

Agree(t) == \A c \in Mints[t] : KeptMint(c) = KeptHeight(t)

IsOld(j) == j = "pruner" /\ job[j].height = Pending

HalfMarks(j, t) == t \in job[j].related /\ Cardinality(job[j].marks) = 1

\* An update has been made where the height is done, and has still to be made
\* where it is left.
HalfDone(old, done, left) ==
  IF old THEN done # Pending /\ (left = done \/ (done = 0 /\ left = Pending))
  ELSE done \in {0, Conflicting} /\ (done = 0 <=> left = 0)

\* What job j has left to do will make the collections agree about t.
Settles(j, t) ==
  \A c \in Mints[t] :
    IF "txs" \in job[j].marks
    THEN HalfDone(IsOld(j), KeptMint(c), KeptHeight(t))
    ELSE HalfDone(IsOld(j), KeptHeight(t), KeptMint(c))

AgreeAt(t) ==
  /\ (\A j \in Jobs : ~HalfMarks(j, t)) => Agree(t)
  /\ \A j \in Jobs : HalfMarks(j, t) => Settles(j, t)

AgreeFit ==
  \A t \in Txs : t \notin disturbed /\ t \notin Unsettled /\ t \notin OnChain =>
    AgreeAt(t)

\* What a relay imports has no height and is not half marked; once its
\* outputs are stored they are what the transaction is, or is going to be.
RelayAt(r, t) ==
  /\ \A j \in Jobs : ~HalfMarks(j, t)
  /\ txs[t] # None => txs[t].height < 0
  /\ \A c \in Mints[t] :
       /\ txs[t] # None \/ job[r].stage # "mint" => coins[c] # None
       /\ coins[c] # None =>
            coins[c].mint = IF txs[t] = None THEN Pending ELSE txs[t].height

RelayFit ==
  \A r \in Relays : \A t \in job[r].txs :
    t \notin disturbed /\ t \notin OnChain /\ t \notin importing => RelayAt(r, t)

AgreeInv == MinedFit /\ AgreeFit /\ RelayFit

LEMMA MarkSizes ==
  /\ Cardinality({}) = 0 /\ Cardinality({"txs"}) = 1 /\ Cardinality({"coins"}) = 1
  /\ Cardinality({"txs", "coins"}) = 2
<1>1. Cardinality({}) = 0 /\ Cardinality({"txs"}) = 1 /\ Cardinality({"coins"}) = 1
  BY FS_EmptySet, FS_Singleton
<1>2. IsFiniteSet({"txs"}) /\ "coins" \notin {"txs"}
  BY FS_Singleton
<1>3. Cardinality({"txs"} \cup {"coins"}) = 2
  BY <1>1, <1>2, FS_AddElement
<1>4. {"txs"} \cup {"coins"} = {"txs", "coins"}
  OBVIOUS
<1>5. QED
  BY <1>1, <1>3, <1>4

LEMMA OneMark ==
  ASSUME TypeInv, NEW j \in Jobs, NEW t
  PROVE  /\ HalfMarks(j, t) <=> /\ t \in job[j].related
                                /\ job[j].marks = {"txs"} \/ job[j].marks = {"coins"}
         /\ HalfMarks(j, t) => j # "block" \/ job["block"].stage # "undo"
         /\ HalfMarks(j, t) => job[j].stage = "mark"
<1> DEFINE m == job[j].marks
<1>1. m \subseteq {"txs", "coins"}
  BY ImportingTxs, JobFields
<1>2. m = {} \/ m = {"txs"} \/ m = {"coins"} \/ m = {"txs", "coins"}
  BY <1>1
<1>5. Cardinality(m) = 1 <=> m = {"txs"} \/ m = {"coins"}
  <2> HIDE DEF m
  <2>1. {"txs", "coins"} # {"txs"} /\ {"txs", "coins"} # {"coins"}
        /\ {"txs"} # {} /\ {"coins"} # {}
    OBVIOUS
  <2>2. QED
    BY <1>2, MarkSizes, <2>1
<1>6. HalfMarks(j, t) <=> t \in job[j].related /\ (m = {"txs"} \/ m = {"coins"})
  BY <1>5 DEF HalfMarks
<1>7. HalfMarks(j, t) => m # {} /\ job[j].related # {}
  BY <1>6
<1>8. QED
  BY <1>6, <1>7, ImportingTxs DEF TypeInv, MarksFit

LEMMA HalfMarkedIff ==
  ASSUME NEW J, NEW t
  PROVE  t \in HalfMarked(J) <=> \E j \in J : HalfMarks(j, t)
BY DEF HalfMarked, HalfMarks

\* The heights of documents that no block has written are kept.
LEMMA LowKept ==
  ASSUME TypeInv, NEW t \in Txs,
         txs[t] # None => ~(txs[t].height > 0),
         \A c \in Mints[t] : coins[c] # None => ~(coins[c].mint > 0)
  PROVE  /\ txs[t] # None => txs[t].height \in {Pending, Conflicting}
         /\ KeptHeight(t) = IF txs[t] = None THEN 0 ELSE txs[t].height
         /\ \A c \in Mints[t] :
               /\ coins[c] # None => coins[c].mint \in {Pending, Conflicting}
               /\ KeptMint(c) = IF coins[c] = None THEN 0 ELSE coins[c].mint
<1>1. Height \in Nat
  BY ChainTxs
<1>2. txs[t] # None => txs[t].height \in {Pending, Conflicting}
  BY TxFields DEF Heights, TypeInv, TypeOK
<1>3. ASSUME NEW c \in Mints[t], coins[c] # None
      PROVE  coins[c].mint \in {Pending, Conflicting}
  <2>1. c \in Coins /\ coins[c] \in CoinDocs
    BY <1>3, CoinAssumption DEF TypeInv, TypeOK
  <2>2. QED
    BY <1>3, <2>1, CoinFields DEF Heights
<1>4. \A x \in {Pending, Conflicting} : ~(x > Height)
  BY <1>1 DEF Pending, Conflicting
<1>5. QED
  BY <1>2, <1>3, <1>4 DEF KeptHeight, KeptMint

\* A document of what is not mined, imported or rolled back has no height.
LEMMA Unmined ==
  ASSUME TypeInv, MinedFit, job["block"].stage # "undo",
         NEW t \in Txs, t \notin OnChain, t \notin importing
  PROVE  /\ txs[t] # None => txs[t].height \in {Pending, Conflicting}
         /\ KeptHeight(t) = IF txs[t] = None THEN 0 ELSE txs[t].height
         /\ \A c \in Mints[t] :
               /\ coins[c] # None => coins[c].mint \in {Pending, Conflicting}
               /\ KeptMint(c) = IF coins[c] = None THEN 0 ELSE coins[c].mint
<1>1. \A h \in Int : h > 0 /\ h <= Height => t \notin chain[h]
  <2>1. \A h \in Int : h > 0 /\ h <= Height => h \in 1 .. Height
    BY ChainTxs
  <2>2. QED
    BY <2>1, ChainTxs
<1>2. txs[t] # None => ~(txs[t].height > 0)
  <2>1. txs[t] # None => txs[t].height \in Int
    BY TxFields DEF TypeInv, TypeOK
  <2>2. QED
    BY <1>1, <2>1 DEF MinedFit, Undoing
<1>3. \A c \in Mints[t] : coins[c] # None => ~(coins[c].mint > 0)
  <2>1. \A c \in Mints[t] : coins[c] # None => coins[c].mint \in Int
    BY CoinFields, CoinAssumption DEF TypeInv, TypeOK
  <2>2. QED
    BY <1>1, <2>1 DEF MinedFit, Undoing
<1>4. QED
  BY <1>2, <1>3, LowKept

\* Steps that give no new heights.
LEMMA MinedKept ==
  ASSUME TypeInv, MinedFit, chain' = chain, importing' = importing,
         \A m \in {"txs", "coins"} : Undoing(m) => Undoing(m)',
         \A t \in Txs : txs'[t] # None /\ txs'[t].height > 0 =>
            txs[t] # None /\ txs'[t].height = txs[t].height,
         \A c \in Coins : coins'[c] # None /\ coins'[c].mint > 0 =>
            coins[c] # None /\ coins'[c].mint = coins[c].mint
  PROVE  MinedFit'
<1>1. Height' = Height /\ OnChain' = OnChain
  BY DEF Height, OnChain
<1>2. ASSUME NEW t \in Txs, txs'[t] # None, txs'[t].height > 0
      PROVE  \/ txs'[t].height <= Height /\ t \in chain[txs'[t].height]
             \/ txs'[t].height > Height /\ Undoing("txs")'
  BY <1>2 DEF MinedFit
<1>3. ASSUME NEW t \in Txs, NEW c \in Mints[t], coins'[c] # None, coins'[c].mint > 0
      PROVE  \/ coins'[c].mint <= Height /\ t \in chain[coins'[c].mint]
             \/ coins'[c].mint = Height + 1 /\ t \in importing
             \/ coins'[c].mint > Height /\ Undoing("coins")'
  <2>1. c \in Coins
    BY CoinAssumption
  <2>2. QED
    BY <1>3, <2>1 DEF MinedFit
<1>4. QED
  BY <1>1, <1>2, <1>3 DEF MinedFit

\* What is not touched agrees as before.
LEMMA AgreeSame ==
  ASSUME NEW t \in Txs, AgreeAt(t),
         KeptHeight(t)' = KeptHeight(t),
         \A c \in Mints[t] : KeptMint(c)' = KeptMint(c),
         \A j \in Jobs :
            /\ HalfMarks(j, t)' <=> HalfMarks(j, t)
            /\ HalfMarks(j, t) => /\ job'[j].marks = job[j].marks
                                  /\ job'[j].height = job[j].height
  PROVE  AgreeAt(t)'
<1>1. Agree(t)' <=> Agree(t)
  BY DEF Agree
<1>2. ASSUME NEW j \in Jobs, HalfMarks(j, t)
      PROVE  Settles(j, t)'
  <2>1. Settles(j, t)
    BY <1>2 DEF AgreeAt
  <2>2. job'[j].marks = job[j].marks /\ job'[j].height = job[j].height
    BY <1>2
  <2>3. IsOld(j)' <=> IsOld(j)
    BY <2>2 DEF IsOld
  <2>4. ASSUME NEW c \in Mints[t]
        PROVE  IF "txs" \in job'[j].marks
               THEN HalfDone(IsOld(j)', KeptMint(c)', KeptHeight(t)')
               ELSE HalfDone(IsOld(j)', KeptHeight(t)', KeptMint(c)')
    <3>1. IF "txs" \in job[j].marks
          THEN HalfDone(IsOld(j), KeptMint(c), KeptHeight(t))
          ELSE HalfDone(IsOld(j), KeptHeight(t), KeptMint(c))
      BY <2>1 DEF Settles
    <3>2. KeptMint(c)' = KeptMint(c) /\ KeptHeight(t)' = KeptHeight(t)
      OBVIOUS
    <3>3. QED
      BY <2>2, <2>3, <3>1, <3>2 DEF HalfDone
  <2>5. QED
    BY <2>4 DEF Settles
<1>3. QED
  BY <1>1, <1>2 DEF AgreeAt

LEMMA RelaySame ==
  ASSUME NEW r \in Relays, NEW t \in Txs, RelayAt(r, t),
         job'[r].stage = "mint" <=> job[r].stage = "mint",
         txs'[t] = txs[t],
         \A c \in Mints[t] :
            /\ coins'[c] # None <=> coins[c] # None
            /\ coins'[c] # None => coins'[c].mint = coins[c].mint,
         \A j \in Jobs : HalfMarks(j, t)' => HalfMarks(j, t)
  PROVE  RelayAt(r, t)'
BY DEF RelayAt

\* Steps that write no heights, and do not begin or end an import.
LEMMA AgreeUnchanged ==
  ASSUME TypeInv, TypeInv', AgreeInv, chain' = chain, importing' = importing,
         txs' = txs,
         \A c \in Coins : /\ coins'[c] # None <=> coins[c] # None
                          /\ coins'[c] # None => coins'[c].mint = coins[c].mint,
         \A m \in {"txs", "coins"} : Undoing(m) => Undoing(m)',
         disturbed \subseteq disturbed',
         \A r \in Relays :
            /\ job'[r].txs = job[r].txs
            /\ job'[r].stage = "mint" <=> job[r].stage = "mint",
         \A j \in Jobs : \A t \in Txs : t \notin disturbed' =>
            /\ HalfMarks(j, t)' <=> HalfMarks(j, t)
            /\ HalfMarks(j, t) => /\ job'[j].marks = job[j].marks
                                  /\ job'[j].height = job[j].height
  PROVE  AgreeInv'
<1>1. Height' = Height /\ OnChain' = OnChain /\ Unsettled' = Unsettled
  <2>1. UNION {job'[r].txs : r \in Relays} = UNION {job[r].txs : r \in Relays}
    OBVIOUS
  <2>2. QED
    BY <2>1 DEF Height, OnChain, Unsettled
<1>2. MinedFit'
  BY MinedKept DEF AgreeInv
<1>3. ASSUME NEW t \in Txs
      PROVE  /\ KeptHeight(t)' = KeptHeight(t)
             /\ \A c \in Mints[t] : KeptMint(c)' = KeptMint(c)
  BY <1>1, CoinAssumption DEF KeptHeight, KeptMint
<1>4. AgreeFit'
  <2>1. ASSUME NEW t \in Txs, t \notin disturbed', t \notin Unsettled, t \notin OnChain
        PROVE  AgreeAt(t)'
    <3>1. AgreeAt(t)
      BY <2>1 DEF AgreeInv, AgreeFit
    <3>2. QED
      BY <1>3, <2>1, <3>1, AgreeSame
  <2>2. QED
    BY <1>1, <2>1 DEF AgreeFit
<1>5. RelayFit'
  <2>1. ASSUME NEW r \in Relays, NEW t \in job[r].txs,
               t \notin disturbed', t \notin OnChain, t \notin importing
        PROVE  RelayAt(r, t)'
    <3>1. t \in Txs
      BY ImportingTxs, JobNames
    <3>2. RelayAt(r, t)
      BY <2>1 DEF AgreeInv, RelayFit
    <3>3. \A c \in Mints[t] : c \in Coins
      BY <3>1, CoinAssumption
    <3>4. QED
      BY <2>1, <3>1, <3>2, <3>3, RelaySame
  <2>2. QED
    BY <1>1, <2>1 DEF RelayFit
<1>6. QED
  BY <1>2, <1>4, <1>5 DEF AgreeInv

\* A job that is not marking half marks nothing.
LEMMA NotMarking ==
  ASSUME NEW j, NEW t, job[j].marks \in {{}, {"txs", "coins"}} \/ job[j].related = {}
  PROVE  ~HalfMarks(j, t)
<1>1. CASE job[j].related = {}
  BY <1>1 DEF HalfMarks
<1>2. CASE job[j].marks = {}
  BY <1>2, MarkSizes DEF HalfMarks
<1>3. CASE job[j].marks = {"txs", "coins"}
  BY <1>3, MarkSizes DEF HalfMarks
<1>4. QED
  BY <1>1, <1>2, <1>3

LEMMA FindAgree ==
  ASSUME TypeInv, TypeInv', StoreInv, AgreeInv, NEW j \in Relays \cup {"block"},
         FindRivals(j)
  PROVE  AgreeInv'
<1>1. j \in Jobs /\ job[j].stage = "find" /\ job[j].marks = {}
      /\ UNCHANGED <<chain, importing, txs, coins, disturbed>>
  BY JobNames, FindGoesOn DEF NodeSame, store
<1>2. PICK r \in JobDocs :
        /\ job' = [job EXCEPT ![j] = r]
        /\ r.txs = job[j].txs /\ r.height = job[j].height
        /\ r.marks = {} /\ r.stage \in {"spend", "relate"}
  BY <1>1, FindGoesOn
<1>3. job'[j] = r /\ \A k \in Jobs \ {j} : job'[k] = job[k]
  BY <1>1, <1>2, JobStep DEF TypeInv, TypeOK
<1>4. \A t : ~HalfMarks(j, t) /\ ~HalfMarks(j, t)'
  BY <1>1, <1>2, <1>3, MarkSizes DEF HalfMarks
<1>5. \A m \in {"txs", "coins"} : Undoing(m) => Undoing(m)'
  BY <1>1, <1>3, JobNames DEF Undoing
<1>6. \A q \in Relays : /\ job'[q].txs = job[q].txs
                        /\ job'[q].stage = "mint" <=> job[q].stage = "mint"
  BY <1>1, <1>2, <1>3, JobNames
<1>7. ASSUME NEW k \in Jobs, NEW t \in Txs
      PROVE  /\ HalfMarks(k, t)' <=> HalfMarks(k, t)
             /\ HalfMarks(k, t) => /\ job'[k].marks = job[k].marks
                                   /\ job'[k].height = job[k].height
  BY <1>3, <1>4 DEF HalfMarks
<1>8. QED
  BY <1>1, <1>5, <1>6, <1>7, AgreeUnchanged

LEMMA RelateAgree ==
  ASSUME TypeInv, TypeInv', StoreInv, AgreeInv, NEW j \in Jobs, NEW t0 \in Txs,
         Relate(j, t0)
  PROVE  AgreeInv'
<1>1. /\ job[j].stage = "relate" /\ t0 \in job[j].walk /\ job[j].marks = {}
      /\ UNCHANGED <<chain, importing, txs, coins, disturbed>>
  BY DEF Relate, node, store, TypeInv, MarksFit, history
<1>2. PICK r \in JobDocs :
        /\ job' = [job EXCEPT ![j] = r]
        /\ r.marks \in {{}, {"txs", "coins"}}
        /\ j # "pruner" => r.txs = job[j].txs /\ r.stage \in {"relate", "mark"}
  <2>1. CASE j = "pruner" /\ \E c \in OutputsOf(t0) : Confirmed(c)
    BY <2>1, IdleFields DEF Relate
  <2>2. CASE ~(j = "pruner" /\ \E c \in OutputsOf(t0) : Confirmed(c))
    <3>1. job' = [job EXCEPT ![j] = Walked(j, t0)]
      BY <2>2 DEF Relate
    <3>2. QED
      BY <1>1, <3>1, WalkedFields DEF TypeInv
  <2>3. QED
    BY <2>1, <2>2
<1>3. job'[j] = r /\ \A k \in Jobs \ {j} : job'[k] = job[k]
  BY <1>2, JobStep DEF TypeInv, TypeOK
<1>4. \A t : ~HalfMarks(j, t)
  BY <1>1, NotMarking
<1>5. \A t : ~HalfMarks(j, t)'
  <2>1. r.marks = {} \/ r.marks = {"txs", "coins"}
    BY <1>2
  <2>2. Cardinality(r.marks) # 1
    BY <2>1, MarkSizes
  <2>3. QED
    BY <1>3, <2>2 DEF HalfMarks
<1>6. \A m \in {"txs", "coins"} : Undoing(m) => Undoing(m)'
  BY <1>1, <1>3, JobNames DEF Undoing
<1>7. \A q \in Relays : /\ job'[q].txs = job[q].txs
                        /\ job'[q].stage = "mint" <=> job[q].stage = "mint"
  BY <1>1, <1>2, <1>3, JobNames
<1>8. ASSUME NEW k \in Jobs, NEW t \in Txs
      PROVE  /\ HalfMarks(k, t)' <=> HalfMarks(k, t)
             /\ HalfMarks(k, t) => /\ job'[k].marks = job[k].marks
                                   /\ job'[k].height = job[k].height
  BY <1>3, <1>4, <1>5 DEF HalfMarks
<1>9. QED
  BY <1>1, <1>6, <1>7, <1>8, AgreeUnchanged

LEMMA PruneAgree ==
  ASSUME TypeInv, TypeInv', StoreInv, AgreeInv, NEW t0 \in Txs, PruneTx(t0)
  PROVE  AgreeInv'
<1>1. /\ UNCHANGED <<chain, importing, txs, coins, disturbed>>
      /\ job'["pruner"].marks = {}
      /\ \A k \in Jobs \ {"pruner"} : job'[k] = job[k]
      /\ job["pruner"].marks = {}
  BY PruneTypes, IdleFields DEF PruneTx, NodeSame, store
<1>2. \A t : ~HalfMarks("pruner", t) /\ ~HalfMarks("pruner", t)'
  BY <1>1, MarkSizes DEF HalfMarks
<1>3. \A m \in {"txs", "coins"} : Undoing(m) => Undoing(m)'
  BY <1>1, JobNames DEF Undoing
<1>4. \A q \in Relays : job'[q] = job[q]
  BY <1>1, JobNames
<1>5. ASSUME NEW k \in Jobs, NEW t \in Txs
      PROVE  /\ HalfMarks(k, t)' <=> HalfMarks(k, t)
             /\ HalfMarks(k, t) => /\ job'[k].marks = job[k].marks
                                   /\ job'[k].height = job[k].height
  BY <1>1, <1>2 DEF HalfMarks
<1>6. QED
  BY <1>1, <1>3, <1>4, <1>5, AgreeUnchanged

LEMMA PrunerCrashAgree ==
  ASSUME TypeInv, TypeInv', StoreInv, AgreeInv, PrunerCrashes
  PROVE  AgreeInv'
<1>1. /\ UNCHANGED <<chain, importing, txs, coins>>
      /\ disturbed' = disturbed \cup HalfMarked({"pruner"})
      /\ job'["pruner"] = Idle
      /\ \A k \in Jobs \ {"pruner"} : job'[k] = job[k]
  BY PrunerCrashTypes DEF PrunerCrashes, NodeSame, store
<1>2. \A m \in {"txs", "coins"} : Undoing(m) => Undoing(m)'
  BY <1>1, JobNames DEF Undoing
<1>3. \A q \in Relays : job'[q] = job[q]
  BY <1>1, JobNames
<1>4. \A t : ~HalfMarks("pruner", t)'
  BY <1>1, IdleFields, MarkSizes DEF HalfMarks
<1>5. \A t : HalfMarks("pruner", t) => t \in disturbed'
  BY <1>1, HalfMarkedIff
<1>6. ASSUME NEW k \in Jobs, NEW t \in Txs, t \notin disturbed'
      PROVE  /\ HalfMarks(k, t)' <=> HalfMarks(k, t)
             /\ HalfMarks(k, t) => /\ job'[k].marks = job[k].marks
                                   /\ job'[k].height = job[k].height
  BY <1>1, <1>4, <1>5, <1>6 DEF HalfMarks
<1>7. QED
  BY <1>1, <1>2, <1>3, <1>6, AgreeUnchanged

LEMMA NodeCrashAgree ==
  ASSUME TypeInv, TypeInv', StoreInv, AgreeInv, NodeCrashes
  PROVE  AgreeInv'
<1>1. /\ UNCHANGED <<chain, importing, txs, coins>>
      /\ disturbed' = disturbed \cup HalfMarked(Jobs \ {"pruner"})
                        \cup UNION {job[r].txs : r \in Relays}
      /\ job["block"].stage # "undo"
      /\ \A j \in Jobs \ {"pruner"} : job'[j] = Idle
      /\ job'["pruner"] = job["pruner"]
  BY NodeCrashTypes DEF NodeCrashes, store
<1>2. Height' = Height /\ OnChain' = OnChain
  BY <1>1 DEF Height, OnChain
<1>3. MinedFit'
  BY <1>1, MinedKept DEF Undoing, AgreeInv
<1>4. AgreeFit'
  <2>1. ASSUME NEW t \in Txs, t \notin disturbed', t \notin Unsettled', t \notin OnChain
        PROVE  AgreeAt(t)'
    <3>1. t \notin Unsettled
      BY <1>1, <2>1 DEF Unsettled
    <3>2. AgreeAt(t)
      BY <1>1, <2>1, <3>1 DEF AgreeInv, AgreeFit
    <3>3. \A j \in Jobs \ {"pruner"} : ~HalfMarks(j, t)
      BY <1>1, <2>1, HalfMarkedIff
    <3>4. \A j \in Jobs \ {"pruner"} : ~HalfMarks(j, t)'
      BY <1>1, IdleFields, MarkSizes DEF HalfMarks
    <3>5. ASSUME NEW k \in Jobs
          PROVE  /\ HalfMarks(k, t)' <=> HalfMarks(k, t)
                 /\ HalfMarks(k, t) => /\ job'[k].marks = job[k].marks
                                       /\ job'[k].height = job[k].height
      BY <1>1, <3>3, <3>4 DEF HalfMarks
    <3>6. KeptHeight(t)' = KeptHeight(t) /\ \A c \in Mints[t] : KeptMint(c)' = KeptMint(c)
      BY <1>1, <1>2 DEF KeptHeight, KeptMint
    <3>7. QED
      BY <3>2, <3>5, <3>6, AgreeSame
  <2>2. QED
    BY <1>2, <2>1 DEF AgreeFit
<1>5. RelayFit'
  <2>1. \A r \in Relays : job'[r].txs = {}
    BY <1>1, JobNames, IdleFields
  <2>2. QED
    BY <2>1 DEF RelayFit
<1>6. QED
  BY <1>3, <1>4, <1>5 DEF AgreeInv

LEMMA SpendAgree ==
  ASSUME TypeInv, TypeInv', StoreInv, AgreeInv, NEW j \in Relays \cup {"block"},
         Spend(j)
  PROVE  AgreeInv'
<1>1. /\ j \in Jobs /\ job[j].stage = "spend" /\ job[j].marks = {}
      /\ job[j].txs \in SUBSET Txs
      /\ job[j].height \in {Pending} \cup 1 .. MaxHeight
      /\ UNCHANGED <<chain, importing, txs>>
      /\ disturbed \subseteq disturbed'
      /\ coins' = SpentBy(job[j].txs, job[j].height)
  BY JobNames, ImportingTxs, SpendGoesOn DEF Spend, Importing, node, TypeInv, MarksFit
<1>2. PICK r \in JobDocs :
        /\ job' = [job EXCEPT ![j] = r]
        /\ r.stage = "write" /\ r.marks = job[j].marks
        /\ r.txs = job[j].txs /\ r.height = job[j].height
  BY <1>1, SpendGoesOn
<1>3. job'[j] = r /\ \A k \in Jobs \ {j} : job'[k] = job[k]
  BY <1>1, <1>2, JobStep DEF TypeInv, TypeOK
<1>4. \A t : ~HalfMarks(j, t) /\ ~HalfMarks(j, t)'
  BY <1>1, <1>2, <1>3, MarkSizes DEF HalfMarks
<1>5. \A m \in {"txs", "coins"} : Undoing(m) => Undoing(m)'
  BY <1>1, <1>3, JobNames DEF Undoing
<1>6. \A q \in Relays : /\ job'[q].txs = job[q].txs
                        /\ job'[q].stage = "mint" <=> job[q].stage = "mint"
  BY <1>1, <1>2, <1>3, JobNames
<1>7. ASSUME NEW k \in Jobs, NEW t \in Txs
      PROVE  /\ HalfMarks(k, t)' <=> HalfMarks(k, t)
             /\ HalfMarks(k, t) => /\ job'[k].marks = job[k].marks
                                   /\ job'[k].height = job[k].height
  BY <1>3, <1>4 DEF HalfMarks
<1>8. ASSUME NEW c \in Coins
      PROVE  /\ coins'[c] # None <=> coins[c] # None
             /\ coins'[c] # None => coins'[c].mint = coins[c].mint
  <2>1. PICK T \in SUBSET Txs : T = job[j].txs
    BY <1>1
  <2>2. PICK h \in {Pending} \cup 1 .. MaxHeight : h = job[j].height
    BY <1>1
  <2>3. coins' = SpentBy(T, h)
    BY <1>1, <2>1, <2>2
  <2>4. CASE c \in Inputs(T) /\ Spendable(c)
    <3>1. SpentBy(T, h)[c] # None /\ SpentBy(T, h)[c].mint = coins[c].mint
      BY <2>4, SpentByFields DEF TypeInv
    <3>2. coins[c] # None
      BY <2>4 DEF Spendable
    <3>3. QED
      BY <2>3, <3>1, <3>2
  <2>5. CASE ~(c \in Inputs(T) /\ Spendable(c))
    <3>1. SpentBy(T, h)[c] = coins[c]
      BY <2>5, SpentByFields DEF TypeInv
    <3>2. QED
      BY <2>3, <3>1
  <2>6. QED
    BY <2>4, <2>5
<1>9. QED
  BY <1>1, <1>5, <1>6, <1>7, <1>8, AgreeUnchanged

LEMMA UndoSpendsAgree ==
  ASSUME TypeInv, TypeInv', StoreInv, AgreeInv, UndoSpends
  PROVE  AgreeInv'
<1>1. /\ UNCHANGED <<chain, importing, txs, disturbed>>
      /\ job["block"].stage = "undo" /\ job["block"].marks = {}
      /\ job' = [job EXCEPT !["block"] = Idle]
  BY DEF UndoSpends, node, history
<1>2. job'["block"] = Idle /\ \A k \in Jobs \ {"block"} : job'[k] = job[k]
  BY <1>1, JobNames, IdleFields, JobStep DEF TypeInv, TypeOK
<1>3. \A t : ~HalfMarks("block", t) /\ ~HalfMarks("block", t)'
  BY <1>1, <1>2, IdleFields, MarkSizes DEF HalfMarks
<1>4. \A m \in {"txs", "coins"} : ~Undoing(m)
  BY <1>1 DEF Undoing
<1>5. \A q \in Relays : job'[q] = job[q]
  BY <1>2, JobNames
<1>6. ASSUME NEW k \in Jobs, NEW t \in Txs
      PROVE  /\ HalfMarks(k, t)' <=> HalfMarks(k, t)
             /\ HalfMarks(k, t) => /\ job'[k].marks = job[k].marks
                                   /\ job'[k].height = job[k].height
  BY <1>2, <1>3 DEF HalfMarks
<1>7. ASSUME NEW c \in Coins
      PROVE  /\ coins'[c] # None <=> coins[c] # None
             /\ coins'[c] # None => coins'[c].mint = coins[c].mint
  BY UndoSpendsGoesOn, NoneAssumption
<1>8. QED
  BY <1>1, <1>4, <1>5, <1>6, <1>7, AgreeUnchanged

LEMMA BlockArrivesAgree ==
  ASSUME TypeInv, TypeInv', StoreInv, AgreeInv, NEW T \in SUBSET Txs,
         BlockArrives(T)
  PROVE  AgreeInv'
<1>1. /\ job["block"] = Idle /\ importing' = T /\ importing \subseteq T
      /\ disturbed' = disturbed \ T
      /\ chain' = chain /\ coins' = coins /\ txs' = txs
      /\ Begin("block", T, Height + 1)
  BY DEF BlockArrives, NewHeight, store
<1>2. Height + 1 \in Heights
  BY Constants DEF BlockArrives, TypeInv, TypeOK, Height, Heights
<1>3. /\ job'["block"].stage = "mint" /\ job'["block"].marks = {}
      /\ \A k \in Jobs \ {"block"} : job'[k] = job[k]
  BY <1>1, <1>2, JobNames, BeginFields
<1>4. Height' = Height /\ OnChain' = OnChain /\ \A m : ~Undoing(m)
  BY <1>1, IdleFields DEF Height, OnChain, Undoing
<1>5. \A q \in Relays : job'[q] = job[q]
  BY <1>3, JobNames
<1>6. \A t : ~HalfMarks("block", t) /\ ~HalfMarks("block", t)'
  BY <1>1, <1>3, IdleFields, MarkSizes DEF HalfMarks
<1>7. ASSUME NEW k \in Jobs, NEW t
      PROVE  /\ HalfMarks(k, t)' <=> HalfMarks(k, t)
             /\ HalfMarks(k, t) => /\ job'[k].marks = job[k].marks
                                   /\ job'[k].height = job[k].height
  BY <1>3, <1>6 DEF HalfMarks
<1>8. MinedFit'
  BY <1>1, <1>4 DEF AgreeInv, MinedFit
<1>9. AgreeFit'
  <2>1. ASSUME NEW t \in Txs, t \notin disturbed', t \notin Unsettled', t \notin OnChain
        PROVE  AgreeAt(t)'
    <3>1. t \notin disturbed /\ t \notin Unsettled
      BY <1>1, <1>5, <2>1 DEF Unsettled
    <3>2. AgreeAt(t)
      BY <2>1, <3>1 DEF AgreeInv, AgreeFit
    <3>3. KeptHeight(t)' = KeptHeight(t) /\ \A c \in Mints[t] : KeptMint(c)' = KeptMint(c)
      BY <1>1, <1>4 DEF KeptHeight, KeptMint
    <3>4. QED
      BY <1>7, <3>2, <3>3, AgreeSame
  <2>2. QED
    BY <1>4, <2>1 DEF AgreeFit
<1>10. RelayFit'
  <2>1. ASSUME NEW r \in Relays, NEW t \in job[r].txs,
               t \notin disturbed', t \notin OnChain, t \notin T
        PROVE  RelayAt(r, t)'
    <3>1. t \in Txs /\ t \notin disturbed /\ t \notin importing
      BY <1>1, <2>1, ImportingTxs, JobNames
    <3>2. RelayAt(r, t)
      BY <2>1, <3>1 DEF AgreeInv, RelayFit
    <3>3. QED
      BY <1>1, <1>5, <1>7, <3>1, <3>2, RelaySame
  <2>2. QED
    BY <1>1, <1>4, <1>5, <2>1 DEF RelayFit
<1>11. QED
  BY <1>8, <1>9, <1>10 DEF AgreeInv

LEMMA TxArrivesAgree ==
  ASSUME TypeInv, TypeInv', StoreInv, AgreeInv, NEW r \in Relays, NEW t0 \in Txs,
         TxArrives(r, t0)
  PROVE  AgreeInv'
<1>1. /\ job[r] = Idle /\ t0 \notin inv /\ t0 \notin OnChain
      /\ UNCHANGED <<coins, txs, chain, importing>>
      /\ Begin(r, {t0}, Pending)
      /\ \A t : t # t0 => (t \in disturbed' <=> t \in disturbed)
  BY DEF TxArrives, store
<1>2. r \in Jobs /\ r # "block" /\ {t0} \in SUBSET Txs /\ Pending \in Heights
  BY JobNames, Constants
<1>3. /\ job'[r].stage = "mint" /\ job'[r].txs = {t0} /\ job'[r].marks = {}
      /\ \A k \in Jobs \ {r} : job'[k] = job[k]
  BY <1>1, <1>2, BeginFields
<1>4. Height' = Height /\ OnChain' = OnChain /\ \A m : Undoing(m)' <=> Undoing(m)
  BY <1>1, <1>2, <1>3, JobNames DEF Height, OnChain, Undoing
<1>5. \A q \in Relays \ {r} : job'[q] = job[q] /\ t0 \notin job[q].txs
  BY <1>1, <1>3, JobNames DEF TypeInv, MarksFit
<1>6. \A t : ~HalfMarks(r, t) /\ ~HalfMarks(r, t)'
  BY <1>1, <1>3, IdleFields, MarkSizes DEF HalfMarks
<1>7. ASSUME NEW k \in Jobs, NEW t
      PROVE  /\ HalfMarks(k, t)' <=> HalfMarks(k, t)
             /\ HalfMarks(k, t) => /\ job'[k].marks = job[k].marks
                                   /\ job'[k].height = job[k].height
  BY <1>3, <1>6 DEF HalfMarks
<1>8. MinedFit'
  BY <1>1, <1>4 DEF AgreeInv, MinedFit
<1>9. ASSUME NEW t \in Txs
      PROVE  KeptHeight(t)' = KeptHeight(t) /\ \A c \in Mints[t] : KeptMint(c)' = KeptMint(c)
  BY <1>1, <1>4 DEF KeptHeight, KeptMint
<1>10. AgreeFit'
  <2>1. ASSUME NEW t \in Txs, t \notin disturbed', t \notin Unsettled', t \notin OnChain
        PROVE  AgreeAt(t)'
    <3>1. t # t0
      BY <1>3, <2>1 DEF Unsettled
    <3>2. t \notin Unsettled
      <4>1. t \notin importing /\ \A q \in Relays : t \notin job'[q].txs
        BY <1>1, <2>1 DEF Unsettled
      <4>2. \A q \in Relays : t \notin job[q].txs
        BY <1>1, <1>5, <4>1, IdleFields
      <4>3. QED
        BY <4>1, <4>2 DEF Unsettled
    <3>3. AgreeAt(t)
      BY <1>1, <2>1, <3>1, <3>2 DEF AgreeInv, AgreeFit
    <3>4. QED
      BY <1>7, <1>9, <3>3, AgreeSame
  <2>2. QED
    BY <1>4, <2>1 DEF AgreeFit
<1>11. ASSUME t0 \notin disturbed', t0 \notin importing
       PROVE  RelayAt(r, t0)'
  <2>1. /\ t0 \notin HalfMarked(Jobs) /\ ~RollingBack(t0)
        /\ Afresh(t0) \/ t0 \notin disturbed
    BY <1>11 DEF TxArrives
  <2>2. \A k \in Jobs : ~HalfMarks(k, t0)
    BY <2>1, HalfMarkedIff
  <2>3. \A h \in Int : h > 0 /\ h <= Height => t0 \notin chain[h]
    <3>1. \A h \in Int : h > 0 /\ h <= Height => h \in 1 .. Height
      BY ChainTxs
    <3>2. QED
      BY <1>1, <3>1, ChainTxs
  <2>4. txs[t0] # None => ~(txs[t0].height > 0)
    <3>1. txs[t0] # None => txs[t0].height \in Int
      BY TxFields DEF TypeInv, TypeOK
    <3>2. txs[t0] # None /\ txs[t0].height > Height => job["block"].stage # "undo"
      BY <2>1 DEF RollingBack
    <3>3. QED
      BY <2>3, <3>1, <3>2 DEF AgreeInv, MinedFit, Undoing
  <2>5. \A c \in Mints[t0] : coins[c] # None => ~(coins[c].mint > 0)
    <3>1. \A c \in Mints[t0] : coins[c] # None => coins[c].mint \in Int
      BY CoinFields, CoinAssumption DEF TypeInv, TypeOK
    <3>2. \A c \in Mints[t0] :
             coins[c] # None /\ coins[c].mint > Height => job["block"].stage # "undo"
      BY <2>1 DEF RollingBack
    <3>3. QED
      BY <1>11, <2>3, <3>1, <3>2 DEF AgreeInv, MinedFit, Undoing
  <2>6. /\ txs[t0] # None => txs[t0].height \in {Pending, Conflicting}
        /\ KeptHeight(t0) = IF txs[t0] = None THEN 0 ELSE txs[t0].height
        /\ \A c \in Mints[t0] :
              /\ coins[c] # None => coins[c].mint \in {Pending, Conflicting}
              /\ KeptMint(c) = IF coins[c] = None THEN 0 ELSE coins[c].mint
    BY <2>4, <2>5, LowKept
  <2>7. \A c \in Mints[t0] :
          /\ txs[t0] # None => coins[c] # None
          /\ coins[c] # None =>
               coins[c].mint = IF txs[t0] = None THEN Pending ELSE txs[t0].height
    <3>1. CASE Afresh(t0)
      BY <2>6, <3>1 DEF Afresh
    <3>2. CASE t0 \notin disturbed
      <4>1. t0 \notin Unsettled
        BY <1>1, <1>11 DEF Unsettled, TypeInv, MarksFit
      <4>2. Agree(t0)
        BY <1>1, <2>2, <3>2, <4>1 DEF AgreeInv, AgreeFit, AgreeAt
      <4>3. \A x \in {Pending, Conflicting} : x # 0
        BY DEF Pending, Conflicting
      <4>4. QED
        BY <2>6, <4>2, <4>3 DEF Agree
    <3>3. QED
      BY <2>1, <3>1, <3>2
  <2>8. txs[t0] # None => txs[t0].height < 0
    BY <2>6, Constants
  <2>9. QED
    BY <1>1, <1>3, <1>7, <2>2, <2>7, <2>8 DEF RelayAt
<1>12. RelayFit'
  <2>1. ASSUME NEW q \in Relays, NEW t \in job'[q].txs,
               t \notin disturbed', t \notin OnChain, t \notin importing
        PROVE  RelayAt(q, t)'
    <3>1. CASE q = r
      BY <1>3, <1>11, <2>1, <3>1
    <3>2. CASE q # r
      <4>1. t \in job[q].txs /\ t # t0 /\ t \notin disturbed /\ t \in Txs
        BY <1>1, <1>5, <2>1, <3>2, ImportingTxs, JobNames
      <4>2. RelayAt(q, t)
        BY <2>1, <4>1 DEF AgreeInv, RelayFit
      <4>3. job'[q] = job[q]
        BY <1>5, <3>2
      <4>4. QED
        BY <1>1, <1>7, <4>1, <4>2, <4>3, RelaySame
    <3>3. QED
      BY <3>1, <3>2
  <2>2. QED
    BY <1>1, <1>4, <2>1 DEF RelayFit
<1>13. QED
  BY <1>8, <1>10, <1>12 DEF AgreeInv

\* The heights of what a relay imports are not those of blocks.
LEMMA RelayKept ==
  ASSUME TypeInv, NEW r \in Relays, NEW t \in Txs, RelayAt(r, t)
  PROVE  /\ txs[t] # None => txs[t].height \in {Pending, Conflicting}
         /\ KeptHeight(t) = IF txs[t] = None THEN 0 ELSE txs[t].height
         /\ \A c \in Mints[t] :
               /\ coins[c] # None => coins[c].mint \in {Pending, Conflicting}
               /\ KeptMint(c) = IF coins[c] = None THEN 0 ELSE coins[c].mint
<1>1. txs[t] # None => ~(txs[t].height > 0)
  <2>1. txs[t] # None => txs[t].height \in Int
    BY TxFields DEF TypeInv, TypeOK
  <2>2. \A x \in Int : x < 0 => ~(x > 0)
    OBVIOUS
  <2>3. QED
    BY <2>1, <2>2 DEF RelayAt
<1>2. txs[t] # None => txs[t].height \in {Pending, Conflicting}
  BY <1>1, TxFields DEF Heights, TypeInv, TypeOK
<1>3. \A c \in Mints[t] : coins[c] # None => ~(coins[c].mint > 0)
  BY <1>2 DEF RelayAt, Pending, Conflicting
<1>4. QED
  BY <1>1, <1>3, LowKept

LEMMA MintAgree ==
  ASSUME TypeInv, TypeInv', StoreInv, AgreeInv, NEW j \in Relays \cup {"block"}, Mint(j)
  PROVE  AgreeInv'
<1> DEFINE T == job[j].txs
           h == job[j].height
           found == job[j].found
           r == [job[j] EXCEPT !.stage = "find"]
<1>1. /\ job[j] \in JobDocs /\ j \in Jobs /\ job[j].stage = "mint"
      /\ T \in SUBSET Txs /\ h \in Heights /\ job[j].marks = {}
  BY JobNames, ImportingTxs DEF Mint, TypeInv, MarksFit
<1>2. /\ chain' = chain /\ importing' = importing /\ txs' = txs
      /\ disturbed' = disturbed
      /\ job' = [job EXCEPT ![j] = r]
      /\ coins' = [c \in Coins |->
                     IF c \in Outputs(T) THEN Minted(c, h, found) ELSE coins[c]]
  BY DEF Mint, Goto, node, history
<1>3. r \in JobDocs /\ r.stage = "find" /\ r.txs = T /\ r.height = h /\ r.marks = {}
  BY <1>1, WithStage DEF Stages
<1>4. job'[j] = r /\ \A k \in Jobs \ {j} : job'[k] = job[k]
  BY <1>1, <1>2, <1>3, JobStep DEF TypeInv, TypeOK
<1>5. Height' = Height /\ OnChain' = OnChain /\ Height \in Nat
      /\ \A m : Undoing(m)' <=> Undoing(m)
  BY <1>1, <1>2, <1>3, <1>4, JobNames, ChainTxs DEF Height, OnChain, Undoing
<1>6. j \in Relays => h = Pending
  BY DEF TypeInv, JobsFit
<1>7. j = "block" => T = importing /\ h = Height + 1 /\ h # Pending
  BY <1>1, <1>5 DEF TypeInv, JobsFit, Importing, Pending
<1>8. \A q \in Relays : job'[q].txs = job[q].txs
  BY <1>3, <1>4, JobNames
<1>9. Unsettled' = Unsettled /\ T \subseteq Unsettled
  <2>1. Unsettled' = Unsettled
    BY <1>2, <1>8 DEF Unsettled
  <2>2. T \subseteq Unsettled
    BY <1>7 DEF Unsettled
  <2>3. QED
    BY <2>1, <2>2
<1>10. ASSUME NEW k \in Jobs, NEW t
       PROVE  /\ HalfMarks(k, t)' <=> HalfMarks(k, t)
              /\ HalfMarks(k, t) => /\ job'[k].marks = job[k].marks
                                    /\ job'[k].height = job[k].height
  <2>1. ~HalfMarks(j, t) /\ ~HalfMarks(j, t)'
    <3>1. job'[j].marks = {}
      BY <1>3, <1>4
    <3>2. QED
      BY <1>1, <3>1, MarkSizes DEF HalfMarks
  <2>2. k # j => job'[k] = job[k]
    BY <1>4
  <2>3. QED
    BY <2>1, <2>2 DEF HalfMarks
<1> HIDE DEF T, h, found, r
<1>11. ASSUME NEW t \in Txs, t \notin T, NEW c \in Mints[t]
       PROVE  coins'[c] = coins[c]
  <2>1. c \in Coins
    BY CoinAssumption
  <2>2. c \notin Outputs(T)
    BY <1>1, <1>11, <2>1, CoinAssumption DEF Outputs
  <2>3. QED
    BY <1>2, <2>1, <2>2
<1>12. ASSUME NEW t \in T, NEW c \in Mints[t]
       PROVE  /\ coins'[c] # None
              /\ coins'[c].mint = IF coins[c] = None \/ h # Pending THEN h
                                  ELSE coins[c].mint
  <2>1. c \in Coins /\ c \in Outputs(T)
    BY <1>1, InputsTyped
  <2>2. coins'[c] = Minted(c, h, found)
    BY <1>2, <2>1
  <2>3. QED
    BY <1>1, <2>1, <2>2, MintedFields, NoneAssumption DEF TypeInv
<1>13. MinedFit'
  <2>1. ASSUME NEW t \in Txs, NEW c \in Mints[t], coins'[c] # None, coins'[c].mint > 0
        PROVE  \/ coins'[c].mint <= Height /\ t \in chain[coins'[c].mint]
               \/ coins'[c].mint = Height + 1 /\ t \in importing
               \/ coins'[c].mint > Height /\ Undoing("coins")
    <3>1. CASE t \notin T
      BY <1>11, <2>1, <3>1 DEF AgreeInv, MinedFit
    <3>2. CASE t \in T /\ j = "block"
      BY <1>7, <1>12, <3>2
    <3>3. CASE t \in T /\ j \in Relays
      <4>1. coins[c] # None /\ coins'[c].mint = coins[c].mint
        BY <1>6, <1>12, <2>1, <3>3, Constants
      <4>2. QED
        BY <2>1, <4>1 DEF AgreeInv, MinedFit
    <3>4. QED
      BY <3>1, <3>2, <3>3
  <2>2. QED
    BY <1>2, <1>5, <2>1 DEF AgreeInv, MinedFit
<1>14. AgreeFit'
  <2>1. ASSUME NEW t \in Txs, t \notin disturbed, t \notin Unsettled, t \notin OnChain
        PROVE  AgreeAt(t)'
    <3>1. AgreeAt(t)
      BY <2>1 DEF AgreeInv, AgreeFit
    <3>2. \A c \in Mints[t] : coins'[c] = coins[c]
      BY <1>9, <1>11, <2>1
    <3>3. KeptHeight(t)' = KeptHeight(t) /\ \A c \in Mints[t] : KeptMint(c)' = KeptMint(c)
      BY <1>2, <1>5, <3>2 DEF KeptHeight, KeptMint
    <3>4. QED
      BY <1>10, <3>1, <3>3, AgreeSame
  <2>2. QED
    BY <1>2, <1>5, <1>9, <2>1 DEF AgreeFit
<1>15. RelayFit'
  <2>1. ASSUME NEW q \in Relays, NEW t \in job[q].txs,
               t \notin disturbed, t \notin OnChain, t \notin importing
        PROVE  RelayAt(q, t)'
    <3>1. t \in Txs /\ RelayAt(q, t)
      BY <2>1, ImportingTxs, JobNames DEF AgreeInv, RelayFit
    <3>2. CASE q = j
      <4>1. t \in T /\ h = Pending
        BY <1>6, <2>1, <3>2 DEF T
      <4>2. \A c \in Mints[t] :
              /\ coins'[c] # None
              /\ coins'[c].mint = IF txs[t] = None THEN Pending ELSE txs[t].height
        BY <1>12, <3>1, <4>1 DEF RelayAt
      <4>3. QED
        BY <1>2, <1>10, <3>1, <4>2 DEF RelayAt
    <3>3. CASE q # j
      <4>1. t \notin T
        <5>1. CASE j = "block"
          BY <1>7, <2>1, <5>1
        <5>2. CASE j \in Relays
          BY <2>1, <3>3, <5>2 DEF T, TypeInv, MarksFit
        <5>3. QED
          BY <5>1, <5>2
      <4>2. job'[q] = job[q]
        BY <1>4, <3>3, JobNames
      <4>3. \A c \in Mints[t] : coins'[c] = coins[c]
        BY <1>11, <3>1, <4>1
      <4>4. QED
        BY <1>2, <1>10, <3>1, <4>2, <4>3, RelaySame
    <3>4. QED
      BY <3>2, <3>3
  <2>2. QED
    BY <1>2, <1>5, <1>8, <2>1 DEF RelayFit
<1>16. QED
  BY <1>13, <1>14, <1>15 DEF AgreeInv

LEMMA RelayWriteAgree ==
  ASSUME TypeInv, TypeInv', StoreInv, AgreeInv, NEW j \in Relays, WriteTxs(j)
  PROVE  AgreeInv'
<1>1. /\ j \in Jobs /\ job[j].stage = "write" /\ job[j].txs \in SUBSET Txs
      /\ job[j].marks = {} /\ job[j].height = Pending /\ j # "block"
      /\ coins' = coins /\ disturbed' = disturbed
      /\ txs' = [t \in Txs |-> IF t \in job[j].txs THEN Written(j, t) ELSE txs[t]]
      /\ job' = [job EXCEPT ![j] = Idle]
      /\ chain' = chain /\ importing' = importing
  BY JobNames, ImportingTxs DEF WriteTxs, TypeInv, MarksFit, JobsFit, history
<1>2. job'[j] = Idle /\ \A k \in Jobs \ {j} : job'[k] = job[k]
  BY <1>1, IdleFields, JobStep DEF TypeInv, TypeOK
<1>3. Height' = Height /\ OnChain' = OnChain
      /\ \A m : Undoing(m)' <=> Undoing(m)
  BY <1>1, <1>2, JobNames DEF Height, OnChain, Undoing
<1>4. ASSUME NEW k \in Jobs, NEW t
      PROVE  /\ HalfMarks(k, t)' <=> HalfMarks(k, t)
             /\ HalfMarks(k, t) => /\ job'[k].marks = job[k].marks
                                   /\ job'[k].height = job[k].height
  <2>1. ~HalfMarks(j, t) /\ ~HalfMarks(j, t)'
    <3>1. job'[j].marks = {}
      BY <1>2, IdleFields
    <3>2. Cardinality({}) # 1
      BY MarkSizes
    <3>3. ~HalfMarks(j, t)
      BY <1>1, <3>2 DEF HalfMarks
    <3>4. ~HalfMarks(j, t)'
      BY <3>1, <3>2 DEF HalfMarks
    <3>5. QED
      BY <3>3, <3>4
  <2>2. k # j => job'[k] = job[k]
    BY <1>2
  <2>3. QED
    BY <2>1, <2>2 DEF HalfMarks
<1>5. ASSUME NEW t \in Txs
      PROVE  /\ t \notin job[j].txs \/ txs[t] # None => txs'[t] = txs[t]
             /\ t \in job[j].txs /\ txs[t] = None =>
                   txs'[t] # None /\ txs'[t].height = Pending
  <2>1. CASE t \notin job[j].txs
    BY <1>1, <2>1
  <2>2. CASE t \in job[j].txs
    <3>1. txs'[t] = Written(j, t)
      BY <1>1, <2>2
    <3>2. QED
      BY <1>1, <2>2, <3>1, WrittenFields
  <2>3. QED
    BY <2>1, <2>2
<1>6. MinedFit'
  <2>1. \A t \in Txs : txs'[t] # None /\ txs'[t].height > 0 =>
           txs[t] # None /\ txs'[t].height = txs[t].height
    BY <1>5, Constants DEF Pending
  <2>2. QED
    BY <1>1, <1>3, <2>1, MinedKept DEF AgreeInv
<1>7. AgreeFit'
  <2>1. ASSUME NEW t \in Txs, t \notin disturbed, t \notin Unsettled', t \notin OnChain
        PROVE  AgreeAt(t)'
    <3>1. t \notin importing
      BY <1>1, <2>1 DEF Unsettled
    <3>2. CASE t \in job[j].txs
      <4>1. RelayAt(j, t)
        BY <2>1, <3>1, <3>2 DEF AgreeInv, RelayFit
      <4>2. \A k \in Jobs : ~HalfMarks(k, t)'
        BY <1>4, <4>1 DEF RelayAt
      <4>3. \A c \in Mints[t] : coins[c] # None /\ coins[c].mint = txs'[t].height
        BY <1>1, <1>5, <3>2, <4>1 DEF RelayAt
      <4>4. /\ txs'[t] # None
            /\ txs'[t].height = IF txs[t] = None THEN Pending ELSE txs[t].height
        BY <1>5, <3>2
      <4>5. txs'[t].height \in {Pending, Conflicting}
        BY <4>1, <4>4, RelayKept
      <4>6. ~(txs'[t].height > Height)
        BY <4>5, ChainTxs DEF Pending, Conflicting
      <4>7. \A c \in Mints[t] : KeptMint(c)' = txs'[t].height
        BY <1>1, <1>3, <4>3, <4>6 DEF KeptMint
      <4>8. KeptHeight(t)' = txs'[t].height
        BY <1>3, <4>4, <4>6 DEF KeptHeight
      <4>9. Agree(t)'
        BY <4>7, <4>8 DEF Agree
      <4>10. QED
        BY <4>2, <4>9 DEF AgreeAt
    <3>3. CASE t \notin job[j].txs
      <4>1. t \notin Unsettled
        <5>1. \A q \in Relays : t \notin job'[q].txs
          BY <2>1 DEF Unsettled
        <5>2. \A q \in Relays : t \notin job[q].txs
          BY <1>2, <3>3, <5>1, JobNames
        <5>3. QED
          BY <3>1, <5>2 DEF Unsettled
      <4>2. AgreeAt(t)
        BY <2>1, <4>1 DEF AgreeInv, AgreeFit
      <4>3. KeptHeight(t)' = KeptHeight(t) /\ \A c \in Mints[t] : KeptMint(c)' = KeptMint(c)
        BY <1>1, <1>3, <1>5, <3>3 DEF KeptHeight, KeptMint
      <4>4. QED
        BY <1>4, <4>2, <4>3, AgreeSame
    <3>4. QED
      BY <3>2, <3>3
  <2>2. QED
    BY <1>1, <1>3, <2>1 DEF AgreeFit
<1>8. RelayFit'
  <2>1. ASSUME NEW q \in Relays, NEW t \in job'[q].txs,
               t \notin disturbed, t \notin OnChain, t \notin importing
        PROVE  RelayAt(q, t)'
    <3>1. q # j
      BY <1>2, <2>1, IdleFields
    <3>2. job'[q] = job[q]
      BY <1>2, <3>1, JobNames
    <3>3. t \in Txs /\ RelayAt(q, t)
      BY <2>1, <3>2, ImportingTxs, JobNames DEF AgreeInv, RelayFit
    <3>4. t \notin job[j].txs
      BY <2>1, <3>1, <3>2 DEF TypeInv, MarksFit
    <3>5. txs'[t] = txs[t]
      BY <1>5, <3>3, <3>4
    <3>6. QED
      BY <1>1, <1>4, <3>2, <3>3, <3>5, RelaySame
  <2>2. QED
    BY <1>1, <1>3, <2>1 DEF RelayFit
<1>9. QED
  BY <1>6, <1>7, <1>8 DEF AgreeInv

LEMMA BlockWriteAgree ==
  ASSUME TypeInv, TypeInv', StoreInv, AgreeInv, WriteTxs("block")
  PROVE  AgreeInv'
<1>1. /\ job["block"].stage = "write" /\ job["block"].marks = {}
      /\ job["block"].txs = importing /\ job["block"].height = Height + 1
      /\ coins' = coins /\ disturbed' = disturbed
      /\ txs' = [t \in Txs |-> IF t \in importing THEN Written("block", t) ELSE txs[t]]
      /\ job' = [job EXCEPT !["block"] = Idle]
      /\ chain' = Append(chain, importing) /\ importing' = {}
  BY JobNames DEF WriteTxs, TypeInv, MarksFit, JobsFit, Importing, history
<1>2. job'["block"] = Idle /\ \A k \in Jobs \ {"block"} : job'[k] = job[k]
  BY <1>1, JobNames, IdleFields, JobStep DEF TypeInv, TypeOK
<1>3. chain \in Seq(SUBSET Txs) /\ Height \in Nat /\ importing \in SUBSET Txs
  BY DEF TypeInv, TypeOK, Height
<1>4. /\ Height' = Height + 1
      /\ chain'[Height + 1] = importing
      /\ \A i \in 1 .. Height : chain'[i] = chain[i]
  BY <1>1, <1>3 DEF Height
<1>5. \A t : t \notin OnChain' => t \notin OnChain /\ t \notin importing
  <2>1. ASSUME NEW t \in OnChain
        PROVE  t \in OnChain'
    <3>1. PICK i \in 1 .. Height : t \in chain[i]
      BY ChainTxs
    <3>2. i \in 1 .. Height' /\ t \in chain'[i]
      BY <1>3, <1>4, <3>1
    <3>3. QED
      BY <3>2 DEF OnChain
  <2>2. ASSUME NEW t \in importing
        PROVE  t \in OnChain'
    <3>1. Height + 1 \in 1 .. Height' /\ t \in chain'[Height + 1]
      BY <1>3, <1>4
    <3>2. QED
      BY <3>1 DEF OnChain
  <2>3. QED
    BY <2>1, <2>2
<1>6. \A m : ~Undoing(m)
  BY <1>1 DEF Undoing
<1>7. ASSUME NEW t \in Txs
      PROVE  /\ t \notin importing => txs'[t] = txs[t]
             /\ t \in importing => txs'[t].height = Height + 1
  <2>1. CASE t \notin importing
    BY <1>1, <2>1
  <2>2. CASE t \in importing
    <3>1. txs'[t] = Written("block", t)
      BY <1>1, <2>2
    <3>2. job["block"].height # Pending
      BY <1>1, <1>3 DEF Pending
    <3>3. QED
      BY <1>1, <2>2, <3>1, <3>2, WrittenFields, JobNames
  <2>3. QED
    BY <2>1, <2>2
<1>8. ASSUME NEW k \in Jobs, NEW t
      PROVE  /\ HalfMarks(k, t)' <=> HalfMarks(k, t)
             /\ HalfMarks(k, t) => /\ job'[k].marks = job[k].marks
                                   /\ job'[k].height = job[k].height
  <2>1. ~HalfMarks("block", t) /\ ~HalfMarks("block", t)'
    <3>1. job'["block"].marks = {}
      BY <1>2, IdleFields
    <3>2. Cardinality({}) # 1
      BY MarkSizes
    <3>3. ~HalfMarks("block", t)
      BY <1>1, <3>2 DEF HalfMarks
    <3>4. ~HalfMarks("block", t)'
      BY <3>1, <3>2 DEF HalfMarks
    <3>5. QED
      BY <3>3, <3>4
  <2>2. k # "block" => job'[k] = job[k]
    BY <1>2
  <2>3. QED
    BY <2>1, <2>2 DEF HalfMarks
<1>9. \A x \in Int : x > 0 /\ x <= Height => x <= Height + 1 /\ chain'[x] = chain[x]
  BY <1>3, <1>4
<1>10. MinedFit'
  <2>1. ASSUME NEW t \in Txs, txs'[t] # None, txs'[t].height > 0
        PROVE  txs'[t].height <= Height + 1 /\ t \in chain'[txs'[t].height]
    <3>1. CASE t \in importing
      BY <1>3, <1>4, <1>7, <3>1
    <3>2. CASE t \notin importing
      <4>1. txs'[t] = txs[t] /\ txs[t].height \in Int
        BY <1>7, <2>1, <3>2, TxFields DEF TypeInv, TypeOK
      <4>2. txs[t].height <= Height /\ t \in chain[txs[t].height]
        BY <1>6, <2>1, <4>1 DEF AgreeInv, MinedFit
      <4>3. QED
        BY <1>9, <2>1, <4>1, <4>2
    <3>3. QED
      BY <3>1, <3>2
  <2>2. ASSUME NEW t \in Txs, NEW c \in Mints[t], coins[c] # None, coins[c].mint > 0
        PROVE  coins[c].mint <= Height + 1 /\ t \in chain'[coins[c].mint]
    <3>1. coins[c].mint \in Int
      BY <2>2, CoinFields, CoinAssumption DEF TypeInv, TypeOK
    <3>2. \/ coins[c].mint <= Height /\ t \in chain[coins[c].mint]
          \/ coins[c].mint = Height + 1 /\ t \in importing
      BY <1>6, <2>2 DEF AgreeInv, MinedFit
    <3>3. QED
      BY <1>3, <1>4, <1>9, <2>2, <3>1, <3>2
  <2>3. QED
    BY <1>1, <1>4, <2>1, <2>2 DEF MinedFit
<1>11. \A q \in Relays : job'[q] = job[q]
  BY <1>2, JobNames
<1>12. AgreeFit'
  <2>1. ASSUME NEW t \in Txs, t \notin disturbed, t \notin Unsettled', t \notin OnChain'
        PROVE  AgreeAt(t)'
    <3>1. t \notin OnChain /\ t \notin importing
      BY <1>5, <2>1
    <3>2. t \notin Unsettled
      BY <1>11, <2>1, <3>1 DEF Unsettled
    <3>3. AgreeAt(t)
      BY <2>1, <3>1, <3>2 DEF AgreeInv, AgreeFit
    <3>4. /\ txs[t] # None => txs[t].height \in {Pending, Conflicting}
          /\ KeptHeight(t) = IF txs[t] = None THEN 0 ELSE txs[t].height
          /\ \A c \in Mints[t] :
                /\ coins[c] # None => coins[c].mint \in {Pending, Conflicting}
                /\ KeptMint(c) = IF coins[c] = None THEN 0 ELSE coins[c].mint
      BY <1>1, <3>1, Unmined DEF AgreeInv
    <3>5. \A x \in {Pending, Conflicting} : ~(x > Height + 1)
      BY <1>3 DEF Pending, Conflicting
    <3>6. txs'[t] = txs[t]
      BY <1>7, <3>1
    <3>7. KeptHeight(t)' = KeptHeight(t) /\ \A c \in Mints[t] : KeptMint(c)' = KeptMint(c)
      BY <1>1, <1>4, <3>4, <3>5, <3>6 DEF KeptHeight, KeptMint
    <3>8. QED
      BY <1>8, <3>3, <3>7, AgreeSame
  <2>2. QED
    BY <1>1, <2>1 DEF AgreeFit
<1>13. RelayFit'
  <2>1. ASSUME NEW q \in Relays, NEW t \in job[q].txs,
               t \notin disturbed, t \notin OnChain'
        PROVE  RelayAt(q, t)'
    <3>1. t \in Txs /\ t \notin OnChain /\ t \notin importing
      BY <1>5, <2>1, ImportingTxs, JobNames
    <3>2. RelayAt(q, t)
      BY <2>1, <3>1 DEF AgreeInv, RelayFit
    <3>3. txs'[t] = txs[t]
      BY <1>7, <3>1
    <3>4. QED
      BY <1>1, <1>8, <1>11, <3>1, <3>2, <3>3, RelaySame
  <2>2. QED
    BY <1>1, <1>11, <2>1 DEF RelayFit
<1>14. QED
  BY <1>10, <1>12, <1>13 DEF AgreeInv

LEMMA ReorgAgree ==
  ASSUME TypeInv, TypeInv', StoreInv, AgreeInv, NEW h \in 2 .. Height, Reorg(h)
  PROVE  AgreeInv'
<1>1. /\ job["block"] = Idle /\ importing = {} /\ importing' = {}
      /\ coins' = coins /\ txs' = txs
      /\ disturbed' = disturbed \cup (Unsettled \cap UNION {chain[i] : i \in h .. Height})
  BY DEF Reorg, store
<1>2. /\ Height' = h - 1
      /\ \A i \in 1 .. h - 1 : chain'[i] = chain[i]
      /\ job'["block"].stage = "undo" /\ job'["block"].marks = {"txs", "coins"}
      /\ \A k \in Jobs \ {"block"} : job'[k] = job[k]
  BY ReorgTypes
<1>3. Height \in Nat /\ h \in Nat /\ h >= 2 /\ h <= Height
  BY ChainTxs
<1>4. \A m \in {"txs", "coins"} : Undoing(m)' /\ ~Undoing(m)
  BY <1>1, <1>2, IdleFields DEF Undoing
<1>5. \A q \in Relays : job'[q] = job[q]
  BY <1>2, JobNames
<1>6. Unsettled' = Unsettled
  BY <1>1, <1>5 DEF Unsettled
<1>7. ASSUME NEW t \in OnChain, t \notin OnChain'
      PROVE  \E i \in h .. Height : t \in chain[i]
  <2>1. PICK i \in 1 .. Height : t \in chain[i]
    BY ChainTxs
  <2>2. ASSUME i \in 1 .. h - 1
        PROVE  FALSE
    <3>1. i \in 1 .. Height' /\ t \in chain'[i]
      BY <1>2, <2>1, <2>2
    <3>2. QED
      BY <1>7, <3>1 DEF OnChain
  <2>3. i \in h .. Height
    BY <1>3, <2>1, <2>2
  <2>4. QED
    BY <2>1, <2>3
<1>8. ASSUME NEW k \in Jobs, NEW t
      PROVE  /\ HalfMarks(k, t)' <=> HalfMarks(k, t)
             /\ HalfMarks(k, t) => /\ job'[k].marks = job[k].marks
                                   /\ job'[k].height = job[k].height
  <2>1. ~HalfMarks("block", t) /\ ~HalfMarks("block", t)'
    BY <1>1, <1>2, IdleFields, MarkSizes DEF HalfMarks
  <2>2. k # "block" => job'[k] = job[k]
    BY <1>2
  <2>3. QED
    BY <2>1, <2>2 DEF HalfMarks
<1>9. MinedFit'
  <2>1. ASSUME NEW t, NEW x \in Int, x > 0, x <= Height, t \in chain[x]
        PROVE  (x <= h - 1 /\ t \in chain'[x]) \/ x > h - 1
    BY <1>2, <1>3, <2>1
  <2>2. ASSUME NEW t \in Txs, txs[t] # None, txs[t].height > 0
        PROVE  \/ txs[t].height <= h - 1 /\ t \in chain'[txs[t].height]
               \/ txs[t].height > h - 1
    <3>1. txs[t].height \in Int
      BY <2>2, TxFields DEF TypeInv, TypeOK
    <3>2. txs[t].height <= Height /\ t \in chain[txs[t].height]
      BY <1>4, <2>2 DEF AgreeInv, MinedFit
    <3>3. QED
      BY <2>1, <2>2, <3>1, <3>2
  <2>3. ASSUME NEW t \in Txs, NEW c \in Mints[t], coins[c] # None, coins[c].mint > 0
        PROVE  \/ coins[c].mint <= h - 1 /\ t \in chain'[coins[c].mint]
               \/ coins[c].mint > h - 1
    <3>1. coins[c].mint \in Int
      BY <2>3, CoinFields, CoinAssumption DEF TypeInv, TypeOK
    <3>2. coins[c].mint <= Height /\ t \in chain[coins[c].mint]
      BY <1>1, <1>4, <2>3 DEF AgreeInv, MinedFit
    <3>3. QED
      BY <2>1, <2>3, <3>1, <3>2
  <2>4. QED
    BY <1>1, <1>2, <1>4, <2>2, <2>3 DEF MinedFit
<1>10. AgreeFit'
  <2>1. ASSUME NEW t \in Txs, t \notin disturbed', t \notin Unsettled, t \notin OnChain'
        PROVE  AgreeAt(t)'
    <3>1. CASE t \notin OnChain
      <4>1. AgreeAt(t)
        BY <1>1, <2>1, <3>1 DEF AgreeInv, AgreeFit
      <4>2. /\ txs[t] # None => txs[t].height \in {Pending, Conflicting}
            /\ KeptHeight(t) = IF txs[t] = None THEN 0 ELSE txs[t].height
            /\ \A c \in Mints[t] :
                  /\ coins[c] # None => coins[c].mint \in {Pending, Conflicting}
                  /\ KeptMint(c) = IF coins[c] = None THEN 0 ELSE coins[c].mint
        BY <1>1, <3>1, IdleFields, Unmined DEF AgreeInv
      <4>3. \A x \in {Pending, Conflicting} : ~(x > h - 1)
        BY <1>3 DEF Pending, Conflicting
      <4>4. KeptHeight(t)' = KeptHeight(t) /\ \A c \in Mints[t] : KeptMint(c)' = KeptMint(c)
        BY <1>1, <1>2, <4>2, <4>3 DEF KeptHeight, KeptMint
      <4>5. QED
        BY <1>8, <4>1, <4>4, AgreeSame
    <3>2. CASE t \in OnChain
      <4>1. PICK i \in h .. Height : t \in chain[i]
        BY <1>7, <2>1, <3>2
      <4>2. i \in 1 .. Height /\ i > h - 1
        BY <1>3
      <4>3. MintStands(t, i) /\ TxStands(t, i) /\ t \notin disturbed
        BY <1>1, <2>1, <4>1, <4>2 DEF StoreInv, ChainStands
      <4>4. KeptHeight(t)' = 0
        BY <1>1, <1>2, <4>2, <4>3 DEF KeptHeight, TxStands
      <4>5. \A c \in Mints[t] : KeptMint(c)' = 0
        BY <1>1, <1>2, <4>2, <4>3 DEF KeptMint, MintStands
      <4>6. \A old : HalfDone(old, 0, 0)
        BY DEF HalfDone, Pending
      <4>7. \A k \in Jobs : Settles(k, t)'
        BY <4>4, <4>5, <4>6 DEF Settles
      <4>8. Agree(t)'
        BY <4>4, <4>5 DEF Agree
      <4>9. QED
        BY <4>7, <4>8 DEF AgreeAt
    <3>3. QED
      BY <3>1, <3>2
  <2>2. QED
    BY <1>6, <2>1 DEF AgreeFit
<1>11. RelayFit'
  <2>1. ASSUME NEW q \in Relays, NEW t \in job[q].txs,
               t \notin disturbed', t \notin OnChain'
        PROVE  RelayAt(q, t)'
    <3>1. t \in Txs /\ t \notin disturbed /\ t \in Unsettled
      BY <1>1, <2>1, ImportingTxs, JobNames DEF Unsettled
    <3>2. t \notin OnChain
      <4>1. \A i \in h .. Height : t \notin chain[i]
        BY <1>1, <2>1, <3>1
      <4>2. QED
        BY <1>7, <2>1, <4>1
    <3>3. RelayAt(q, t)
      BY <1>1, <2>1, <3>1, <3>2 DEF AgreeInv, RelayFit
    <3>4. QED
      BY <1>1, <1>5, <1>8, <3>1, <3>3, RelaySame
  <2>2. QED
    BY <1>5, <2>1 DEF RelayFit
<1>12. QED
  BY <1>9, <1>10, <1>11 DEF AgreeInv

LEMMA UndoMinedAgree ==
  ASSUME TypeInv, TypeInv', StoreInv, AgreeInv, NEW m \in {"txs", "coins"}, UndoMined(m)
  PROVE  AgreeInv'
<1>1. /\ job["block"].stage = "undo" /\ job["block"].height = Height + 1
      /\ importing = {} /\ importing' = {} /\ chain' = chain
      /\ disturbed \subseteq disturbed' /\ m \in job["block"].marks
      /\ job["block"].related = {}
  BY UndoMinedGoesOn DEF UndoMined, node, TypeInv, MarksFit
<1>2. PICK r \in JobDocs :
        /\ job' = [job EXCEPT !["block"] = r]
        /\ r.stage = "undo" /\ r.related = {} /\ r.marks = job["block"].marks \ {m}
  BY UndoMinedGoesOn
<1>3. job'["block"] = r /\ \A k \in Jobs \ {"block"} : job'[k] = job[k]
  BY <1>2, JobNames, JobStep DEF TypeInv, TypeOK
<1>4. Height' = Height /\ OnChain' = OnChain /\ Height \in Nat
  BY <1>1, ChainTxs DEF Height, OnChain
<1>5. \A n \in {"txs", "coins"} \ {m} : Undoing(n)' <=> Undoing(n)
  BY <1>1, <1>2, <1>3 DEF Undoing
<1>6. ASSUME NEW k \in Jobs, NEW t
      PROVE  /\ HalfMarks(k, t)' <=> HalfMarks(k, t)
             /\ HalfMarks(k, t) => /\ job'[k].marks = job[k].marks
                                   /\ job'[k].height = job[k].height
  <2>1. ~HalfMarks("block", t) /\ ~HalfMarks("block", t)'
    BY <1>1, <1>2, <1>3 DEF HalfMarks
  <2>2. k # "block" => job'[k] = job[k]
    BY <1>3
  <2>3. QED
    BY <2>1, <2>2 DEF HalfMarks
<1>7. \A x \in Int : x >= Height + 1 <=> x > Height
  BY <1>4
\* What a rollback deletes is not kept.
<1>8. ASSUME NEW t \in Txs
      PROVE  /\ m = "coins" => txs'[t] = txs[t]
             /\ txs[t] # None /\ ~(txs[t].height > Height) => txs'[t] = txs[t]
             /\ m = "txs" /\ txs[t] # None /\ txs[t].height > Height => txs'[t] = None
             /\ txs[t] = None => txs'[t] = None
  <2>1. txs[t] # None => txs[t].height \in Int
    BY TxFields DEF TypeInv, TypeOK
  <2>2. txs[t] # None => (txs[t].height >= job["block"].height <=> txs[t].height > Height)
    BY <1>1, <1>7, <2>1
  <2>3. CASE m = "coins"
    BY <2>3 DEF UndoMined
  <2>4. CASE m = "txs"
    BY <2>2, <2>4 DEF UndoMined
  <2>5. QED
    BY <2>3, <2>4
<1>9. ASSUME NEW c \in Coins
      PROVE  /\ m = "txs" => coins'[c] = coins[c]
             /\ coins[c] # None /\ ~(coins[c].mint > Height) => coins'[c] = coins[c]
             /\ m = "coins" /\ coins[c] # None /\ coins[c].mint > Height => coins'[c] = None
             /\ coins[c] = None => coins'[c] = None
  <2>1. coins[c] # None => coins[c].mint \in Int
    BY CoinFields DEF TypeInv, TypeOK
  <2>2. coins[c] # None => (coins[c].mint >= job["block"].height <=> coins[c].mint > Height)
    BY <1>1, <1>7, <2>1
  <2>3. CASE m = "txs"
    BY <2>3 DEF UndoMined
  <2>4. CASE m = "coins"
    BY <2>2, <2>4 DEF UndoMined
  <2>5. QED
    BY <2>3, <2>4
<1>10. MinedFit'
  <2>1. ASSUME NEW t \in Txs, txs'[t] # None, txs'[t].height > 0
        PROVE  \/ txs'[t].height <= Height /\ t \in chain[txs'[t].height]
               \/ txs'[t].height > Height /\ Undoing("txs")'
    <3>1. txs'[t] = txs[t]
      BY <1>8, <2>1
    <3>2. txs[t].height > Height => m # "txs"
      BY <1>8, <2>1, <3>1
    <3>3. QED
      BY <1>5, <2>1, <3>1, <3>2 DEF AgreeInv, MinedFit
  <2>2. ASSUME NEW t \in Txs, NEW c \in Mints[t], coins'[c] # None, coins'[c].mint > 0
        PROVE  \/ coins'[c].mint <= Height /\ t \in chain[coins'[c].mint]
               \/ coins'[c].mint > Height /\ Undoing("coins")'
    <3>1. c \in Coins
      BY CoinAssumption
    <3>2. coins'[c] = coins[c]
      BY <1>9, <2>2, <3>1
    <3>3. coins[c].mint > Height => m # "coins"
      BY <1>9, <2>2, <3>1, <3>2
    <3>4. QED
      BY <1>1, <1>5, <2>2, <3>2, <3>3 DEF AgreeInv, MinedFit
  <2>3. QED
    BY <1>1, <1>4, <2>1, <2>2 DEF MinedFit
<1>11. \A q \in Relays : job'[q] = job[q]
  BY <1>3, JobNames
<1>12. AgreeFit'
  <2>1. ASSUME NEW t \in Txs, t \notin disturbed', t \notin Unsettled', t \notin OnChain
        PROVE  AgreeAt(t)'
    <3>1. t \notin Unsettled
      BY <1>1, <1>11, <2>1 DEF Unsettled
    <3>2. AgreeAt(t)
      BY <1>1, <2>1, <3>1 DEF AgreeInv, AgreeFit
    <3>3. KeptHeight(t)' = KeptHeight(t)
      BY <1>4, <1>8 DEF KeptHeight
    <3>4. \A c \in Mints[t] : KeptMint(c)' = KeptMint(c)
      BY <1>4, <1>9, CoinAssumption DEF KeptMint
    <3>5. QED
      BY <1>6, <3>2, <3>3, <3>4, AgreeSame
  <2>2. QED
    BY <1>4, <2>1 DEF AgreeFit
<1>13. RelayFit'
  <2>1. ASSUME NEW q \in Relays, NEW t \in job[q].txs,
               t \notin disturbed', t \notin OnChain
        PROVE  RelayAt(q, t)'
    <3>1. t \in Txs /\ t \notin disturbed /\ t \notin importing
      BY <1>1, <2>1, ImportingTxs, JobNames
    <3>2. RelayAt(q, t)
      BY <2>1, <3>1 DEF AgreeInv, RelayFit
    <3>3. \A x \in {Pending, Conflicting} : ~(x > Height)
      BY <1>4 DEF Pending, Conflicting
    <3>4. txs'[t] = txs[t]
      BY <1>8, <3>1, <3>2, <3>3, RelayKept
    <3>5. \A c \in Mints[t] : coins'[c] = coins[c]
      BY <1>9, <3>1, <3>2, <3>3, RelayKept, CoinAssumption
    <3>6. QED
      BY <1>6, <1>11, <3>1, <3>2, <3>4, <3>5, RelaySame
  <2>2. QED
    BY <1>1, <1>4, <1>11, <2>1 DEF RelayFit
<1>14. QED
  BY <1>10, <1>12, <1>13 DEF AgreeInv

\* The height that an update leaves of a document that no block has written.
After(v, old) ==
  IF v = 0 THEN 0
  ELSE IF ~old THEN Conflicting
  ELSE IF v = Pending THEN 0 ELSE v

LEMMA HalfSettled ==
  ASSUME NEW v \in {0, Pending, Conflicting}, NEW old \in BOOLEAN
  PROVE  HalfDone(old, After(v, old), v)
BY DEF HalfDone, After, Pending, Conflicting

LEMMA AllSettled ==
  ASSUME NEW d \in {0, Pending, Conflicting}, NEW l \in {0, Pending, Conflicting},
         NEW old \in BOOLEAN, HalfDone(old, d, l)
  PROVE  After(l, old) = d
BY DEF HalfDone, After, Pending, Conflicting

\* What an update that is not out of date makes of a transaction's heights.
LEMMA MarkedKept ==
  ASSUME TypeInv, MinedFit, NEW j \in Jobs, NEW m \in {"txs", "coins"}, Mark(j, m),
         job["block"].stage # "undo",
         NEW t \in job[j].related, t \notin OnChain, t \notin importing
  PROVE  /\ t \in Txs /\ IsOld(j) \in BOOLEAN
         /\ KeptHeight(t) \in {0, Pending, Conflicting}
         /\ KeptHeight(t)' = IF m = "txs" THEN After(KeptHeight(t), IsOld(j))
                             ELSE KeptHeight(t)
         /\ \A c \in Mints[t] :
              /\ KeptMint(c) \in {0, Pending, Conflicting}
              /\ KeptMint(c)' = IF m = "coins" THEN After(KeptMint(c), IsOld(j))
                                ELSE KeptMint(c)
<1>1. PICK old \in BOOLEAN : old <=> IsOld(j)
  OBVIOUS
<1>2. t \in Txs /\ job[j].related \in SUBSET Txs
  BY ImportingTxs
<1>3. chain' = chain /\ Height' = Height /\ Height \in Nat
  BY ChainTxs DEF Mark, node, Height
<1>4. /\ txs[t] # None => txs[t].height \in {Pending, Conflicting}
      /\ KeptHeight(t) = IF txs[t] = None THEN 0 ELSE txs[t].height
      /\ \A c \in Mints[t] :
            /\ coins[c] # None => coins[c].mint \in {Pending, Conflicting}
            /\ KeptMint(c) = IF coins[c] = None THEN 0 ELSE coins[c].mint
  BY <1>2, Unmined
<1>5. \A x \in {Pending, Conflicting} : ~(x > Height) /\ x # 0
  BY <1>3 DEF Pending, Conflicting
<1>6. \A x \in {0, Pending, Conflicting} : After(x, old) = After(x, IsOld(j))
  BY <1>1 DEF After
<1>7. /\ KeptHeight(t) \in {0, Pending, Conflicting}
      /\ \A c \in Mints[t] : KeptMint(c) \in {0, Pending, Conflicting}
  BY <1>4
<1>8. KeptHeight(t)' = IF m = "txs" THEN After(KeptHeight(t), old) ELSE KeptHeight(t)
  <2>1. CASE m = "txs"
    <3>1. txs'[t] = MarkedTx(t, IsOld(j))
      BY <1>2, <2>1 DEF Mark, IsOld
    <3>2. txs'[t] = MarkedTx(t, old)
      BY <1>1, <3>1 DEF MarkedTx
    <3>3. /\ txs[t] = None => txs'[t] = None
          /\ txs[t] # None /\ old /\ txs[t].height = Pending => txs'[t] = None
          /\ txs[t] # None /\ ~(old /\ txs[t].height = Pending) =>
               /\ txs'[t] # None
               /\ txs'[t].height = IF old THEN txs[t].height ELSE Conflicting
      BY <1>2, <3>2, MarkedTxFields DEF TypeInv
    <3>4. QED
      BY <1>3, <1>4, <1>5, <2>1, <3>3 DEF KeptHeight, After
  <2>2. CASE m = "coins"
    <3>1. txs' = txs
      BY <2>2 DEF Mark
    <3>2. QED
      BY <1>3, <2>2, <3>1 DEF KeptHeight
  <2>3. QED
    BY <2>1, <2>2
<1>9. ASSUME NEW c \in Mints[t]
      PROVE  KeptMint(c)' = IF m = "coins" THEN After(KeptMint(c), old) ELSE KeptMint(c)
  <2>1. CASE m = "coins"
    <3>1. c \in Coins /\ c \in Outputs(job[j].related)
      BY <1>2, InputsTyped
    <3>2. coins'[c] = MarkedCoin(c, IsOld(j))
      BY <2>1, <3>1 DEF Mark, IsOld
    <3>3. coins'[c] = MarkedCoin(c, old)
      BY <1>1, <3>2 DEF MarkedCoin
    <3>4. /\ coins[c] = None => coins'[c] = None
          /\ coins[c] # None /\ old /\ coins[c].mint = Pending => coins'[c] = None
          /\ coins[c] # None /\ ~(old /\ coins[c].mint = Pending) =>
               /\ coins'[c] # None
               /\ coins'[c].mint = IF old THEN coins[c].mint ELSE Conflicting
      BY <3>1, <3>3, MarkedCoinFields DEF TypeInv
    <3>5. QED
      BY <1>3, <1>4, <1>5, <2>1, <3>4 DEF KeptMint, After
  <2>2. CASE m = "txs"
    <3>1. coins' = coins
      BY <2>2 DEF Mark
    <3>2. QED
      BY <1>3, <2>2, <3>1 DEF KeptMint
  <2>3. QED
    BY <2>1, <2>2
<1>10. IsOld(j) \in BOOLEAN
  BY DEF IsOld
<1>11. QED
  BY <1>2, <1>6, <1>7, <1>8, <1>9, <1>10

LEMMA MarkAgree ==
  ASSUME TypeInv, TypeInv', StoreInv, AgreeInv, NEW j \in Jobs, NEW m \in {"txs", "coins"},
         Mark(j, m)
  PROVE  AgreeInv'
<1> DEFINE hit == job[j].related
<1>1. /\ job[j].stage = "mark" /\ m \in job[j].marks
      /\ chain' = chain /\ importing' = importing
      /\ disturbed' = disturbed \cup Overtaken(j, IsOld(j))
      /\ hit \in SUBSET Txs /\ job[j].marks \subseteq {"txs", "coins"}
  BY ImportingTxs, JobFields DEF Mark, node, IsOld
<1>2. PICK r \in JobDocs :
        /\ job' = [job EXCEPT ![j] = r]
        /\ IF job[j].marks \ {m} # {}
           THEN /\ r.stage = "mark" /\ r.marks = job[j].marks \ {m}
                /\ r.txs = job[j].txs /\ r.height = job[j].height
                /\ r.related = job[j].related
           ELSE IF j = "pruner" THEN r = Idle
           ELSE /\ r.stage \in {"spend", "relate"} /\ r.marks = {}
                /\ r.txs = job[j].txs /\ r.height = job[j].height
  BY MarkGoesOn
<1>3. job'[j] = r /\ \A k \in Jobs \ {j} : job'[k] = job[k]
  BY <1>2, JobStep DEF TypeInv, TypeOK
<1>4. Height' = Height /\ OnChain' = OnChain
  BY <1>1 DEF Height, OnChain
<1>5. \A q \in Relays : /\ job'[q].txs = job[q].txs
                        /\ job'[q].stage = "mint" <=> job[q].stage = "mint"
  BY <1>1, <1>2, <1>3, JobNames
<1>6. Unsettled' = Unsettled
  BY <1>1, <1>5 DEF Unsettled
<1>7. \A n \in {"txs", "coins"} : Undoing(n) => Undoing(n)'
  BY <1>1, <1>3, JobNames DEF Undoing
<1>8. job[j].marks = {m} \/ job[j].marks = {"txs", "coins"}
  BY <1>1
\* What is not hit is as it was.
<1>9. ASSUME NEW t \in Txs, t \notin hit
      PROVE  txs'[t] = txs[t] /\ \A c \in Mints[t] : coins'[c] = coins[c]
  <2>1. \A c \in Mints[t] : c \in Coins /\ c \notin Outputs(hit)
    BY <1>1, <1>9, CoinAssumption DEF Outputs
  <2>2. CASE m = "txs"
    <3>1. txs'[t] = txs[t] /\ coins' = coins
      BY <1>9, <2>2 DEF Mark
    <3>2. QED
      BY <3>1
  <2>3. CASE m = "coins"
    <3>1. txs' = txs /\ \A c \in Mints[t] : coins'[c] = coins[c]
      BY <2>1, <2>3 DEF Mark
    <3>2. QED
      BY <3>1
  <2>4. QED
    BY <2>2, <2>3
<1>10. ASSUME NEW t, t \notin hit, NEW k \in Jobs
       PROVE  /\ HalfMarks(k, t)' <=> HalfMarks(k, t)
              /\ HalfMarks(k, t) => /\ job'[k].marks = job[k].marks
                                    /\ job'[k].height = job[k].height
  <2>1. ~HalfMarks(j, t)
    BY <1>10 DEF HalfMarks
  <2>2. ~HalfMarks(j, t)'
    <3>1. r.marks = {} \/ r.related = hit
      BY <1>2, IdleFields
    <3>2. Cardinality({}) # 1
      BY MarkSizes
    <3>3. QED
      BY <1>3, <1>10, <3>1, <3>2 DEF HalfMarks
  <2>3. k # j => job'[k] = job[k]
    BY <1>3
  <2>4. QED
    BY <2>1, <2>2, <2>3 DEF HalfMarks
<1>11. MinedFit'
  <2>1. PICK old \in BOOLEAN : old <=> IsOld(j)
    OBVIOUS
  <2>2. ASSUME NEW t \in Txs, txs'[t] # None, txs'[t].height > 0
        PROVE  txs[t] # None /\ txs'[t].height = txs[t].height
    <3>1. CASE txs'[t] = txs[t]
      BY <2>2, <3>1
    <3>2. CASE txs'[t] # txs[t]
      <4>1. txs'[t] = MarkedTx(t, IsOld(j))
        BY <3>2 DEF Mark, IsOld
      <4>2. txs'[t] = MarkedTx(t, old)
        BY <2>1, <4>1 DEF MarkedTx
      <4>3. QED
        BY <2>2, <4>2, MarkedTxFields DEF TypeInv, Conflicting
    <3>3. QED
      BY <3>1, <3>2
  <2>3. ASSUME NEW c \in Coins, coins'[c] # None, coins'[c].mint > 0
        PROVE  coins[c] # None /\ coins'[c].mint = coins[c].mint
    <3>1. CASE coins'[c] = coins[c]
      BY <2>3, <3>1
    <3>2. CASE coins'[c] # coins[c]
      <4>1. coins'[c] = MarkedCoin(c, IsOld(j))
        BY <3>2 DEF Mark, IsOld
      <4>2. coins'[c] = MarkedCoin(c, old)
        BY <2>1, <4>1 DEF MarkedCoin
      <4>3. QED
        BY <2>3, <4>2, MarkedCoinFields DEF TypeInv, Conflicting
    <3>3. QED
      BY <3>1, <3>2
  <2>4. QED
    BY <1>1, <1>7, <2>2, <2>3, MinedKept DEF AgreeInv
<1>12. ASSUME NEW t \in hit, t \notin disturbed', t \notin Unsettled, t \notin OnChain
       PROVE  AgreeAt(t)'
  <2>1. /\ job["block"].stage # "undo" /\ t \notin HalfMarked(Jobs \ {j})
        /\ t \notin disturbed /\ t \notin importing /\ t \in Txs
    BY <1>1, <1>12 DEF Overtaken, Unsettled
  <2>2. AgreeAt(t)
    BY <1>12, <2>1 DEF AgreeInv, AgreeFit
  <2>3. /\ IsOld(j) \in BOOLEAN
        /\ KeptHeight(t) \in {0, Pending, Conflicting}
        /\ KeptHeight(t)' = IF m = "txs" THEN After(KeptHeight(t), IsOld(j))
                            ELSE KeptHeight(t)
        /\ \A c \in Mints[t] :
             /\ KeptMint(c) \in {0, Pending, Conflicting}
             /\ KeptMint(c)' = IF m = "coins" THEN After(KeptMint(c), IsOld(j))
                               ELSE KeptMint(c)
    BY <1>12, <2>1, MarkedKept DEF AgreeInv
  <2>4. \A k \in Jobs \ {j} : ~HalfMarks(k, t) /\ ~HalfMarks(k, t)'
    BY <1>3, <2>1, HalfMarkedIff DEF HalfMarks
  <2>5. CASE job[j].marks = {"txs", "coins"}
    <3>1. ~HalfMarks(j, t)
      BY <2>5, MarkSizes DEF HalfMarks
    <3>2. Agree(t)
      BY <2>2, <2>4, <3>1 DEF AgreeAt
    <3>3. job[j].marks \ {m} # {} /\ ("txs" \in job[j].marks \ {m} <=> m = "coins")
      BY <2>5
    <3>4. job'[j].marks = job[j].marks \ {m} /\ job'[j].height = job[j].height
          /\ job'[j].related = job[j].related
      BY <1>2, <1>3, <3>3
    <3>5. HalfMarks(j, t)'
      <4>1. job'[j].marks = {"txs"} \/ job'[j].marks = {"coins"}
        BY <2>5, <3>4
      <4>2. Cardinality(job'[j].marks) = 1
        BY <4>1, MarkSizes
      <4>3. QED
        BY <1>12, <3>4, <4>2 DEF HalfMarks
    <3>6. IsOld(j)' = IsOld(j)
      BY <3>4 DEF IsOld
    <3>7. ASSUME NEW c \in Mints[t]
          PROVE  IF "txs" \in job'[j].marks
                 THEN HalfDone(IsOld(j), KeptMint(c)', KeptHeight(t)')
                 ELSE HalfDone(IsOld(j), KeptHeight(t)', KeptMint(c)')
      <4>1. KeptMint(c) = KeptHeight(t)
        BY <3>2 DEF Agree
      <4>2. HalfDone(IsOld(j), After(KeptHeight(t), IsOld(j)), KeptHeight(t))
        BY <2>3, HalfSettled
      <4>3. CASE m = "txs"
        BY <2>3, <3>3, <3>4, <4>1, <4>2, <4>3
      <4>4. CASE m = "coins"
        BY <2>3, <3>3, <3>4, <4>1, <4>2, <4>4
      <4>5. QED
        BY <4>3, <4>4
    <3>8. Settles(j, t)'
      BY <3>6, <3>7 DEF Settles
    <3>9. QED
      BY <2>4, <3>5, <3>8 DEF AgreeAt
  <2>6. CASE job[j].marks = {m}
    <3>1. HalfMarks(j, t)
      BY <1>12, <2>6, MarkSizes DEF HalfMarks
    <3>2. Settles(j, t)
      BY <2>2, <3>1 DEF AgreeAt
    <3>3. job'[j].marks = {}
      BY <1>2, <1>3, <2>6, IdleFields
    <3>4. Cardinality({}) # 1
      BY MarkSizes
    <3>5. ~HalfMarks(j, t)'
      BY <3>3, <3>4 DEF HalfMarks
    <3>6. ASSUME NEW c \in Mints[t]
          PROVE  KeptMint(c)' = KeptHeight(t)'
      <4>1. CASE m = "txs"
        <5>1. HalfDone(IsOld(j), KeptMint(c), KeptHeight(t))
          BY <2>6, <3>2, <4>1 DEF Settles
        <5>2. After(KeptHeight(t), IsOld(j)) = KeptMint(c)
          BY <2>3, <5>1, AllSettled
        <5>3. QED
          BY <2>3, <4>1, <5>2
      <4>2. CASE m = "coins"
        <5>1. HalfDone(IsOld(j), KeptHeight(t), KeptMint(c))
          BY <2>6, <3>2, <4>2 DEF Settles
        <5>2. After(KeptMint(c), IsOld(j)) = KeptHeight(t)
          BY <2>3, <5>1, AllSettled
        <5>3. QED
          BY <2>3, <4>2, <5>2
      <4>3. QED
        BY <4>1, <4>2
    <3>7. Agree(t)'
      BY <3>6 DEF Agree
    <3>8. QED
      BY <2>4, <3>5, <3>7 DEF AgreeAt
  <2>7. QED
    BY <1>8, <2>5, <2>6
<1>13. AgreeFit'
  <2>1. ASSUME NEW t \in Txs, t \notin disturbed', t \notin Unsettled, t \notin OnChain
        PROVE  AgreeAt(t)'
    <3>1. CASE t \in hit
      BY <1>12, <2>1, <3>1
    <3>2. CASE t \notin hit
      <4>1. AgreeAt(t)
        BY <1>1, <2>1 DEF AgreeInv, AgreeFit
      <4>2. txs'[t] = txs[t] /\ \A c \in Mints[t] : coins'[c] = coins[c]
        BY <1>9, <3>2
      <4>3. KeptHeight(t)' = KeptHeight(t) /\ \A c \in Mints[t] : KeptMint(c)' = KeptMint(c)
        BY <1>4, <4>2 DEF KeptHeight, KeptMint
      <4>4. QED
        BY <1>10, <3>2, <4>1, <4>3, AgreeSame
    <3>3. QED
      BY <3>1, <3>2
  <2>2. QED
    BY <1>4, <1>6, <2>1 DEF AgreeFit
<1>14. RelayFit'
  <2>1. ASSUME NEW q \in Relays, NEW t \in job[q].txs,
               t \notin disturbed', t \notin OnChain, t \notin importing
        PROVE  RelayAt(q, t)'
    <3>1. t \in Txs /\ t \in Unsettled
      BY ImportingTxs, JobNames DEF Unsettled
    <3>2. RelayAt(q, t)
      BY <1>1, <2>1 DEF AgreeInv, RelayFit
    <3>3. t \notin hit
      BY <1>1, <2>1, <3>1 DEF Overtaken
    <3>4. txs'[t] = txs[t] /\ \A c \in Mints[t] : coins'[c] = coins[c]
      BY <1>9, <3>1, <3>3
    <3>5. QED
      BY <1>5, <1>10, <3>1, <3>2, <3>3, <3>4, RelaySame
  <2>2. QED
    BY <1>1, <1>4, <1>5, <2>1 DEF RelayFit
<1>15. QED
  BY <1>11, <1>13, <1>14 DEF AgreeInv

LEMMA InitAgree ==
  ASSUME Init
  PROVE  AgreeInv
<1>1. /\ coins = [c \in Coins |->
                     IF c \in Outputs(Base) THEN NewCoin(c, 1) ELSE None]
      /\ txs = [t \in Txs |->
                   IF t \in Base THEN [height |-> 1, tag |-> FALSE] ELSE None]
      /\ chain = <<Base>> /\ job = [j \in Jobs |-> Idle] /\ importing = {}
  BY DEF Init
<1>2. Height = 1 /\ chain[1] = Base /\ Base \in SUBSET Txs
  BY <1>1, CoinAssumption DEF Height
<1>3. OnChain = Base
  <2>1. \A h \in 1 .. 1 : h = 1
    OBVIOUS
  <2>2. 1 \in 1 .. 1
    OBVIOUS
  <2>3. QED
    BY <1>2, <2>1, <2>2 DEF OnChain
<1>4. ASSUME NEW t \in Txs
      PROVE  txs[t] # None => t \in Base /\ txs[t].height = 1
  BY <1>1
<1>5. ASSUME NEW t \in Txs, NEW c \in Mints[t], coins[c] # None
      PROVE  t \in Base /\ coins[c].mint = 1
  <2>1. c \in Coins
    BY CoinAssumption
  <2>2. c \in Outputs(Base) /\ coins[c] = NewCoin(c, 1)
    BY <1>1, <1>5, <2>1
  <2>3. t \in Base
    BY <1>2, <2>1, <2>2, CoinAssumption DEF Outputs
  <2>4. QED
    BY <2>2, <2>3 DEF NewCoin
<1>6. \A j \in Jobs : job[j] = Idle
  BY <1>1
<1>7. \A j \in Jobs : \A t : ~HalfMarks(j, t)
  BY <1>6, IdleFields DEF HalfMarks
<1>8. MinedFit
  <2>1. 1 <= 1 /\ 1 > 0
    OBVIOUS
  <2>2. QED
    BY <1>2, <1>4, <1>5, <2>1 DEF MinedFit
<1>9. AgreeFit
  <2>1. ASSUME NEW t \in Txs, t \notin OnChain
        PROVE  AgreeAt(t)
    <3>1. txs[t] = None /\ \A c \in Mints[t] : coins[c] = None
      BY <1>3, <1>4, <1>5, <2>1
    <3>2. QED
      BY <1>7, <3>1 DEF AgreeAt, Agree, KeptHeight, KeptMint
  <2>2. QED
    BY <2>1 DEF AgreeFit
<1>10. RelayFit
  BY <1>6, JobNames, IdleFields DEF RelayFit
<1>11. QED
  BY <1>8, <1>9, <1>10 DEF AgreeInv

LEMMA StepAgree ==
  ASSUME TypeInv, StoreInv, AgreeInv, [Next]_vars
  PROVE  AgreeInv'
<1>1. TypeInv'
  BY StepTypes
<1>2. CASE UNCHANGED vars
  <2>1. \A j \in Jobs : \A t \in Txs : HalfMarks(j, t)' <=> HalfMarks(j, t)
    BY <1>2 DEF vars, HalfMarks
  <2>2. QED
    BY <1>1, <1>2, <2>1, AgreeUnchanged DEF vars, Undoing
<1>3. CASE Next
  <2>1. CASE \E T \in SUBSET Txs : BlockArrives(T)
    BY <1>1, <2>1, BlockArrivesAgree
  <2>2. CASE \E r \in Relays, t \in Txs : TxArrives(r, t)
    BY <1>1, <2>2, TxArrivesAgree
  <2>3. CASE \E j \in Relays \cup {"block"} : Import(j)
    BY <1>1, <2>3, MintAgree, FindAgree, SpendAgree, RelayWriteAgree, BlockWriteAgree
       DEF Import
  <2>4. CASE \E j \in Jobs : Prune(j)
    BY <1>1, <2>4, RelateAgree, MarkAgree DEF Prune
  <2>5. CASE \E h \in 2 .. Height : Reorg(h)
    BY <1>1, <2>5, ReorgAgree
  <2>6. CASE \E m \in {"txs", "coins"} : UndoMined(m)
    BY <1>1, <2>6, UndoMinedAgree
  <2>7. CASE UndoSpends
    BY <1>1, <2>7, UndoSpendsAgree
  <2>8. CASE \E t \in Txs : PruneTx(t)
    BY <1>1, <2>8, PruneAgree
  <2>9. CASE NodeCrashes
    BY <1>1, <2>9, NodeCrashAgree
  <2>10. CASE PrunerCrashes
    BY <1>1, <2>10, PrunerCrashAgree
  <2>11. QED
    BY <1>3, <2>1, <2>2, <2>3, <2>4, <2>5, <2>6, <2>7, <2>8, <2>9, <2>10 DEF Next
<1>4. QED
  BY <1>2, <1>3

\* At rest all that is stored is what it will be.
LEMMA RestAgrees ==
  ASSUME TypeInv, StoreInv, AgreeInv
  PROVE  CollectionsAgree
<1> SUFFICES ASSUME AtRest, NEW t \in Txs, t \notin disturbed, NEW c \in Mints[t]
             PROVE  /\ (coins[c] = None) <=> (txs[t] = None)
                    /\ coins[c] # None => coins[c].mint = txs[t].height
  BY DEF CollectionsAgree
<1>1. importing = {} /\ \A j \in Jobs : job[j] = Idle
  BY DEF AtRest, BlocksAtRest
<1>2. CASE t \in OnChain
  <2>1. PICK h \in 1 .. Height : t \in chain[h]
    BY <1>2, ChainTxs
  <2>2. MintStands(t, h) /\ TxStands(t, h)
    BY <2>1 DEF StoreInv, ChainStands
  <2>3. QED
    BY <2>2 DEF MintStands, TxStands
<1>3. CASE t \notin OnChain
  <2>1. t \notin Unsettled
    BY <1>1, JobNames, IdleFields DEF Unsettled
  <2>2. \A j \in Jobs : ~HalfMarks(j, t)
    BY <1>1, IdleFields DEF HalfMarks
  <2>3. KeptMint(c) = KeptHeight(t)
    BY <1>3, <2>1, <2>2 DEF AgreeInv, AgreeFit, AgreeAt, Agree
  <2>4. job["block"].stage # "undo"
    BY <1>1, JobNames, IdleFields
  <2>5. /\ txs[t] # None => txs[t].height \in {Pending, Conflicting}
        /\ KeptHeight(t) = IF txs[t] = None THEN 0 ELSE txs[t].height
        /\ coins[c] # None => coins[c].mint \in {Pending, Conflicting}
        /\ KeptMint(c) = IF coins[c] = None THEN 0 ELSE coins[c].mint
    BY <1>1, <1>3, <2>4, Unmined DEF AgreeInv
  <2>6. \A x \in {Pending, Conflicting} : x # 0
    BY DEF Pending, Conflicting
  <2>7. QED
    BY <2>3, <2>5, <2>6
<1>4. QED
  BY <1>2, <1>3

\* When nothing is running, the collections of coins and of transactions,
\* which no write of batchImport, handleReorg or the pruning service changes
\* together, tell the same of every transaction that is not disturbed.
THEOREM CollectionsAgreeAlways == Spec => []CollectionsAgree
<1>1. Init => TypeInv /\ StoreInv /\ AgreeInv
  BY InitTypes, InitStore, InitAgree
<1>2. TypeInv /\ StoreInv /\ AgreeInv /\ [Next]_vars =>
        TypeInv' /\ StoreInv' /\ AgreeInv'
  BY StepTypes, StepStore, StepAgree
<1>3. TypeInv /\ StoreInv /\ AgreeInv => CollectionsAgree
  BY RestAgrees
<1>4. QED
  BY <1>1, <1>2, <1>3, PTL DEF Spec

-----------------------------------------------------------------------------
(***************************************************************************)
(* Pending transactions hold what they spend                               *)
(***************************************************************************)

\* t is not what PendingHoldsInputs is about.
Impaired == disturbed \cup deprived

Importers == Relays \cup {"block"}

\* t is or will be shown as pending: it is stored so, or a relay has spent its
\* inputs and not yet stored it.
Shown(t) ==
  \/ txs[t] # None /\ txs[t].height = Pending
  \/ txs[t] = None /\ \E r \in Relays : job[r].stage = "write" /\ t \in job[r].txs

\* t is impaired or about to be mined, or an update that has hit its coins
\* has still to hit it.
Leaving(t) ==
  \/ t \in Impaired \cup importing
  \/ \E j \in Jobs : HalfMarks(j, t) /\ "txs" \in job[j].marks

Holding(t) == Shown(t) /\ ~Leaving(t)

Reserved(c, t) == coins[c] # None /\ coins[c].spent = Pending /\ coins[c].by = t

Held(t) == \A c \in Spends[t] : Reserved(c, t) /\ coins[c].mint # Conflicting

HoldFit == \A t \in Txs : Holding(t) => Held(t)

\* What is held by an output that job j has read is among what it has found.
WalkFit ==
  \A j \in Jobs : \A s \in job[j].related \ job[j].walk : \A c \in Mints[s] :
    \A t \in Txs : Reserved(c, t) /\ Holding(t) => t \in job[j].related

\* What an update has hit stays hit until its coins are hit too.
HitFit ==
  \A j \in Jobs : \A t \in job[j].related :
    job[j].marks = {"coins"} => ~Holding(t)

\* A look-up has found what it walks, and is over when its updates begin.
LookAt(r) ==
  /\ r.seen \cup r.walk \subseteq r.related
  /\ r.stage \notin {"relate", "mark"} => r.related = {}
  /\ r.stage = "mark" => r.walk = {} /\ r.seen = {} /\ r.marks # {}

LookFit ==
  /\ \A j \in Jobs : LookAt(job[j])
  /\ \A r \in Relays : \A s, t \in job[r].txs : s = t

SpenderFit ==
  \A c \in Coins : \A t \in Txs : coins[c] # None /\ coins[c].by = t => c \in Spends[t]

HoldInv == HoldFit /\ WalkFit /\ HitFit /\ LookFit /\ SpenderFit

\* What holds an input of an import that has looked for rivals is among those
\* that the import has still to invalidate, or is invalidating.
Looks(r) == r.stage \in {"relate", "mark", "spend"}

Found(r) == IF r.stage = "spend" THEN {} ELSE r.todo \cup r.related

RivalFit ==
  \A k \in Importers : Looks(job[k]) =>
    \A c \in Inputs(job[k].txs) : \A t \in Txs \ job[k].txs :
      Reserved(c, t) /\ Holding(t) => t \in Found(job[k])

\* A step after which no more is held and no more is reserved.
Shrinks ==
  /\ \A t \in Txs : Holding(t)' => Holding(t)
  /\ \A c \in Coins : \A t \in Txs : Reserved(c, t)' => Reserved(c, t)

\* A job that has read no outputs for an update.
Starts(r) == LookAt(r) /\ r.related \subseteq r.walk /\ r.marks # {"coins"}

\* Nothing begins to be held of a transaction that a step leaves as it is.
LEMMA HoldingKept ==
  ASSUME NEW t \in Txs, txs'[t] = txs[t],
         \A r \in Relays : job'[r].stage = "write" =>
            job[r].stage = "write" /\ job'[r].txs = job[r].txs,
         t \in Impaired \cup importing => t \in Impaired' \cup importing',
         \A j \in Jobs : HalfMarks(j, t) /\ "txs" \in job[j].marks /\ t \notin Impaired' =>
            HalfMarks(j, t)' /\ job'[j].marks = job[j].marks
  PROVE  Holding(t)' => Holding(t)
<1>1. Shown(t)' => Shown(t)
  BY DEF Shown
<1>2. Leaving(t) => Leaving(t)'
  BY DEF Leaving
<1>3. QED
  BY <1>1, <1>2 DEF Holding

\* A step after which no more is held or reserved, and that reads no outputs.
LEMMA HoldSame ==
  ASSUME TypeInv, TypeInv', HoldInv,
         \A t \in Txs : Holding(t)' => Holding(t),
         \A t \in Txs : \A c \in Spends[t] :
            Holding(t)' /\ Reserved(c, t) /\ coins[c].mint # Conflicting =>
               Reserved(c, t)' /\ coins'[c].mint # Conflicting,
         \A c \in Coins : coins'[c] # None /\ coins'[c].by # None =>
            /\ coins[c] # None /\ coins[c].by = coins'[c].by
            /\ coins'[c].spent = Pending => coins[c].spent = Pending,
         \A j \in Jobs :
            \/ Starts(job'[j])
            \/ /\ LookAt(job'[j])
               /\ job'[j].related = job[j].related /\ job'[j].walk = job[j].walk
               /\ job'[j].marks = {"coins"} =>
                     \/ job[j].marks = {"coins"}
                     \/ \A t \in job[j].related : ~Holding(t)',
         \A r \in Relays : \/ job'[r].txs \subseteq job[r].txs
                           \/ \A s, t \in job'[r].txs : s = t
  PROVE  HoldInv' /\ Shrinks
<1>a. ASSUME NEW c \in Coins, NEW t \in Txs, Reserved(c, t)'
      PROVE  Reserved(c, t)
  <2>1. coins'[c] # None /\ coins'[c].by = t /\ coins'[c].spent = Pending
    BY <1>a DEF Reserved
  <2>2. t # None
    BY NoneAssumption
  <2>3. QED
    BY <2>1, <2>2 DEF Reserved
<1>1. HoldFit'
  <2>1. ASSUME NEW t \in Txs, Holding(t)'
        PROVE  Held(t)'
    BY <2>1 DEF HoldInv, HoldFit, Held
  <2>2. QED
    BY <2>1 DEF HoldFit
<1>2. WalkFit'
  <2>1. ASSUME NEW j \in Jobs, NEW s \in job'[j].related \ job'[j].walk,
               NEW c \in Mints[s], NEW t \in Txs, Reserved(c, t)', Holding(t)'
        PROVE  t \in job'[j].related
    <3>1. ~Starts(job'[j])
      BY DEF Starts
    <3>2. job'[j].related = job[j].related /\ job'[j].walk = job[j].walk
      BY <3>1
    <3>3. s \in Txs /\ c \in Coins
      BY <3>2, ImportingTxs, CoinAssumption
    <3>4. Reserved(c, t)
      BY <1>a, <2>1, <3>3
    <3>5. QED
      BY <2>1, <3>2, <3>4 DEF HoldInv, WalkFit
  <2>2. QED
    BY <2>1 DEF WalkFit
<1>3. HitFit'
  <2>1. ASSUME NEW j \in Jobs, NEW t \in job'[j].related, job'[j].marks = {"coins"}
        PROVE  ~Holding(t)'
    <3>1. ~Starts(job'[j])
      BY <2>1 DEF Starts
    <3>2. job'[j].related = job[j].related
      BY <3>1
    <3>3. t \in Txs
      BY <3>2, ImportingTxs
    <3>4. \/ job[j].marks = {"coins"}
          \/ ~Holding(t)'
      BY <2>1, <3>1, <3>2
    <3>5. QED
      BY <3>2, <3>3, <3>4 DEF HoldInv, HitFit
  <2>2. QED
    BY <2>1 DEF HitFit
<1>4. LookFit'
  <2>1. \A j \in Jobs : LookAt(job'[j])
    BY DEF Starts
  <2>2. \A r \in Relays : \A s, t \in job'[r].txs : s = t
    BY DEF HoldInv, LookFit
  <2>3. QED
    BY <2>1, <2>2 DEF LookFit
<1>5. SpenderFit'
  BY NoneAssumption DEF HoldInv, SpenderFit
<1>6. Shrinks
  BY <1>a DEF Shrinks
<1>7. QED
  BY <1>1, <1>2, <1>3, <1>4, <1>5, <1>6 DEF HoldInv

\* The same for a step that leaves the coins alone, and every job that it does
\* not start anew.
LEMMA HoldStarts ==
  ASSUME TypeInv, TypeInv', HoldInv, coins' = coins,
         \A t \in Txs : Holding(t)' => Holding(t),
         \A j \in Jobs : job'[j] = job[j] \/ Starts(job'[j]),
         \A r \in Relays : \/ job'[r].txs \subseteq job[r].txs
                           \/ \A s, t \in job'[r].txs : s = t
  PROVE  HoldInv' /\ Shrinks
<1>1. \A j \in Jobs : LookAt(job[j])
  BY DEF HoldInv, LookFit
<1>2. \A t \in Txs : \A c \in Spends[t] : Reserved(c, t) => Reserved(c, t)'
  BY DEF Reserved
<1>3. QED
  BY <1>1, <1>2, HoldSame

LEMMA IdleStarts ==
  /\ Starts(Idle)
  /\ \A r : /\ r.stage \notin {"relate", "mark"} /\ r.marks = {}
            /\ r.related = {} /\ r.walk = {} /\ r.seen = {}
            => Starts(r)
BY DEF Starts, LookAt, Idle

LEMMA ContinuedStarts ==
  ASSUME NEW r \in JobDocs, NEW q \in Continued(r), r.marks = {},
         r.walk = {}, r.seen = {}
  PROVE  Starts(q)
<1>1. CASE r.todo = {}
  <2>1. q = [r EXCEPT !.stage = "spend", !.related = {}]
    BY <1>1 DEF Continued
  <2>2. q.stage = "spend" /\ q.related = {} /\ q.marks = {} /\ q.walk = {} /\ q.seen = {}
    BY <2>1 DEF JobDocs
  <2>3. QED
    BY <2>2 DEF Starts, LookAt
<1>2. CASE r.todo # {}
  <2>1. PICK root \in r.todo :
          q = [r EXCEPT !.stage = "relate", !.todo = @ \ {root},
                        !.walk = {root}, !.seen = {}, !.related = {root}]
    BY <1>2 DEF Continued
  <2>2. q.stage = "relate" /\ q.related = {root} /\ q.marks = {} /\ q.walk = {root}
        /\ q.seen = {}
    BY <2>1 DEF JobDocs
  <2>3. QED
    BY <2>2 DEF Starts, LookAt
<1>3. QED
  BY <1>1, <1>2

\* Before its look-up a job has nothing in hand.
LEMMA NothingRead ==
  ASSUME TypeInv, HoldInv, NEW j \in Jobs, job[j].stage \notin {"relate", "mark"}
  PROVE  job[j].related = {} /\ job[j].walk = {} /\ job[j].seen = {}
BY DEF HoldInv, LookFit, LookAt

LEMMA FindHold ==
  ASSUME TypeInv, TypeInv', HoldInv, NEW j \in Relays \cup {"block"}, FindRivals(j)
  PROVE  HoldInv' /\ Shrinks
<1>1. j \in Jobs /\ job[j].stage = "find" /\ job[j].marks = {} /\ job[j] \in JobDocs
      /\ UNCHANGED <<importing, txs, coins, Impaired>>
  BY JobNames, FindGoesOn, ImportingTxs DEF NodeSame, store, Impaired, history
<1>2. job[j].walk = {} /\ job[j].seen = {}
  BY <1>1, NothingRead
<1> DEFINE p == [job[j] EXCEPT !.todo = Rivals(job[j].txs)]
<1>3. PICK q \in Continued(p) : job' = [job EXCEPT ![j] = q]
  BY DEF FindRivals
<1>4. PICK r \in JobDocs :
        /\ job' = [job EXCEPT ![j] = r]
        /\ r.txs = job[j].txs /\ r.stage \in {"spend", "relate"}
  BY <1>1, FindGoesOn
<1>5. job'[j] = r /\ \A k \in Jobs \ {j} : job'[k] = job[k]
  BY <1>1, <1>4, JobStep DEF TypeInv, TypeOK
<1>6. q = r
  BY <1>1, <1>3, <1>5 DEF TypeInv, TypeOK
<1>7. Starts(r)
  <2>1. p \in JobDocs
    <3>1. Rivals(job[j].txs) \subseteq Txs
      BY <1>1, RivalsTyped
    <3>2. QED
      BY <1>1, <3>1 DEF JobDocs
  <2>2. p.marks = {} /\ p.walk = {} /\ p.seen = {}
    BY <1>1, <1>2 DEF JobDocs
  <2> HIDE DEF p
  <2>3. QED
    BY <1>3, <1>6, <2>1, <2>2, ContinuedStarts
<1>8. ASSUME NEW t \in Txs
      PROVE  Holding(t)' => Holding(t)
  <2>1. ~HalfMarks(j, t)
    BY <1>1, NotMarking
  <2>2. \A k \in Jobs : HalfMarks(k, t) => HalfMarks(k, t)' /\ job'[k].marks = job[k].marks
    BY <1>5, <2>1 DEF HalfMarks
  <2>3. \A q1 \in Relays : job'[q1].stage = "write" =>
            job[q1].stage = "write" /\ job'[q1].txs = job[q1].txs
    BY <1>4, <1>5, JobNames
  <2>4. QED
    BY <1>1, <2>2, <2>3, HoldingKept
<1>9. \A k \in Jobs : job'[k].txs = job[k].txs
  BY <1>4, <1>5
<1>10. QED
  BY <1>1, <1>5, <1>7, <1>8, <1>9, JobNames, HoldStarts

\* What one read of findAllRelatedOutputs adds.
LEMMA WalkedLook ==
  ASSUME TypeInv, HoldInv, NEW j \in Jobs, job[j].stage = "relate",
         NEW t \in job[j].walk
  PROVE  LET q == Walked(j, t)
             spenders == {coins[c].by : c \in OutputsOf(t)} \ {None}
         IN  /\ LookAt(q) /\ q.marks # {"coins"}
             /\ q.related = job[j].related \cup spenders
             /\ q.related \ q.walk \subseteq (job[j].related \ job[j].walk) \cup {t}
<1> DEFINE spenders == {coins[c].by : c \in OutputsOf(t)} \ {None}
           seen == job[j].seen \cup IF OutputsOf(t) = {} THEN {} ELSE {t}
           walk == (job[j].walk \ {t}) \cup (spenders \ seen)
           done == walk = {}
           q == Walked(j, t)
<1>1. job[j] \in JobDocs
  BY DEF TypeInv, TypeOK
<1>2. job[j].seen \cup job[j].walk \subseteq job[j].related
  BY DEF HoldInv, LookFit, LookAt
<1>3. q = [job[j] EXCEPT !.stage = IF done THEN "mark" ELSE "relate",
                         !.walk = walk,
                         !.seen = IF done THEN {} ELSE seen,
                         !.related = @ \cup spenders,
                         !.marks = IF done THEN {"txs", "coins"} ELSE {}]
  BY DEF Walked
<1>4. seen \subseteq job[j].seen \cup {t}
  OBVIOUS
<1> HIDE DEF spenders, seen
<1>5. /\ q.walk = walk /\ q.related = job[j].related \cup spenders
      /\ done => q.stage = "mark" /\ q.marks = {"txs", "coins"} /\ q.seen = {}
      /\ ~done => q.stage = "relate" /\ q.marks = {} /\ q.seen = seen
  BY <1>1, <1>3 DEF JobDocs
<1>6. LookAt(q)
  <2>1. walk \subseteq job[j].related \cup spenders
    BY <1>2
  <2>2. seen \subseteq job[j].related
    BY <1>2, <1>4
  <2>3. QED
    BY <1>5, <2>1, <2>2 DEF LookAt
<1>7. q.related \ q.walk \subseteq (job[j].related \ job[j].walk) \cup {t}
  BY <1>2, <1>4, <1>5
<1>8. q.marks # {"coins"}
  BY <1>5
<1> HIDE DEF q
<1>9. QED
  BY <1>5, <1>6, <1>7, <1>8 DEF q, spenders

LEMMA RelateHold ==
  ASSUME TypeInv, TypeInv', HoldInv, NEW j \in Jobs, NEW t0 \in Txs, Relate(j, t0)
  PROVE  HoldInv' /\ Shrinks
<1>1. /\ job[j].stage = "relate" /\ t0 \in job[j].walk /\ job[j].marks = {}
      /\ UNCHANGED <<importing, txs, coins, Impaired>>
  BY DEF Relate, node, store, TypeInv, MarksFit, Impaired, history
<1>2. \A t : ~HalfMarks(j, t)
  BY <1>1, NotMarking
<1>3. CASE j = "pruner" /\ \E c \in OutputsOf(t0) : Confirmed(c)
  <2>1. job' = [job EXCEPT ![j] = Idle]
    BY <1>3 DEF Relate
  <2>2. job'[j] = Idle /\ \A k \in Jobs \ {j} : job'[k] = job[k]
    BY <2>1, IdleFields, JobStep DEF TypeInv, TypeOK
  <2>3. ASSUME NEW t \in Txs
        PROVE  Holding(t)' => Holding(t)
    <3>1. \A k \in Jobs : HalfMarks(k, t) => HalfMarks(k, t)' /\ job'[k].marks = job[k].marks
      BY <1>2, <2>2 DEF HalfMarks
    <3>2. \A r \in Relays : job'[r] = job[r]
      BY <1>3, <2>2, JobNames
    <3>3. QED
      BY <1>1, <3>1, <3>2, HoldingKept
  <2>4. QED
    BY <1>1, <1>3, <2>2, <2>3, IdleStarts, JobNames, HoldStarts
<1>4. CASE ~(j = "pruner" /\ \E c \in OutputsOf(t0) : Confirmed(c))
  <2> DEFINE q == Walked(j, t0)
             spenders == {coins[c].by : c \in OutputsOf(t0)} \ {None}
  <2>1. job' = [job EXCEPT ![j] = q]
    BY <1>4 DEF Relate
  <2>2. q \in JobDocs /\ q.txs = job[j].txs /\ q.stage \in {"relate", "mark"}
    BY <1>1, WalkedFields DEF TypeInv
  <2>3. /\ LookAt(q) /\ q.marks # {"coins"}
        /\ q.related = job[j].related \cup spenders
        /\ q.related \ q.walk \subseteq (job[j].related \ job[j].walk) \cup {t0}
    BY <1>1, WalkedLook
  <2> HIDE DEF q
  <2>4. job'[j] = q /\ \A k \in Jobs \ {j} : job'[k] = job[k]
    BY <2>1, <2>2, JobStep DEF TypeInv, TypeOK
  <2>5. ASSUME NEW t \in Txs
        PROVE  Holding(t)' => Holding(t)
    <3>1. \A k \in Jobs : HalfMarks(k, t) => HalfMarks(k, t)' /\ job'[k].marks = job[k].marks
      BY <1>2, <2>4 DEF HalfMarks
    <3>2. \A r \in Relays : job'[r].stage = "write" =>
             job[r].stage = "write" /\ job'[r].txs = job[r].txs
      BY <2>2, <2>4, JobNames
    <3>3. QED
      BY <1>1, <3>1, <3>2, HoldingKept
  <2>6. HoldFit'
    <3>1. \A t \in Txs : Held(t) => Held(t)'
      BY <1>1 DEF Held, Reserved
    <3>2. QED
      BY <2>5, <3>1 DEF HoldInv, HoldFit
  <2>7. WalkFit'
    <3>1. ASSUME NEW k \in Jobs, NEW s \in job'[k].related \ job'[k].walk,
                 NEW c \in Mints[s], NEW t \in Txs, Reserved(c, t)', Holding(t)'
          PROVE  t \in job'[k].related
      <4>1. Reserved(c, t) /\ Holding(t)
        BY <1>1, <2>5, <3>1 DEF Reserved
      <4>2. CASE k # j \/ s # t0
        <5>1. s \in job[k].related \ job[k].walk
          BY <2>3, <2>4, <3>1, <4>2
        <5>2. t \in job[k].related
          BY <4>1, <5>1 DEF HoldInv, WalkFit
        <5>3. QED
          BY <2>3, <2>4, <5>2
      <4>3. CASE k = j /\ s = t0
        <5>1. c \in Coins
          BY <4>3, CoinAssumption
        <5>2. Held(t) /\ c \in Spends[t]
          BY <4>1, <5>1 DEF HoldInv, HoldFit, SpenderFit, Reserved
        <5>3. c \in OutputsOf(t0)
          BY <4>1, <4>3, <5>2 DEF OutputsOf, Held, Reserved
        <5>4. t \in spenders
          BY <4>1, <5>3, NoneAssumption DEF Reserved
        <5>5. QED
          BY <2>3, <2>4, <4>3, <5>4
      <4>4. QED
        BY <4>2, <4>3
    <3>2. QED
      BY <3>1 DEF WalkFit
  <2>8. HitFit'
    <3>1. ASSUME NEW k \in Jobs, NEW t \in job'[k].related, job'[k].marks = {"coins"}
          PROVE  ~Holding(t)'
      <4>1. k # j
        BY <2>3, <2>4, <3>1
      <4>2. job'[k] = job[k] /\ t \in Txs
        BY <2>4, <4>1, ImportingTxs
      <4>3. QED
        BY <2>5, <3>1, <4>2 DEF HoldInv, HitFit
    <3>2. QED
      BY <3>1 DEF HitFit
  <2>9. LookFit'
    <3>1. \A k \in Jobs : LookAt(job'[k])
      BY <2>3, <2>4 DEF HoldInv, LookFit
    <3>2. \A r \in Relays : job'[r].txs = job[r].txs
      BY <2>2, <2>4, JobNames
    <3>3. QED
      BY <3>1, <3>2 DEF HoldInv, LookFit
  <2>10. SpenderFit'
    BY <1>1 DEF HoldInv, SpenderFit
  <2>11. Shrinks
    BY <1>1, <2>5 DEF Shrinks, Reserved
  <2>12. QED
    BY <2>6, <2>7, <2>8, <2>9, <2>10, <2>11 DEF HoldInv
<1>5. QED
  BY <1>3, <1>4

LEMMA PruneHold ==
  ASSUME TypeInv, TypeInv', HoldInv, NEW t0 \in Txs, PruneTx(t0)
  PROVE  HoldInv' /\ Shrinks
<1> DEFINE r == [Idle EXCEPT !.stage = "relate", !.height = txs[t0].height,
                             !.walk = {t0}, !.related = {t0}]
<1>1. /\ UNCHANGED <<importing, txs, coins, Impaired>>
      /\ \A k \in Jobs \ {"pruner"} : job'[k] = job[k]
      /\ job["pruner"] = Idle
  BY PruneTypes DEF PruneTx, NodeSame, store, Impaired, history
<1>2. job'["pruner"] = r
  BY JobNames DEF PruneTx, TypeInv, TypeOK
<1>3. /\ r.stage = "relate" /\ r.walk = {t0} /\ r.related = {t0} /\ r.seen = {}
      /\ r.marks = {} /\ r.txs = {}
  BY DEF Idle
<1> HIDE DEF r
<1>4. Starts(job'["pruner"])
  BY <1>2, <1>3 DEF Starts, LookAt
<1>5. ASSUME NEW t \in Txs
      PROVE  Holding(t)' => Holding(t)
  <2>1. ~HalfMarks("pruner", t)
    BY <1>1, IdleFields DEF HalfMarks
  <2>2. \A k \in Jobs : HalfMarks(k, t) => HalfMarks(k, t)' /\ job'[k].marks = job[k].marks
    BY <1>1, <2>1 DEF HalfMarks
  <2>3. \A q \in Relays : job'[q] = job[q]
    BY <1>1, JobNames
  <2>4. QED
    BY <1>1, <2>2, <2>3, HoldingKept
<1>6. QED
  BY <1>1, <1>4, <1>5, JobNames, HoldStarts

LEMMA PrunerCrashHold ==
  ASSUME TypeInv, TypeInv', HoldInv, PrunerCrashes
  PROVE  HoldInv' /\ Shrinks
<1>1. /\ UNCHANGED <<importing, txs, coins>>
      /\ Impaired' = Impaired \cup HalfMarked({"pruner"})
      /\ job'["pruner"] = Idle
      /\ \A k \in Jobs \ {"pruner"} : job'[k] = job[k]
  BY PrunerCrashTypes DEF PrunerCrashes, NodeSame, store, Impaired, history
<1>2. ASSUME NEW t \in Txs
      PROVE  Holding(t)' => Holding(t)
  <2>1. HalfMarks("pruner", t) => t \in Impaired'
    BY <1>1, HalfMarkedIff
  <2>2. \A k \in Jobs : HalfMarks(k, t) /\ t \notin Impaired' =>
           HalfMarks(k, t)' /\ job'[k].marks = job[k].marks
    BY <1>1, <2>1 DEF HalfMarks
  <2>3. \A q \in Relays : job'[q] = job[q]
    BY <1>1, JobNames
  <2>4. QED
    BY <1>1, <2>2, <2>3, HoldingKept
<1>3. QED
  BY <1>1, <1>2, IdleStarts, JobNames, HoldStarts

LEMMA NodeCrashHold ==
  ASSUME TypeInv, TypeInv', HoldInv, NodeCrashes
  PROVE  HoldInv' /\ Shrinks
<1>1. /\ UNCHANGED <<importing, txs, coins>>
      /\ Impaired' = Impaired \cup HalfMarked(Jobs \ {"pruner"})
                        \cup UNION {job[r].txs : r \in Relays}
      /\ \A j \in Jobs \ {"pruner"} : job'[j] = Idle
      /\ job'["pruner"] = job["pruner"]
  BY NodeCrashTypes DEF NodeCrashes, store, Impaired, history
<1>2. ASSUME NEW t \in Txs
      PROVE  Holding(t)' => Holding(t)
  <2>1. \A k \in Jobs \ {"pruner"} : HalfMarks(k, t) => t \in Impaired'
    BY <1>1, HalfMarkedIff
  <2>2. ASSUME NEW k \in Jobs, HalfMarks(k, t), t \notin Impaired'
        PROVE  HalfMarks(k, t)' /\ job'[k].marks = job[k].marks
    <3>1. k = "pruner"
      BY <2>1, <2>2
    <3>2. QED
      BY <1>1, <2>2, <3>1 DEF HalfMarks
  <2>3. \A q \in Relays : job'[q].stage # "write"
    BY <1>1, JobNames, IdleFields
  <2>4. QED
    BY <1>1, <2>2, <2>3, HoldingKept
<1>3. \A r \in Relays : job'[r].txs = {}
  BY <1>1, JobNames, IdleFields
<1>4. \A k \in Jobs : job'[k] = job[k] \/ Starts(job'[k])
  BY <1>1, IdleStarts
<1>5. QED
  BY <1>1, <1>2, <1>3, <1>4, HoldStarts

LEMMA MintHold ==
  ASSUME TypeInv, TypeInv', StoreInv, HoldInv, NEW j \in Relays \cup {"block"}, Mint(j)
  PROVE  HoldInv' /\ Shrinks
<1>1. /\ j \in Jobs /\ job[j] \in JobDocs /\ job[j].stage = "mint"
      /\ job[j].marks = {}
      /\ UNCHANGED <<importing, txs, Impaired>>
      /\ job' = [job EXCEPT ![j].stage = "find"]
  BY JobNames, ImportingTxs DEF Mint, Goto, node, TypeInv, MarksFit, Impaired, history
<1>2. job[j].related = {} /\ job[j].walk = {} /\ job[j].seen = {}
  BY <1>1, NothingRead
<1> DEFINE r == [job[j] EXCEPT !.stage = "find"]
<1>3. /\ r.stage = "find" /\ r.marks = {} /\ r.related = {} /\ r.walk = {}
      /\ r.seen = {} /\ r.txs = job[j].txs
  BY <1>1, <1>2 DEF JobDocs
<1>4. job'[j] = r /\ \A k \in Jobs \ {j} : job'[k] = job[k]
  BY <1>1 DEF TypeInv, TypeOK
<1> HIDE DEF r
<1>5. Starts(job'[j])
  BY <1>3, <1>4, IdleStarts
<1>6. ASSUME NEW t \in Txs
      PROVE  Holding(t)' => Holding(t)
  <2>1. ~HalfMarks(j, t)
    BY <1>1, NotMarking
  <2>2. \A k \in Jobs : HalfMarks(k, t) => HalfMarks(k, t)' /\ job'[k].marks = job[k].marks
    BY <1>4, <2>1 DEF HalfMarks
  <2>3. \A q \in Relays : job'[q].stage = "write" =>
            job[q].stage = "write" /\ job'[q].txs = job[q].txs
    BY <1>3, <1>4, JobNames
  <2>4. QED
    BY <1>1, <2>2, <2>3, HoldingKept
<1>7. job[j].height \in Heights /\ job[j].height # Conflicting
  <2>1. job[j].height \in {Pending} \cup 1 .. MaxHeight
    BY <1>1, JobNames, ImportingTxs DEF Importing
  <2>2. QED
    BY <2>1, Constants DEF Heights
<1>8. ASSUME NEW c \in Coins
      PROVE  /\ coins'[c] # None /\ coins'[c].by # None =>
                /\ coins[c] # None /\ coins[c].by = coins'[c].by
                /\ coins'[c].spent = Pending => coins[c].spent = Pending
             /\ coins[c] # None =>
                /\ coins'[c] # None /\ coins'[c].spent = coins[c].spent
                /\ coins'[c].by = coins[c].by
                /\ coins[c].mint # Conflicting => coins'[c].mint # Conflicting
  <2> DEFINE M == Minted(c, job[j].height, job[j].found)
  <2>1. coins'[c] = M \/ coins'[c] = coins[c]
    BY DEF Mint
  <2>2. /\ M \in CoinDocs
        /\ coins[c] = None => M.by = None
        /\ coins[c] # None =>
              /\ M.mint = IF job[j].height = Pending THEN coins[c].mint ELSE job[j].height
              /\ M.spent = coins[c].spent /\ M.by = coins[c].by
    BY <1>7, MintedFields DEF TypeInv
  <2> HIDE DEF M
  <2>3. M # None
    BY <2>2, NoneAssumption
  <2>4. QED
    BY <1>7, <2>1, <2>2, <2>3
<1>9. ASSUME NEW t \in Txs, NEW c \in Spends[t], Reserved(c, t), coins[c].mint # Conflicting
      PROVE  Reserved(c, t)' /\ coins'[c].mint # Conflicting
  <2>1. c \in Coins
    BY CoinAssumption
  <2>2. QED
    BY <1>8, <1>9, <2>1 DEF Reserved
<1>10. \A k \in Jobs : LookAt(job[k])
  BY DEF HoldInv, LookFit
<1>11. \A k \in Relays : job'[k].txs = job[k].txs
  BY <1>3, <1>4, JobNames
<1>12. \A k \in Jobs : Starts(job'[k]) \/ (LookAt(job'[k]) /\ job'[k] = job[k])
  BY <1>4, <1>5, <1>10
<1>13. QED
  BY <1>6, <1>8, <1>9, <1>11, <1>12, HoldSame

\* What a relay stores as pending was shown before; what a block stores is mined.
LEMMA WriteHold ==
  ASSUME TypeInv, TypeInv', HoldInv, NEW j \in Relays \cup {"block"}, WriteTxs(j)
  PROVE  HoldInv' /\ Shrinks
<1>1. /\ j \in Jobs /\ job[j] \in JobDocs /\ job[j].stage = "write" /\ job[j].marks = {}
      /\ coins' = coins /\ Impaired' = Impaired
      /\ job' = [job EXCEPT ![j] = Idle]
      /\ txs' = [t \in Txs |-> IF t \in job[j].txs THEN Written(j, t) ELSE txs[t]]
  BY JobNames, ImportingTxs DEF WriteTxs, TypeInv, MarksFit, Impaired, history
<1>2. job'[j] = Idle /\ \A k \in Jobs \ {j} : job'[k] = job[k]
  BY <1>1, IdleFields, JobStep DEF TypeInv, TypeOK
<1>3. ASSUME NEW t \in Txs
      PROVE  /\ ~HalfMarks(j, t)
             /\ \A k \in Jobs : HalfMarks(k, t) =>
                   HalfMarks(k, t)' /\ job'[k].marks = job[k].marks
  <2>1. ~HalfMarks(j, t)
    BY <1>1, NotMarking
  <2>2. QED
    BY <1>2, <2>1 DEF HalfMarks
<1>4. ASSUME NEW q \in Relays, job'[q].stage = "write"
      PROVE  q # j /\ job[q].stage = "write" /\ job'[q].txs = job[q].txs
  BY <1>2, <1>4, JobNames, IdleFields
<1>5. CASE j \in Relays
  <2>1. job[j].height = Pending /\ importing' = importing
    BY <1>5, JobNames DEF TypeInv, JobsFit, WriteTxs
  <2>2. ASSUME NEW t \in Txs, Shown(t)'
        PROVE  Shown(t)
    <3>1. CASE t \in job[j].txs
      <4>1. CASE txs[t] = None
        BY <1>1, <1>5, <3>1, <4>1 DEF Shown
      <4>2. CASE txs[t] # None
        <5>1. txs'[t] = txs[t]
          BY <1>1, <2>1, <3>1, <4>2, WrittenFields
        <5>2. QED
          BY <2>2, <4>2, <5>1 DEF Shown
      <4>3. QED
        BY <4>1, <4>2
    <3>2. CASE t \notin job[j].txs
      <4>1. txs'[t] = txs[t]
        BY <1>1, <3>2
      <4>2. QED
        BY <1>4, <2>2, <4>1 DEF Shown
    <3>3. QED
      BY <3>1, <3>2
  <2>3. ASSUME NEW t \in Txs
        PROVE  Leaving(t) => Leaving(t)'
    BY <1>1, <1>3, <2>1 DEF Leaving
  <2>4. QED
    BY <1>1, <1>2, <2>2, <2>3, IdleStarts, IdleFields, HoldStarts DEF Holding
<1>6. CASE j = "block"
  <2>1. /\ job[j].txs = importing /\ importing' = {}
        /\ job[j].height = Height + 1 /\ Height \in Nat
    BY <1>1, <1>6, ChainTxs DEF TypeInv, JobsFit, WriteTxs, Importing
  <2>2. ASSUME NEW t \in Txs, Holding(t)'
        PROVE  Holding(t)
    <3>1. t \notin importing
      <4>1. SUFFICES ASSUME t \in importing PROVE FALSE
        OBVIOUS
      <4>2. txs'[t] = Written(j, t)
        BY <1>1, <2>1, <4>1
      <4>3. job[j].height # Pending
        BY <2>1, Constants
      <4>4. txs'[t] # None /\ txs'[t].height # Pending
        BY <1>1, <4>2, <4>3, WrittenFields
      <4>5. QED
        BY <2>2, <4>4 DEF Holding, Shown
    <3>2. txs'[t] = txs[t]
      BY <1>1, <2>1, <3>1
    <3>3. QED
      BY <1>1, <1>3, <1>4, <2>1, <2>2, <3>1, <3>2, HoldingKept
  <2>3. QED
    BY <1>1, <1>2, <1>6, <2>2, IdleStarts, JobNames, HoldStarts
<1>7. QED
  BY <1>5, <1>6

LEMMA BeginHold ==
  ASSUME TypeInv, NEW j \in Jobs, NEW T \in SUBSET Txs, NEW h \in Heights,
         Begin(j, T, h)
  PROVE  Starts(job'[j])
<1> DEFINE found == {AddressOf[c] : c \in
                        {d \in Outputs(T) : addresses[AddressOf[d]] # "none"}}
           r == [Idle EXCEPT !.stage = "mint", !.txs = T, !.height = h,
                             !.found = found]
<1>1. job' = [job EXCEPT ![j] = r]
  BY DEF Begin
<1> HIDE DEF found
<1>2. /\ r.stage = "mint" /\ r.marks = {} /\ r.related = {} /\ r.walk = {}
      /\ r.seen = {}
  BY DEF Idle
<1> HIDE DEF r
<1>3. job'[j] = r
  BY <1>1 DEF TypeInv, TypeOK
<1>4. QED
  BY <1>2, <1>3, IdleStarts

LEMMA BlockArrivesHold ==
  ASSUME TypeInv, TypeInv', HoldInv, NEW T \in SUBSET Txs, BlockArrives(T)
  PROVE  HoldInv' /\ Shrinks
<1>1. /\ job["block"] = Idle /\ importing' = T
      /\ importing = {} \/ importing = T
      /\ Impaired' = Impaired \ T
      /\ UNCHANGED <<txs, coins>>
      /\ Begin("block", T, Height + 1) /\ Height + 1 \in Heights
  BY Constants, ChainTxs DEF BlockArrives, NewHeight, store, Heights, Impaired, history
<1>2. Starts(job'["block"])
  BY <1>1, JobNames, BeginHold
<1>3. \A k \in Jobs \ {"block"} : job'[k] = job[k]
  BY <1>1, JobNames, BeginFields
<1>4. ASSUME NEW t \in Txs
      PROVE  Holding(t)' => Holding(t)
  <2>1. ~HalfMarks("block", t)
    BY <1>1, IdleFields DEF HalfMarks
  <2>2. \A k \in Jobs : HalfMarks(k, t) => HalfMarks(k, t)' /\ job'[k].marks = job[k].marks
    BY <1>3, <2>1 DEF HalfMarks
  <2>3. \A q \in Relays : job'[q] = job[q]
    BY <1>3, JobNames
  <2>4. t \in Impaired \cup importing => t \in Impaired' \cup importing'
    BY <1>1
  <2>5. QED
    BY <1>1, <2>2, <2>3, <2>4, HoldingKept
<1>5. QED
  BY <1>1, <1>2, <1>3, <1>4, JobNames, HoldStarts

\* A transaction that is imported afresh is neither stored nor with a relay.
LEMMA TxArrivesHold ==
  ASSUME TypeInv, TypeInv', HoldInv, NEW r \in Relays, NEW t0 \in Txs, TxArrives(r, t0)
  PROVE  HoldInv' /\ Shrinks
<1>1. /\ r \in Jobs /\ job[r] = Idle /\ t0 \notin inv
      /\ UNCHANGED <<importing, txs, coins>>
      /\ Begin(r, {t0}, Pending) /\ Pending \in Heights
      /\ Impaired \ {t0} \subseteq Impaired'
      /\ Impaired \subseteq Impaired' \/ txs[t0] = None
  BY Constants, JobNames DEF TxArrives, store, Afresh, Impaired, history
<1>2. Starts(job'[r])
  BY <1>1, BeginHold
<1>3. /\ job'[r].stage = "mint" /\ job'[r].txs = {t0}
      /\ \A k \in Jobs \ {r} : job'[k] = job[k]
  BY <1>1, BeginFields
<1>4. \A q \in Relays : job'[q].stage = "write" => q # r /\ job'[q] = job[q]
  BY <1>3, JobNames
<1>5. ASSUME NEW t \in Txs, Holding(t)'
      PROVE  Holding(t)
  <2>1. ~HalfMarks(r, t)
    BY <1>1, IdleFields DEF HalfMarks
  <2>2. \A k \in Jobs : HalfMarks(k, t) => HalfMarks(k, t)' /\ job'[k].marks = job[k].marks
    BY <1>3, <2>1 DEF HalfMarks
  <2>3. t \in Impaired \cup importing => t \in Impaired' \cup importing'
    <3>1. CASE t = t0 /\ txs[t0] = None
      <4>1. PICK q \in Relays : job'[q].stage = "write" /\ t \in job'[q].txs
        BY <1>1, <1>5, <3>1 DEF Holding, Shown
      <4>2. t0 \in inv
        BY <1>4, <3>1, <4>1 DEF TypeInv, MarksFit
      <4>3. QED
        BY <1>1, <4>2
    <3>2. CASE ~(t = t0 /\ txs[t0] = None)
      BY <1>1, <3>2
    <3>3. QED
      BY <3>1, <3>2
  <2>4. QED
    BY <1>1, <1>4, <1>5, <2>2, <2>3, HoldingKept
<1>6. \A q \in Relays : \/ job'[q].txs \subseteq job[q].txs
                        \/ \A s, t \in job'[q].txs : s = t
  BY <1>3, JobNames
<1>7. \A k \in Jobs : job'[k] = job[k] \/ Starts(job'[k])
  BY <1>2, <1>3
<1>8. QED
  BY <1>1, <1>5, <1>6, <1>7, HoldStarts

LEMMA ReorgHold ==
  ASSUME TypeInv, TypeInv', HoldInv, NEW h \in 2 .. Height, Reorg(h)
  PROVE  HoldInv' /\ Shrinks
<1> DEFINE r == [Idle EXCEPT !.stage = "undo", !.height = h,
                             !.marks = {"txs", "coins"}]
<1>1. /\ UNCHANGED <<importing, txs, coins>> /\ Impaired \subseteq Impaired'
      /\ job["block"] = Idle /\ job' = [job EXCEPT !["block"] = r]
  BY DEF Reorg, store, Impaired, history
<1>2. /\ r.stage = "undo" /\ r.related = {} /\ r.walk = {} /\ r.seen = {}
      /\ r.marks # {"coins"} /\ r.txs = {}
  BY DEF Idle
<1> HIDE DEF r
<1>3. job'["block"] = r /\ \A k \in Jobs \ {"block"} : job'[k] = job[k]
  BY <1>1, JobNames DEF TypeInv, TypeOK
<1>4. Starts(job'["block"])
  BY <1>2, <1>3 DEF Starts, LookAt
<1>5. ASSUME NEW t \in Txs
      PROVE  Holding(t)' => Holding(t)
  <2>1. ~HalfMarks("block", t)
    BY <1>1, IdleFields DEF HalfMarks
  <2>2. \A k \in Jobs : HalfMarks(k, t) => HalfMarks(k, t)' /\ job'[k].marks = job[k].marks
    BY <1>3, <2>1 DEF HalfMarks
  <2>3. \A q \in Relays : job'[q] = job[q]
    BY <1>3, JobNames
  <2>4. QED
    BY <1>1, <2>2, <2>3, HoldingKept
<1>6. QED
  BY <1>1, <1>3, <1>4, <1>5, JobNames, HoldStarts

\* A rollback takes nothing from a pending transaction that it does not
\* deprive, and what it deletes no relay is storing.
LEMMA UndoMinedHold ==
  ASSUME TypeInv, TypeInv', StoreInv, AgreeInv, HoldInv, NEW m \in {"txs", "coins"},
         UndoMined(m)
  PROVE  HoldInv' /\ Shrinks
<1>1. /\ job["block"].stage = "undo" /\ job["block"].height = Height + 1
      /\ importing = {} /\ importing' = {} /\ Height \in Nat
      /\ Impaired \subseteq Impaired' /\ m \in job["block"].marks
      /\ job["block"] \in JobDocs
      /\ job["block"].related = {} /\ job["block"].walk = {} /\ job["block"].seen = {}
  BY UndoMinedGoesOn, ChainTxs, JobNames, ImportingTxs, NothingRead DEF UndoMined, node,
      Impaired, history
<1> DEFINE r == [job["block"] EXCEPT !.marks = @ \ {m}]
<1>2. job' = [job EXCEPT !["block"] = r]
  BY JobNames DEF UndoMined, TypeInv, TypeOK
<1>3. /\ r.stage = "undo" /\ r.related = {} /\ r.walk = {} /\ r.seen = {}
      /\ r.txs = job["block"].txs
  BY <1>1 DEF JobDocs
<1> HIDE DEF r
<1>4. job'["block"] = r /\ \A k \in Jobs \ {"block"} : job'[k] = job[k]
  BY <1>2, JobNames DEF TypeInv, TypeOK
<1>5. LookAt(r)
  BY <1>3 DEF LookAt
<1>6. ASSUME NEW t \in Txs
      PROVE  /\ \A k \in Jobs : HalfMarks(k, t) => HalfMarks(k, t)' /\ job'[k].marks = job[k].marks
             /\ \A q \in Relays : job'[q] = job[q]
  <2>1. ~HalfMarks("block", t)
    BY <1>1 DEF HalfMarks
  <2>2. QED
    BY <1>4, <2>1, JobNames DEF HalfMarks
<1>7. ASSUME NEW t \in Txs, Holding(t)'
      PROVE  Holding(t)
  <2>1. CASE txs'[t] = txs[t]
    BY <1>1, <1>6, <1>7, <2>1, HoldingKept
  <2>2. CASE txs'[t] # txs[t]
    <3>1. txs[t] # None /\ txs[t].height >= Height + 1 /\ txs'[t] = None
      BY <1>1, <2>2 DEF UndoMined
    <3>2. txs[t].height \in Int
      BY <3>1, TxFields DEF TypeInv, TypeOK
    <3>3. PICK q \in Relays : t \in job[q].txs
      BY <1>6, <1>7, <3>1 DEF Holding, Shown
    <3>4. t \notin Impaired
      BY <1>1, <1>7 DEF Holding, Leaving
    <3>5. t \notin OnChain
      <4>1. ASSUME NEW i \in 1 .. Height, t \in chain[i]
            PROVE  FALSE
        <5>1. txs[t].height = i
          BY <3>4, <4>1 DEF StoreInv, ChainStands, TxStands, Impaired, history
        <5>2. QED
          BY <1>1, <3>1, <5>1
      <4>2. QED
        BY <4>1, ChainTxs
    <3>6. RelayAt(q, t)
      BY <1>1, <3>3, <3>4, <3>5 DEF AgreeInv, RelayFit, Impaired, history
    <3>7. txs[t].height < 0
      BY <3>1, <3>6 DEF RelayAt
    <3>8. QED
      BY <1>1, <3>1, <3>2, <3>7
  <2>3. QED
    BY <2>1, <2>2
<1>8. ASSUME NEW t \in Txs, NEW c \in Spends[t], Holding(t)', Reserved(c, t),
             coins[c].mint # Conflicting
      PROVE  Reserved(c, t)' /\ coins'[c].mint # Conflicting
  <2>1. c \in Coins
    BY CoinAssumption
  <2>2. coins'[c] = coins[c]
    <3>1. SUFFICES ASSUME coins'[c] # coins[c] PROVE t \in Impaired'
      BY <1>8 DEF Holding, Leaving
    <3>2. /\ m = "coins" /\ coins[c] # None /\ coins[c].mint >= job["block"].height
      BY <2>1, <3>1 DEF UndoMined
    <3>3. coins[c].by = t /\ t # None
      BY <1>8, NoneAssumption DEF Reserved
    <3>4. QED
      BY <2>1, <3>2, <3>3 DEF UndoMined, Impaired, history
  <2>3. QED
    BY <1>8, <2>2 DEF Reserved
<1>9. \A c \in Coins : coins'[c] # None => coins'[c] = coins[c]
  BY DEF UndoMined
<1>10. \A k \in Jobs : /\ LookAt(job'[k])
                       /\ job'[k].related = job[k].related /\ job'[k].walk = job[k].walk
                       /\ job'[k].related = {} \/ job'[k].marks = job[k].marks
  BY <1>1, <1>3, <1>4, <1>5 DEF HoldInv, LookFit
<1>11. \A q \in Relays : job'[q].txs = job[q].txs
  BY <1>4, JobNames
<1>12. QED
  BY <1>7, <1>8, <1>9, <1>10, <1>11, HoldSame

LEMMA UndoSpendsHold ==
  ASSUME TypeInv, TypeInv', HoldInv, UndoSpends
  PROVE  HoldInv' /\ Shrinks
<1>1. /\ UNCHANGED <<importing, txs, Impaired>>
      /\ job["block"].stage = "undo" /\ job["block"].marks = {}
      /\ job' = [job EXCEPT !["block"] = Idle]
  BY DEF UndoSpends, node, Impaired, history
<1>2. job'["block"] = Idle /\ \A k \in Jobs \ {"block"} : job'[k] = job[k]
  BY <1>1, JobNames, IdleFields, JobStep DEF TypeInv, TypeOK
<1>3. ASSUME NEW t \in Txs
      PROVE  Holding(t)' => Holding(t)
  <2>1. ~HalfMarks("block", t)
    BY <1>1, NotMarking
  <2>2. \A k \in Jobs : HalfMarks(k, t) => HalfMarks(k, t)' /\ job'[k].marks = job[k].marks
    BY <1>2, <2>1 DEF HalfMarks
  <2>3. \A q \in Relays : job'[q] = job[q]
    BY <1>2, JobNames
  <2>4. QED
    BY <1>1, <2>2, <2>3, HoldingKept
<1>4. Height \in Nat
  BY ChainTxs
<1>5. ASSUME NEW c \in Coins
      PROVE  /\ coins'[c] # None /\ coins'[c].by # None => coins'[c] = coins[c]
             /\ coins[c] # None /\ coins[c].spent = Pending => coins'[c] = coins[c]
  <2>1. coins[c] # None /\ coins[c].spent = Pending => ~(coins[c].spent > Height)
    BY <1>4 DEF Pending
  <2>2. QED
    BY <2>1, UndoSpendsGoesOn
<1>6. ASSUME NEW t \in Txs, NEW c \in Spends[t], Reserved(c, t), coins[c].mint # Conflicting
      PROVE  Reserved(c, t)' /\ coins'[c].mint # Conflicting
  <2>1. c \in Coins
    BY CoinAssumption
  <2>2. QED
    BY <1>5, <1>6, <2>1 DEF Reserved
<1>7. \A k \in Jobs : Starts(job'[k]) \/ (LookAt(job'[k]) /\ job'[k] = job[k])
  BY <1>2, IdleStarts DEF HoldInv, LookFit
<1>8. \A q \in Relays : job'[q].txs = job[q].txs
  BY <1>2, JobNames
<1>9. QED
  BY <1>3, <1>5, <1>6, <1>7, <1>8, HoldSame

\* What a job has found is what an update of it hits: everything that holds an
\* output of it is hit as well.
LEMMA MarkHold ==
  ASSUME TypeInv, TypeInv', HoldInv, NEW j \in Jobs, NEW m \in {"txs", "coins"}, Mark(j, m)
  PROVE  /\ HoldInv' /\ Shrinks
         /\ m = "txs" => \A t \in job[j].related : ~Holding(t)'
<1> DEFINE hit == job[j].related
           left == job[j].marks \ {m}
<1>1. /\ job[j].stage = "mark" /\ m \in job[j].marks /\ job[j] \in JobDocs
      /\ importing' = importing
      /\ Impaired' = Impaired \cup Overtaken(j, IsOld(j))
      /\ hit \in SUBSET Txs /\ job[j].marks \subseteq {"txs", "coins"}
      /\ IsOld(j) \in BOOLEAN
  BY ImportingTxs, JobFields DEF Mark, node, IsOld, Impaired, history
<1>2. LookAt(job[j]) /\ job[j].walk = {} /\ job[j].seen = {}
  BY <1>1 DEF HoldInv, LookFit, LookAt
<1>3. PICK r \in JobDocs :
        /\ job' = [job EXCEPT ![j] = r]
        /\ r.stage # "write"
        /\ j # "pruner" => r.txs = job[j].txs
        /\ IF left # {}
           THEN /\ LookAt(r) /\ r.related = hit /\ r.walk = job[j].walk
                /\ r.marks = left
           ELSE Starts(r)
  <2>1. PICK r \in IF left # {} THEN {[job[j] EXCEPT !.marks = left]}
                   ELSE IF j = "pruner" THEN {Idle}
                   ELSE Continued([job[j] EXCEPT !.marks = {}]) :
          job' = [job EXCEPT ![j] = r]
    BY DEF Mark
  <2>2. CASE left # {}
    <3>1. r = [job[j] EXCEPT !.marks = left]
      BY <2>1, <2>2
    <3>2. /\ r \in JobDocs /\ r.stage = "mark" /\ r.txs = job[j].txs
          /\ r.related = hit /\ r.walk = job[j].walk /\ r.seen = job[j].seen
          /\ r.marks = left
      BY <1>1, <3>1 DEF JobDocs
    <3> HIDE DEF left
    <3>3. LookAt(r)
      BY <1>2, <2>2, <3>2 DEF LookAt
    <3>4. QED
      BY <2>1, <2>2, <3>2, <3>3
  <2>3. CASE left = {} /\ j = "pruner"
    <3>1. r = Idle
      BY <2>1, <2>3
    <3>2. QED
      BY <2>1, <2>3, <3>1, IdleFields, IdleStarts
  <2>4. CASE left = {} /\ j # "pruner"
    <3> DEFINE p == [job[j] EXCEPT !.marks = {}]
    <3>1. p \in JobDocs /\ p.stage = "mark" /\ p.marks = {} /\ p.walk = {} /\ p.seen = {}
          /\ p.txs = job[j].txs
      BY <1>1, <1>2 DEF JobDocs
    <3>2. r \in Continued(p)
      BY <2>1, <2>4
    <3> HIDE DEF p, left
    <3>3. Starts(r) /\ r \in JobDocs /\ r.txs = job[j].txs /\ r.stage \in {"spend", "relate"}
      BY <3>1, <3>2, ContinuedStarts, ContinuedFields
    <3>4. QED
      BY <2>1, <2>4, <3>3
  <2>5. QED
    BY <2>2, <2>3, <2>4
<1> HIDE DEF left
<1>4. job'[j] = r /\ \A k \in Jobs \ {j} : job'[k] = job[k]
  BY <1>3, JobStep DEF TypeInv, TypeOK
<1>5. ASSUME NEW q \in Relays
      PROVE  /\ job'[q].txs = job[q].txs
             /\ job'[q].stage = "write" => job[q].stage = "write"
  <2>1. CASE q = j
    <3>1. r.stage # "write"
      BY <1>3
    <3>2. QED
      BY <1>3, <1>4, <2>1, <3>1, JobNames
  <2>2. CASE q # j
    BY <1>4, <2>2, JobNames
  <2>3. QED
    BY <2>1, <2>2
<1>6. ASSUME NEW t \in hit, m = "txs"
      PROVE  ~Holding(t)'
  <2>1. SUFFICES ASSUME Shown(t)', t \notin Impaired' PROVE FALSE
    BY DEF Holding, Leaving
  <2>2. t \notin Unsettled
    BY <1>1, <2>1 DEF Overtaken
  <2>3. t \in Txs /\ txs'[t] = MarkedTx(t, IsOld(j))
    BY <1>1, <1>6 DEF Mark, IsOld
  <2>4. CASE txs'[t] = None
    <3>1. PICK q \in Relays : t \in job'[q].txs
      BY <2>1, <2>4 DEF Shown
    <3>2. t \in job[q].txs
      BY <1>5, <3>1
    <3>3. QED
      BY <2>2, <3>2 DEF Unsettled
  <2>5. CASE txs'[t] # None
    <3>1. txs'[t].height = Pending
      BY <2>1, <2>5 DEF Shown
    <3>2. QED
      BY <1>1, <2>3, <2>5, <3>1, MarkedTxFields, Constants DEF TypeInv
  <2>6. QED
    BY <2>4, <2>5
<1>7. ASSUME NEW t \in Txs, Holding(t)'
      PROVE  Holding(t)
  <2>1. ~(m = "txs" /\ t \in hit)
    BY <1>6, <1>7
  <2>2. txs'[t] = txs[t]
    BY <2>1 DEF Mark
  <2>3. ~(HalfMarks(j, t) /\ "txs" \in job[j].marks)
    <3>1. CASE t \notin hit
      BY <3>1 DEF HalfMarks
    <3>2. CASE m = "coins"
      <4>1. HalfMarks(j, t) => job[j].marks = {"coins"}
        BY <1>1, <3>2, OneMark
      <4>2. QED
        BY <4>1
    <3>3. QED
      BY <2>1, <3>1, <3>2
  <2>4. \A k \in Jobs : HalfMarks(k, t) /\ "txs" \in job[k].marks =>
           HalfMarks(k, t)' /\ job'[k].marks = job[k].marks
    BY <1>4, <2>3 DEF HalfMarks
  <2>5. QED
    BY <1>1, <1>5, <1>7, <2>2, <2>4, HoldingKept
<1>8. ASSUME NEW c \in Coins
      PROVE  /\ c \notin Outputs(hit) \/ m = "txs" => coins'[c] = coins[c]
             /\ coins'[c] # None =>
                   /\ coins[c] # None /\ coins'[c].by = coins[c].by
                   /\ coins'[c].spent = coins[c].spent
  <2>1. coins'[c] = coins[c] \/ coins'[c] = MarkedCoin(c, IsOld(j))
    BY DEF Mark, IsOld
  <2>2. c \notin Outputs(hit) \/ m = "txs" => coins'[c] = coins[c]
    BY DEF Mark
  <2>3. QED
    BY <1>1, <2>1, <2>2, MarkedCoinFields DEF TypeInv
<1>9. ASSUME NEW t \in Txs, NEW c \in Spends[t], Holding(t)', Reserved(c, t),
             coins[c].mint # Conflicting
      PROVE  Reserved(c, t)' /\ coins'[c].mint # Conflicting
  <2>1. c \in Coins
    BY CoinAssumption
  <2>2. CASE c \notin Outputs(hit) \/ m = "txs"
    <3>1. coins'[c] = coins[c]
      BY <1>8, <2>1, <2>2
    <3>2. QED
      BY <1>9, <3>1 DEF Reserved
  <2>3. CASE c \in Outputs(hit) /\ m = "coins"
    <3>1. PICK s \in hit : c \in Mints[s]
      BY <2>3 DEF Outputs
    <3>2. Holding(t)
      BY <1>7, <1>9
    <3>3. t \in hit
      BY <1>2, <1>9, <3>1, <3>2 DEF HoldInv, WalkFit
    <3>4. left \in {{}, {"txs"}}
      BY <1>1, <2>3 DEF left
    <3>5. CASE left = {}
      <4>1. job[j].marks = {"coins"}
        BY <1>1, <2>3, <3>5 DEF left
      <4>2. QED
        BY <3>2, <3>3, <4>1 DEF HoldInv, HitFit
    <3>6. CASE left = {"txs"}
      <4>1. job'[j].related = hit /\ job'[j].marks = {"txs"}
        BY <1>3, <1>4, <3>6
      <4>2. HalfMarks(j, t)'
        BY <3>3, <4>1, MarkSizes DEF HalfMarks
      <4>3. Leaving(t)'
        BY <4>1, <4>2 DEF Leaving
      <4>4. QED
        BY <1>9, <4>3 DEF Holding
    <3>7. QED
      BY <3>4, <3>5, <3>6
  <2>4. QED
    BY <2>2, <2>3
<1>10. ASSUME NEW k \in Jobs
       PROVE  \/ Starts(job'[k])
              \/ /\ LookAt(job'[k])
                 /\ job'[k].related = job[k].related /\ job'[k].walk = job[k].walk
                 /\ job'[k].marks = {"coins"} =>
                       \/ job[k].marks = {"coins"}
                       \/ \A t \in job[k].related : ~Holding(t)'
  <2>1. CASE k # j
    <3>1. job'[k] = job[k]
      BY <1>4, <2>1
    <3>2. QED
      BY <3>1 DEF HoldInv, LookFit
  <2>2. CASE k = j /\ left = {}
    BY <1>3, <1>4, <2>2
  <2>3. CASE k = j /\ left # {}
    <3>1. /\ LookAt(job'[k])
          /\ job'[k].related = job[k].related /\ job'[k].walk = job[k].walk
          /\ job'[k].marks = left
      BY <1>3, <1>4, <2>3
    <3>2. left = {"coins"} => m = "txs"
      BY DEF left
    <3>3. QED
      BY <1>6, <2>3, <3>1, <3>2
  <2>4. QED
    BY <2>1, <2>2, <2>3
<1>11. \A q \in Relays : job'[q].txs \subseteq job[q].txs
  BY <1>5
<1>12. HoldInv' /\ Shrinks
  BY <1>7, <1>8, <1>9, <1>10, <1>11, HoldSame
<1>13. QED
  BY <1>6, <1>12

\* What a relay spends without being deprived is its own; whoever else held it
\* has been invalidated, and what spends an input that is being hit, or that
\* another import is about to spend, is deprived.
LEMMA SpendHold ==
  ASSUME TypeInv, TypeInv', StoreInv, AgreeInv, HoldInv, RivalFit,
         NEW j \in Relays \cup {"block"}, Spend(j)
  PROVE  HoldInv' /\ RivalFit'
<1> DEFINE T == job[j].txs
           h == job[j].height
<1>1. /\ j \in Jobs /\ job[j].stage = "spend" /\ job[j].marks = {}
      /\ T \in SUBSET Txs /\ h \in {Pending} \cup 1 .. MaxHeight
      /\ UNCHANGED <<importing, txs>>
      /\ Impaired' = Impaired \cup Losers(j)
      /\ coins' = SpentBy(T, h)
  BY JobNames, ImportingTxs, SpendGoesOn DEF Spend, Importing, node, TypeInv, MarksFit,
      Impaired, history
<1>2. job[j].related = {} /\ job[j].walk = {} /\ job[j].seen = {}
  BY <1>1, NothingRead
<1>3. /\ job'[j].stage = "write" /\ job'[j].txs = T /\ job'[j].marks = {}
      /\ job'[j].related = {} /\ job'[j].walk = {} /\ job'[j].seen = {}
      /\ \A k \in Jobs \ {j} : job'[k] = job[k]
  <2>1. job[j] \in JobDocs
    BY <1>1 DEF TypeInv, TypeOK
  <2>2. PICK x : job' = [job EXCEPT ![j].stage = "write", ![j].tagged = x]
    BY DEF Spend
  <2>3. job'[j] = [job[j] EXCEPT !.stage = "write", !.tagged = x]
        /\ \A k \in Jobs \ {j} : job'[k] = job[k]
    BY <1>1, <2>2 DEF TypeInv, TypeOK
  <2>4. QED
    BY <1>1, <1>2, <2>1, <2>3 DEF JobDocs
<1>4. j = "block" => T = importing /\ h # Pending
  BY <1>1, ChainTxs, Constants DEF TypeInv, JobsFit, Importing
<1>5. j # "block" => j \in Relays /\ h = Pending /\ \A s, t \in T : s = t
  BY DEF TypeInv, JobsFit, HoldInv, LookFit
<1> HIDE DEF T, h
<1>6. ASSUME NEW c \in Coins
      PROVE  /\ c \in Inputs(T) /\ Spendable(c) =>
                   /\ coins'[c] # None
                   /\ coins'[c].spent = h
                   /\ coins'[c].by = SpenderIn(T, c)
                   /\ coins'[c].mint = coins[c].mint
             /\ ~(c \in Inputs(T) /\ Spendable(c)) => coins'[c] = coins[c]
  BY <1>1, SpentByFields DEF TypeInv
<1> USE DEF T
<1>7. \A k \in Jobs : \A t \in Txs : HalfMarks(k, t)' <=> HalfMarks(k, t)
  <2>1. \A t : ~HalfMarks(j, t) /\ ~HalfMarks(j, t)'
    BY <1>2, <1>3 DEF HalfMarks
  <2>2. QED
    BY <1>3, <2>1 DEF HalfMarks
\* Only of what j spends can it begin to be held.
<1>8. ASSUME NEW t \in Txs, t \notin T, Holding(t)'
      PROVE  Holding(t)
  <2>1. Shown(t)
    <3>1. \A q \in Relays : t \in job'[q].txs /\ job'[q].stage = "write" =>
                               t \in job[q].txs /\ job[q].stage = "write"
      BY <1>3, <1>8, JobNames
    <3>2. QED
      BY <1>1, <1>8, <3>1 DEF Holding, Shown
  <2>2. ~Leaving(t)
    <3>1. \A k \in Jobs : HalfMarks(k, t) => job'[k].marks = job[k].marks
      BY <1>2, <1>3 DEF HalfMarks
    <3>2. QED
      BY <1>1, <1>7, <1>8, <3>1 DEF Holding, Leaving
  <2>3. QED
    BY <2>1, <2>2 DEF Holding
<1>9. ASSUME NEW t \in Txs, Holding(t)'
      PROVE  /\ t \notin Losers(j) /\ t \notin Impaired /\ t \notin importing
             /\ t \in T => j # "block"
  BY <1>1, <1>4, <1>9 DEF Holding, Leaving
<1>10. ASSUME NEW t \in T, Holding(t)', NEW c \in Spends[t]
       PROVE  /\ c \in Coins /\ c \in Inputs(T) /\ Spendable(c)
              /\ coins[c].mint # Conflicting
              /\ \A s \in Txs : c \in Mints[s] => ~BeingMarked(j, s)
  <2>1. t \in Txs /\ c \in Coins /\ c \in Inputs(T)
    BY <1>1, InputsTyped, CoinAssumption
  <2>2. t \notin Losers(j)
    BY <1>9, <1>10, <2>1
  <2>3. ~(\/ ~Spendable(c)
          \/ coins[c].mint = Conflicting
          \/ \E s \in Txs : c \in Mints[s] /\ BeingMarked(j, s))
    BY <2>2 DEF Losers
  <2>4. QED
    BY <2>1, <2>3
<1>11. HoldFit'
  <2>1. ASSUME NEW t \in Txs, Holding(t)', NEW c \in Spends[t]
        PROVE  Reserved(c, t)' /\ coins'[c].mint # Conflicting
    <3>1. c \in Coins
      BY CoinAssumption
    <3>2. CASE t \in T
      <4>1. c \in Inputs(T) /\ Spendable(c) /\ coins[c].mint # Conflicting
        BY <1>10, <2>1, <3>2
      <4>2. SpenderIn(T, c) = t
        BY <1>1, <1>5, <1>9, <2>1, <3>2, <4>1, SpenderInFact
      <4>3. h = Pending
        BY <1>5, <1>9, <2>1, <3>2
      <4>4. QED
        BY <1>6, <3>1, <4>1, <4>2, <4>3 DEF Reserved
    <3>3. CASE t \notin T
      <4>1. Reserved(c, t) /\ coins[c].mint # Conflicting
        BY <1>8, <2>1, <3>3 DEF HoldInv, HoldFit, Held
      <4>2. ~(c \in Inputs(T) /\ Spendable(c))
        <5>1. SUFFICES ASSUME c \in Inputs(T) PROVE FALSE
          OBVIOUS
        <5>2. Found(job[j]) = {} /\ Looks(job[j]) /\ j \in Importers
          BY <1>1 DEF Found, Looks, Importers
        <5>3. QED
          BY <1>8, <2>1, <3>3, <4>1, <5>1, <5>2 DEF RivalFit
      <4>3. QED
        BY <1>6, <3>1, <4>1, <4>2 DEF Reserved
    <3>4. QED
      BY <3>2, <3>3
  <2>2. QED
    BY <2>1 DEF HoldFit, Held
<1>12. SpenderFit'
  <2>1. ASSUME NEW c \in Coins, NEW t \in Txs, coins'[c] # None, coins'[c].by = t
        PROVE  c \in Spends[t]
    <3>1. CASE c \in Inputs(T) /\ Spendable(c)
      BY <1>1, <1>6, <2>1, <3>1, SpenderInFact
    <3>2. CASE ~(c \in Inputs(T) /\ Spendable(c))
      BY <1>6, <2>1, <3>2 DEF HoldInv, SpenderFit
    <3>3. QED
      BY <3>1, <3>2
  <2>2. QED
    BY <2>1 DEF SpenderFit
<1>13. WalkFit'
  <2>1. ASSUME NEW k \in Jobs, NEW s \in job'[k].related \ job'[k].walk,
               NEW c \in Mints[s], NEW t \in Txs, Reserved(c, t)', Holding(t)'
        PROVE  t \in job'[k].related
    <3>1. k # j /\ s \in job[k].related \ job[k].walk /\ job'[k] = job[k]
      BY <1>3
    <3>2. s \in Txs /\ c \in Coins
      BY <3>1, ImportingTxs, CoinAssumption
    <3>3. BeingMarked(j, s)
      BY <3>1 DEF BeingMarked
    <3>4. t \notin T
      <4>1. SUFFICES ASSUME t \in T PROVE FALSE
        OBVIOUS
      <4>2. c \notin Spends[t]
        BY <1>10, <2>1, <3>2, <3>3, <4>1
      <4>3. SpenderFit'
        BY <1>12
      <4>4. QED
        BY <2>1, <3>2, <4>2, <4>3 DEF SpenderFit, Reserved
    <3>5. ~(c \in Inputs(T) /\ Spendable(c))
      BY <1>1, <1>6, <2>1, <3>2, <3>4, SpenderInFact DEF Reserved
    <3>6. Reserved(c, t) /\ Holding(t)
      BY <1>6, <1>8, <2>1, <3>2, <3>4, <3>5 DEF Reserved
    <3>7. QED
      BY <3>1, <3>6 DEF HoldInv, WalkFit
  <2>2. QED
    BY <2>1 DEF WalkFit
<1>14. HitFit'
  <2>1. ASSUME NEW k \in Jobs, NEW t \in job'[k].related, job'[k].marks = {"coins"},
               Holding(t)'
        PROVE  FALSE
    <3>1. k # j /\ job'[k] = job[k]
      BY <1>3
    <3>2. t \in Txs
      BY <3>1, ImportingTxs
    <3>3. CASE t \notin T
      BY <1>8, <2>1, <3>1, <3>2, <3>3 DEF HoldInv, HitFit
    <3>4. CASE t \in T
      <4>1. HalfMarks(k, t)
        BY <2>1, <3>1, MarkSizes DEF HalfMarks
      <4>2. j \in Relays /\ t \notin Impaired /\ t \notin importing
        BY <1>5, <1>9, <2>1, <3>2, <3>4
      <4>3. CASE t \notin OnChain
        BY <3>4, <4>1, <4>2, <4>3 DEF AgreeInv, RelayFit, RelayAt, Impaired, history
      <4>4. CASE t \in OnChain
        <5>1. PICK i \in 1 .. Height : t \in chain[i]
          BY <4>4, ChainTxs
        <5>2. txs[t] # None /\ txs[t].height = i /\ i # Pending
          BY <4>2, <5>1, Constants DEF StoreInv, ChainStands, TxStands,
              Impaired, history
        <5>3. ~Shown(t)'
          BY <1>1, <5>2 DEF Shown
        <5>4. QED
          BY <2>1, <5>3 DEF Holding
      <4>5. QED
        BY <4>3, <4>4
    <3>5. QED
      BY <3>3, <3>4
  <2>2. QED
    BY <2>1 DEF HitFit
<1>15. LookFit'
  <2>1. LookAt(job'[j])
    BY <1>3 DEF LookAt
  <2>2. \A k \in Jobs : LookAt(job'[k])
    BY <1>3, <2>1 DEF HoldInv, LookFit
  <2>3. \A q \in Relays : job'[q].txs = job[q].txs
    BY <1>3, JobNames
  <2>4. QED
    BY <2>2, <2>3 DEF HoldInv, LookFit
<1>16. RivalFit'
  <2>1. ASSUME NEW k \in Importers, Looks(job'[k]), NEW c \in Inputs(job'[k].txs),
               NEW t \in Txs, t \notin job'[k].txs, Reserved(c, t)', Holding(t)'
        PROVE  t \in Found(job'[k])
    <3>1. k # j /\ k \in Jobs /\ job'[k] = job[k]
      BY <1>3, <2>1, JobNames DEF Looks, Importers
    <3>2. c \in Coins
      BY <3>1, ImportingTxs, InputsTyped
    <3>3. CASE t \in T
      <4>1. ~Crossed(j, t)
        BY <1>9, <2>1, <3>3 DEF Losers
      <4>2. Spends[t] \cap Inputs(job[k].txs) = {}
        BY <2>1, <3>1, <4>1 DEF Crossed, Looks, Importers
      <4>3. SpenderFit'
        BY <1>12
      <4>4. c \in Spends[t]
        BY <2>1, <3>2, <4>3 DEF SpenderFit, Reserved
      <4>5. QED
        BY <2>1, <3>1, <4>2, <4>4
    <3>4. CASE t \notin T
      <4>1. ~(c \in Inputs(T) /\ Spendable(c))
        BY <1>1, <1>6, <2>1, <3>2, <3>4, SpenderInFact DEF Reserved
      <4>2. Reserved(c, t) /\ Holding(t)
        BY <1>6, <1>8, <2>1, <3>2, <3>4, <4>1 DEF Reserved
      <4>3. QED
        BY <2>1, <3>1, <4>2 DEF RivalFit
    <3>5. QED
      BY <3>3, <3>4
  <2>2. QED
    BY <2>1 DEF RivalFit
<1>17. QED
  BY <1>11, <1>13, <1>12, <1>14, <1>15, <1>16 DEF HoldInv

\* A step that lets go of a rival only when it no longer holds anything.
LEMMA RivalsKept ==
  ASSUME TypeInv, RivalFit, Shrinks,
         \A k \in Importers : Looks(job'[k]) =>
            /\ Looks(job[k]) /\ job'[k].txs = job[k].txs
            /\ \A t \in Found(job[k]) \ Found(job'[k]) : ~Holding(t)'
  PROVE  RivalFit'
<1>1. ASSUME NEW k \in Importers, Looks(job'[k]), NEW c \in Inputs(job'[k].txs),
             NEW t \in Txs, t \notin job'[k].txs, Reserved(c, t)', Holding(t)'
      PROVE  t \in Found(job'[k])
  <2>1. Looks(job[k]) /\ job'[k].txs = job[k].txs /\ k \in Jobs
    BY <1>1, JobNames DEF Importers
  <2>2. c \in Coins
    BY <1>1, <2>1, ImportingTxs, InputsTyped
  <2>3. Reserved(c, t) /\ Holding(t)
    BY <1>1, <2>2 DEF Shrinks
  <2>4. t \in Found(job[k])
    BY <1>1, <2>1, <2>3 DEF RivalFit
  <2>5. QED
    BY <1>1, <2>4
<1>2. QED
  BY <1>1 DEF RivalFit

LEMMA FoundContinued ==
  ASSUME NEW r \in JobDocs, NEW q \in Continued(r)
  PROVE  Found(q) = r.todo /\ q.txs = r.txs /\ Looks(q)
<1>1. CASE r.todo = {}
  <2>1. q = [r EXCEPT !.stage = "spend", !.related = {}]
    BY <1>1 DEF Continued
  <2>2. q.stage = "spend" /\ q.txs = r.txs
    BY <2>1 DEF JobDocs
  <2>3. QED
    BY <1>1, <2>2 DEF Found, Looks
<1>2. CASE r.todo # {}
  <2>1. PICK root \in r.todo :
          q = [r EXCEPT !.stage = "relate", !.todo = @ \ {root},
                        !.walk = {root}, !.seen = {}, !.related = {root}]
    BY <1>2 DEF Continued
  <2>2. /\ q.stage = "relate" /\ q.txs = r.txs
        /\ q.related = {root} /\ q.todo = r.todo \ {root}
    BY <2>1 DEF JobDocs
  <2>3. QED
    BY <2>2 DEF Found, Looks
<1>3. QED
  BY <1>1, <1>2

\* pruneMempool finds every transaction that holds an input of what it imports.
LEMMA FindRivalFit ==
  ASSUME TypeInv, HoldInv, RivalFit, Shrinks, NEW j \in Importers, FindRivals(j)
  PROVE  RivalFit'
<1>1. j \in Jobs /\ job[j] \in JobDocs /\ job[j].txs \in SUBSET Txs
      /\ UNCHANGED coins
  BY JobNames, ImportingTxs DEF FindRivals, Importers, store
<1> DEFINE p == [job[j] EXCEPT !.todo = Rivals(job[j].txs)]
<1>2. PICK q \in Continued(p) : job' = [job EXCEPT ![j] = q]
  BY DEF FindRivals
<1>3. p \in JobDocs /\ p.todo = Rivals(job[j].txs) /\ p.txs = job[j].txs
  BY <1>1, RivalsTyped DEF JobDocs
<1> HIDE DEF p
<1>4. Found(q) = Rivals(job[j].txs) /\ q.txs = job[j].txs
  BY <1>3, FoundContinued
<1>5. job'[j] = q /\ \A k \in Jobs \ {j} : job'[k] = job[k]
  BY <1>1, <1>2 DEF TypeInv, TypeOK
<1>6. ASSUME NEW k \in Importers, Looks(job'[k]), NEW c \in Inputs(job'[k].txs),
             NEW t \in Txs, t \notin job'[k].txs, Reserved(c, t)', Holding(t)'
      PROVE  t \in Found(job'[k])
  <2>1. k \in Jobs
    BY JobNames DEF Importers
  <2>2. CASE k = j
    <3>1. c \in Inputs(job[j].txs) /\ t \notin job[j].txs
      BY <1>4, <1>5, <1>6, <2>2
    <3>2. coins[c] # None /\ coins[c].spent = Pending /\ coins[c].by = t
      BY <1>1, <1>6 DEF Reserved
    <3>3. SpenderIn(job[j].txs, c) # t
      BY <1>1, <3>1, SpenderInFact
    <3>4. t \in Rivals(job[j].txs)
      BY <3>1, <3>2, <3>3 DEF Rivals
    <3>5. QED
      BY <1>4, <1>5, <2>2, <3>4
  <2>3. CASE k # j
    <3>1. job'[k] = job[k]
      BY <1>5, <2>1, <2>3
    <3>2. c \in Coins
      BY <1>6, <2>1, <3>1, ImportingTxs, InputsTyped
    <3>3. Reserved(c, t) /\ Holding(t)
      BY <1>6, <3>2 DEF Shrinks
    <3>4. QED
      BY <1>6, <3>1, <3>3 DEF RivalFit
  <2>4. QED
    BY <2>2, <2>3
<1>7. QED
  BY <1>6 DEF RivalFit

\* Reading the spenders of an output lets go of nothing.
LEMMA RelateRivals ==
  ASSUME TypeInv, HoldInv, RivalFit, Shrinks, NEW j \in Jobs, NEW t0 \in Txs,
         Relate(j, t0)
  PROVE  RivalFit'
<1>1. job[j].stage = "relate" /\ t0 \in job[j].walk /\ job[j] \in JobDocs
  BY ImportingTxs DEF Relate
<1>2. job' = [job EXCEPT ![j] = job'[j]]
  BY DEF Relate, TypeInv, TypeOK
<1>3. \A k \in Jobs \ {j} : job'[k] = job[k]
  BY DEF Relate, TypeInv, TypeOK
<1>4. CASE j = "pruner"
  BY <1>3, <1>4, JobNames, RivalsKept DEF Importers
<1>5. CASE j # "pruner"
  <2> DEFINE q == Walked(j, t0)
  <2>1. job'[j] = q
    BY <1>5 DEF Relate, TypeInv, TypeOK
  <2>2. q.txs = job[j].txs /\ q.todo = job[j].todo /\ q.stage # "spend"
        /\ job[j].related \subseteq q.related
    BY <1>1 DEF Walked, JobDocs
  <2> HIDE DEF q
  <2>3. Looks(job[j]) /\ Found(job[j]) \subseteq Found(q)
    BY <1>1, <2>2 DEF Looks, Found
  <2>4. QED
    BY <1>3, <2>1, <2>2, <2>3, JobNames, RivalsKept DEF Importers
<1>6. QED
  BY <1>4, <1>5

\* What an import has invalidated holds nothing any more.
LEMMA MarkRivals ==
  ASSUME TypeInv, HoldInv, RivalFit, Shrinks, NEW j \in Jobs, NEW m \in {"txs", "coins"},
         Mark(j, m), m = "txs" => \A t \in job[j].related : ~Holding(t)'
  PROVE  RivalFit'
<1> DEFINE left == job[j].marks \ {m}
<1>1. job[j].stage = "mark" /\ m \in job[j].marks /\ job[j] \in JobDocs
      /\ job[j].related \in SUBSET Txs /\ job[j].marks \subseteq {"txs", "coins"}
  BY ImportingTxs, JobFields DEF Mark
<1>2. \A k \in Jobs \ {j} : job'[k] = job[k]
  BY DEF Mark, TypeInv, TypeOK
<1>3. CASE j = "pruner"
  BY <1>2, <1>3, JobNames, RivalsKept DEF Importers
<1>4. CASE j # "pruner"
  <2>1. PICK r \in IF left # {} THEN {[job[j] EXCEPT !.marks = left]}
                   ELSE Continued([job[j] EXCEPT !.marks = {}]) :
          job' = [job EXCEPT ![j] = r]
    BY <1>4 DEF Mark
  <2>2. job'[j] = r
    BY <2>1 DEF TypeInv, TypeOK
  <2>3. ASSUME NEW t \in Found(job[j]), t \notin Found(r)
        PROVE  ~Holding(t)'
    <3>1. CASE left # {}
      <4>1. r.stage = job[j].stage /\ r.todo = job[j].todo /\ r.related = job[j].related
        BY <1>1, <2>1, <3>1 DEF JobDocs
      <4>2. QED
        BY <2>3, <4>1 DEF Found
    <3>2. CASE left = {}
      <4> DEFINE p == [job[j] EXCEPT !.marks = {}]
      <4>1. p \in JobDocs /\ p.todo = job[j].todo
        BY <1>1 DEF JobDocs
      <4>2. r \in Continued(p)
        BY <2>1, <3>2
      <4> HIDE DEF p
      <4>3. Found(r) = job[j].todo
        BY <4>1, <4>2, FoundContinued
      <4>4. t \in job[j].related /\ t \in Txs
        BY <1>1, <2>3, <4>3 DEF Found
      <4>5. CASE m = "coins"
        <5>1. job[j].marks = {"coins"}
          BY <1>1, <3>2, <4>5
        <5>2. ~Holding(t)
          BY <4>4, <5>1 DEF HoldInv, HitFit
        <5>3. QED
          BY <4>4, <5>2 DEF Shrinks
      <4>6. QED
        BY <4>4, <4>5
    <3>3. QED
      BY <3>1, <3>2
  <2>4. r.txs = job[j].txs /\ Looks(job[j])
    <3>1. CASE left # {}
      BY <1>1, <2>1, <3>1 DEF JobDocs, Looks
    <3>2. CASE left = {}
      <4> DEFINE p == [job[j] EXCEPT !.marks = {}]
      <4>1. p \in JobDocs /\ p.txs = job[j].txs
        BY <1>1 DEF JobDocs
      <4>2. r \in Continued(p)
        BY <2>1, <3>2
      <4> HIDE DEF p
      <4>3. QED
        BY <1>1, <4>1, <4>2, FoundContinued DEF Looks
    <3>3. QED
      BY <3>1, <3>2
  <2> HIDE DEF left
  <2>5. ASSUME NEW k \in Importers, Looks(job'[k])
        PROVE  /\ Looks(job[k]) /\ job'[k].txs = job[k].txs
               /\ \A t \in Found(job[k]) \ Found(job'[k]) : ~Holding(t)'
    <3>1. CASE k = j
      BY <2>2, <2>3, <2>4, <3>1
    <3>2. CASE k # j
      BY <1>2, <2>5, <3>2, JobNames DEF Importers
    <3>3. QED
      BY <3>1, <3>2
  <2>6. QED
    BY <2>5, RivalsKept
<1>5. QED
  BY <1>3, <1>4

LEMMA InitHold ==
  ASSUME Init
  PROVE  HoldInv /\ RivalFit
<1>1. /\ \A j \in Jobs : job[j] = Idle
      /\ \A c \in Coins : coins[c] # None => coins[c].spent = Unspent /\ coins[c].by = None
      /\ \A t \in Txs : txs[t] # None => txs[t].height = 1
  BY DEF Init, NewCoin
<1>2. \A t \in Txs : ~Shown(t)
  BY <1>1, IdleFields, JobNames DEF Shown, Pending
<1>3. LookAt(Idle) /\ Idle.related = {} /\ Idle.txs = {}
  BY DEF LookAt, Idle
<1>4. HoldFit /\ WalkFit /\ HitFit
  BY <1>1, <1>2, <1>3 DEF HoldFit, WalkFit, HitFit, Holding
<1>5. LookFit
  BY <1>1, <1>3, JobNames DEF LookFit
<1>6. SpenderFit
  BY <1>1, NoneAssumption DEF SpenderFit
<1>7. RivalFit
  BY <1>1, IdleFields, JobNames DEF RivalFit, Looks, Importers
<1>8. QED
  BY <1>4, <1>5, <1>6, <1>7 DEF HoldInv

LEMMA StepHold ==
  ASSUME TypeInv, StoreInv, AgreeInv, HoldInv, RivalFit, [Next]_vars
  PROVE  HoldInv' /\ RivalFit'
<1>1. TypeInv'
  BY StepTypes
<1>2. CASE UNCHANGED vars
  <2>1. \A t \in Txs : Holding(t)' => Holding(t)
    BY <1>2 DEF vars, Holding, Shown, Leaving, HalfMarks, Impaired
  <2>2. HoldInv' /\ Shrinks /\ job' = job
    BY <1>1, <1>2, <2>1, HoldStarts DEF vars
  <2>3. QED
    BY <2>2, RivalsKept
\* No other import has looked for rivals of what this step lets go of.
<1>3. ASSUME HoldInv' /\ Shrinks,
             \A k \in Importers : job'[k] = job[k] \/ ~Looks(job'[k])
      PROVE  HoldInv' /\ RivalFit'
  <2>1. \A k \in Importers : Looks(job'[k]) => job'[k] = job[k]
    BY <1>3
  <2>2. QED
    BY <1>3, <2>1, RivalsKept
<1>4. ~Looks(Idle)
  BY DEF Looks, Idle
<1>5. CASE Next
  <2>1. ASSUME NEW T \in SUBSET Txs, BlockArrives(T)
        PROVE  HoldInv' /\ RivalFit'
    <3>1. HoldInv' /\ Shrinks
      BY <1>1, <2>1, BlockArrivesHold
    <3>2. NewHeight \in Heights
      BY <2>1, Constants, ChainTxs DEF BlockArrives, NewHeight, Heights
    <3>3. /\ job'["block"].stage = "mint"
          /\ \A k \in Jobs \ {"block"} : job'[k] = job[k]
      BY <2>1, <3>2, JobNames, BeginFields DEF BlockArrives
    <3>4. QED
      BY <1>3, <3>1, <3>3, JobNames DEF Looks, Importers
  <2>2. ASSUME NEW r \in Relays, NEW t \in Txs, TxArrives(r, t)
        PROVE  HoldInv' /\ RivalFit'
    <3>1. HoldInv' /\ Shrinks
      BY <1>1, <2>2, TxArrivesHold
    <3>2. /\ job'[r].stage = "mint"
          /\ \A k \in Jobs \ {r} : job'[k] = job[k]
      BY <2>2, Constants, JobNames, BeginFields DEF TxArrives
    <3>3. QED
      BY <1>3, <3>1, <3>2, JobNames DEF Looks, Importers
  <2>3. ASSUME NEW j \in Importers, Import(j)
        PROVE  HoldInv' /\ RivalFit'
    <3>1. CASE Mint(j)
      <4>1. HoldInv' /\ Shrinks
        BY <1>1, <3>1, MintHold DEF Importers
      <4>2. job'[j].stage = "find" /\ \A k \in Jobs \ {j} : job'[k] = job[k]
        BY <3>1, JobNames, ImportingTxs
           DEF Mint, Goto, TypeInv, TypeOK, Importers, JobDocs
      <4>3. QED
        BY <1>3, <4>1, <4>2, JobNames DEF Looks, Importers
    <3>2. CASE FindRivals(j)
      BY <1>1, <3>2, FindHold, FindRivalFit DEF Importers
    <3>3. CASE Spend(j)
      BY <1>1, <3>3, SpendHold DEF Importers
    <3>4. CASE WriteTxs(j)
      <4>1. HoldInv' /\ Shrinks
        BY <1>1, <3>4, WriteHold DEF Importers
      <4>2. \A k \in Jobs : job'[k] = IF k = j THEN Idle ELSE job[k]
        BY <3>4, IdleFields DEF WriteTxs, TypeInv, TypeOK
      <4>3. QED
        BY <1>3, <1>4, <4>1, <4>2, JobNames DEF Importers
    <3>5. QED
      BY <2>3, <3>1, <3>2, <3>3, <3>4 DEF Import
  <2>4. CASE \E j \in Jobs : Prune(j)
    BY <1>1, <2>4, RelateHold, RelateRivals, MarkHold, MarkRivals DEF Prune
  <2>5. ASSUME NEW h \in 2 .. Height, Reorg(h)
        PROVE  HoldInv' /\ RivalFit'
    <3>1. HoldInv' /\ Shrinks
      BY <1>1, <2>5, ReorgHold
    <3>2. /\ job'["block"].stage = "undo"
          /\ \A k \in Jobs \ {"block"} : job'[k] = job[k]
      BY <2>5, ReorgTypes
    <3>3. QED
      BY <1>3, <3>1, <3>2, JobNames DEF Looks, Importers
  <2>6. ASSUME NEW m \in {"txs", "coins"}, UndoMined(m)
        PROVE  HoldInv' /\ RivalFit'
    <3>1. HoldInv' /\ Shrinks
      BY <1>1, <2>6, UndoMinedHold
    <3>2. /\ job'["block"].stage = "undo"
          /\ \A k \in Jobs \ {"block"} : job'[k] = job[k]
      BY <2>6, UndoMinedGoesOn, JobNames DEF TypeInv, TypeOK
    <3>3. QED
      BY <1>3, <3>1, <3>2, JobNames DEF Looks, Importers
  <2>7. CASE UndoSpends
    <3>1. HoldInv' /\ Shrinks
      BY <1>1, <2>7, UndoSpendsHold
    <3>2. \A k \in Jobs : job'[k] = IF k = "block" THEN Idle ELSE job[k]
      BY <2>7, IdleFields DEF UndoSpends, TypeInv, TypeOK
    <3>3. QED
      BY <1>3, <1>4, <3>1, <3>2, JobNames DEF Importers
  <2>8. CASE \E t \in Txs : PruneTx(t)
    <3>1. HoldInv' /\ Shrinks
      BY <1>1, <2>8, PruneHold
    <3>2. \A k \in Importers : job'[k] = job[k]
      BY <2>8, JobNames, PruneTypes DEF Importers
    <3>3. QED
      BY <1>3, <3>1, <3>2
  <2>9. CASE NodeCrashes
    <3>1. HoldInv' /\ Shrinks
      BY <1>1, <2>9, NodeCrashHold
    <3>2. \A k \in Importers : job'[k] = Idle
      BY <2>9, JobNames, NodeCrashTypes DEF Importers
    <3>3. QED
      BY <1>3, <1>4, <3>1, <3>2
  <2>10. CASE PrunerCrashes
    <3>1. HoldInv' /\ Shrinks
      BY <1>1, <2>10, PrunerCrashHold
    <3>2. \A k \in Importers : job'[k] = job[k]
      BY <2>10, JobNames, PrunerCrashTypes DEF Importers
    <3>3. QED
      BY <1>3, <3>1, <3>2
  <2>11. QED
    BY <1>5, <2>1, <2>2, <2>3, <2>4, <2>5, <2>6, <2>7, <2>8, <2>9, <2>10
       DEF Next, Importers
<1>6. QED
  BY <1>2, <1>5

LEMMA RestHolds ==
  ASSUME HoldInv
  PROVE  PendingHoldsInputs
<1> SUFFICES ASSUME AtRest, NEW t \in Txs, t \notin Impaired,
                    txs[t] # None, txs[t].height = Pending
             PROVE  Held(t)
  BY DEF PendingHoldsInputs, Held, Reserved, Impaired
<1>1. importing = {} /\ \A j \in Jobs : job[j] = Idle
  BY DEF AtRest, BlocksAtRest
<1>2. Holding(t)
  BY <1>1, IdleFields DEF Holding, Shown, Leaving, HalfMarks
<1>3. QED
  BY <1>2 DEF HoldInv, HoldFit

\* When nothing is running, a transaction that batchImport, pruneMempool, the
\* pruning service and handleReorg have left pending holds all its inputs: each
\* is stored, spent by it alone and minted by nothing that conflicts.  Excepted
\* is what was imported without getting all its inputs, or crossed another
\* import, or lost an input to a rollback (deprived), and what an update has
\* overtaken or a crash has cut off (disturbed).
THEOREM PendingHoldsInputsAlways == Spec => []PendingHoldsInputs
<1>1. Init => TypeInv /\ StoreInv /\ AgreeInv /\ HoldInv /\ RivalFit
  BY InitTypes, InitStore, InitAgree, InitHold
<1>2. TypeInv /\ StoreInv /\ AgreeInv /\ HoldInv /\ RivalFit /\ [Next]_vars =>
        TypeInv' /\ StoreInv' /\ AgreeInv' /\ HoldInv' /\ RivalFit'
  BY StepTypes, StepStore, StepAgree, StepHold
<1>3. TypeInv /\ StoreInv /\ AgreeInv /\ HoldInv /\ RivalFit => PendingHoldsInputs
  BY RestHolds
<1>4. QED
  BY <1>1, <1>2, <1>3, PTL DEF Spec

-----------------------------------------------------------------------------
(***************************************************************************)
(* Wallets: requests of the API beside the imports (WalletImport)          *)
(***************************************************************************)

NodeInv == TypeInv /\ StoreInv /\ AgreeInv /\ HoldInv /\ RivalFit

\* What a request has of its own; lists of addresses are taken as they are.
CallsTyped ==
  /\ call = [w \in Calls |-> [stage |-> call[w].stage, batch |-> call[w].batch,
                              txids |-> call[w].txids]]
  /\ \A w \in Calls : call[w].txids \subseteq Txs
  /\ lagging \subseteq Txs

\* The document of address x is there.
Known(x) == addresses[x] # "none"

\* What a request has added is there, but for what it dropped.
CallsFit ==
  \A w \in Calls : call[w].stage \in {"coins", "read", "txs"} =>
    \A x \in Addresses : x \in InBatch(w) \ dropped => Known(x)

\* An import that is not late has found all known addresses it pays.
FoundFit ==
  \A j \in Importers : job[j].stage \in Importing =>
    \A t \in job[j].txs \ lagging : \A c \in Mints[t] :
      Known(AddressOf[c]) => AddressOf[c] \in job[j].found

\* UpdateCoinsStream has been at the coins of address x.
Covered(x) ==
  /\ x \notin dropped
  /\ \/ addresses[x] = "processed"
     \/ \E w \in Calls : call[w].stage \in {"read", "txs"} /\ x \in InBatch(w)

\* TxUpdaterStream has been at t, or found that it has nothing to do with x.
Reached(x, t) ==
  /\ x \notin dropped
  /\ \/ addresses[x] = "processed"
     \/ \E w \in Calls : /\ call[w].stage = "txs" /\ x \in InBatch(w)
                         /\ t \notin call[w].txids

\* What has not been minted again since an import of it was late or cut off.
Stale == lagging \cup IF Minting THEN {} ELSE importing

CoinTags ==
  \A c \in Coins : coins[c] # None /\ Covered(AddressOf[c]) =>
    coins[c].tag \/ c \in Outputs(Stale)

\* t spends a coin that requests have reached.
SpendsReached(t) ==
  \E c \in Coins : coins[c] # None /\ coins[c].by = t /\ Reached(AddressOf[c], t)

PaysReached(t) ==
  \E c \in Mints[t] : coins[c] # None /\ Reached(AddressOf[c], t)

\* What an import is going to write has a tag if it spends from a wallet.
TaggedFit ==
  \A j \in Importers : job[j].stage = "write" =>
    \A t \in job[j].txs \ (lagging \cup Impaired) :
      (j = "block" \/ (txs[t] = None /\ t \notin importing)) /\ SpendsReached(t) =>
        t \in job[j].tagged

TxTags ==
  \A t \in Txs \ (lagging \cup Impaired \cup importing) : txs[t] # None =>
    /\ PaysReached(t) => txs[t].tag
    /\ SpendsReached(t) /\ txs[t].height # Conflicting => txs[t].tag

WalletInv == CallsTyped /\ CallsFit /\ FoundFit /\ CoinTags /\ TaggedFit /\ TxTags

-----------------------------------------------------------------------------

LEMMA ReachedCovered ==
  ASSUME NEW x, NEW t, Reached(x, t)
  PROVE  Covered(x)
BY DEF Reached, Covered

LEMMA CoveredKnown ==
  ASSUME CallsFit, NEW x \in Addresses, Covered(x)
  PROVE  Known(x)
BY DEF CallsFit, Covered, Known

\* A transaction has its outputs alone.
LEMMA OneMinter ==
  ASSUME NEW t \in Txs, NEW c \in Mints[t], NEW T \in SUBSET Txs, c \in Outputs(T)
  PROVE  c \in Coins /\ t \in T
<1>1. PICK s \in T : c \in Mints[s]
  BY DEF Outputs
<1>2. c \in Coins /\ s = t
  BY <1>1, CoinAssumption
<1>3. QED
  BY <1>1, <1>2

\* Steps that tag and delete documents, or update their heights, and let
\* requests reach no more than before.
LEMMA WalletKept ==
  ASSUME TypeInv, WalletInv, CallsTyped', CallsFit', FoundFit',
         importing' = importing,
         lagging \subseteq lagging', Impaired \subseteq Impaired',
         \A x \in Addresses : Covered(x)' => Covered(x),
         \A x \in Addresses, t \in Txs : Reached(x, t)' => Reached(x, t),
         Minting' => Minting,
         \A c \in Coins : coins'[c] # None =>
            /\ coins[c] # None
            /\ coins[c].tag => coins'[c].tag
            /\ coins'[c].by \in {coins[c].by, None},
         \A t \in Txs : txs'[t] # None =>
            /\ txs[t] # None
            /\ txs[t].tag => txs'[t].tag
            /\ txs'[t].height \in {txs[t].height, Conflicting},
         \A r \in Relays : \A t \in job[r].txs \ Impaired' :
            txs'[t] = None => txs[t] = None,
         \A j \in Importers : job'[j].stage = "write" =>
            /\ job[j].stage = "write"
            /\ job'[j].txs = job[j].txs /\ job'[j].tagged = job[j].tagged
  PROVE  WalletInv'
<1>1. ASSUME NEW t \in Txs
      PROVE  /\ SpendsReached(t)' => SpendsReached(t)
             /\ PaysReached(t)' => PaysReached(t)
  <2>1. \A c \in Coins : AddressOf[c] \in Addresses
    BY CoinAssumption
  <2>2. \A c \in Mints[t] : c \in Coins
    BY CoinAssumption
  <2>3. t # None
    BY NoneAssumption
  <2>4. ASSUME NEW c \in Coins, coins'[c] # None, coins'[c].by = t,
               Reached(AddressOf[c], t)'
        PROVE  SpendsReached(t)
    <3>1. coins[c] # None /\ coins[c].by = t
      BY <2>3, <2>4
    <3>2. Reached(AddressOf[c], t)
      BY <2>1, <2>4
    <3>3. QED
      BY <3>1, <3>2 DEF SpendsReached
  <2>5. SpendsReached(t)' => SpendsReached(t)
    BY <2>4 DEF SpendsReached
  <2>6. ASSUME NEW c \in Mints[t], coins'[c] # None, Reached(AddressOf[c], t)'
        PROVE  PaysReached(t)
    <3>1. coins[c] # None
      BY <2>2, <2>6
    <3>2. Reached(AddressOf[c], t)
      BY <2>1, <2>2, <2>6
    <3>3. QED
      BY <3>1, <3>2 DEF PaysReached
  <2>7. QED
    BY <2>5, <2>6 DEF PaysReached
<1>2. CoinTags'
  <2>1. Outputs(Stale) \subseteq Outputs(Stale')
    BY DEF Stale, Outputs
  <2>2. \A c \in Coins : AddressOf[c] \in Addresses
    BY CoinAssumption
  <2>3. ASSUME NEW c \in Coins, coins'[c] # None, Covered(AddressOf[c])'
        PROVE  coins'[c].tag \/ c \in Outputs(Stale')
    <3>1. coins[c] # None /\ Covered(AddressOf[c])
      BY <2>2, <2>3
    <3>2. coins[c].tag \/ c \in Outputs(Stale)
      BY <3>1 DEF WalletInv, CoinTags
    <3>3. QED
      BY <2>1, <2>3, <3>2
  <2>4. Outputs(Stale)' = Outputs(Stale')
    BY DEF Outputs
  <2>5. QED
    BY <2>3, <2>4 DEF CoinTags
<1>3. TaggedFit'
  <2>1. ASSUME NEW j \in Importers, job'[j].stage = "write",
               NEW t \in job'[j].txs, t \notin lagging' \cup Impaired',
               j = "block" \/ (txs'[t] = None /\ t \notin importing'),
               SpendsReached(t)'
        PROVE  t \in job'[j].tagged
    <3>1. /\ job[j].stage = "write" /\ t \in job[j].txs
          /\ job'[j].tagged = job[j].tagged
      BY <2>1
    <3>2. j \in Jobs /\ t \in Txs
      BY <3>1, ImportingTxs, JobNames DEF Importers
    <3>3. SpendsReached(t)
      BY <1>1, <2>1, <3>2
    <3>4. j = "block" \/ (txs[t] = None /\ t \notin importing)
      BY <2>1, <3>1 DEF Importers
    <3>5. QED
      BY <2>1, <3>1, <3>3, <3>4 DEF WalletInv, TaggedFit
  <2>2. QED
    BY <2>1 DEF TaggedFit
<1>4. TxTags'
  <2>1. ASSUME NEW t \in Txs, t \notin lagging' \cup Impaired' \cup importing',
               txs'[t] # None
        PROVE  /\ PaysReached(t)' => txs'[t].tag
               /\ SpendsReached(t)' /\ txs'[t].height # Conflicting => txs'[t].tag
    <3>1. /\ txs[t] # None
          /\ txs[t].tag => txs'[t].tag
          /\ txs'[t].height # Conflicting => txs[t].height # Conflicting
      BY <2>1
    <3>2. /\ PaysReached(t) => txs[t].tag
          /\ SpendsReached(t) /\ txs[t].height # Conflicting => txs[t].tag
      BY <2>1, <3>1 DEF WalletInv, TxTags
    <3>3. QED
      BY <1>1, <3>1, <3>2
  <2>2. QED
    BY <2>1 DEF TxTags
<1>5. QED
  BY <1>2, <1>3, <1>4 DEF WalletInv

-----------------------------------------------------------------------------
(* Steps of the node *)

\* What requests have come to does not change.
CallsSame == UNCHANGED <<addresses, call, dropped>>

LEMMA SameReach ==
  ASSUME CallsSame
  PROVE  /\ \A x : Known(x)' <=> Known(x)
         /\ \A x : Covered(x)' <=> Covered(x)
         /\ \A x, t : Reached(x, t)' <=> Reached(x, t)
         /\ CallsFit => CallsFit'
<1>1. \A w \in Calls : InBatch(w)' = InBatch(w) /\ call'[w] = call[w]
  BY DEF CallsSame, InBatch
<1>2. \A x : Known(x)' <=> Known(x)
  BY DEF CallsSame, Known
<1>3. \A x : Covered(x)' <=> Covered(x)
  BY <1>1 DEF CallsSame, Covered
<1>4. \A x, t : Reached(x, t)' <=> Reached(x, t)
  BY <1>1 DEF CallsSame, Reached
<1>5. CallsFit => CallsFit'
  BY <1>1, <1>2 DEF CallsSame, CallsFit
<1>6. QED
  BY <1>2, <1>3, <1>4, <1>5

\* The import that job j is at goes on as it is, ends, or has yet to write.
Stays(j) ==
  job'[j].stage \in Importing =>
    /\ job[j].stage \in Importing
    /\ job'[j].txs = job[j].txs /\ job'[j].found = job[j].found
    /\ job'[j].stage = "write" =>
         job[j].stage = "write" /\ job'[j].tagged = job[j].tagged

LEMMA FoundKept ==
  ASSUME FoundFit, CallsSame, lagging \subseteq lagging',
         \A j \in Importers : Stays(j)
  PROVE  FoundFit'
<1>1. ASSUME NEW j \in Importers, job'[j].stage \in Importing,
             NEW t \in job'[j].txs, t \notin lagging', NEW c \in Mints[t],
             Known(AddressOf[c])'
      PROVE  AddressOf[c] \in job'[j].found
  <2>1. /\ job[j].stage \in Importing
        /\ job'[j].txs = job[j].txs /\ job'[j].found = job[j].found
    BY <1>1 DEF Stays
  <2>2. Known(AddressOf[c])
    BY <1>1, SameReach
  <2>3. t \in job[j].txs \ lagging
    BY <1>1, <2>1
  <2>4. QED
    BY <1>1, <2>1, <2>2, <2>3 DEF FoundFit
<1>2. QED
  BY <1>1 DEF FoundFit

\* What becomes of lagging.
LEMMA NodeLagging ==
  ASSUME TypeInv, WalletInv, NodeStep
  PROVE  /\ lagging' \subseteq Txs /\ lagging' = (lagging \ Resolved) \cup Heirs
         /\ UNCHANGED <<call, calls, dropped>>
         /\ job["block"] # Idle \/ job'["block"].txs = {} => lagging \subseteq lagging'
<1>1. /\ lagging' = (lagging \ Resolved) \cup Heirs
      /\ UNCHANGED <<call, calls, dropped>>
  BY DEF NodeStep
<1>2. Heirs \subseteq Txs
  BY DEF Heirs
<1>3. lagging \subseteq Txs
  BY DEF WalletInv, CallsTyped
<1>4. job["block"] # Idle \/ job'["block"].txs = {} => Resolved = {}
  BY DEF Resolved
<1>5. QED
  BY <1>1, <1>2, <1>3, <1>4

LEMMA NoHeirs ==
  ASSUME \A j \in Jobs : job[j].stage = "spend" => job'[j].stage # "write"
  PROVE  Heirs = {}
BY DEF Heirs

LEMMA NextAddresses ==
  ASSUME Next
  PROVE  addresses' = addresses
<1>1. CASE \E T \in SUBSET Txs : BlockArrives(T)
  BY <1>1 DEF BlockArrives, store
<1>2. CASE \E r \in Relays, t \in Txs : TxArrives(r, t)
  BY <1>2 DEF TxArrives, store
<1>3. CASE \E j \in Relays \cup {"block"} : Import(j)
  BY <1>3 DEF Import, Mint, FindRivals, Spend, WriteTxs, store
<1>4. CASE \E j \in Jobs : Prune(j)
  BY <1>4 DEF Prune, Relate, Mark, store
<1>5. CASE \E h \in 2 .. Height : Reorg(h)
  BY <1>5 DEF Reorg, store
<1>6. CASE \E m \in {"txs", "coins"} : UndoMined(m)
  BY <1>6 DEF UndoMined, store
<1>7. CASE UndoSpends
  BY <1>7 DEF UndoSpends, store
<1>8. CASE \E t \in Txs : PruneTx(t)
  BY <1>8 DEF PruneTx, store
<1>9. CASE NodeCrashes \/ PrunerCrashes
  BY <1>9 DEF NodeCrashes, PrunerCrashes, store
<1>10. QED
  BY <1>1, <1>2, <1>3, <1>4, <1>5, <1>6, <1>7, <1>8, <1>9 DEF Next

\* A step of the node with which no import begins, mints, spends or writes.
LEMMA NodeKept ==
  ASSUME TypeInv, WalletInv, NodeStep,
         job["block"] # Idle \/ job'["block"].txs = {},
         importing' = importing, Impaired \subseteq Impaired',
         Minting' => Minting,
         \A c \in Coins : coins'[c] # None =>
            /\ coins[c] # None
            /\ coins'[c].tag = coins[c].tag
            /\ coins'[c].by \in {coins[c].by, None},
         \A t \in Txs : txs'[t] # None =>
            /\ txs[t] # None
            /\ txs'[t].tag = txs[t].tag
            /\ txs'[t].height \in {txs[t].height, Conflicting},
         \A r \in Relays : \A t \in job[r].txs \ Impaired' :
            txs'[t] = None => txs[t] = None,
         \A j \in Importers : Stays(j)
  PROVE  WalletInv'
<1>1. /\ lagging' \subseteq Txs /\ lagging \subseteq lagging'
      /\ UNCHANGED <<call, dropped>>
  BY NodeLagging
<1>2. CallsSame
  BY <1>1, NextAddresses DEF CallsSame, NodeStep
<1>3. CallsTyped' /\ CallsFit'
  BY <1>1, <1>2, SameReach DEF WalletInv, CallsTyped
<1>4. FoundFit'
  BY <1>1, <1>2, FoundKept DEF WalletInv
<1>5. \A j \in Importers : job'[j].stage = "write" =>
         /\ job[j].stage = "write"
         /\ job'[j].txs = job[j].txs /\ job'[j].tagged = job[j].tagged
  BY DEF Stays, Importing
<1>6. /\ \A x \in Addresses : Covered(x)' => Covered(x)
      /\ \A x \in Addresses, t \in Txs : Reached(x, t)' => Reached(x, t)
  BY <1>2, SameReach
<1>7. QED
  BY <1>1, <1>3, <1>4, <1>5, <1>6, WalletKept

\* A job of which no import begins, spends or writes takes a step.
LEMMA OneStays ==
  ASSUME TypeInv, NEW j \in Jobs, NEW r \in JobDocs, job' = [job EXCEPT ![j] = r],
         \/ j = "pruner"
         \/ r.stage \notin Importing
         \/ /\ job[j].stage \in Importing \ {"mint"}
            /\ r.txs = job[j].txs /\ r.found = job[j].found /\ r.stage # "write",
         j = "block" => job["block"] # Idle
  PROVE  /\ \A k \in Importers : Stays(k)
         /\ Minting' => Minting
         /\ job["block"] # Idle \/ job'["block"].txs = {}
<1>1. job'[j] = r /\ \A k \in Jobs \ {j} : job'[k] = job[k]
  BY JobStep DEF TypeInv, TypeOK
<1>2. ASSUME NEW k \in Importers
      PROVE  Stays(k)
  <2>1. k \in Jobs /\ k # "pruner"
    BY JobNames DEF Importers
  <2>2. CASE k = j
    BY <1>1, <2>1, <2>2 DEF Stays
  <2>3. CASE k # j
    BY <1>1, <2>1, <2>3 DEF Stays
  <2>4. QED
    BY <2>2, <2>3
<1>3. Minting' => Minting
  <2>1. CASE j = "block"
    BY <1>1, <2>1, JobNames DEF Minting
  <2>2. CASE j # "block"
    BY <1>1, <2>2, JobNames DEF Minting
  <2>3. QED
    BY <2>1, <2>2
<1>4. job["block"] # Idle \/ job'["block"].txs = {}
  <2>1. CASE j = "block"
    BY <2>1
  <2>2. CASE j # "block"
    BY <1>1, <2>2, JobNames, IdleFields
  <2>3. QED
    BY <2>1, <2>2
<1>5. QED
  BY <1>2, <1>3, <1>4

LEMMA ContinuedFound ==
  ASSUME NEW r \in JobDocs, NEW q \in Continued(r)
  PROVE  q.found = r.found
<1>1. CASE r.todo = {}
  BY <1>1 DEF Continued, JobDocs
<1>2. CASE r.todo # {}
  <2>1. PICK root \in r.todo :
          q = [r EXCEPT !.stage = "relate", !.todo = @ \ {root},
                        !.walk = {root}, !.seen = {}, !.related = {root}]
    BY <1>2 DEF Continued
  <2>2. QED
    BY <2>1 DEF JobDocs
<1>3. QED
  BY <1>1, <1>2

LEMMA FindWallet ==
  ASSUME TypeInv, WalletInv, NodeStep, NEW j \in Importers, FindRivals(j)
  PROVE  WalletInv'
<1> DEFINE q == [job[j] EXCEPT !.todo = Rivals(job[j].txs)]
<1>1. /\ j \in Jobs /\ job[j].stage = "find" /\ job[j] \in JobDocs
      /\ UNCHANGED <<importing, txs, coins, Impaired>>
  BY ImportingTxs, JobNames DEF FindRivals, node, store, Importers, Impaired, history
<1>2. PICK r \in Continued(q) : job' = [job EXCEPT ![j] = r]
  BY DEF FindRivals
<1>3. q \in JobDocs /\ q.txs = job[j].txs /\ q.found = job[j].found /\ q.stage = "find"
  <2>1. Rivals(job[j].txs) \subseteq Txs
    BY <1>1, JobFields, RivalsTyped
  <2>2. QED
    BY <1>1, <2>1 DEF JobDocs
<1> HIDE DEF q
<1>4. /\ r \in JobDocs /\ r.txs = job[j].txs /\ r.found = job[j].found
      /\ r.stage # "write"
  BY <1>3, ContinuedFields, ContinuedFound
<1>5. /\ \A k \in Importers : Stays(k)
      /\ Minting' => Minting
      /\ job["block"] # Idle \/ job'["block"].txs = {}
  BY <1>1, <1>2, <1>4, IdleFields, OneStays DEF Importing
<1>6. QED
  BY <1>1, <1>5, NodeKept

LEMMA RelateWallet ==
  ASSUME TypeInv, WalletInv, NodeStep, NEW j \in Jobs, NEW t \in Txs, Relate(j, t)
  PROVE  WalletInv'
<1>1. /\ job[j].stage = "relate" /\ t \in job[j].walk /\ job[j] \in JobDocs
      /\ UNCHANGED <<importing, txs, coins, Impaired>>
  BY ImportingTxs DEF Relate, node, store, Impaired, history
<1>2. PICK r \in {Idle, Walked(j, t)} : job' = [job EXCEPT ![j] = r]
                                         /\ (j # "pruner" => r = Walked(j, t))
  BY DEF Relate
<1>3. Walked(j, t).found = job[j].found
  BY <1>1 DEF Walked, JobDocs
<1>4. /\ r \in JobDocs
      /\ \/ j = "pruner"
         \/ r.txs = job[j].txs /\ r.found = job[j].found /\ r.stage # "write"
  BY <1>1, <1>2, <1>3, WalkedFields, IdleFields DEF TypeInv
<1>5. /\ \A k \in Importers : Stays(k)
      /\ Minting' => Minting
      /\ job["block"] # Idle \/ job'["block"].txs = {}
  BY <1>1, <1>2, <1>4, IdleFields, OneStays DEF Importing
<1>6. QED
  BY <1>1, <1>5, NodeKept

LEMMA PruneWallet ==
  ASSUME TypeInv, WalletInv, NodeStep, NEW t \in Txs, PruneTx(t)
  PROVE  WalletInv'
<1> DEFINE r == [Idle EXCEPT !.stage = "relate", !.height = txs[t].height,
                             !.walk = {t}, !.related = {t}]
<1>1. /\ UNCHANGED <<importing, txs, coins, Impaired>>
      /\ job' = [job EXCEPT !["pruner"] = r]
  BY DEF PruneTx, node, store, Impaired, history
<1>2. r \in JobDocs
  BY IdleFields, Constants DEF PruneTx, JobDocs, Heights
<1>3. /\ \A k \in Importers : Stays(k)
      /\ Minting' => Minting
      /\ job["block"] # Idle \/ job'["block"].txs = {}
  BY <1>1, <1>2, JobNames, OneStays
<1>4. QED
  BY <1>1, <1>3, NodeKept

LEMMA PrunerCrashWallet ==
  ASSUME TypeInv, WalletInv, NodeStep, PrunerCrashes
  PROVE  WalletInv'
<1>1. /\ UNCHANGED <<importing, txs, coins>> /\ Impaired \subseteq Impaired'
      /\ job' = [job EXCEPT !["pruner"] = Idle]
  BY DEF PrunerCrashes, store, Impaired, history
<1>2. /\ \A k \in Importers : Stays(k)
      /\ Minting' => Minting
      /\ job["block"] # Idle \/ job'["block"].txs = {}
  BY <1>1, IdleFields, JobNames, OneStays
<1>3. QED
  BY <1>1, <1>2, NodeKept

LEMMA NodeCrashWallet ==
  ASSUME TypeInv, WalletInv, NodeStep, NodeCrashes
  PROVE  WalletInv'
<1>1. /\ UNCHANGED <<importing, txs, coins>> /\ Impaired \subseteq Impaired'
      /\ \A k \in Jobs \ {"pruner"} : job'[k] = Idle
  BY NodeCrashTypes DEF NodeCrashes, store, Impaired, history
<1>2. \A k \in Importers : Stays(k)
  BY <1>1, JobNames, IdleFields DEF Stays, Importers, Importing
<1>3. ~Minting' /\ job'["block"].txs = {}
  BY <1>1, JobNames, IdleFields DEF Minting, Importing
<1>4. QED
  BY <1>1, <1>2, <1>3, NodeKept

LEMMA ReorgWallet ==
  ASSUME TypeInv, WalletInv, NodeStep, NEW h \in 2 .. Height, Reorg(h)
  PROVE  WalletInv'
<1>1. /\ UNCHANGED <<importing, txs, coins>> /\ Impaired \subseteq Impaired'
      /\ job'["block"].stage = "undo"
      /\ \A k \in Jobs \ {"block"} : job'[k] = job[k]
  BY ReorgTypes DEF Reorg, store, Impaired, history
<1>2. \A k \in Importers : Stays(k)
  BY <1>1, JobNames DEF Stays, Importers, Importing
<1>3. ~Minting' /\ job'["block"].txs = {}
  <2>1. job'["block"] = [Idle EXCEPT !.stage = "undo", !.height = h,
                                     !.marks = {"txs", "coins"}]
    BY JobNames DEF Reorg, TypeInv, TypeOK
  <2>2. job'["block"].txs = {}
    BY <2>1 DEF Idle
  <2>3. QED
    BY <1>1, <2>2 DEF Minting, Importing
<1>4. QED
  BY <1>1, <1>2, <1>3, NodeKept

LEMMA MarkWallet ==
  ASSUME TypeInv, WalletInv, NodeStep, NEW j \in Jobs, NEW m \in {"txs", "coins"},
         Mark(j, m)
  PROVE  WalletInv'
<1> DEFINE hit == job[j].related
           q == [job[j] EXCEPT !.marks = {}]
<1>1. /\ job[j].stage = "mark" /\ m \in job[j].marks /\ job[j] \in JobDocs
      /\ importing' = importing /\ hit \in SUBSET Txs
      /\ Impaired' = Impaired \cup Overtaken(j, IsOld(j))
  BY ImportingTxs DEF Mark, node, IsOld, Impaired, history
<1>2. PICK r : /\ job' = [job EXCEPT ![j] = r]
               /\ \/ r = [job[j] EXCEPT !.marks = job[j].marks \ {m}]
                  \/ r = Idle /\ j = "pruner"
                  \/ r \in Continued(q)
  BY DEF Mark
<1>3. /\ r \in JobDocs
      /\ \/ j = "pruner"
         \/ r.txs = job[j].txs /\ r.found = job[j].found /\ r.stage # "write"
  <2>1. CASE r = [job[j] EXCEPT !.marks = job[j].marks \ {m}]
    BY <1>1, <2>1 DEF JobDocs
  <2>2. CASE r = Idle /\ j = "pruner"
    BY <2>2, IdleFields
  <2>3. CASE r \in Continued(q)
    <3>1. q \in JobDocs /\ q.stage = "mark" /\ q.txs = job[j].txs /\ q.found = job[j].found
      BY <1>1 DEF JobDocs
    <3> HIDE DEF q
    <3>2. QED
      BY <2>3, <3>1, ContinuedFields, ContinuedFound
  <2>4. QED
    BY <1>2, <2>1, <2>2, <2>3
<1>4. /\ \A k \in Importers : Stays(k)
      /\ Minting' => Minting
      /\ job["block"] # Idle \/ job'["block"].txs = {}
  BY <1>1, <1>2, <1>3, IdleFields, OneStays DEF Importing
<1>5. ASSUME NEW c \in Coins, coins'[c] # None
      PROVE  /\ coins[c] # None /\ coins'[c].tag = coins[c].tag
             /\ coins'[c].by = coins[c].by
  <2>1. coins[c] \in CoinDocs \cup {None}
    BY DEF TypeInv, TypeOK
  <2>2. coins'[c] \in {coins[c], MarkedCoin(c, IsOld(j))}
    BY DEF Mark, IsOld, TypeInv, TypeOK
  <2>3. MarkedCoin(c, IsOld(j)) # None =>
           /\ coins[c] # None
           /\ MarkedCoin(c, IsOld(j)).tag = coins[c].tag
           /\ MarkedCoin(c, IsOld(j)).by = coins[c].by
    BY <2>1 DEF MarkedCoin, CoinDocs
  <2>4. QED
    BY <1>5, <2>2, <2>3
<1>6. ASSUME NEW t \in Txs
      PROVE  /\ txs'[t] # None =>
                  /\ txs[t] # None /\ txs'[t].tag = txs[t].tag
                  /\ txs'[t].height \in {txs[t].height, Conflicting}
             /\ txs'[t] = None => txs[t] = None \/ t \in hit
  <2>1. txs[t] \in TxDocs \cup {None}
    BY DEF TypeInv, TypeOK
  <2>2. txs'[t] = txs[t] \/ (t \in hit /\ txs'[t] = MarkedTx(t, IsOld(j)))
    BY DEF Mark, IsOld, TypeInv, TypeOK
  <2>3. MarkedTx(t, IsOld(j)) # None =>
           /\ txs[t] # None
           /\ MarkedTx(t, IsOld(j)).tag = txs[t].tag
           /\ MarkedTx(t, IsOld(j)).height \in {txs[t].height, Conflicting}
    BY <2>1 DEF MarkedTx, TxDocs
  <2>4. QED
    BY <2>2, <2>3
<1>7. ASSUME NEW r0 \in Relays, NEW t \in job[r0].txs, t \notin Impaired', txs'[t] = None
      PROVE  txs[t] = None
  <2>1. t \in Txs /\ t \in Unsettled
    BY ImportingTxs, JobNames DEF Unsettled
  <2>2. t \notin hit
    BY <1>1, <1>7, <2>1 DEF Overtaken
  <2>3. QED
    BY <1>6, <1>7, <2>1, <2>2
<1>8. QED
  BY <1>1, <1>4, <1>5, <1>6, <1>7, NodeKept

LEMMA UndoMinedWallet ==
  ASSUME NodeInv, WalletInv, NodeStep, NEW m \in {"txs", "coins"}, UndoMined(m)
  PROVE  WalletInv'
<1> DEFINE h == job["block"].height
<1>1. /\ TypeInv /\ StoreInv /\ AgreeInv
      /\ importing' = importing /\ Impaired \subseteq Impaired'
      /\ job["block"].stage = "undo" /\ h = Height + 1 /\ Height \in Nat
  BY ChainTxs DEF UndoMined, node, NodeInv, TypeInv, JobsFit, Impaired, history
<1>2. PICK r \in JobDocs : job' = [job EXCEPT !["block"] = r] /\ r.stage = "undo"
  BY <1>1, UndoMinedGoesOn
<1>3. /\ \A k \in Importers : Stays(k)
      /\ Minting' => Minting
      /\ job["block"] # Idle \/ job'["block"].txs = {}
  BY <1>1, <1>2, IdleFields, JobNames, OneStays DEF Importing
<1>4. ASSUME NEW c \in Coins, coins'[c] # None
      PROVE  coins'[c] = coins[c]
  BY <1>4 DEF UndoMined
<1>5. ASSUME NEW t \in Txs
      PROVE  txs'[t] = txs[t] \/ (txs'[t] = None /\ txs[t] # None /\ txs[t].height >= h)
  BY <1>1 DEF UndoMined
<1>6. ASSUME NEW r0 \in Relays, NEW t \in job[r0].txs, t \notin Impaired', txs'[t] = None
      PROVE  txs[t] = None
  <2>1. t \in Txs /\ t \notin Impaired /\ t \notin importing
    BY <1>1, <1>6, ImportingTxs, JobNames DEF TypeInv, JobsFit
  <2>2. ASSUME txs[t] # None
        PROVE  ~(txs[t].height >= h)
    <3>1. txs[t].height \in Int
      BY <2>1, <2>2, TxFields DEF NodeInv, TypeInv, TypeOK
    <3>2. CASE t \in OnChain
      <4>1. PICK i \in 1 .. Height : t \in chain[i]
        BY <1>1, <3>2, ChainTxs
      <4>2. txs[t].height = i
        BY <1>1, <2>1, <4>1 DEF StoreInv, ChainStands, TxStands, Impaired, history
      <4>3. QED
        BY <1>1, <4>2
    <3>3. CASE t \notin OnChain
      <4>1. txs[t].height < 0
        BY <1>1, <2>1, <2>2, <3>3 DEF AgreeInv, RelayFit, RelayAt, Impaired, history
      <4>2. QED
        BY <1>1, <3>1, <4>1
    <3>4. QED
      BY <3>2, <3>3
  <2>3. QED
    BY <1>5, <1>6, <2>1, <2>2
<1>7. QED
  BY <1>1, <1>3, <1>4, <1>5, <1>6, NodeKept

LEMMA UndoSpendsWallet ==
  ASSUME TypeInv, WalletInv, NodeStep, UndoSpends
  PROVE  WalletInv'
<1>1. /\ UNCHANGED <<importing, txs, Impaired>>
      /\ job["block"].stage = "undo" /\ job' = [job EXCEPT !["block"] = Idle]
  BY DEF UndoSpends, node, Impaired, history
<1>2. /\ \A k \in Importers : Stays(k)
      /\ Minting' => Minting
      /\ job["block"] # Idle \/ job'["block"].txs = {}
  BY <1>1, IdleFields, JobNames, OneStays DEF Importing
<1>3. ASSUME NEW c \in Coins, coins'[c] # None
      PROVE  /\ coins[c] # None /\ coins'[c].tag = coins[c].tag
             /\ coins'[c].by \in {coins[c].by, None}
  <2>1. coins[c] \in CoinDocs \cup {None}
    BY DEF TypeInv, TypeOK
  <2>2. \/ coins'[c] = coins[c]
        \/ coins[c] # None /\ coins'[c] = [coins[c] EXCEPT !.spent = Unspent, !.by = None]
    BY DEF UndoSpends
  <2>3. QED
    BY <1>3, <2>1, <2>2 DEF CoinDocs
<1>4. QED
  BY <1>1, <1>2, <1>3, NodeKept

LEMMA NodeCalls ==
  ASSUME TypeInv, WalletInv, NodeStep
  PROVE  CallsSame /\ CallsTyped' /\ CallsFit'
<1>1. lagging' \subseteq Txs /\ UNCHANGED <<call, dropped>>
  BY NodeLagging
<1>2. CallsSame
  BY <1>1, NextAddresses DEF CallsSame, NodeStep
<1>3. QED
  BY <1>1, <1>2, SameReach DEF WalletInv, CallsTyped

\* An import that begins finds the known addresses it pays.
LEMMA BegunFound ==
  ASSUME TypeInv, NEW j \in Jobs, NEW T \in SUBSET Txs, NEW h \in Heights,
         Begin(j, T, h), NEW t \in T, NEW c \in Mints[t], Known(AddressOf[c])
  PROVE  AddressOf[c] \in job'[j].found
<1> DEFINE found == {AddressOf[d] : d \in
                        {e \in Outputs(T) : addresses[AddressOf[e]] # "none"}}
<1>1. job'[j] = [Idle EXCEPT !.stage = "mint", !.txs = T, !.height = h,
                             !.found = found]
  BY DEF Begin, TypeInv, TypeOK
<1>2. job'[j].found = found
  <2> HIDE DEF found
  <2>1. QED
    BY <1>1 DEF Idle
<1>3. c \in Outputs(T)
  BY DEF Outputs
<1>4. QED
  BY <1>2, <1>3 DEF Known

\* What the coins and transactions say of an address does not change.
LEMMA SameTags ==
  ASSUME CallsSame, coins' = coins, txs' = txs
  PROVE  \A t : /\ SpendsReached(t)' <=> SpendsReached(t)
                /\ PaysReached(t)' <=> PaysReached(t)
<1>1. \A x, t : Reached(x, t)' <=> Reached(x, t)
  BY SameReach
<1>2. QED
  BY <1>1 DEF SpendsReached, PaysReached

LEMMA BlockArrivesWallet ==
  ASSUME TypeInv, WalletInv, NodeStep, NEW T \in SUBSET Txs, BlockArrives(T)
  PROVE  WalletInv'
<1>1. /\ job["block"] = Idle /\ importing \subseteq T /\ importing' = T
      /\ UNCHANGED <<coins, txs>> /\ Impaired' = Impaired \ T
      /\ Begin("block", T, NewHeight) /\ Height < MaxHeight
  BY DEF BlockArrives, store, Impaired, history
<1>2. NewHeight \in Heights
  BY <1>1, ChainTxs, Constants DEF NewHeight, Heights
<1>3. /\ job'["block"].stage = "mint" /\ job'["block"].txs = T
      /\ \A k \in Jobs \ {"block"} : job'[k] = job[k]
  BY <1>1, <1>2, BeginFields, JobNames
<1>4. CallsSame /\ CallsTyped' /\ CallsFit'
  BY NodeCalls
<1>5. /\ \A x : Known(x)' <=> Known(x)
      /\ \A x : Covered(x)' <=> Covered(x)
  BY <1>4, SameReach
<1>6. \A t : /\ SpendsReached(t)' <=> SpendsReached(t)
             /\ PaysReached(t)' <=> PaysReached(t)
  BY <1>1, <1>4, SameTags
<1>7. lagging' = lagging \ (T \ UNION {job[r].txs : r \in Relays})
  <2>1. Heirs = {}
    BY <1>3, JobNames, NoHeirs
  <2>2. QED
    BY <1>1, <1>3, <2>1, NodeLagging DEF Resolved
<1>8. FoundFit'
  <2>1. ASSUME NEW t \in T, NEW c \in Mints[t], Known(AddressOf[c])
        PROVE  AddressOf[c] \in job'["block"].found
    BY <1>1, <1>2, <2>1, JobNames, BegunFound
  <2>2. ASSUME NEW r \in Relays, job'[r].stage \in Importing,
               NEW t \in job'[r].txs, t \notin lagging', NEW c \in Mints[t],
               Known(AddressOf[c])
        PROVE  AddressOf[c] \in job'[r].found
    <3>1. job'[r] = job[r] /\ r \in Importers
      BY <1>3, JobNames DEF Importers
    <3>2. t \notin lagging
      BY <1>7, <2>2, <3>1
    <3>3. QED
      BY <2>2, <3>1, <3>2 DEF WalletInv, FoundFit
  <2>3. QED
    BY <1>3, <1>5, <2>1, <2>2 DEF FoundFit, Importers
<1>9. CoinTags'
  <2>1. Stale \subseteq Stale'
    BY <1>1, <1>3, <1>7 DEF Stale, Minting
  <2>2. Outputs(Stale) \subseteq Outputs(Stale)'
    BY <2>1 DEF Outputs
  <2>3. QED
    BY <1>1, <1>5, <2>2 DEF WalletInv, CoinTags
<1>10. TaggedFit'
  <2>1. ASSUME NEW r \in Relays, job'[r].stage = "write", NEW t \in job'[r].txs,
               t \notin lagging' \cup Impaired', txs[t] = None, t \notin T,
               SpendsReached(t)
        PROVE  t \in job'[r].tagged
    <3>1. job'[r] = job[r] /\ r \in Importers
      BY <1>3, JobNames DEF Importers
    <3>2. t \notin lagging \cup Impaired \cup importing
      BY <1>1, <1>7, <2>1
    <3>3. QED
      BY <2>1, <3>1, <3>2 DEF WalletInv, TaggedFit
  <2>2. QED
    BY <1>1, <1>3, <1>6, <2>1, JobNames DEF TaggedFit, Importers
<1>11. TxTags'
  <2>1. \A t : t \notin lagging' \cup Impaired' \cup importing' =>
                  t \notin lagging \cup Impaired \cup importing
    BY <1>1, <1>7
  <2>2. QED
    BY <1>1, <1>6, <2>1 DEF WalletInv, TxTags
<1>12. QED
  BY <1>4, <1>8, <1>9, <1>10, <1>11 DEF WalletInv

LEMMA TxArrivesWallet ==
  ASSUME TypeInv, WalletInv, NodeStep, NEW r \in Relays, NEW t \in Txs,
         TxArrives(r, t)
  PROVE  WalletInv'
<1>1. /\ job[r] = Idle /\ t \notin inv
      /\ UNCHANGED <<coins, txs, importing>>
      /\ Begin(r, {t}, Pending)
      /\ Impaired \subseteq Impaired' \cup {t}
      /\ t \in Impaired /\ t \notin Impaired' => txs[t] = None
  BY DEF TxArrives, store, Afresh, Impaired, history
<1>2. /\ job'[r].stage = "mint" /\ job'[r].txs = {t}
      /\ \A k \in Jobs \ {r} : job'[k] = job[k]
  BY <1>1, BeginFields, JobNames, Constants
<1>3. CallsSame /\ CallsTyped' /\ CallsFit'
  BY NodeCalls
<1>4. /\ \A x : Known(x)' <=> Known(x)
      /\ \A x : Covered(x)' <=> Covered(x)
  BY <1>3, SameReach
<1>5. \A s : /\ SpendsReached(s)' <=> SpendsReached(s)
             /\ PaysReached(s)' <=> PaysReached(s)
  BY <1>1, <1>3, SameTags
<1>6. lagging' = lagging /\ job'["block"] = job["block"]
  <2>1. Heirs = {}
    <3>1. \A k \in Jobs : job[k].stage = "spend" => job'[k].stage # "write"
      BY <1>2
    <3>2. QED
      BY <3>1, NoHeirs
  <2>2. job'["block"] = job["block"]
    BY <1>2, JobNames
  <2>3. Resolved = {}
    BY <2>2, IdleFields DEF Resolved
  <2>4. QED
    BY <2>1, <2>2, <2>3, NodeLagging
<1>7. FoundFit'
  <2>1. ASSUME NEW c \in Mints[t], Known(AddressOf[c])
        PROVE  AddressOf[c] \in job'[r].found
    BY <1>1, <2>1, JobNames, Constants, BegunFound
  <2>2. ASSUME NEW k \in Importers, k # r
        PROVE  job'[k] = job[k]
    BY <1>2, <2>2, JobNames DEF Importers
  <2>3. QED
    BY <1>2, <1>4, <1>6, <2>1, <2>2 DEF WalletInv, FoundFit
<1>8. CoinTags'
  <2>1. Stale' = Stale
    BY <1>1, <1>6 DEF Stale, Minting
  <2>2. QED
    BY <1>1, <1>4, <2>1 DEF WalletInv, CoinTags, Outputs
<1>9. TaggedFit'
  <2>1. ASSUME NEW k \in Importers, job'[k].stage = "write", NEW s \in job'[k].txs,
               s \notin lagging' \cup Impaired',
               k = "block" \/ (txs[s] = None /\ s \notin importing),
               SpendsReached(s)
        PROVE  s \in job'[k].tagged
    <3>1. k # r /\ k \in Jobs
      BY <1>2, <2>1, JobNames DEF Importers
    <3>2. job'[k] = job[k]
      BY <1>2, <3>1
    <3>3. s \in inv
      BY <2>1, <3>2 DEF Importers, TypeInv, JobsFit, MarksFit, Importing
    <3>4. s \notin lagging \cup Impaired
      BY <1>1, <1>6, <2>1, <3>3
    <3>5. QED
      BY <2>1, <3>2, <3>4 DEF WalletInv, TaggedFit
  <2>2. QED
    BY <1>1, <1>5, <2>1 DEF TaggedFit
<1>10. TxTags'
  <2>1. \A s : txs[s] # None /\ s \notin lagging' \cup Impaired' \cup importing' =>
                  s \notin lagging \cup Impaired \cup importing
    BY <1>1, <1>6
  <2>2. QED
    BY <1>1, <1>5, <2>1 DEF WalletInv, TxTags
<1>11. QED
  BY <1>3, <1>7, <1>8, <1>9, <1>10 DEF WalletInv

\* The import of a transaction that is stored and of no block mints nothing.
LEMMA StoredMints ==
  ASSUME NodeInv, NEW t \in Txs, t \notin Impaired \cup importing, txs[t] # None,
         NEW j \in Importers, job[j].stage \in Importing, t \in job[j].txs,
         NEW c \in Mints[t]
  PROVE  coins[c] # None
<1>1. j \in Relays
  BY DEF Importers, NodeInv, TypeInv, JobsFit
<1>2. CASE t \in OnChain
  <2>1. PICK h \in 1 .. Height : t \in chain[h]
    BY <1>2, ChainTxs DEF NodeInv
  <2>2. QED
    BY <2>1 DEF NodeInv, StoreInv, ChainStands, MintStands
<1>3. CASE t \notin OnChain
  BY <1>1, <1>3 DEF NodeInv, AgreeInv, RelayFit, RelayAt, Impaired, history
<1>4. QED
  BY <1>2, <1>3

LEMMA MintWallet ==
  ASSUME NodeInv, WalletInv, NodeStep, NEW j \in Importers, Mint(j)
  PROVE  WalletInv'
<1> DEFINE T == job[j].txs
           h == job[j].height
           found == job[j].found
           r == [job[j] EXCEPT !.stage = "find"]
<1>1. /\ TypeInv /\ j \in Jobs /\ job[j].stage = "mint" /\ job[j] \in JobDocs
      /\ T \in SUBSET Txs /\ h \in Heights
      /\ UNCHANGED <<importing, txs, Impaired>>
      /\ job' = [job EXCEPT ![j] = r]
  BY ImportingTxs, JobNames DEF Mint, Goto, node, NodeInv, Importers, Impaired, history
<1>2. r \in JobDocs /\ r.stage = "find" /\ r.txs = T /\ r.found = found
  BY <1>1 DEF JobDocs
<1>3. job'[j] = r /\ \A k \in Jobs \ {j} : job'[k] = job[k]
  BY <1>1, <1>2, JobStep DEF TypeInv, TypeOK
<1> HIDE DEF r
<1>4. \A k \in Importers : Stays(k)
  BY <1>1, <1>2, <1>3, JobNames DEF Stays, Importers, Importing
<1>5. lagging \subseteq lagging'
  <2>1. job["block"] # Idle \/ job'["block"].txs = {}
    BY <1>1, <1>3, JobNames, IdleFields
  <2>2. QED
    BY <1>1, <2>1, NodeLagging
<1>6. /\ CallsSame /\ CallsTyped' /\ CallsFit'
      /\ \A x : Covered(x)' <=> Covered(x)
      /\ \A x, t : Reached(x, t)' <=> Reached(x, t)
  BY <1>1, NodeCalls, SameReach
<1>7. FoundFit'
  BY <1>4, <1>5, <1>6, FoundKept DEF WalletInv
<1>8. ASSUME NEW c \in Coins, coins'[c] # None
      PROVE  /\ coins[c] # None => coins'[c].by = coins[c].by
             /\ coins[c] = None => c \in Outputs(T) /\ coins'[c].by = None
             /\ c \notin Outputs(T) => coins'[c] = coins[c]
             /\ c \in Outputs(T) => coins'[c] = Minted(c, h, found)
  <2>1. coins' = [d \in Coins |-> IF d \in Outputs(T)
                                  THEN Minted(d, h, found) ELSE coins[d]]
    BY DEF Mint
  <2> HIDE DEF T, h, found
  <2>2. CASE c \in Outputs(T)
    BY <1>1, <2>1, <2>2, MintedFields DEF TypeInv
  <2>3. CASE c \notin Outputs(T)
    BY <1>8, <2>1, <2>3
  <2>4. QED
    BY <2>2, <2>3
<1>9. CoinTags'
  <2>1. ASSUME NEW c \in Coins, coins'[c] # None, Covered(AddressOf[c])
        PROVE  coins'[c].tag \/ c \in Outputs(Stale')
    <3>1. Known(AddressOf[c])
      BY <2>1, CoveredKnown, CoinAssumption DEF WalletInv
    <3>2. CASE c \in Outputs(T) /\ (coins[c] = None \/ j = "block")
      <4>1. PICK t \in T : c \in Mints[t]
        BY <3>2 DEF Outputs
      <4>2. CASE t \in lagging
        BY <1>5, <4>1, <4>2 DEF Stale, Outputs
      <4>3. CASE t \notin lagging
        <5>1. AddressOf[c] \in found
          BY <1>1, <3>1, <4>1, <4>3 DEF WalletInv, FoundFit, Importing
        <5>2. coins'[c] = Minted(c, h, found) /\ found # {}
          BY <1>8, <2>1, <3>2, <5>1
        <5>3. j = "block" => h # Pending
          BY <1>1, ChainTxs DEF TypeInv, JobsFit, Importing, Pending
        <5>4. coins[c] \in CoinDocs \cup {None}
          BY <1>1 DEF TypeInv, TypeOK
        <5> HIDE DEF h, found
        <5>5. CASE coins[c] = None
          BY <5>1, <5>2, <5>5 DEF Minted, NewCoin
        <5>6. CASE coins[c] # None
          BY <3>2, <5>1, <5>2, <5>3, <5>4, <5>6 DEF Minted, CoinDocs
        <5>7. QED
          BY <5>5, <5>6
      <4>4. QED
        BY <4>2, <4>3
    <3>3. CASE ~(c \in Outputs(T) /\ (coins[c] = None \/ j = "block"))
      <4>1. coins[c] # None /\ coins'[c].tag = coins[c].tag
        <5>1. c \in Outputs(T) => h = Pending
          BY <1>1, <3>3 DEF Importers, TypeInv, JobsFit
        <5>2. QED
          BY <1>8, <2>1, <3>3, <5>1 DEF Minted
      <4>2. coins[c].tag \/ c \in Outputs(Stale)
        BY <2>1, <4>1 DEF WalletInv, CoinTags
      <4>3. c \in Outputs(Stale) => c \in Outputs(Stale')
        <5>1. CASE j = "block"
          <6>1. importing = T
            BY <1>1, <5>1 DEF TypeInv, JobsFit, Importing
          <6>2. c \notin Outputs(importing)
            BY <3>3, <5>1, <6>1
          <6>3. QED
            BY <1>5, <6>2 DEF Stale, Outputs
        <5>2. CASE j # "block"
          <6>1. job'["block"] = job["block"]
            BY <1>3, <5>2, JobNames
          <6>2. Stale \subseteq Stale'
            BY <1>1, <1>5, <6>1 DEF Stale, Minting
          <6>3. QED
            BY <6>2 DEF Outputs
        <5>3. QED
          BY <5>1, <5>2
      <4>4. QED
        BY <4>1, <4>2, <4>3
    <3>4. QED
      BY <3>2, <3>3
  <2>2. Outputs(Stale)' = Outputs(Stale')
    BY DEF Outputs
  <2>3. QED
    BY <1>6, <2>1, <2>2 DEF CoinTags
<1>10. ASSUME NEW t \in Txs, SpendsReached(t)'
       PROVE  SpendsReached(t)
  <2>1. PICK c \in Coins : coins'[c] # None /\ coins'[c].by = t /\ Reached(AddressOf[c], t)'
    BY <1>10 DEF SpendsReached
  <2>2. coins[c] # None /\ coins[c].by = t
    BY <1>8, <2>1, NoneAssumption
  <2>3. QED
    BY <1>6, <2>1, <2>2 DEF SpendsReached
<1>11. TaggedFit'
  <2>1. ASSUME NEW k \in Importers, job'[k].stage = "write", NEW t \in job'[k].txs,
               t \notin lagging' \cup Impaired',
               k = "block" \/ (txs'[t] = None /\ t \notin importing'),
               SpendsReached(t)'
        PROVE  t \in job'[k].tagged
    <3>1. k \in Jobs /\ job'[k] = job[k]
      BY <1>2, <1>3, <2>1, JobNames DEF Importers
    <3>2. t \in Txs
      BY <1>1, <2>1, <3>1, ImportingTxs
    <3>3. SpendsReached(t)
      BY <1>10, <2>1, <3>2
    <3>4. QED
      BY <1>1, <1>5, <2>1, <3>1, <3>3 DEF WalletInv, TaggedFit
  <2>2. QED
    BY <2>1 DEF TaggedFit
<1>12. TxTags'
  <2>1. ASSUME NEW t \in Txs, t \notin lagging' \cup Impaired' \cup importing',
               txs'[t] # None
        PROVE  /\ PaysReached(t)' => txs'[t].tag
               /\ SpendsReached(t)' /\ txs'[t].height # Conflicting => txs'[t].tag
    <3>1. ASSUME PaysReached(t)'
          PROVE  PaysReached(t)
      <4>1. PICK c \in Mints[t] : coins'[c] # None /\ Reached(AddressOf[c], t)'
        BY <3>1 DEF PaysReached
      <4>2. c \in Coins
        BY CoinAssumption
      <4>3. coins[c] # None
        <5>1. ASSUME coins[c] = None
              PROVE  FALSE
          <6>1. t \in T
            BY <1>1, <1>8, <4>1, <4>2, <5>1, OneMinter
          <6>2. QED
            BY <1>1, <2>1, <5>1, <6>1, StoredMints DEF Importing
        <5>2. QED
          BY <5>1
      <4>4. QED
        BY <1>6, <4>1, <4>3 DEF PaysReached
    <3>2. QED
      BY <1>1, <1>5, <1>10, <2>1, <3>1 DEF WalletInv, TxTags
  <2>2. QED
    BY <2>1 DEF TxTags
<1>13. QED
  BY <1>6, <1>7, <1>9, <1>11, <1>12 DEF WalletInv

\* A relay that spends again for what is stored as pending changes no spender.
LEMMA StoredSpends ==
  ASSUME NodeInv, NEW t \in Txs, t \notin Impaired \cup importing, txs[t] # None,
         txs[t].height # Conflicting, NEW r \in Relays, t \in job[r].txs,
         NEW c \in Spends[t]
  PROVE  coins[c].by = t
<1>1. CASE t \in OnChain
  <2>1. PICK h \in 1 .. Height : t \in chain[h]
    BY <1>1, ChainTxs DEF NodeInv
  <2>2. QED
    BY <2>1 DEF NodeInv, StoreInv, ChainStands, SpendStands
<1>2. CASE t \notin OnChain
  <2>1. txs[t].height < 0 /\ \A j \in Jobs : ~HalfMarks(j, t)
    BY <1>2 DEF NodeInv, AgreeInv, RelayFit, RelayAt, Impaired, history
  <2>2. txs[t].height \in Heights
    BY TxFields DEF NodeInv, TypeInv, TypeOK
  <2>3. txs[t].height = Pending
    BY <2>1, <2>2, CoinAssumption DEF Heights
  <2>4. Holding(t)
    BY <2>1, <2>3 DEF Holding, Shown, Leaving
  <2>5. QED
    BY <2>4 DEF NodeInv, HoldInv, HoldFit, Held, Reserved
<1>3. QED
  BY <1>1, <1>2

LEMMA SpendWallet ==
  ASSUME NodeInv, NodeInv', WalletInv, NodeStep, NEW j \in Importers, Spend(j)
  PROVE  WalletInv'
<1> DEFINE T == job[j].txs
           h == job[j].height
           mine(c) == /\ coins'[c] # None
                      /\ IF h > 0 THEN coins'[c].spent = h
                                  ELSE coins'[c].by \in T
           tagged == {coins'[c].by : c \in {d \in Coins : mine(d) /\ coins'[d].tag}}
           r == [job[j] EXCEPT !.stage = "write", !.tagged = tagged]
<1>1. /\ TypeInv /\ j \in Jobs /\ job[j].stage = "spend" /\ job[j] \in JobDocs
      /\ T \in SUBSET Txs /\ h \in {Pending} \cup 1 .. MaxHeight
      /\ UNCHANGED <<importing, txs>> /\ Impaired \subseteq Impaired'
      /\ coins' = SpentBy(T, h)
      /\ job' = [job EXCEPT ![j].stage = "write", ![j].tagged = tagged]
  BY ImportingTxs, JobNames DEF Spend, node, NodeInv, Importers, Importing,
      Impaired, history
<1>2. /\ job'[j].stage = "write" /\ job'[j].txs = T /\ job'[j].found = job[j].found
      /\ job'[j].tagged = tagged
      /\ \A k \in Jobs \ {j} : job'[k] = job[k]
  <2> HIDE DEF tagged
  <2>1. job'[j] = r /\ \A k \in Jobs \ {j} : job'[k] = job[k]
    BY <1>1 DEF TypeInv, TypeOK
  <2>2. r.stage = "write" /\ r.txs = T /\ r.found = job[j].found /\ r.tagged = tagged
    BY <1>1 DEF JobDocs
  <2> HIDE DEF r
  <2>3. QED
    BY <2>1, <2>2
<1>3. /\ lagging \subseteq lagging' /\ Heirs \subseteq lagging'
  <2>1. job["block"] # Idle \/ job'["block"].txs = {}
    BY <1>1, <1>2, JobNames, IdleFields
  <2>2. QED
    BY <1>1, <2>1, NodeLagging
<1>4. /\ CallsSame /\ CallsTyped' /\ CallsFit'
      /\ \A x : Known(x)' <=> Known(x)
      /\ \A x : Covered(x)' <=> Covered(x)
      /\ \A x, t : Reached(x, t)' <=> Reached(x, t)
  BY <1>1, NodeCalls, SameReach
<1>5. FoundFit'
  <2>1. ASSUME NEW k \in Importers
        PROVE  /\ job'[k].stage \in Importing => job[k].stage \in Importing
               /\ job'[k].txs = job[k].txs /\ job'[k].found = job[k].found
    <3>1. k \in Jobs
      BY JobNames DEF Importers
    <3>2. QED
      BY <1>1, <1>2, <3>1 DEF Importing
  <2>2. QED
    BY <1>3, <1>4, <2>1 DEF WalletInv, FoundFit
<1> HIDE DEF tagged, mine
<1>6. ASSUME NEW c \in Coins, coins'[c] # None
      PROVE  /\ coins[c] # None /\ coins'[c].tag = coins[c].tag
             /\ \/ coins'[c].by = coins[c].by
                \/ /\ Spendable(c) /\ c \in Inputs(T)
                   /\ coins'[c].by = SpenderIn(T, c)
  <2>1. coins[c] \in CoinDocs \cup {None}
    BY <1>1 DEF TypeInv, TypeOK
  <2>2. CASE c \in Inputs(T) /\ Spendable(c)
    <3>1. /\ coins[c] # None
          /\ coins'[c] = [coins[c] EXCEPT !.spent = h, !.by = SpenderIn(T, c)]
      BY <1>1, <2>2 DEF SpentBy, Spendable
    <3> HIDE DEF h
    <3>2. QED
      BY <2>1, <2>2, <3>1 DEF CoinDocs
  <2>3. CASE ~(c \in Inputs(T) /\ Spendable(c))
    BY <1>1, <1>6, <2>3 DEF SpentBy
  <2>4. QED
    BY <2>2, <2>3
<1>7. Minting' <=> Minting
  BY <1>1, <1>2, JobNames DEF Minting, Importing
<1>8. CoinTags'
  <2>1. Stale \subseteq Stale'
    BY <1>1, <1>3, <1>7 DEF Stale
  <2>2. Outputs(Stale) \subseteq Outputs(Stale)'
    BY <2>1 DEF Outputs
  <2>3. QED
    BY <1>4, <1>6, <2>2 DEF WalletInv, CoinTags
\* What begins to be spent is spent by the transactions of j.
<1>9. ASSUME NEW c \in Coins, coins'[c] # None, NEW t, coins'[c].by = t
      PROVE  \/ coins[c] # None /\ coins[c].by = t
             \/ t \in T /\ c \in Spends[t] /\ Spendable(c)
  BY <1>1, <1>6, <1>9, SpenderInFact
<1>10. ASSUME NEW k \in Importers, k # j, job'[k].stage = "write",
              NEW t \in job'[k].txs, t \notin lagging' \cup Impaired',
              k = "block" \/ (txs[t] = None /\ t \notin importing),
              SpendsReached(t)'
       PROVE  t \in job'[k].tagged
  <2>1. k \in Jobs /\ job'[k] = job[k]
    BY <1>2, <1>10, JobNames DEF Importers
  <2>2. PICK c \in Coins : coins'[c] # None /\ coins'[c].by = t /\ Reached(AddressOf[c], t)
    BY <1>4, <1>10 DEF SpendsReached
  <2>3. coins[c] # None /\ coins[c].by = t
    <3>1. ASSUME t \in T, c \in Spends[t], Spendable(c)
          PROVE  FALSE
      <4>1. CASE j = "block"
        <5>1. k \in Relays /\ t \in importing
          BY <1>1, <1>10, <3>1, <4>1 DEF Importers, TypeInv, JobsFit, Importing
        <5>2. QED
          BY <1>10, <5>1, JobNames
      <4>2. CASE k = "block"
        <5>1. /\ t \in importing /\ Writing
          BY <1>1, <1>10, <2>1, <4>2 DEF TypeInv, JobsFit, Importing, Writing
        <5>2. coins[c].spent = Height + 1
          <6>1. Height + 1 \in Nat
            BY <1>1, ChainTxs
          <6>2. SpendStands(t, Height + 1)
            BY <5>1, <6>1 DEF NodeInv, StoreInv, BlockStands
          <6>3. QED
            BY <3>1, <6>2 DEF SpendStands
        <5>3. QED
          BY <1>1, <3>1, <5>2, ChainTxs DEF Spendable
      <4>3. CASE j # "block" /\ k # "block"
        BY <1>1, <1>10, <2>1, <3>1, <4>3 DEF Importers, TypeInv, MarksFit
      <4>4. QED
        BY <4>1, <4>2, <4>3
    <3>2. QED
      BY <1>9, <2>2, <3>1
  <2>4. SpendsReached(t)
    BY <2>2, <2>3 DEF SpendsReached
  <2>5. QED
    BY <1>3, <1>1, <1>10, <2>1, <2>4 DEF WalletInv, TaggedFit
\* The tags that j is going to write come from the coins it has just read.
<1>11. ASSUME NEW t \in T, t \notin lagging', SpendsReached(t)'
       PROVE  t \in tagged
  <2>1. PICK c \in Coins : coins'[c] # None /\ coins'[c].by = t /\ Reached(AddressOf[c], t)
    BY <1>4, <1>11 DEF SpendsReached
  <2>2. coins'[c].tag
    <3>1. Covered(AddressOf[c]) /\ Known(AddressOf[c])
      BY <2>1, ReachedCovered, CoveredKnown, CoinAssumption DEF WalletInv
    <3>2. coins'[c].tag \/ c \in Outputs(lagging \cup importing)
      <4>1. coins[c].tag \/ c \in Outputs(Stale)
        BY <1>6, <2>1, <3>1 DEF WalletInv, CoinTags
      <4>2. Outputs(Stale) \subseteq Outputs(lagging \cup importing)
        BY DEF Stale, Outputs
      <4>3. QED
        BY <1>6, <2>1, <4>1, <4>2
    <3>3. ASSUME c \in Outputs(lagging \cup importing), ~coins'[c].tag
          PROVE  FALSE
      <4>1. t \in Heirs
        BY <1>1, <1>2, <2>1, <3>1, <3>3 DEF Heirs, Known
      <4>2. QED
        BY <1>3, <1>11, <4>1
    <3>4. QED
      BY <3>2, <3>3
  <2>3. mine(c)
    <3>1. CASE j = "block"
      <4>1. /\ t \in importing /\ h = Height + 1 /\ Height \in Nat
        BY <1>1, <3>1, ChainTxs DEF TypeInv, JobsFit, Importing
      <4>2. /\ Writing' /\ importing' = importing /\ Height' = Height
        BY <1>1, <1>2, <3>1 DEF Writing, Spend, node, Height
      <4>3. \A i \in Nat : i = Height' + 1 => SpendStands(t, i)'
        BY <4>1, <4>2 DEF NodeInv, StoreInv, BlockStands
      <4>4. c \in Spends[t]
        BY <1>1, <2>1 DEF NodeInv, HoldInv, SpenderFit
      <4>5. ASSUME NEW i \in Nat, i = Height + 1
            PROVE  coins'[c].spent = i
        BY <4>2, <4>3, <4>4, <4>5 DEF SpendStands
      <4>6. coins'[c].spent = h
        BY <4>1, <4>5
      <4>7. QED
        BY <2>1, <4>1, <4>6 DEF mine
    <3>2. CASE j # "block"
      <4>1. ~(h > 0)
        BY <1>1, <3>2, Constants DEF Importers, TypeInv, JobsFit
      <4>2. QED
        BY <2>1, <4>1 DEF mine
    <3>3. QED
      BY <3>1, <3>2
  <2>4. QED
    BY <2>1, <2>2, <2>3 DEF tagged
<1>12. TaggedFit'
  BY <1>1, <1>2, <1>10, <1>11 DEF TaggedFit
<1>13. TxTags'
  <2>1. ASSUME NEW t \in Txs, t \notin lagging' \cup Impaired' \cup importing',
               txs'[t] # None
        PROVE  /\ PaysReached(t)' => txs'[t].tag
               /\ SpendsReached(t)' /\ txs'[t].height # Conflicting => txs'[t].tag
    <3>1. PaysReached(t)' => PaysReached(t)
      <4>1. \A c \in Mints[t] : c \in Coins
        BY CoinAssumption
      <4>2. QED
        BY <1>4, <1>6, <4>1 DEF PaysReached
    <3>2. ASSUME SpendsReached(t)', txs[t].height # Conflicting
          PROVE  SpendsReached(t)
      <4>1. PICK c \in Coins :
              coins'[c] # None /\ coins'[c].by = t /\ Reached(AddressOf[c], t)
        BY <1>4, <3>2 DEF SpendsReached
      <4>2. coins[c] # None /\ coins[c].by = t
        <5>1. ASSUME t \in T, c \in Spends[t]
              PROVE  coins[c].by = t
          <6>1. j \in Relays
            BY <1>1, <2>1, <5>1 DEF Importers, TypeInv, JobsFit, Importing
          <6>2. QED
            BY <1>1, <2>1, <3>2, <5>1, <6>1, StoredSpends
        <5>2. QED
          BY <1>6, <1>9, <4>1, <5>1
      <4>3. QED
        BY <4>1, <4>2 DEF SpendsReached
    <3>3. QED
      BY <1>1, <1>3, <2>1, <3>1, <3>2 DEF WalletInv, TxTags
  <2>2. QED
    BY <2>1 DEF TxTags
<1>14. QED
  BY <1>4, <1>5, <1>8, <1>12, <1>13 DEF WalletInv

\* What an import writes of a transaction has the tag it should have.
LEMMA WrittenTag ==
  ASSUME TypeInv, WalletInv, NEW j \in Importers, job[j].stage = "write",
         NEW t \in job[j].txs, t \notin lagging \cup Impaired,
         \/ j = "block"
         \/ txs[t] = None /\ t \notin importing
  PROVE  PaysReached(t) \/ SpendsReached(t) => Written(j, t).tag
<1>1. Written(j, t).tag = (\/ t \in job[j].tagged
                           \/ \E c \in Mints[t] : AddressOf[c] \in job[j].found)
  <2>1. ~(txs[t] # None /\ job[j].height = Pending)
    BY ChainTxs DEF TypeInv, JobsFit, Importing, Pending
  <2>2. QED
    BY <2>1 DEF Written
<1>2. ASSUME PaysReached(t)
      PROVE  \E c \in Mints[t] : AddressOf[c] \in job[j].found
  <2>1. PICK c \in Mints[t] : Reached(AddressOf[c], t)
    BY <1>2 DEF PaysReached
  <2>2. Known(AddressOf[c])
    BY <2>1, ReachedCovered, CoveredKnown, CoinAssumption, ImportingTxs,
       JobNames DEF WalletInv, Importers
  <2>3. QED
    BY <2>2 DEF WalletInv, FoundFit, Importing
<1>3. SpendsReached(t) => t \in job[j].tagged
  BY DEF WalletInv, TaggedFit
<1>4. QED
  BY <1>1, <1>2, <1>3

LEMMA WriteWallet ==
  ASSUME TypeInv, WalletInv, NodeStep, NEW j \in Importers, WriteTxs(j)
  PROVE  WalletInv'
<1> DEFINE T == job[j].txs
<1>1. /\ j \in Jobs /\ job[j].stage = "write" /\ T \in SUBSET Txs
      /\ UNCHANGED <<coins, Impaired>>
      /\ job' = [job EXCEPT ![j] = Idle]
      /\ txs' = [t \in Txs |-> IF t \in T THEN Written(j, t) ELSE txs[t]]
      /\ importing' = IF j = "block" THEN {} ELSE importing
  BY ImportingTxs, JobNames DEF WriteTxs, Importers, Impaired, history
<1>2. job'[j] = Idle /\ \A k \in Jobs \ {j} : job'[k] = job[k]
  BY <1>1, IdleFields, JobStep DEF TypeInv, TypeOK
<1>3. \A k \in Importers : Stays(k)
  BY <1>1, <1>2, JobNames, IdleFields DEF Stays, Importers, Importing
<1>4. lagging \subseteq lagging'
  <2>1. job["block"] # Idle \/ job'["block"].txs = {}
    BY <1>1, <1>2, JobNames, IdleFields
  <2>2. QED
    BY <2>1, NodeLagging
<1>5. /\ CallsSame /\ CallsTyped' /\ CallsFit'
      /\ \A x : Covered(x)' <=> Covered(x)
      /\ \A x, t : Reached(x, t)' <=> Reached(x, t)
  BY NodeCalls, SameReach
<1>6. FoundFit'
  BY <1>3, <1>4, <1>5, FoundKept DEF WalletInv
<1>7. \A t : /\ SpendsReached(t)' <=> SpendsReached(t)
             /\ PaysReached(t)' <=> PaysReached(t)
  BY <1>1, <1>5 DEF SpendsReached, PaysReached
<1>8. CoinTags'
  <2>1. Stale \subseteq Stale'
    <3>1. CASE j = "block"
      BY <1>1, <1>4, <3>1 DEF Stale, Minting, Importing
    <3>2. CASE j # "block"
      <4>1. job'["block"] = job["block"]
        BY <1>2, <3>2, JobNames
      <4>2. QED
        BY <1>1, <1>4, <3>2, <4>1 DEF Stale, Minting
    <3>3. QED
      BY <3>1, <3>2
  <2>2. Outputs(Stale) \subseteq Outputs(Stale)'
    BY <2>1 DEF Outputs
  <2>3. QED
    BY <1>1, <1>5, <2>2 DEF WalletInv, CoinTags
<1>9. TaggedFit'
  <2>1. ASSUME NEW k \in Importers, job'[k].stage = "write",
               NEW t \in job'[k].txs, t \notin lagging' \cup Impaired',
               k = "block" \/ (txs'[t] = None /\ t \notin importing'),
               SpendsReached(t)'
        PROVE  t \in job'[k].tagged
    <3>1. k # j /\ k \in Jobs /\ job'[k] = job[k]
      BY <1>2, <2>1, JobNames, IdleFields DEF Importers
    <3>2. k = "block" \/ (txs[t] = None /\ t \notin importing)
      <4>1. ASSUME k # "block"
            PROVE  txs[t] = None /\ t \notin importing
        <5>1. t \in Txs /\ k \in Relays
          BY <2>1, <3>1, <4>1, ImportingTxs DEF Importers
        <5>2. txs[t] # None /\ j # "block" => Written(j, t) = txs[t]
          BY <1>1 DEF Written, Importers, TypeInv, JobsFit
        <5>3. Written(j, t) # None
          <6>1. CASE txs[t] # None /\ job[j].height = Pending
            BY <6>1 DEF Written
          <6>2. CASE ~(txs[t] # None /\ job[j].height = Pending)
            <7> DEFINE tag == \/ t \in job[j].tagged
                              \/ \E c \in Mints[t] : AddressOf[c] \in job[j].found
            <7>1. Written(j, t) = [height |-> job[j].height, tag |-> tag]
              BY <6>2 DEF Written
            <7>2. tag \in BOOLEAN /\ job[j].height \in Heights
              BY <1>1, ImportingTxs
            <7> HIDE DEF tag
            <7>3. QED
              BY <7>1, <7>2, NoneAssumption DEF TxDocs
          <6>3. QED
            BY <6>1, <6>2
        <5>4. t \notin T /\ txs[t] = None
          BY <1>1, <2>1, <4>1, <5>1, <5>3
        <5>5. j = "block" => importing = T
          BY <1>1 DEF TypeInv, JobsFit, Importing
        <5>6. QED
          BY <1>1, <2>1, <4>1, <5>4, <5>5
      <4>2. QED
        BY <4>1
    <3>3. QED
      BY <1>1, <1>4, <1>7, <2>1, <3>1, <3>2 DEF WalletInv, TaggedFit
  <2>2. QED
    BY <2>1 DEF TaggedFit
<1>10. TxTags'
  <2>1. ASSUME NEW t \in Txs, t \notin lagging' \cup Impaired' \cup importing',
               txs'[t] # None
        PROVE  /\ PaysReached(t)' => txs'[t].tag
               /\ SpendsReached(t)' /\ txs'[t].height # Conflicting => txs'[t].tag
    <3>1. t \notin lagging \cup Impaired
      BY <1>1, <1>4, <2>1
    <3>2. CASE t \in T /\ (j = "block" \/ txs[t] = None)
      <4>1. j = "block" \/ (txs[t] = None /\ t \notin importing)
        BY <1>1, <2>1, <3>2
      <4>2. PaysReached(t) \/ SpendsReached(t) => Written(j, t).tag
        BY <1>1, <3>1, <3>2, <4>1, WrittenTag
      <4>3. txs'[t] = Written(j, t)
        BY <1>1, <3>2
      <4>4. QED
        BY <1>7, <4>2, <4>3
    <3>3. CASE ~(t \in T /\ (j = "block" \/ txs[t] = None))
      <4>1. txs'[t] = txs[t]
        <5>1. CASE t \in T
          <6>1. job[j].height = Pending /\ txs[t] # None
            BY <3>3, <5>1 DEF Importers, TypeInv, JobsFit
          <6>2. QED
            BY <1>1, <5>1, <6>1 DEF Written
        <5>2. CASE t \notin T
          BY <1>1, <5>2
        <5>3. QED
          BY <5>1, <5>2
      <4>2. t \notin importing
        BY <1>1, <2>1, <3>3 DEF TypeInv, JobsFit, Importing
      <4>3. QED
        BY <1>7, <2>1, <3>1, <4>1, <4>2 DEF WalletInv, TxTags
    <3>4. QED
      BY <3>2, <3>3
  <2>2. QED
    BY <2>1 DEF TxTags
<1>11. QED
  BY <1>5, <1>6, <1>8, <1>9, <1>10 DEF WalletInv

-----------------------------------------------------------------------------
(* Steps of the API *)

\* Steps that write tags and addresses only leave the store as it is.
LEMMA TagsOnly ==
  ASSUME NodeInv, UNCHANGED <<chain, importing, inv, reorgs, job, history>>,
         addresses' \in [Addresses -> {"none", "added", "processed"}],
         crashes' \in 0 .. MaxCrashes,
         coins' \in [Coins -> CoinDocs \cup {None}],
         txs' \in [Txs -> TxDocs \cup {None}],
         \A c \in Coins :
            /\ coins'[c] # None <=> coins[c] # None
            /\ coins'[c] # None => /\ coins'[c].mint = coins[c].mint
                                   /\ coins'[c].spent = coins[c].spent
                                   /\ coins'[c].by = coins[c].by,
         \A t \in Txs :
            /\ txs'[t] # None <=> txs[t] # None
            /\ txs'[t] # None => txs'[t].height = txs[t].height
  PROVE  NodeInv'
<1>1. TypeInv'
  <2>1. TypeOK
    BY DEF NodeInv, TypeInv
  <2>2. \A c \in Coins : coins'[c] # None =>
           (coins'[c].spent = Unspent <=> coins'[c].by = None)
    BY <2>1 DEF TypeOK
  <2>3. TypeOK'
    BY <2>1, <2>2 DEF TypeOK, history
  <2>4. NextFits' /\ JobsFit' /\ MarksFit'
    BY DEF NodeInv, TypeInv, NextFits, JobsFit, MarksFit, ValidBlock, OnChain, Height
  <2>5. QED
    BY <2>3, <2>4 DEF TypeInv
<1>2. /\ Height' = Height /\ OnChain' = OnChain /\ Unsettled' = Unsettled
      /\ \A m : Undoing(m)' <=> Undoing(m)
      /\ \A j, t : HalfMarks(j, t)' <=> HalfMarks(j, t)
  BY DEF Height, OnChain, Unsettled, Undoing, HalfMarks
<1>3. StoreInv'
  <2>1. ASSUME NEW t \in Standing, NEW c \in Mints[t]
        PROVE  coins'[c] # None /\ coins'[c].mint = coins[c].mint
    BY <2>1, StandingMints, NoneAssumption DEF NodeInv
  <2>2. (Minting' <=> Minting) /\ (Writing' <=> Writing)
    BY DEF Minting, Writing
  <2>3. OnChain \subseteq Txs
    BY ChainTxs DEF NodeInv
  <2>4. QED
    BY <2>1, <2>2, <2>3, StoreKept DEF NodeInv, history
<1>4. AgreeInv'
  <2>1. MinedFit'
    BY <1>2, MinedKept DEF NodeInv, AgreeInv
  <2>2. ASSUME NEW t \in Txs
        PROVE  /\ KeptHeight(t)' = KeptHeight(t)
               /\ \A c \in Mints[t] : KeptMint(c)' = KeptMint(c)
    BY <1>2, CoinAssumption DEF KeptHeight, KeptMint
  <2>3. ASSUME NEW t \in Txs, AgreeAt(t)
        PROVE  AgreeAt(t)'
    BY <1>2, <2>2, <2>3, AgreeSame
  <2>4. AgreeFit'
    BY <1>2, <2>3 DEF NodeInv, AgreeInv, AgreeFit, history
  <2>5. ASSUME NEW r \in Relays, NEW t \in Txs, RelayAt(r, t)
        PROVE  RelayAt(r, t)'
    <3>1. \A c \in Mints[t] : c \in Coins
      BY CoinAssumption
    <3>2. QED
      BY <1>2, <2>5, <3>1 DEF RelayAt
  <2>6. \A r \in Relays : job[r].txs \subseteq Txs
    BY ImportingTxs, JobNames DEF NodeInv
  <2>7. RelayFit'
    BY <1>2, <2>5, <2>6 DEF NodeInv, AgreeInv, RelayFit, history
  <2>8. QED
    BY <2>1, <2>4, <2>7 DEF AgreeInv
<1>5. HoldInv' /\ RivalFit'
  <2>1. ASSUME NEW t \in Txs
        PROVE  Holding(t)' <=> Holding(t)
    BY <1>2 DEF Holding, Shown, Leaving, Impaired, history
  <2>2. ASSUME NEW t \in Txs, NEW c \in Spends[t]
        PROVE  /\ Reserved(c, t)' <=> Reserved(c, t)
               /\ Reserved(c, t) => coins'[c].mint = coins[c].mint
    <3>1. c \in Coins
      BY CoinAssumption
    <3>2. QED
      BY <3>1 DEF Reserved
  <2>3. \A j \in Jobs : LookAt(job[j])
    BY DEF NodeInv, HoldInv, LookFit
  <2>4. HoldInv' /\ Shrinks
    BY <1>1, <2>1, <2>2, <2>3, HoldSame DEF NodeInv
  <2>5. QED
    BY <2>4, RivalsKept DEF NodeInv
<1>6. QED
  BY <1>1, <1>3, <1>4, <1>5 DEF NodeInv, history

\* A request writes tags, addresses and where it is.
LEMMA RequestWrites ==
  ASSUME NodeInv, WalletInv, WalletStep
  PROVE  NodeInv'
<1>1. /\ coins \in [Coins -> CoinDocs \cup {None}]
      /\ txs \in [Txs -> TxDocs \cup {None}]
      /\ addresses \in [Addresses -> {"none", "added", "processed"}]
      /\ crashes \in 0 .. MaxCrashes
  BY DEF NodeInv, TypeInv, TypeOK
<1>2. CASE UNCHANGED vars
  BY <1>1, <1>2, TagsOnly DEF vars, history
<1>3. ASSUME NEW w \in Calls, AddAddresses(w) \/ MarkProcessed(w)
      PROVE  NodeInv'
  <2>1. /\ addresses' \in [Addresses -> {"none", "added", "processed"}]
        /\ UNCHANGED <<coins, txs, node, job, history>>
    BY <1>1, <1>3 DEF AddAddresses, MarkProcessed, history
  <2>2. QED
    BY <1>1, <2>1, TagsOnly DEF node
<1>4. ASSUME NEW w \in Calls, TagCoins(w)
      PROVE  NodeInv'
  <2>1. /\ UNCHANGED <<txs, addresses, node, job, history>>
        /\ coins' = [c \in Coins |-> IF c \in CoinsAt(InBatch(w))
                                     THEN [coins[c] EXCEPT !.tag = TRUE]
                                     ELSE coins[c]]
    BY <1>4 DEF TagCoins, history
  <2>2. ASSUME NEW c \in Coins
        PROVE  /\ coins'[c] \in CoinDocs \cup {None}
               /\ coins'[c] # None <=> coins[c] # None
               /\ coins'[c] # None => /\ coins'[c].mint = coins[c].mint
                                      /\ coins'[c].spent = coins[c].spent
                                      /\ coins'[c].by = coins[c].by
    <3>1. CASE c \in CoinsAt(InBatch(w))
      <4>1. coins[c] \in CoinDocs /\ coins'[c] = [coins[c] EXCEPT !.tag = TRUE]
        BY <1>1, <2>1, <3>1 DEF CoinsAt
      <4>2. QED
        BY <4>1, NoneAssumption DEF CoinDocs
    <3>2. CASE c \notin CoinsAt(InBatch(w))
      BY <1>1, <2>1, <3>2
    <3>3. QED
      BY <3>1, <3>2
  <2>3. coins' \in [Coins -> CoinDocs \cup {None}]
    BY <2>1, <2>2
  <2>4. QED
    BY <1>1, <2>1, <2>2, <2>3, TagsOnly DEF node
<1>5. ASSUME NEW w \in Calls, NEW t \in Txs, TagTx(w, t)
      PROVE  NodeInv'
  <2>1. /\ UNCHANGED <<coins, addresses, node, job, history>>
        /\ txs' = IF txs[t] = None THEN txs ELSE [txs EXCEPT ![t].tag = TRUE]
    BY <1>5 DEF TagTx, history
  <2>2. /\ txs' \in [Txs -> TxDocs \cup {None}]
        /\ \A s \in Txs : /\ txs'[s] # None <=> txs[s] # None
                          /\ txs'[s] # None => txs'[s].height = txs[s].height
    <3>1. CASE txs[t] = None
      BY <1>1, <2>1, <3>1
    <3>2. CASE txs[t] # None
      <4> DEFINE d == [txs[t] EXCEPT !.tag = TRUE]
      <4>1. txs' = [txs EXCEPT ![t] = d]
        BY <1>1, <2>1, <3>2
      <4>2. d \in TxDocs /\ d.height = txs[t].height
        BY <1>1, <3>2 DEF TxDocs
      <4> HIDE DEF d
      <4>3. QED
        BY <1>1, <3>2, <4>1, <4>2, NoneAssumption
    <3>3. QED
      BY <3>1, <3>2
  <2>3. QED
    BY <1>1, <2>1, <2>2, TagsOnly DEF node
<1>6. CASE ApiCrashes
  <2>1. crashes' \in 0 .. MaxCrashes
    BY <1>1, <1>6, Constants DEF ApiCrashes
  <2>2. UNCHANGED <<coins, txs, addresses, chain, importing, inv, reorgs, job, history>>
    BY <1>6 DEF ApiCrashes, store, history
  <2>3. QED
    BY <1>1, <2>1, <2>2, TagsOnly
<1>7. ASSUME NEW w \in Calls, (\E batch \in Batches : Request(w, batch)) \/ ReadTxids(w)
      PROVE  UNCHANGED vars
  BY <1>7 DEF Request, ReadTxids
<1>8. QED
  BY <1>2, <1>3, <1>4, <1>5, <1>6, <1>7 DEF WalletStep

\* A request takes a step.
LEMMA CallStep ==
  ASSUME CallsTyped, NEW w \in Calls, NEW stage, NEW batch, NEW X \in SUBSET Txs,
         call' = [call EXCEPT ![w] = [stage |-> stage, batch |-> batch, txids |-> X]],
         lagging' \subseteq Txs
  PROVE  /\ call'[w].stage = stage /\ call'[w].batch = batch /\ call'[w].txids = X
         /\ \A v \in Calls \ {w} : call'[v] = call[v] /\ InBatch(v)' = InBatch(v)
         /\ CallsTyped'
<1> DEFINE d == [stage |-> stage, batch |-> batch, txids |-> X]
<1>1. call' = [v \in Calls |-> IF v = w THEN d ELSE call[v]]
  BY DEF CallsTyped
<1>2. \A v \in Calls : call[v] = [stage |-> call[v].stage, batch |-> call[v].batch,
                                  txids |-> call[v].txids]
  BY DEF CallsTyped
<1>3. ASSUME NEW v \in Calls
      PROVE  /\ call'[v] = [stage |-> call'[v].stage, batch |-> call'[v].batch,
                            txids |-> call'[v].txids]
             /\ call'[v].txids \subseteq Txs
             /\ v # w => call'[v] = call[v]
             /\ v = w => call'[v] = d
  <2>1. CASE v = w
    BY <1>1, <2>1
  <2>2. CASE v # w
    <3>1. call'[v] = call[v]
      BY <1>1, <2>2
    <3>2. QED
      BY <1>2, <2>2, <3>1 DEF CallsTyped
  <2>3. QED
    BY <2>1, <2>2
<1>4. CallsTyped'
  <2>1. call' = [v \in Calls |-> call'[v]]
    BY <1>1
  <2>2. call' = [v \in Calls |-> [stage |-> call'[v].stage, batch |-> call'[v].batch,
                                  txids |-> call'[v].txids]]
    BY <1>3, <2>1
  <2>3. QED
    BY <1>3, <2>2 DEF CallsTyped
<1>5. call'[w].stage = stage /\ call'[w].batch = batch /\ call'[w].txids = X
  <2>1. call'[w] = d
    BY <1>3
  <2>2. d.stage = stage /\ d.batch = batch /\ d.txids = X
    OBVIOUS
  <2>3. QED
    BY <2>1, <2>2
<1>6. \A v \in Calls \ {w} : call'[v] = call[v] /\ InBatch(v)' = InBatch(v)
  <2> HIDE DEF d
  <2>1. QED
    BY <1>3 DEF InBatch
<1>7. QED
  BY <1>4, <1>5, <1>6

\* A request goes on with its addresses.
LEMMA CallMoves ==
  ASSUME CallsTyped, NEW w \in Calls, NEW stage, Move(w, stage),
         lagging' \subseteq Txs
  PROVE  /\ call'[w].stage = stage /\ call'[w].txids = call[w].txids
         /\ \A v \in Calls \ {w} : call'[v] = call[v]
         /\ \A v \in Calls : InBatch(v)' = InBatch(v)
         /\ CallsTyped'
<1> DEFINE d == [stage |-> stage, batch |-> call[w].batch, txids |-> call[w].txids]
<1>1. /\ call[w] = [stage |-> call[w].stage, batch |-> call[w].batch,
                    txids |-> call[w].txids]
      /\ call[w].txids \in SUBSET Txs
  BY DEF CallsTyped
<1>2. call' = [call EXCEPT ![w] = d]
  <2>1. [call[w] EXCEPT !.stage = stage] = d
    BY <1>1
  <2>2. call' = [call EXCEPT ![w] = [call[w] EXCEPT !.stage = stage]]
    BY DEF Move
  <2>3. QED
    BY <2>1, <2>2
<1>3. /\ call'[w].stage = stage /\ call'[w].batch = call[w].batch
      /\ call'[w].txids = call[w].txids
      /\ \A v \in Calls \ {w} : call'[v] = call[v] /\ InBatch(v)' = InBatch(v)
      /\ CallsTyped'
  <2> DEFINE batch == call[w].batch
             X == call[w].txids
  <2>1. /\ X \in SUBSET Txs
        /\ call' = [call EXCEPT ![w] = [stage |-> stage, batch |-> batch,
                                        txids |-> X]]
    BY <1>1, <1>2
  <2> HIDE DEF batch, X
  <2>2. /\ call'[w].stage = stage /\ call'[w].batch = batch /\ call'[w].txids = X
        /\ \A v \in Calls \ {w} : call'[v] = call[v] /\ InBatch(v)' = InBatch(v)
        /\ CallsTyped'
    BY <2>1, CallStep
  <2>3. QED
    BY <2>2 DEF batch, X
<1>4. InBatch(w)' = InBatch(w)
  BY <1>3 DEF InBatch
<1>5. QED
  BY <1>3, <1>4

\* Imports find no fewer addresses, and no more are known but to what lags.
LEMMA FoundSame ==
  ASSUME FoundFit, job' = job, lagging \subseteq lagging',
         \A x \in Addresses : Known(x)' =>
            Known(x) \/ \A j \in Importers : job[j].stage \in Importing =>
               \A t \in job[j].txs \ lagging' : \A c \in Mints[t] : AddressOf[c] # x,
         \A j \in Importers : job[j].txs \subseteq Txs
  PROVE  FoundFit'
<1> SUFFICES ASSUME NEW j \in Importers, job[j].stage \in Importing,
                    NEW t \in job[j].txs, t \notin lagging', NEW c \in Mints[t],
                    Known(AddressOf[c])'
             PROVE  AddressOf[c] \in job[j].found
  BY DEF FoundFit
<1>1. t \in Txs /\ AddressOf[c] \in Addresses
  BY CoinAssumption
<1>2. Known(AddressOf[c])
  BY <1>1
<1>3. QED
  BY <1>2 DEF FoundFit

LEMMA ImportersTyped ==
  ASSUME TypeInv, NEW j \in Importers
  PROVE  /\ j \in Jobs /\ job[j].txs \subseteq Txs
         /\ job[j].stage \in Importing => job[j].txs \subseteq Unsettled
<1>1. j \in Jobs /\ job[j].txs \subseteq Txs
  BY ImportingTxs, JobNames DEF Importers
<1>2. job[j].stage \in Importing => job[j].txs \subseteq Unsettled
  BY DEF Importers, Unsettled, TypeInv, JobsFit
<1>3. QED
  BY <1>1, <1>2

\* Where a request has not come to its coins, it counts for nothing.
LEMMA RequestWallet ==
  ASSUME TypeInv, WalletInv, NEW w \in Calls, NEW batch \in Batches,
         Request(w, batch)
  PROVE  WalletInv'
<1> DEFINE rest == SelectSeq(batch, LAMBDA x : addresses[x] # "processed")
<1>1. /\ call[w] = NoCall /\ UNCHANGED <<vars, lagging, dropped>>
      /\ call' = [call EXCEPT ![w] = IF rest = <<>> THEN NoCall
                                     ELSE [NoCall EXCEPT !.stage = "add", !.batch = rest]]
  BY DEF Request
<1> HIDE DEF rest
<1>2. \E stage, list :
         /\ stage \in {"idle", "add"}
         /\ call' = [call EXCEPT ![w] = [stage |-> stage, batch |-> list,
                                         txids |-> {}]]
  <2> DEFINE At(stage, list) == [stage |-> stage, batch |-> list, txids |-> {}]
             Goes(stage, list) == /\ stage \in {"idle", "add"}
                                  /\ call' = [call EXCEPT ![w] = At(stage, list)]
             q == [NoCall EXCEPT !.stage = "add"]
             empty == <<>>
  <2>1. NoCall = At("idle", empty) /\ [NoCall EXCEPT !.stage = "add", !.batch = rest]
                                        = [q EXCEPT !.batch = rest]
    BY DEF NoCall
  <2>2. q = At("add", empty)
    <3> HIDE DEF empty
    <3>1. QED
      BY <2>1
  <2>3. [q EXCEPT !.batch = rest] = At("add", rest)
    <3> HIDE DEF q, empty
    <3>1. QED
      BY <2>2
  <2>4. Goes("idle", empty) \/ Goes("add", rest)
    <3> HIDE DEF At, q, empty
    <3>1. QED
      BY <1>1, <2>1, <2>3
  <2>5. \E stage, list : Goes(stage, list)
    <3> HIDE DEF Goes, empty
    <3>1. QED
      BY <2>4, Zenon
  <2>6. QED
    BY <2>5
<1>3. PICK stage, list :
         /\ stage \in {"idle", "add"}
         /\ call' = [call EXCEPT ![w] = [stage |-> stage, batch |-> list,
                                         txids |-> {}]]
  BY <1>2
<1>4. lagging' \subseteq Txs /\ CallsTyped
  BY <1>1 DEF WalletInv, CallsTyped
<1>5. /\ call'[w].stage \in {"idle", "add"}
      /\ \A v \in Calls \ {w} : call'[v] = call[v] /\ InBatch(v)' = InBatch(v)
      /\ CallsTyped'
  <2>1. {} \in SUBSET Txs
    OBVIOUS
  <2>2. /\ call'[w].stage = stage
        /\ \A v \in Calls \ {w} : call'[v] = call[v] /\ InBatch(v)' = InBatch(v)
        /\ CallsTyped'
    BY <1>3, <1>4, <2>1, CallStep
  <2>3. QED
    BY <1>3, <2>2
<1>6. /\ \A x : Known(x)' <=> Known(x)
      /\ \A x : Covered(x)' => Covered(x)
      /\ \A x, t : Reached(x, t)' => Reached(x, t)
  BY <1>1, <1>5 DEF vars, Known, Covered, Reached
<1>7. CallsFit'
  BY <1>1, <1>5, <1>6 DEF WalletInv, CallsFit
<1>8. FoundFit'
  BY <1>1, <1>6 DEF WalletInv, FoundFit, vars
<1>9. UNCHANGED <<coins, txs, importing, Impaired, job>> /\ Minting' = Minting
  BY <1>1 DEF vars, Minting, Impaired, history
<1>10. QED
  BY <1>1, <1>5, <1>6, <1>7, <1>8, <1>9, WalletKept

LEMMA AddWallet ==
  ASSUME TypeInv, WalletInv, NEW w \in Calls, AddAddresses(w)
  PROVE  WalletInv'
<1>1. /\ call[w].stage = "add" /\ Move(w, "coins")
      /\ UNCHANGED <<coins, txs, importing, job, Impaired>>
      /\ addresses' = [x \in Addresses |->
                          IF x \in Added(w) THEN "added" ELSE addresses[x]]
      /\ lagging' = lagging \cup Touching(Added(w))
      /\ dropped' = dropped \cup {x \in InBatch(w) : addresses'[x] = "none"}
  BY DEF AddAddresses, node, Impaired, history
<1>2. lagging' \subseteq Txs /\ CallsTyped /\ lagging \subseteq lagging'
  <2>1. Unsettled \subseteq Txs
    BY ChainTxs, ImportingTxs, JobNames DEF Unsettled
  <2>2. QED
    BY <1>1, <2>1 DEF WalletInv, CallsTyped, Touching
<1>3. /\ call'[w].stage = "coins"
      /\ \A v \in Calls \ {w} : call'[v] = call[v]
      /\ \A v \in Calls : InBatch(v)' = InBatch(v)
      /\ CallsTyped'
  BY <1>1, <1>2, CallMoves
<1>4. ASSUME NEW x
      PROVE  /\ x \in Addresses => (Known(x)' => Known(x) \/ x \in Added(w))
             /\ x \in Addresses => (Known(x) => Known(x)')
             /\ x \in Addresses => (Covered(x)' => Covered(x))
             /\ \A t : x \in Addresses => (Reached(x, t)' => Reached(x, t))
  <2>1. x \in Addresses => (addresses'[x] = "processed" => addresses[x] = "processed")
    BY <1>1
  <2>2. QED
    BY <1>1, <1>3, <2>1 DEF Known, Covered, Reached
<1>5. CallsFit'
  <2>1. ASSUME NEW v \in Calls, call'[v].stage \in {"coins", "read", "txs"},
               NEW x \in Addresses, x \in InBatch(v), x \notin dropped'
        PROVE  Known(x)'
    <3>1. CASE v = w
      BY <1>1, <2>1, <3>1 DEF Known
    <3>2. CASE v # w
      <4>1. Known(x)
        BY <1>1, <1>3, <2>1, <3>2 DEF WalletInv, CallsFit
      <4>2. QED
        BY <1>4, <4>1
    <3>3. QED
      BY <3>1, <3>2
  <2>2. QED
    BY <1>3, <2>1 DEF CallsFit
<1>6. FoundFit'
  <2>1. ASSUME NEW x \in Added(w), NEW j \in Importers, job[j].stage \in Importing,
               NEW t \in job[j].txs, t \notin lagging', NEW c \in Mints[t]
        PROVE  AddressOf[c] # x
    <3>1. t \in Unsettled
      BY <2>1, ImportersTyped
    <3>2. t \notin Touching(Added(w))
      BY <1>1, <2>1
    <3>3. QED
      BY <2>1, <3>1, <3>2 DEF Touching
  <2>2. \A j \in Importers : job[j].txs \subseteq Txs
    BY ImportersTyped
  <2>3. QED
    BY <1>1, <1>2, <1>4, <2>1, <2>2, FoundSame DEF WalletInv
<1>7. Minting' = Minting
  BY <1>1 DEF Minting
<1>8. QED
  BY <1>1, <1>2, <1>3, <1>4, <1>5, <1>6, <1>7, WalletKept

\* A request takes note of transactions.
LEMMA CallTxids ==
  ASSUME CallsTyped, NEW w \in Calls, NEW stage, NEW X \in SUBSET Txs,
         \/ call' = [call EXCEPT ![w].stage = stage, ![w].txids = X]
         \/ call' = [call EXCEPT ![w].txids = X] /\ stage = call[w].stage,
         lagging' \subseteq Txs
  PROVE  /\ call'[w].stage = stage /\ call'[w].txids = X
         /\ \A v \in Calls \ {w} : call'[v] = call[v]
         /\ \A v \in Calls : InBatch(v)' = InBatch(v)
         /\ CallsTyped'
<1> DEFINE batch == call[w].batch
           d == [stage |-> stage, batch |-> batch, txids |-> X]
           q == [call[w] EXCEPT !.stage = stage]
<1>1. call[w] = [stage |-> call[w].stage, batch |-> batch, txids |-> call[w].txids]
  BY DEF CallsTyped
<1>2. q = [stage |-> stage, batch |-> batch, txids |-> call[w].txids]
  <2> HIDE DEF batch
  <2>1. QED
    BY <1>1
<1>3. [q EXCEPT !.txids = X] = d
  <2> HIDE DEF q, batch
  <2>1. QED
    BY <1>2
<1>4. stage = call[w].stage => [call[w] EXCEPT !.txids = X] = d
  <2> HIDE DEF batch
  <2>1. QED
    BY <1>1
<1>5. call' = [call EXCEPT ![w] = d]
  <2>1. CASE call' = [call EXCEPT ![w].stage = stage, ![w].txids = X]
    <3>1. \A v \in Calls : call'[v] = IF v = w THEN [q EXCEPT !.txids = X] ELSE call[v]
      BY <2>1 DEF CallsTyped
    <3>2. QED
      BY <2>1, <3>1, <1>3 DEF CallsTyped
  <2>2. CASE call' = [call EXCEPT ![w].txids = X] /\ stage = call[w].stage
    <3>1. call' = [call EXCEPT ![w] = [call[w] EXCEPT !.txids = X]]
      BY <2>2
    <3> HIDE DEF d
    <3>2. QED
      BY <1>4, <2>2, <3>1
  <2>3. QED
    BY <2>1, <2>2
<1>6. /\ call'[w].stage = stage /\ call'[w].batch = batch /\ call'[w].txids = X
      /\ \A v \in Calls \ {w} : call'[v] = call[v] /\ InBatch(v)' = InBatch(v)
      /\ CallsTyped'
  <2> HIDE DEF batch
  <2>1. QED
    BY <1>5, CallStep
<1>7. InBatch(w)' = InBatch(w)
  BY <1>6 DEF InBatch
<1>8. QED
  BY <1>6, <1>7

LEMMA CallEnds ==
  ASSUME CallsTyped, NEW w \in Calls, lagging' \subseteq Txs
  PROVE  call' = [call EXCEPT ![w] = NoCall] =>
           /\ call'[w].stage = "idle"
           /\ \A v \in Calls \ {w} : call'[v] = call[v] /\ InBatch(v)' = InBatch(v)
           /\ CallsTyped'
<1> DEFINE At(stage, batch, X) ==
             /\ stage = "idle" /\ X \in SUBSET Txs
             /\ call' = [call EXCEPT ![w] = [stage |-> stage, batch |-> batch,
                                             txids |-> X]]
<1>1. call' = [call EXCEPT ![w] = NoCall] => At("idle", <<>>, {})
  BY DEF NoCall
<1>2. ASSUME NEW stage, NEW batch, NEW X, At(stage, batch, X)
      PROVE  /\ call'[w].stage = "idle"
             /\ \A v \in Calls \ {w} : call'[v] = call[v] /\ InBatch(v)' = InBatch(v)
             /\ CallsTyped'
  BY <1>2, CallStep
<1>3. QED
  <2> HIDE DEF At
  <2>1. QED
    BY <1>1, <1>2

\* Requests reach transactions only if no import is at them and they have a
\* tag.
LEMMA TagsKept ==
  ASSUME TypeInv, WalletInv, UNCHANGED <<importing, job, Impaired>>,
         lagging \subseteq lagging',
         \A t \in Txs :
            /\ txs'[t] # None <=> txs[t] # None
            /\ txs'[t] # None => /\ txs[t].tag => txs'[t].tag
                                 /\ txs'[t].height = txs[t].height,
         \A t \in Txs \ lagging' :
            \/ /\ SpendsReached(t)' => SpendsReached(t)
               /\ PaysReached(t)' => PaysReached(t)
            \/ t \notin Unsettled /\ (txs'[t] # None => txs'[t].tag)
  PROVE  TaggedFit' /\ TxTags'
<1>1. ASSUME NEW j \in Importers, job[j].stage = "write",
             NEW t \in job[j].txs, t \notin lagging' \cup Impaired,
             j = "block" \/ (txs'[t] = None /\ t \notin importing),
             SpendsReached(t)'
      PROVE  t \in job[j].tagged
  <2>1. t \in Txs /\ t \in Unsettled
    BY <1>1, ImportersTyped DEF Importing
  <2>2. SpendsReached(t)
    BY <1>1, <2>1
  <2>3. QED
    BY <1>1, <2>1, <2>2 DEF WalletInv, TaggedFit
<1>2. ASSUME NEW t \in Txs, t \notin lagging' \cup Impaired \cup importing,
             txs'[t] # None
      PROVE  /\ PaysReached(t)' => txs'[t].tag
             /\ SpendsReached(t)' /\ txs'[t].height # Conflicting => txs'[t].tag
  BY <1>2 DEF WalletInv, TxTags
<1>3. QED
  BY <1>1, <1>2 DEF TaggedFit, TxTags

LEMMA TagCoinsWallet ==
  ASSUME TypeInv, WalletInv, NEW w \in Calls, TagCoins(w)
  PROVE  WalletInv'
<1>1. /\ call[w].stage = "coins" /\ Move(w, "read")
      /\ UNCHANGED <<txs, addresses, importing, job, Impaired, lagging, dropped>>
      /\ coins' = [c \in Coins |-> IF c \in CoinsAt(InBatch(w))
                                   THEN [coins[c] EXCEPT !.tag = TRUE]
                                   ELSE coins[c]]
  BY DEF TagCoins, node, Impaired, history
<1>2. lagging' \subseteq Txs /\ CallsTyped
  BY <1>1 DEF WalletInv, CallsTyped
<1>3. /\ call'[w].stage = "read"
      /\ \A v \in Calls \ {w} : call'[v] = call[v]
      /\ \A v \in Calls : InBatch(v)' = InBatch(v)
      /\ CallsTyped'
  BY <1>1, <1>2, CallMoves
<1>4. /\ \A x : Known(x)' <=> Known(x)
      /\ \A x : Covered(x)' => Covered(x) \/ x \in InBatch(w)
      /\ \A x, t : Reached(x, t)' => Reached(x, t)
  BY <1>1, <1>3 DEF Known, Covered, Reached
<1>5. CallsFit' /\ FoundFit'
  BY <1>1, <1>3, <1>4 DEF WalletInv, CallsFit, FoundFit
<1>6. ASSUME NEW c \in Coins, coins'[c] # None
      PROVE  /\ coins[c] # None /\ coins'[c].by = coins[c].by
             /\ coins[c].tag \/ AddressOf[c] \in InBatch(w) => coins'[c].tag
  <2>1. coins[c] \in CoinDocs \cup {None}
    BY DEF TypeInv, TypeOK
  <2>2. CASE c \in CoinsAt(InBatch(w))
    <3>1. coins[c] \in CoinDocs /\ coins'[c] = [coins[c] EXCEPT !.tag = TRUE]
      BY <1>1, <2>1, <2>2 DEF CoinsAt
    <3>2. coins'[c].tag /\ coins'[c].by = coins[c].by
      BY <3>1 DEF CoinDocs
    <3>3. QED
      BY <2>2, <3>2 DEF CoinsAt
  <2>3. CASE c \notin CoinsAt(InBatch(w))
    BY <1>1, <1>6, <2>3 DEF CoinsAt
  <2>4. QED
    BY <2>2, <2>3
<1>7. CoinTags'
  <2>1. Stale' = Stale
    BY <1>1 DEF Stale, Minting
  <2>2. Outputs(Stale)' = Outputs(Stale)
    BY <2>1 DEF Outputs
  <2>3. ASSUME NEW c \in Coins, coins'[c] # None, Covered(AddressOf[c])'
        PROVE  coins'[c].tag \/ c \in Outputs(Stale)
    <3>1. CASE AddressOf[c] \in InBatch(w)
      BY <1>6, <2>3, <3>1
    <3>2. CASE Covered(AddressOf[c])
      BY <1>6, <2>3, <3>2 DEF WalletInv, CoinTags
    <3>3. QED
      BY <1>4, <2>3, <3>1, <3>2
  <2>4. QED
    BY <2>2, <2>3 DEF CoinTags
<1>8. TaggedFit' /\ TxTags'
  <2>1. ASSUME NEW t \in Txs
        PROVE  /\ SpendsReached(t)' => SpendsReached(t)
               /\ PaysReached(t)' => PaysReached(t)
    <3>1. \A c \in Mints[t] : c \in Coins
      BY CoinAssumption
    <3>2. QED
      BY <1>4, <1>6, <3>1 DEF SpendsReached, PaysReached
  <2>2. QED
    BY <1>1, <2>1, TagsKept
<1>9. QED
  BY <1>3, <1>5, <1>7, <1>8 DEF WalletInv

\* What a request is not going to tag has nothing of its addresses.
LEMMA ReadTxidsWallet ==
  ASSUME TypeInv, WalletInv, NEW w \in Calls, ReadTxids(w)
  PROVE  WalletInv'
<1> DEFINE X == Txids(InBatch(w))
<1>1. /\ call[w].stage = "read" /\ UNCHANGED <<vars, lagging, dropped>>
      /\ call' = [call EXCEPT ![w].stage = "txs", ![w].txids = X]
  BY DEF ReadTxids
<1>2. lagging' \subseteq Txs /\ CallsTyped /\ X \in SUBSET Txs
  BY <1>1 DEF WalletInv, CallsTyped, Txids
<1>3. /\ call'[w].stage = "txs" /\ call'[w].txids = X
      /\ \A v \in Calls \ {w} : call'[v] = call[v]
      /\ \A v \in Calls : InBatch(v)' = InBatch(v)
      /\ CallsTyped'
  <2> HIDE DEF X
  <2>1. QED
    BY <1>1, <1>2, CallTxids
<1>4. /\ \A x : Known(x)' <=> Known(x)
      /\ \A x : Covered(x)' => Covered(x)
      /\ \A x, t : Reached(x, t)' => Reached(x, t) \/ (x \in InBatch(w) /\ t \notin X)
  <2> HIDE DEF X
  <2>1. QED
    BY <1>1, <1>3 DEF vars, Known, Covered, Reached
<1>5. CallsFit' /\ FoundFit'
  <2> HIDE DEF X
  <2>1. QED
    BY <1>1, <1>3, <1>4 DEF WalletInv, CallsFit, FoundFit, vars
<1>6. CoinTags'
  <2>1. Outputs(Stale)' = Outputs(Stale)
    BY <1>1 DEF Stale, Minting, Outputs, vars
  <2>2. QED
    BY <1>1, <1>4, <2>1 DEF WalletInv, CoinTags, vars
<1>7. TaggedFit' /\ TxTags'
  <2>1. ASSUME NEW t \in Txs
        PROVE  /\ SpendsReached(t)' => SpendsReached(t)
               /\ PaysReached(t)' => PaysReached(t)
    <3>1. \A c \in Mints[t] : c \in Coins
      BY CoinAssumption
    <3>2. ASSUME NEW c \in Coins, coins[c] # None, Reached(AddressOf[c], t)',
                 coins[c].by = t \/ c \in Mints[t]
          PROVE  Reached(AddressOf[c], t)
      <4>1. AddressOf[c] \in InBatch(w) => t \in X
        BY <3>2 DEF Txids, CoinsAt
      <4> HIDE DEF X
      <4>2. QED
        BY <1>4, <3>2, <4>1
    <3>3. coins' = coins
      BY <1>1 DEF vars
    <3>4. SpendsReached(t)' => SpendsReached(t)
      BY <3>2, <3>3 DEF SpendsReached
    <3>5. PaysReached(t)' => PaysReached(t)
      BY <3>1, <3>2, <3>3 DEF PaysReached
    <3>6. QED
      BY <3>4, <3>5
  <2>2. QED
    BY <1>1, <2>1, TagsKept DEF vars, Impaired, history
<1>8. QED
  BY <1>3, <1>5, <1>6, <1>7 DEF WalletInv

LEMMA TagTxWallet ==
  ASSUME TypeInv, WalletInv, NEW w \in Calls, NEW t \in Txs, TagTx(w, t)
  PROVE  WalletInv'
<1> DEFINE X == call[w].txids \ {t}
<1>1. /\ call[w].stage = "txs" /\ call' = [call EXCEPT ![w].txids = X]
      /\ UNCHANGED <<coins, addresses, importing, job, Impaired, dropped>>
      /\ txs' = IF txs[t] = None THEN txs ELSE [txs EXCEPT ![t].tag = TRUE]
      /\ lagging' = lagging \cup ({t} \cap Unsettled)
  BY DEF TagTx, node, Impaired, history
<1>2. lagging' \subseteq Txs /\ CallsTyped /\ X \in SUBSET Txs
  BY <1>1 DEF WalletInv, CallsTyped
<1>3. /\ call'[w].stage = "txs" /\ call'[w].txids = X
      /\ \A v \in Calls \ {w} : call'[v] = call[v]
      /\ \A v \in Calls : InBatch(v)' = InBatch(v)
      /\ CallsTyped'
  <2> DEFINE stage == call[w].stage
  <2>1. stage = "txs"
    BY <1>1
  <2> HIDE DEF X, stage
  <2>2. call'[w].stage = stage /\ call'[w].txids = X
    BY <1>1, <1>2, CallTxids DEF stage
  <2>3. QED
    BY <1>1, <1>2, <2>1, <2>2, CallTxids
<1>4. /\ \A x : Known(x)' <=> Known(x)
      /\ \A x : Covered(x)' => Covered(x)
      /\ \A x, s : s # t => (Reached(x, s)' => Reached(x, s))
  BY <1>1, <1>3 DEF Known, Covered, Reached
<1>5. CallsFit'
  BY <1>1, <1>3, <1>4 DEF WalletInv, CallsFit
<1>6. FoundFit'
  BY <1>1, <1>4 DEF WalletInv, FoundFit
<1>7. CoinTags'
  <2>1. Outputs(Stale) \subseteq Outputs(Stale)'
    BY <1>1 DEF Stale, Minting, Outputs
  <2>2. QED
    BY <1>1, <1>4, <2>1 DEF WalletInv, CoinTags
<1>8. ASSUME NEW s \in Txs
      PROVE  /\ txs'[s] # None <=> txs[s] # None
             /\ txs'[s] # None => /\ txs[s].tag => txs'[s].tag
                                  /\ txs'[s].height = txs[s].height
                                  /\ s = t => txs'[s].tag
  <2>1. txs \in [Txs -> TxDocs \cup {None}]
    BY DEF TypeInv, TypeOK
  <2>2. CASE txs[t] = None
    BY <1>1, <2>2
  <2>3. CASE txs[t] # None
    <3> DEFINE d == [txs[t] EXCEPT !.tag = TRUE]
    <3>1. txs' = [txs EXCEPT ![t] = d]
      BY <1>1, <2>1, <2>3
    <3>2. d \in TxDocs /\ d.height = txs[t].height /\ d.tag
      BY <2>1, <2>3 DEF TxDocs
    <3> HIDE DEF d
    <3>3. QED
      BY <2>1, <2>3, <3>1, <3>2, NoneAssumption
  <2>4. QED
    BY <2>2, <2>3
<1>9. TaggedFit' /\ TxTags'
  <2>1. ASSUME NEW s \in Txs, s # t
        PROVE  /\ SpendsReached(s)' => SpendsReached(s)
               /\ PaysReached(s)' => PaysReached(s)
    BY <1>1, <1>4, <2>1 DEF SpendsReached, PaysReached
  <2>2. t \notin lagging' => t \notin Unsettled
    BY <1>1
  <2>3. QED
    BY <1>1, <1>8, <2>1, <2>2, TagsKept
<1>10. QED
  BY <1>3, <1>5, <1>6, <1>7, <1>9 DEF WalletInv

LEMMA MarkProcessedWallet ==
  ASSUME TypeInv, WalletInv, NEW w \in Calls, MarkProcessed(w)
  PROVE  WalletInv'
<1>1. /\ call[w].stage = "txs" /\ call[w].txids = {}
      /\ call' = [call EXCEPT ![w] = NoCall]
      /\ UNCHANGED <<coins, txs, importing, job, Impaired, lagging, dropped>>
      /\ addresses' = [x \in Addresses |->
                          IF x \in InBatch(w) /\ addresses[x] = "added"
                          THEN "processed" ELSE addresses[x]]
  BY DEF MarkProcessed, node, Impaired, history
<1>2. lagging' \subseteq Txs /\ CallsTyped
  BY <1>1 DEF WalletInv, CallsTyped
<1>3. /\ call'[w].stage = "idle"
      /\ \A v \in Calls \ {w} : call'[v] = call[v] /\ InBatch(v)' = InBatch(v)
      /\ CallsTyped'
  BY <1>1, <1>2, CallEnds
<1>4. ASSUME NEW x \in Addresses
      PROVE  /\ Known(x)' <=> Known(x)
             /\ Covered(x)' => Covered(x)
             /\ \A t : Reached(x, t)' => Reached(x, t)
  <2>1. /\ addresses'[x] # "none" <=> addresses[x] # "none"
        /\ addresses'[x] = "processed" =>
              addresses[x] = "processed" \/ x \in InBatch(w)
    BY <1>1
  <2>2. QED
    BY <1>1, <1>3, <2>1 DEF Known, Covered, Reached
<1>5. CallsFit'
  BY <1>1, <1>3, <1>4 DEF WalletInv, CallsFit
<1>6. FoundFit'
  <2>1. \A j \in Importers : job[j].txs \subseteq Txs
    BY ImportersTyped
  <2>2. QED
    BY <1>1, <1>4, <2>1, FoundSame DEF WalletInv
<1>7. Minting' = Minting
  BY <1>1 DEF Minting
<1>8. QED
  BY <1>1, <1>3, <1>4, <1>5, <1>6, <1>7, WalletKept

LEMMA ApiCrashesWallet ==
  ASSUME TypeInv, WalletInv, ApiCrashes
  PROVE  WalletInv'
<1>1. /\ UNCHANGED <<coins, txs, addresses, importing, job, Impaired, lagging,
                     dropped>>
      /\ call' = [w \in Calls |-> NoCall]
  BY DEF ApiCrashes, store, Impaired, history
<1>2. \A w \in Calls : call'[w].stage = "idle"
  BY <1>1 DEF NoCall
<1>3. CallsTyped'
  <2> DEFINE batch == <<>>
  <2>1. NoCall = [stage |-> "idle", batch |-> batch, txids |-> {}]
    BY DEF NoCall
  <2> HIDE DEF batch
  <2>2. call' = [w \in Calls |-> [stage |-> call'[w].stage,
                                  batch |-> call'[w].batch,
                                  txids |-> call'[w].txids]]
        /\ \A w \in Calls : call'[w].txids = {}
    BY <1>1, <2>1
  <2>3. QED
    BY <1>1, <2>2 DEF WalletInv, CallsTyped
<1>4. /\ \A x : Known(x)' <=> Known(x)
      /\ \A x : Covered(x)' => Covered(x)
      /\ \A x, t : Reached(x, t)' => Reached(x, t)
  BY <1>1, <1>2 DEF Known, Covered, Reached
<1>5. CallsFit' /\ FoundFit'
  BY <1>1, <1>2, <1>4 DEF WalletInv, CallsFit, FoundFit
<1>6. Minting' = Minting
  BY <1>1 DEF Minting
<1>7. QED
  BY <1>1, <1>3, <1>4, <1>5, <1>6, WalletKept

LEMMA WalletStutters ==
  ASSUME WalletInv, UNCHANGED allVars
  PROVE  WalletInv'
<1>1. UNCHANGED <<coins, txs, addresses, importing, job, Impaired, call,
                  lagging, dropped>>
  BY DEF allVars, vars, node, store, Impaired, history
<1>2. CallsSame
  BY <1>1 DEF CallsSame
<1>3. CallsTyped' /\ CallsFit'
  BY <1>1, <1>2, SameReach DEF WalletInv, CallsTyped
<1>4. FoundFit'
  BY <1>1, <1>2, SameReach DEF WalletInv, FoundFit
<1>5. CoinTags'
  <2>1. Outputs(Stale)' = Outputs(Stale)
    BY <1>1 DEF Outputs, Stale, Minting
  <2>2. QED
    BY <1>1, <1>2, <2>1, SameReach DEF WalletInv, CoinTags
<1>6. TaggedFit' /\ TxTags'
  BY <1>1, <1>2, SameTags DEF WalletInv, TaggedFit, TxTags
<1>7. QED
  BY <1>3, <1>4, <1>5, <1>6 DEF WalletInv

LEMMA InitWallet ==
  ASSUME WalletInit
  PROVE  NodeInv /\ WalletInv
<1>1. NodeInv
  BY InitTypes, InitStore, InitAgree, InitHold DEF WalletInit, NodeInv
<1>2. /\ addresses = [x \in Addresses |-> "none"] /\ job = [j \in Jobs |-> Idle]
      /\ call = [w \in Calls |-> NoCall] /\ lagging = {} /\ dropped = {}
  BY DEF WalletInit, Init
<1>3. \A w \in Calls : call[w].stage = "idle"
  BY <1>2 DEF NoCall
<1>4. CallsTyped
  <2> DEFINE batch == <<>>
  <2>1. NoCall = [stage |-> "idle", batch |-> batch, txids |-> {}]
    BY DEF NoCall
  <2> HIDE DEF batch
  <2>2. /\ call = [w \in Calls |-> [stage |-> call[w].stage, batch |-> call[w].batch,
                                    txids |-> call[w].txids]]
        /\ \A w \in Calls : call[w].txids = {}
    BY <1>2, <2>1
  <2>3. QED
    BY <1>2, <2>2 DEF CallsTyped
<1>5. \A j \in Importers : job[j].stage = "idle"
  BY <1>2, JobNames DEF Importers, Idle
<1>6. CallsFit /\ FoundFit /\ TaggedFit
  BY <1>3, <1>5 DEF CallsFit, FoundFit, TaggedFit, Importing
<1>7. \A x \in Addresses : ~Covered(x) /\ \A t : ~Reached(x, t)
  BY <1>2, <1>3 DEF Covered, Reached
<1>8. \A c \in Coins : AddressOf[c] \in Addresses
  BY CoinAssumption
<1>9. CoinTags
  BY <1>7, <1>8 DEF CoinTags
<1>10. TxTags
  <2>1. ASSUME NEW t \in Txs
        PROVE  ~SpendsReached(t) /\ ~PaysReached(t)
    <3>1. \A c \in Mints[t] : c \in Coins
      BY CoinAssumption
    <3>2. QED
      BY <1>7, <1>8, <3>1 DEF SpendsReached, PaysReached
  <2>2. QED
    BY <2>1 DEF TxTags
<1>11. QED
  BY <1>1, <1>4, <1>6, <1>9, <1>10 DEF WalletInv

LEMMA NodeStepWallet ==
  ASSUME NodeInv, WalletInv, NodeStep
  PROVE  NodeInv' /\ WalletInv'
<1>1. Next
  BY DEF NodeStep
<1>2. NodeInv'
  BY <1>1, StepTypes, StepStore, StepAgree, StepHold DEF NodeInv
<1>3. TypeInv
  BY DEF NodeInv
<1>4. CASE \E T \in SUBSET Txs : BlockArrives(T)
  BY <1>2, <1>3, <1>4, BlockArrivesWallet
<1>5. CASE \E r \in Relays, t \in Txs : TxArrives(r, t)
  BY <1>2, <1>3, <1>5, TxArrivesWallet
<1>6. CASE \E j \in Relays \cup {"block"} : Import(j)
  <2>1. PICK j \in Importers : Import(j)
    BY <1>6 DEF Importers
  <2>2. Mint(j) => WalletInv'
    BY <2>1, MintWallet
  <2>3. FindRivals(j) => WalletInv'
    BY <1>3, <2>1, FindWallet
  <2>4. Spend(j) => WalletInv'
    BY <1>2, <2>1, SpendWallet
  <2>5. WriteTxs(j) => WalletInv'
    BY <1>3, <2>1, WriteWallet
  <2>6. QED
    BY <1>2, <2>1, <2>2, <2>3, <2>4, <2>5 DEF Import
<1>7. CASE \E j \in Jobs : Prune(j)
  <2>1. PICK j \in Jobs : \/ \E t \in Txs : Relate(j, t)
                          \/ \E m \in {"txs", "coins"} : Mark(j, m)
    BY <1>7 DEF Prune
  <2>2. QED
    BY <1>2, <1>3, <2>1, RelateWallet, MarkWallet
<1>8. CASE \E h \in 2 .. Height : Reorg(h)
  BY <1>2, <1>3, <1>8, ReorgWallet
<1>9. CASE \E m \in {"txs", "coins"} : UndoMined(m)
  BY <1>2, <1>9, UndoMinedWallet
<1>10. CASE UndoSpends
  BY <1>2, <1>3, <1>10, UndoSpendsWallet
<1>11. CASE \E t \in Txs : PruneTx(t)
  BY <1>2, <1>3, <1>11, PruneWallet
<1>12. CASE NodeCrashes \/ PrunerCrashes
  BY <1>2, <1>3, <1>12, NodeCrashWallet, PrunerCrashWallet
<1>13. WalletInv'
  BY <1>1, <1>4, <1>5, <1>6, <1>7, <1>8, <1>9, <1>10, <1>11, <1>12 DEF Next
<1>14. QED
  BY <1>2, <1>13

LEMMA StepWallet ==
  ASSUME NodeInv, WalletInv, [WalletStep \/ NodeStep]_allVars
  PROVE  NodeInv' /\ WalletInv'
<1>1. TypeInv
  BY DEF NodeInv
<1>2. CASE WalletStep
  <2>1. NodeInv'
    BY <1>2, RequestWrites
  <2>2. ASSUME NEW w \in Calls,
               \/ \E batch \in Batches : Request(w, batch)
               \/ AddAddresses(w)
               \/ TagCoins(w)
               \/ ReadTxids(w)
               \/ \E t \in Txs : TagTx(w, t)
               \/ MarkProcessed(w)
        PROVE  WalletInv'
    BY <1>1, <2>2, RequestWallet, AddWallet, TagCoinsWallet, ReadTxidsWallet,
       TagTxWallet, MarkProcessedWallet
  <2>3. CASE ApiCrashes
    BY <1>1, <2>1, <2>3, ApiCrashesWallet
  <2>4. QED
    BY <1>2, <2>1, <2>2, <2>3 DEF WalletStep
<1>3. CASE NodeStep
  BY <1>3, NodeStepWallet
<1>4. CASE UNCHANGED allVars
  <2>1. UNCHANGED vars
    BY <1>4 DEF allVars
  <2>2. NodeInv'
    BY <2>1, StepTypes, StepStore, StepAgree, StepHold DEF NodeInv
  <2>3. QED
    BY <1>4, <2>2, WalletStutters
<1>5. QED
  BY <1>2, <1>3, <1>4

LEMMA RestComplete ==
  ASSUME NodeInv, WalletInv
  PROVE  WalletComplete
<1> SUFFICES ASSUME AtRest, NEW x \in Addresses, x \notin dropped,
                    addresses[x] = "processed", NEW c \in CoinsAt({x}),
                    NEW t \in Txs, t \notin lagging \cup Impaired
             PROVE  /\ c \in Mints[t] => coins[c].tag
                    /\ /\ txs[t] # None
                       /\ \/ c \in Mints[t]
                          \/ /\ coins[c].by = t /\ coins[c].tag
                             /\ txs[t].height # Conflicting
                       => txs[t].tag
  BY DEF WalletComplete, Impaired, history
<1>1. c \in Coins /\ coins[c] # None /\ AddressOf[c] = x
  BY DEF CoinsAt
<1>2. importing = {}
  BY DEF AtRest, BlocksAtRest
<1>3. Covered(x) /\ Reached(x, t)
  BY DEF Covered, Reached
<1>4. Stale = lagging /\ lagging \in SUBSET Txs
  BY <1>2 DEF Stale, WalletInv, CallsTyped
<1>5. ASSUME c \in Mints[t]
      PROVE  coins[c].tag
  <2>1. coins[c].tag \/ c \in Outputs(lagging)
    BY <1>1, <1>3, <1>4 DEF WalletInv, CoinTags
  <2>2. c \notin Outputs(lagging)
    BY <1>4, <1>5, OneMinter
  <2>3. QED
    BY <2>1, <2>2
<1>6. ASSUME txs[t] # None,
             \/ c \in Mints[t]
             \/ coins[c].by = t /\ txs[t].height # Conflicting
      PROVE  txs[t].tag
  <2>1. /\ PaysReached(t) => txs[t].tag
        /\ SpendsReached(t) /\ txs[t].height # Conflicting => txs[t].tag
    BY <1>2, <1>6 DEF WalletInv, TxTags
  <2>2. c \in Mints[t] => PaysReached(t)
    BY <1>1, <1>3 DEF PaysReached
  <2>3. coins[c].by = t => SpendsReached(t)
    BY <1>1, <1>3 DEF SpendsReached
  <2>4. QED
    BY <1>6, <2>1, <2>2, <2>3
<1>7. QED
  BY <1>5, <1>6

\* Whichever of updateCoins (models/walletAddress.ts) and batchImport came
\* first, and whatever crashed, was rolled back or pruned meanwhile, a
\* processed address has all its coins, what pays it and what spends from it
\* in the wallet, but for what WalletComplete excepts.
THEOREM WalletCompleteAlways == WalletSpec => []WalletComplete
<1>1. WalletInit => NodeInv /\ WalletInv
  BY InitWallet
<1>2. NodeInv /\ WalletInv /\ [WalletStep \/ NodeStep]_allVars =>
        NodeInv' /\ WalletInv'
  BY StepWallet
<1>3. NodeInv /\ WalletInv => WalletComplete
  BY RestComplete
<1>4. QED
  BY <1>1, <1>2, <1>3, PTL DEF WalletSpec

\* The requests of the API write tags and addresses into the documents that
\* imports, rollbacks and pruning write: what these keep of the collections
\* without the requests, they keep beside them.
THEOREM ImportsBesideRequests ==
  WalletSpec => [](ConfirmedStands /\ CollectionsAgree /\ PendingHoldsInputs)
<1>1. WalletInit => NodeInv /\ WalletInv
  BY InitWallet
<1>2. NodeInv /\ WalletInv /\ [WalletStep \/ NodeStep]_allVars =>
        NodeInv' /\ WalletInv'
  BY StepWallet
<1>3. NodeInv => ConfirmedStands /\ CollectionsAgree /\ PendingHoldsInputs
  <2>1. NodeInv => ConfirmedStands
    BY DEF NodeInv, StoreInv, ChainStands, MintStands, SpendStands, TxStands,
           ConfirmedStands, StoredAt
  <2>2. QED
    BY <2>1, RestAgrees, RestHolds DEF NodeInv
<1>4. QED
  BY <1>1, <1>2, <1>3, PTL DEF WalletSpec
=============================================================================
