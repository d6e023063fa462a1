--------------------------- MODULE EthSyncProofs ----------------------------
(***************************************************************************)
(* The worker of an account-based chain has the node's chain when it       *)
(* rests, the transactions are those of its blocks, and a nonce is used    *)
(* once: for every tree of blocks and any number of failures.              *)
(***************************************************************************)
EXTENDS EthSync, WellFoundedInduction, TLAPS

(***************************************************************************)
(* Sets of natural numbers                                                 *)
(***************************************************************************)

LEMMA Smallest ==
  ASSUME NEW T, T \subseteq Nat, T # {}
  PROVE  \E m \in T : \A n \in T : m <= n
<1> DEFINE R == {ss \in Nat \X Nat : ss[1] < ss[2]}
<1>1. IsWellFoundedOn(R, Nat)
  BY NatLessThanWellFounded DEF OpToRel
<1>2. \A m, n \in Nat : <<n, m>> \notin R => m <= n
  OBVIOUS
<1> HIDE DEF R
<1>3. \E m \in T : \A n \in T : <<n, m>> \notin R
  BY <1>1, WFMin
<1>4. QED
  BY <1>2, <1>3

LEMMA LowestIn ==
  ASSUME NEW S, S \subseteq Blocks, S # {}
  PROVE  Lowest(S) \in S /\ \A b \in S : Height[Lowest(S)] <= Height[b]
<1> DEFINE T == {Height[b] : b \in S}
<1>1. T \subseteq Nat /\ T # {}
  BY TreeAssumption
<1>2. PICK m \in T : \A n \in T : m <= n
  BY <1>1, Smallest
<1>3. \E b \in S : \A a \in S : Height[b] <= Height[a]
  BY <1>2
<1>4. QED
  BY <1>3 DEF Lowest

\* The highest of blocks that are all below some height.
LEMMA HighestIn ==
  ASSUME NEW S, S \subseteq Blocks, S # {},
         NEW k \in Nat, \A b \in S : Height[b] <= k
  PROVE  Highest(S) \in S /\ \A b \in S : Height[b] <= Height[Highest(S)]
<1> DEFINE T == {k - Height[b] : b \in S}
<1>1. ASSUME NEW b \in S
      PROVE  Height[b] \in Nat /\ k - Height[b] \in Nat
  <2>1. Height[b] \in Nat
    BY TreeAssumption
  <2>2. Height[b] <= k
    OBVIOUS
  <2>3. QED
    BY <2>1, <2>2
<1>2. T \subseteq Nat /\ T # {}
  BY <1>1
<1>3. PICK m \in T : \A n \in T : m <= n
  BY <1>2, Smallest
<1>4. PICK b \in S : m = k - Height[b]
  OBVIOUS
<1>5. ASSUME NEW a \in S
      PROVE  Height[a] <= Height[b]
  <2>1. k - Height[a] \in T
    OBVIOUS
  <2>2. k - Height[b] <= k - Height[a]
    BY <1>3, <1>4, <2>1
  <2>3. QED
    BY <1>1, <2>2
<1>6. \E c \in S : \A a \in S : Height[a] <= Height[c]
  BY <1>5
<1>7. QED
  BY <1>6 DEF Highest

LEMMA HighestIs ==
  ASSUME NEW S, S \subseteq Blocks, NEW b \in S,
         \A a \in S \ {b} : Height[a] < Height[b]
  PROVE  Highest(S) = b
<1>1. \A a \in S : Height[a] \in Nat
  BY TreeAssumption
<1>2. \A a \in S : Height[a] <= Height[b]
  BY <1>1
<1>3. \A c \in S : (\A a \in S : Height[a] <= Height[c]) => c = b
  BY <1>1
<1>4. \E c \in S : \A a \in S : Height[a] <= Height[c]
  BY <1>2
<1>5. Highest(S) \in S /\ \A a \in S : Height[a] <= Height[Highest(S)]
  BY <1>4 DEF Highest
<1>6. QED
  BY <1>3, <1>5

-----------------------------------------------------------------------------
(***************************************************************************)
(* A block and what is below it                                            *)
(***************************************************************************)

LEMMA ParentType ==
  ASSUME NEW b \in Blocks
  PROVE  /\ Parent[b] \in Blocks \cup {None}
         /\ b # Genesis => Parent[b] \in Blocks
         /\ Parent[b] \in Blocks =>
               /\ b # Genesis
               /\ Height[b] = Height[Parent[b]] + 1
               /\ Height[Parent[b]] < Height[b]
         /\ Parent[b] # b
         /\ Height[b] \in Nat
         /\ b # None
         /\ Height[b] = 0 <=> b = Genesis
<1>1. /\ Parent[b] \in Blocks \cup {None} /\ Height[b] \in Nat /\ b # None
      /\ Parent[Genesis] = None /\ None \notin Blocks /\ Height[Genesis] = 0
      /\ b # Genesis => Parent[b] \in Blocks /\ Height[b] = Height[Parent[b]] + 1
  BY TreeAssumption
<1>2. \A c \in Blocks : Height[c] \in Nat
  BY TreeAssumption
<1>3. QED
  BY <1>1, <1>2

\* A set that holds b and every block's parent holds the chain of b.
LEMMA LineLeast ==
  ASSUME NEW b \in Blocks, NEW S, S \subseteq Blocks, b \in S,
         \A c \in S : Parent[c] \in S \cup {None}
  PROVE  Line[b] \subseteq S
<1>1. S \in SUBSET Blocks
  OBVIOUS
<1>2. QED
  BY <1>1 DEF Line

LEMMA LineNone == Line[None] = {}
<1>1. ASSUME NEW a \in Line[None]
      PROVE  FALSE
  <2>1. {} \in SUBSET Blocks /\ None \in {} \cup {None}
    OBVIOUS
  <2>2. a \in {}
    BY <1>1, <2>1 DEF Line
  <2>3. QED
    BY <2>2
<1>2. QED
  BY <1>1

LEMMA LineType ==
  ASSUME NEW b \in Blocks \cup {None}
  PROVE  Line[b] \subseteq Blocks
BY DEF Line

LEMMA LineSelf ==
  ASSUME NEW b \in Blocks
  PROVE  b \in Line[b] /\ \A c \in Line[b] : Parent[c] \in Line[b] \cup {None}
<1>1. b # None
  BY ParentType
<1>2. b \in Line[b]
  BY <1>1 DEF Line
<1>3. ASSUME NEW c \in Line[b], Parent[c] # None
      PROVE  Parent[c] \in Line[b]
  <2>1. c \in Blocks /\ Parent[c] \in Blocks
    BY <1>3, LineType, ParentType
  <2>2. ASSUME NEW S \in SUBSET Blocks,
               b \in S \cup {None}, \A d \in S : Parent[d] \in S \cup {None}
        PROVE  Parent[c] \in S
    <3>1. c \in S
      BY <1>3, <2>2 DEF Line
    <3>2. QED
      BY <1>3, <2>2, <3>1
  <2>3. QED
    BY <2>1, <2>2 DEF Line
<1>4. QED
  BY <1>2, <1>3

LEMMA LineStep ==
  ASSUME NEW b \in Blocks
  PROVE  Line[b] = {b} \cup Line[Parent[b]]
<1> DEFINE S == {b} \cup Line[Parent[b]]
<1>1. Parent[b] \in Blocks \cup {None}
  BY ParentType
<1>2. S \subseteq Blocks
  BY <1>1, LineType
<1>3. \A c \in S : Parent[c] \in S \cup {None}
  <2>1. CASE Parent[b] = None
    BY <2>1, LineNone
  <2>2. CASE Parent[b] \in Blocks
    BY <2>2, LineSelf
  <2>3. QED
    BY <1>1, <2>1, <2>2
<1>4. Line[b] \subseteq S
  <2>1. b \in S
    OBVIOUS
  <2> HIDE DEF S
  <2>2. QED
    BY <1>2, <1>3, <2>1, LineLeast
<1>5. Line[Parent[b]] \subseteq Line[b]
  <2>1. CASE Parent[b] = None
    BY <2>1, LineNone
  <2>2. CASE Parent[b] \in Blocks
    <3>1. Parent[b] \in Line[b] /\ Parent[b] # None
      BY <2>2, LineSelf, ParentType
    <3>2. \A c \in Line[b] : Parent[c] \in Line[b] \cup {None}
      BY LineSelf
    <3>3. QED
      BY <2>2, <3>1, <3>2, LineLeast, LineType
  <2>3. QED
    BY <1>1, <2>1, <2>2
<1>6. b \in Line[b]
  BY LineSelf
<1>7. QED
  BY <1>4, <1>5, <1>6

LEMMA LineHeights ==
  ASSUME NEW b \in Blocks, NEW a \in Line[b], a # b
  PROVE  Height[a] < Height[b]
<1> DEFINE S == {c \in Blocks : c = b \/ Height[c] < Height[b]}
<1>1. ASSUME NEW c \in S, Parent[c] # None
      PROVE  Parent[c] \in S
  <2>1. /\ Parent[c] \in Blocks /\ Height[Parent[c]] < Height[c]
        /\ Height[c] \in Nat /\ Height[b] \in Nat /\ Height[Parent[c]] \in Nat
    BY <1>1, ParentType
  <2>2. QED
    BY <1>1, <2>1
<1>2. Line[b] \subseteq S
  <2>1. S \subseteq Blocks /\ b \in S
    OBVIOUS
  <2>2. QED
    BY <1>1, <2>1, LineLeast
<1>3. QED
  BY <1>2

\* Of two blocks of a chain the lower one is below the other.
LEMMA LineOrder ==
  ASSUME NEW b \in Blocks, NEW a \in Line[b]
  PROVE  /\ a \in Blocks
         /\ Line[a] \subseteq Line[b]
         /\ \A c \in Line[b] : Height[c] <= Height[a] => c \in Line[a]
<1> DEFINE S == {d \in Line[b] : /\ Line[d] \subseteq Line[b]
                                 /\ \A c \in Line[b] : Height[c] <= Height[d]
                                                          => c \in Line[d]}
<1>1. b \in S
  BY LineSelf
<1>2. ASSUME NEW d \in S, Parent[d] # None
      PROVE  Parent[d] \in S
  <2>1. d \in Blocks
    BY LineType
  <2>2. /\ Parent[d] \in Blocks /\ Parent[d] \in Line[b]
        /\ Height[d] = Height[Parent[d]] + 1
    BY <1>2, <2>1, LineSelf, ParentType
  <2>3. Line[d] = {d} \cup Line[Parent[d]]
    BY <2>1, LineStep
  <2>4. ASSUME NEW c \in Line[b], Height[c] <= Height[Parent[d]]
        PROVE  c \in Line[Parent[d]]
    <3>1. c \in Blocks /\ Height[c] \in Nat /\ Height[Parent[d]] \in Nat
      BY <2>2, LineType, ParentType
    <3>2. Height[c] <= Height[d] /\ c # d
      BY <2>2, <2>4, <3>1
    <3>3. c \in Line[d]
      BY <3>2
    <3>4. QED
      BY <2>3, <3>2, <3>3
  <2>5. QED
    BY <2>2, <2>3, <2>4
<1>3. S \subseteq Blocks
  BY LineType
<1>4. Line[b] \subseteq S
  BY <1>1, <1>2, <1>3, LineLeast
<1>5. QED
  BY <1>3, <1>4

LEMMA SameHeight ==
  ASSUME NEW b \in Blocks, NEW a \in Line[b], NEW c \in Line[b],
         Height[a] = Height[c]
  PROVE  a = c
<1>1. a \in Blocks /\ c \in Blocks /\ Height[a] \in Nat
  BY LineType, ParentType
<1>2. c \in Line[a]
  BY <1>1, LineOrder
<1>3. QED
  BY <1>1, <1>2, LineHeights

\* What of a chain is below one of its blocks.
LEMMA LineCut ==
  ASSUME NEW b \in Blocks, NEW a \in Line[b]
  PROVE  /\ {c \in Line[b] : Height[c] < Height[a]} = Line[a] \ {a}
         /\ Line[a] \ {a} = Line[Parent[a]]
<1>1. /\ a \in Blocks /\ Line[a] \subseteq Line[b]
      /\ \A c \in Line[b] : Height[c] <= Height[a] => c \in Line[a]
  BY LineOrder
<1>2. \A c \in Line[b] : c \in Blocks /\ Height[c] \in Nat /\ Height[a] \in Nat
  BY <1>1, LineType, ParentType
<1>3. \A c \in Line[a] \ {a} : Height[c] < Height[a]
  BY <1>1, LineHeights
<1>4. {c \in Line[b] : Height[c] < Height[a]} = Line[a] \ {a}
  BY <1>1, <1>2, <1>3
<1>5. a \notin Line[Parent[a]]
  <2>1. CASE Parent[a] = None
    BY <2>1, LineNone
  <2>2. CASE Parent[a] \in Blocks
    <3>1. Height[Parent[a]] < Height[a] /\ Parent[a] # a
      BY <1>1, <2>2, ParentType
    <3>2. a \in Line[Parent[a]] => Height[a] < Height[Parent[a]]
      BY <2>2, <3>1, LineHeights
    <3>3. QED
      BY <1>1, <2>2, <3>1, <3>2, ParentType
  <2>3. QED
    BY <1>1, <2>1, <2>2, ParentType
<1>6. QED
  BY <1>1, <1>4, <1>5, LineStep

\* A chain has a block of every height up to its last one's.
LEMMA LineLevels ==
  ASSUME NEW b \in Blocks, NEW h \in Nat, h <= Height[b]
  PROVE  \E a \in Line[b] : Height[a] = h
<1> DEFINE S == {a \in Line[b] : h <= Height[a]}
<1>1. S \subseteq Blocks /\ b \in S
  BY LineType, LineSelf
<1>2. PICK a \in S : \A c \in S : Height[a] <= Height[c]
  BY <1>1, LowestIn
<1>3. a \in Blocks /\ Height[a] \in Nat
  BY <1>1, ParentType
<1>4. CASE Height[a] # h
  <2>1. a # Genesis
    BY <1>2, <1>3, <1>4, ParentType
  <2>2. /\ Parent[a] \in Blocks /\ Height[a] = Height[Parent[a]] + 1
        /\ Parent[a] # None
    BY <1>3, <2>1, ParentType
  <2>3. Height[Parent[a]] \in Nat
    BY <2>2, ParentType
  <2>4. Parent[a] \in S
    BY <1>2, <1>3, <1>4, <2>2, <2>3, LineSelf
  <2>5. QED
    BY <1>2, <2>2, <2>3, <2>4
<1>5. QED
  BY <1>2, <1>4

-----------------------------------------------------------------------------
(***************************************************************************)
(* Chains                                                                  *)
(***************************************************************************)

\* S is what block b is put on: the chain below b, or that chain without the
\* block that b builds on.
Carries(S, b) ==
    \/ S = Line[b] \ {b}
    \/ Parent[b] \in Blocks \ {Genesis} /\ S = Line[b] \ {b, Parent[b]}

Whole(S) == S = {} \/ \E b \in S : S = Line[b]

Chain(S) == S = {} \/ \E b \in S : Carries(S \ {b}, b)

LEMMA CarriesType ==
  ASSUME NEW S, NEW b \in Blocks, Carries(S, b)
  PROVE  S \subseteq Line[b] \ {b} /\ Chain(S)
<1>1. S \subseteq Line[b] \ {b}
  BY DEF Carries
<1>2. CASE Parent[b] = None
  <2>1. Line[b] = {b}
    BY <1>2, LineStep, LineNone
  <2>2. S = {}
    BY <1>1, <2>1
  <2>3. QED
    BY <1>1, <2>2 DEF Chain
<1>3. CASE Parent[b] \in Blocks
  <2> DEFINE p == Parent[b]
  <2>1. Line[b] \ {b} = Line[p]
    BY LineSelf, LineCut
  <2>2. p \in Line[p] /\ Line[p] \ {p} = Line[Parent[p]]
    BY <1>3, LineSelf, LineCut
  <2>3. CASE S = Line[p]
    BY <2>2, <2>3 DEF Chain, Carries
  <2>4. CASE S = Line[Parent[p]] /\ p # Genesis
    <3>1. Parent[p] \in Blocks
      BY <1>3, <2>4, ParentType
    <3>2. Parent[p] \in Line[Parent[p]]
      BY <3>1, LineSelf
    <3>3. QED
      BY <1>1, <2>4, <3>2 DEF Chain, Carries
  <2>5. QED
    BY <2>1, <2>2, <2>3, <2>4 DEF Carries
<1>4. QED
  BY <1>2, <1>3, ParentType

LEMMA WholeIsChain ==
  ASSUME NEW S, Whole(S)
  PROVE  Chain(S)
BY DEF Whole, Chain, Carries

LEMMA WithoutLast ==
  ASSUME NEW b \in Blocks
  PROVE  Whole(Line[b] \ {b})
<1>1. Line[b] \ {b} = Line[Parent[b]]
  BY LineSelf, LineCut
<1>2. CASE Parent[b] = None
  BY <1>1, <1>2, LineNone DEF Whole
<1>3. CASE Parent[b] \in Blocks
  BY <1>1, <1>3, LineSelf DEF Whole
<1>4. QED
  BY <1>2, <1>3, ParentType

LEMMA CarriesChain ==
  ASSUME NEW S, NEW b \in Blocks, Carries(S, b)
  PROVE  Chain(S \cup {b}) /\ (S \cup {b}) \ {b} = S
<1>1. b \notin S
  BY CarriesType
<1>2. (S \cup {b}) \ {b} = S
  BY <1>1
<1>3. QED
  BY <1>2 DEF Chain

\* The last block of a chain.
LEMMA ChainLast ==
  ASSUME NEW S, S \subseteq Blocks, Chain(S), S # {}
  PROVE  /\ Highest(S) \in S
         /\ Carries(S \ {Highest(S)}, Highest(S))
         /\ S \subseteq Line[Highest(S)]
         /\ \A a \in S \ {Highest(S)} : Height[a] < Height[Highest(S)]
<1>1. PICK b \in S : Carries(S \ {b}, b)
  BY DEF Chain
<1>2. b \in Blocks /\ S \ {b} \subseteq Line[b] \ {b} /\ b \in Line[b]
  BY <1>1, CarriesType, LineSelf
<1>3. \A a \in S \ {b} : Height[a] < Height[b]
  BY <1>2, LineHeights
<1>4. Highest(S) = b
  BY <1>1, <1>3, HighestIs
<1>5. QED
  BY <1>1, <1>2, <1>3, <1>4

LEMMA WholeLast ==
  ASSUME NEW S, S \subseteq Blocks, Whole(S), S # {}
  PROVE  S = Line[Highest(S)]
<1>1. PICK b \in S : S = Line[b]
  BY DEF Whole
<1>2. \A a \in S \ {b} : Height[a] < Height[b]
  BY <1>1, LineHeights
<1>3. QED
  BY <1>1, <1>2, HighestIs

\* What a rollback to below one of the blocks leaves.
LEMMA CutAt ==
  ASSUME NEW S, S \subseteq Blocks, Chain(S), NEW a \in S, a # Highest(S)
  PROVE  {c \in S : Height[c] < Height[a]} = Line[a] \ {a}
<1> DEFINE b == Highest(S)
<1>1. /\ b \in Blocks /\ Carries(S \ {b}, b) /\ S \subseteq Line[b] /\ a \in Line[b]
      /\ Height[a] < Height[b]
  BY ChainLast
<1> HIDE DEF b
<1>2. {c \in Line[b] : Height[c] < Height[a]} = Line[a] \ {a}
  BY <1>1, LineCut
<1>3. ASSUME NEW c \in Line[b], Height[c] < Height[a]
      PROVE  c \in S
  <2>1. c \in Blocks /\ Height[c] \in Nat /\ Height[a] \in Nat /\ Height[b] \in Nat
    BY <1>1, LineType, ParentType
  <2>2. c # b
    BY <1>1, <1>3, <2>1
  <2>3. Parent[b] \in Blocks => c # Parent[b]
    <3>1. SUFFICES ASSUME Parent[b] \in Blocks
                   PROVE  c # Parent[b]
      OBVIOUS
    <3>2. Height[b] = Height[Parent[b]] + 1 /\ Height[Parent[b]] \in Nat
      BY <1>1, <3>1, ParentType
    <3>3. QED
      BY <1>1, <1>3, <2>1, <3>2
  <2>4. QED
    BY <1>1, <2>2, <2>3 DEF Carries
<1>4. QED
  BY <1>1, <1>2, <1>3

LEMMA LineBelow ==
  ASSUME NEW b \in Blocks, NEW h \in Nat
  PROVE  Whole({c \in Line[b] : Height[c] < h})
<1>1. Height[b] \in Nat /\ b \in Line[b]
  BY ParentType, LineSelf
<1>2. CASE h <= Height[b]
  <2>1. PICK a \in Line[b] : Height[a] = h
    BY <1>2, LineLevels
  <2>2. a \in Blocks /\ {c \in Line[b] : Height[c] < h} = Line[a] \ {a}
    BY <2>1, LineCut, LineType
  <2>3. QED
    BY <2>2, WithoutLast
<1>3. CASE Height[b] < h
  <2>1. \A c \in Line[b] : Height[c] < h
    <3>1. \A c \in Line[b] : c \in Blocks /\ Height[c] \in Nat
      BY LineType, ParentType
    <3>2. \A c \in Line[b] \ {b} : Height[c] < Height[b]
      BY LineHeights
    <3>3. QED
      BY <1>1, <1>3, <3>1, <3>2
  <2>2. {c \in Line[b] : Height[c] < h} = Line[b]
    BY <2>1
  <2>3. QED
    BY <1>1, <2>2 DEF Whole
<1>4. QED
  BY <1>1, <1>2, <1>3

LEMMA ChainCut ==
  ASSUME NEW S, S \subseteq Blocks, Chain(S), NEW h \in Nat
  PROVE  Chain({c \in S : Height[c] < h})
<1>1. CASE S = {}
  BY <1>1 DEF Chain
<1>2. CASE S # {}
  <2> DEFINE b == Highest(S)
             p == Parent[b]
  <2>1. /\ b \in S /\ b \in Blocks /\ Carries(S \ {b}, b)
        /\ S \subseteq Line[b] /\ \A a \in S \ {b} : Height[a] < Height[b]
    BY <1>2, ChainLast
  <2>2. Height[b] \in Nat /\ \A a \in S : Height[a] \in Nat
    BY <2>1, ParentType
  <2> HIDE DEF b
  <2>3. CASE Height[b] < h
    <3>1. {c \in S : Height[c] < h} = S
      BY <2>1, <2>2, <2>3
    <3>2. QED
      BY <3>1
  <2>4. CASE h <= Height[b]
    <3>1. {c \in S : Height[c] < h} = {c \in S \ {b} : Height[c] < h}
      BY <2>1, <2>2, <2>4
    <3>2. Line[b] \ {b} = Line[p]
      BY <2>1, LineSelf, LineCut
    <3>3. CASE S \ {b} = Line[p]
      <4>1. CASE p = None
        <5>1. {c \in S : Height[c] < h} = {}
          BY <3>1, <3>3, <4>1, LineNone
        <5>2. QED
          BY <5>1 DEF Chain
      <4>2. CASE p \in Blocks
        BY <3>1, <3>3, <4>2, LineBelow, WholeIsChain
      <4>3. QED
        BY <2>1, <4>1, <4>2, ParentType
    <3>4. CASE p \in Blocks \ {Genesis} /\ S \ {b} = Line[p] \ {p}
      <4>1. Parent[p] \in Blocks /\ Line[p] \ {p} = Line[Parent[p]]
        BY <3>4, LineSelf, LineCut, ParentType
      <4>2. QED
        BY <3>1, <3>4, <4>1, LineBelow, WholeIsChain
    <3>5. QED
      BY <2>1, <3>2, <3>3, <3>4 DEF Carries
  <2>5. QED
    BY <2>2, <2>3, <2>4
<1>3. QED
  BY <1>1, <1>2

-----------------------------------------------------------------------------
(***************************************************************************)
(* The inductive invariant                                                 *)
(***************************************************************************)

\* Stages that are about sync.block.
AtBlock ==
    {"locate", "check", "undo", "write", "link", "import", "mark", "next"}

\* Stages in which it is the highest block.
OnTop == {"write", "link", "import", "mark", "next"}

SyncRecord ==
    [stage : Stages, at : Nat, best : Nat, block : Blocks \cup {None},
     pruning : BOOLEAN, from : Nat,
     marks : SUBSET {"blocks", "txs", "prune", "write"},
     then : {"begin", "check", "write"}]

SyncType ==
    /\ sync \in SyncRecord
    /\ sync.stage \in AtBlock =>
          /\ sync.block \in Blocks
          /\ sync.at = Height[sync.block]
          /\ sync.at <= sync.best
    /\ sync.stage = "undo" =>
          sync.marks \in {{"blocks", "txs"}, {"blocks"}, {"txs"}}
    /\ sync.stage = "import" => sync.marks \subseteq {"prune", "write"}
    /\ sync.stage \in {"link", "import", "mark"} => Stored(sync.block)
    /\ sync.stage = "next" => sync.block \in Processed

\* The processed blocks have a highest one, and no two have one height.
Ranked ==
    /\ \E k \in Nat : \A b \in Processed : Height[b] <= k
    /\ \A b, c \in Processed : Height[b] = Height[c] => b = c

\* What a rollback keeps.
Kept == {b \in Processed : Height[b] < sync.from}

\* The block that is written is the highest one.
Topped ==
    /\ sync.stage \in OnTop =>
          \A b \in Processed \ {sync.block} : Height[b] < sync.at
    /\ sync.stage = "undo" /\ "blocks" \notin sync.marks => Processed = Kept
    /\ sync.stage = "undo" /\ sync.then = "write" => sync.from < sync.at

\* The processed blocks are a chain, and a block is only put on a whole one or
\* on one that lacks just its parent.
Shaped ==
    ~astray =>
        /\ Chain(Processed)
        /\ sync.stage = "check" => Whole(Processed)
        /\ sync.stage = "undo" /\ sync.then = "check" => Whole(Kept)
        /\ sync.stage = "undo" /\ sync.then = "write" =>
              Carries(Kept, sync.block)
        /\ sync.stage \in OnTop =>
              Carries(Processed \ {sync.block}, sync.block)

\* No header came since the worker asked for the node's height.
Informed == ~missed /\ ~header

Reached == head \in Processed \/ Height[head] < Height[Tip]

UpToDate ==
    Informed =>
        /\ sync.stage \notin {"begin", "idle"} => sync.best = Height[head]
        /\ sync.stage \in AtBlock /\ sync.at = sync.best => sync.block = head
        /\ sync.stage = "fetch" /\ sync.best < sync.at => Reached
        /\ sync.stage = "idle" => Reached

\* A transaction is only ever taken to be in a block that has it.
MinedWhereItIs ==
    \A t \in Txs : /\ txs[t] \in Blocks => t \in TxsIn[txs[t]]
                   /\ relay[t] \in Blocks => t \in TxsIn[relay[t]]

\* One of the two deletes is done, the other has block b before it.
BlocksGone(b) ==
    sync.stage = "undo" /\ sync.marks = {"txs"} /\ sync.from <= Height[b]

TxsGone(b) ==
    sync.stage = "undo" /\ sync.marks = {"blocks"} /\ sync.from <= Height[b]

Backed ==
    ~torn =>
        \A t \in Txs \ early : txs[t] \in Blocks =>
            /\ Stored(txs[t]) \/ BlocksGone(txs[t])
            /\ ~TxsGone(txs[t])

\* The block that is imported has its transactions stored, and has
\* sent the updates of its rivals.
Written ==
    sync.stage = "mark" \/ (sync.stage = "import" /\ "write" \notin sync.marks)
Cleared ==
    sync.stage = "mark" \/ (sync.stage = "import" /\ "prune" \notin sync.marks)

Followed ==
    ~torn /\ ~astray =>
        /\ \A b \in Processed : \A t \in TxsIn[b] : txs[t] = b \/ TxsGone(b)
        /\ Written => \A t \in TxsIn[sync.block] : txs[t] = sync.block

\* The transactions with an update that has not been applied.
Due == sent \cup lost

NoRivals(b) ==
    \A t \in TxsIn[b] \ (raced \cup Due) :
        \A r \in Rivals(t) \ raced : txs[r] # Pending

Alone ==
    ~torn /\ ~astray =>
        /\ \A b \in Processed : NoRivals(b) \/ TxsGone(b)
        /\ Cleared => NoRivals(sync.block)

-----------------------------------------------------------------------------
(***************************************************************************)
(* What the steps do to the processed blocks                               *)
(***************************************************************************)

LEMMA BlockType ==
  ASSUME TypeOK, NEW b \in Blocks
  PROVE  \/ blocks[b] = None
         \/ /\ blocks[b] \in [processed : BOOLEAN, next : Blocks \cup {None}]
            /\ blocks[b] # None
<1>1. blocks[b] \in {None} \cup [processed : BOOLEAN, next : Blocks \cup {None}]
  BY DEF TypeOK
<1>2. QED
  BY <1>1

LEMMA DocNotNone ==
  ASSUME NEW doc \in [processed : BOOLEAN, next : Blocks \cup {None}]
  PROVE  doc # None
<1>1. doc = [processed |-> doc.processed, next |-> doc.next]
  OBVIOUS
<1>2. doc.processed \in BOOLEAN /\ doc.next \in Blocks \cup {None}
  OBVIOUS
<1>3. QED
  BY <1>1, <1>2, NameAssumption

LEMMA ProcessedIs ==
  /\ Processed = {b \in Blocks : blocks[b] # None /\ blocks[b].processed}
  /\ \A b \in Blocks : Stored(b) <=> blocks[b] # None
BY TreeAssumption DEF Processed, Stored

\* The tip is a processed block, and none is higher.
LEMMA TipType ==
  ASSUME Ranked
  PROVE  /\ Tip \in Blocks \cup {None}
         /\ Tip = None <=> Processed = {}
         /\ Processed # {} =>
               /\ Tip = Highest(Processed)
               /\ Tip \in Processed
               /\ \A b \in Processed \ {Tip} : Height[b] < Height[Tip]
<1>1. Processed \subseteq Blocks /\ None \notin Blocks
  BY TreeAssumption DEF Processed
<1>2. CASE Processed = {}
  BY <1>2 DEF Tip
<1>3. CASE Processed # {}
  <2>1. PICK k \in Nat : \A b \in Processed : Height[b] <= k
    BY DEF Ranked
  <2>2. /\ Highest(Processed) \in Processed
        /\ \A b \in Processed : Height[b] <= Height[Highest(Processed)]
    BY <1>1, <1>3, <2>1, HighestIn
  <2>3. Tip = Highest(Processed)
    BY <1>3 DEF Tip
  <2>4. \A b \in Processed : Height[b] \in Nat
    BY <1>1, ParentType
  <2>5. \A b \in Processed \ {Tip} : Height[b] # Height[Tip]
    BY <2>2, <2>3 DEF Ranked
  <2>6. \A b \in Processed \ {Tip} : Height[b] < Height[Tip]
    BY <2>2, <2>3, <2>4, <2>5
  <2>7. QED
    BY <1>1, <1>3, <2>2, <2>3, <2>6
<1>4. QED
  BY <1>2, <1>3

LEMMA WriteBlockDoes ==
  ASSUME TypeOK, SyncType, WriteBlock
  PROVE  /\ Processed' = Processed \ {sync.block}
         /\ \A b \in Blocks : Stored(b)' <=> Stored(b) \/ b = sync.block
         /\ blocks' \in [Blocks -> {None} \cup [processed : BOOLEAN,
                                                next : Blocks \cup {None}]]
<1>1. sync.block \in Blocks /\ NewBlock \in [processed : BOOLEAN,
                                             next : Blocks \cup {None}]
  BY DEF SyncType, AtBlock, WriteBlock, NewBlock
<1>2. NewBlock # None /\ ~NewBlock.processed
  BY <1>1, DocNotNone DEF NewBlock
<1>3. /\ blocks' \in [Blocks -> {None} \cup [processed : BOOLEAN,
                                             next : Blocks \cup {None}]]
      /\ \A b \in Blocks :
            blocks'[b] = IF b = sync.block THEN NewBlock ELSE blocks[b]
  BY <1>1 DEF TypeOK, WriteBlock
<1>4. /\ Processed' = {b \in Blocks : blocks'[b] # None /\ blocks'[b].processed}
      /\ \A b \in Blocks : Stored(b)' <=> blocks'[b] # None
  BY TreeAssumption DEF Processed, Stored
<1>5. QED
  BY <1>1, <1>2, <1>3, <1>4, ProcessedIs

LEMMA LinkPreviousDoes ==
  ASSUME TypeOK, SyncType, LinkPrevious
  PROVE  /\ Processed' = Processed
         /\ \A b \in Blocks : Stored(b)' <=> Stored(b)
         /\ blocks' \in [Blocks -> {None} \cup [processed : BOOLEAN,
                                                next : Blocks \cup {None}]]
<1> DEFINE p == Parent[sync.block]
           Doc == [processed : BOOLEAN, next : Blocks \cup {None}]
<1>1. sync.block \in Blocks /\ p \in Blocks \cup {None}
  BY ParentType DEF SyncType, AtBlock, LinkPrevious
<1>2. CASE ~Stored(p)
  <2>1. blocks' = blocks
    BY <1>2 DEF LinkPrevious
  <2>2. QED
    BY <2>1 DEF TypeOK, Processed, Stored
<1>3. CASE Stored(p)
  <2>1. p \in Blocks /\ blocks[p] # None
    BY <1>1, <1>3 DEF Stored
  <2>2. blocks[p] \in Doc
    BY <2>1, BlockType
  <2>3. blocks' = [blocks EXCEPT ![p].next = sync.block]
    BY <1>3 DEF LinkPrevious
  <2>4. blocks' = [blocks EXCEPT ![p] = [blocks[p] EXCEPT !.next = sync.block]]
    BY <2>3
  <2>5. [blocks[p] EXCEPT !.next = sync.block] \in Doc
    BY <1>1, <2>2
  <2>6. blocks'[p] \in Doc /\ blocks'[p].processed = blocks[p].processed
    BY <2>1, <2>2, <2>4, <2>5 DEF TypeOK
  <2>7. blocks'[p] # None
    BY <2>6, DocNotNone
  <2>8. /\ blocks' \in [Blocks -> {None} \cup Doc]
        /\ \A b \in Blocks : b # p => blocks'[b] = blocks[b]
    BY <2>1, <2>4, <2>5 DEF TypeOK
  <2>9. /\ Processed' = {b \in Blocks : blocks'[b] # None /\ blocks'[b].processed}
        /\ \A b \in Blocks : Stored(b)' <=> blocks'[b] # None
    BY TreeAssumption DEF Processed, Stored
  <2>10. QED
    BY <2>1, <2>6, <2>7, <2>8, <2>9, ProcessedIs
<1>4. QED
  BY <1>2, <1>3

LEMMA MarkProcessedDoes ==
  ASSUME TypeOK, SyncType, MarkProcessed
  PROVE  /\ Processed' = Processed \cup {sync.block}
         /\ \A b \in Blocks : Stored(b)' <=> Stored(b)
         /\ blocks' \in [Blocks -> {None} \cup [processed : BOOLEAN,
                                                next : Blocks \cup {None}]]
<1> DEFINE p == sync.block
           Doc == [processed : BOOLEAN, next : Blocks \cup {None}]
<1>1. p \in Blocks /\ blocks[p] # None
  BY DEF SyncType, AtBlock, MarkProcessed, Stored
<1>2. blocks[p] \in Doc
  BY <1>1, BlockType
<1>3. blocks' = [blocks EXCEPT ![p] = [blocks[p] EXCEPT !.processed = TRUE]]
  BY DEF MarkProcessed
<1>4. [blocks[p] EXCEPT !.processed = TRUE] \in Doc
  BY <1>2
<1>5. blocks'[p] \in Doc /\ blocks'[p].processed
  BY <1>1, <1>2, <1>3, <1>4 DEF TypeOK
<1>6. blocks'[p] # None
  BY <1>5, DocNotNone
<1>7. /\ blocks' \in [Blocks -> {None} \cup Doc]
      /\ \A b \in Blocks : b # p => blocks'[b] = blocks[b]
  BY <1>1, <1>3, <1>4 DEF TypeOK
<1>8. /\ Processed' = {b \in Blocks : blocks'[b] # None /\ blocks'[b].processed}
      /\ \A b \in Blocks : Stored(b)' <=> blocks'[b] # None
  BY TreeAssumption DEF Processed, Stored
<1>9. QED
  BY <1>1, <1>5, <1>6, <1>7, <1>8, ProcessedIs

LEMMA UndoDoes ==
  ASSUME TypeOK, SyncType, NEW m \in {"blocks", "txs"}, Undo(m)
  PROVE  /\ m = "txs" => blocks' = blocks
         /\ m = "blocks" =>
               /\ Processed' = Kept /\ txs' = txs
               /\ \A b \in Blocks :
                     Stored(b)' <=> Stored(b) /\ Height[b] < sync.from
         /\ blocks' \in [Blocks -> {None} \cup [processed : BOOLEAN,
                                                next : Blocks \cup {None}]]
<1> DEFINE Doc == [processed : BOOLEAN, next : Blocks \cup {None}]
<1>1. blocks \in [Blocks -> {None} \cup Doc]
      /\ txs \in [Txs -> Blocks \cup {None, Pending, Conflicting}]
  BY DEF TypeOK
<1>2. CASE m = "txs"
  <2>1. blocks' = [b \in Blocks |-> blocks[b]]
    BY <1>2 DEF Undo
  <2>2. blocks' = blocks
    BY <1>1, <2>1
  <2>3. QED
    BY <1>1, <1>2, <2>2
<1>3. CASE m = "blocks"
  <2>1. txs' = [t \in Txs |-> txs[t]]
    BY <1>3 DEF Undo
  <2>2. txs' = txs
    BY <1>1, <2>1
  <2>3. /\ sync.from \in Nat
        /\ \A b \in Blocks : Height[b] \in Nat
    BY ParentType DEF SyncType, SyncRecord
  <2>4. blocks' = [b \in Blocks |->
                      IF Height[b] >= sync.from THEN None ELSE blocks[b]]
    BY <1>3 DEF Undo
  <2>5. \A b \in Blocks :
           blocks'[b] = IF Height[b] < sync.from THEN blocks[b] ELSE None
    BY <2>3, <2>4
  <2>6. blocks' \in [Blocks -> {None} \cup Doc]
    BY <1>1, <2>4
  <2>7. /\ Processed' = {b \in Blocks : blocks'[b] # None /\ blocks'[b].processed}
        /\ \A b \in Blocks : Stored(b)' <=> blocks'[b] # None
    BY TreeAssumption DEF Processed, Stored
  <2>8. QED
    BY <1>3, <2>2, <2>5, <2>6, <2>7, ProcessedIs DEF Kept
<1>4. QED
  BY <1>2, <1>3

-----------------------------------------------------------------------------
(***************************************************************************)
(* Type correctness                                                        *)
(***************************************************************************)

LEMMA MismatchedType ==
  ASSUME Ranked
  PROVE  Mismatched \subseteq Processed
<1>1. Processed \subseteq Blocks
  BY DEF Processed
<1>2. PICK k \in Nat : \A b \in Processed : Height[b] <= k
  BY DEF Ranked
<1>3. ASSUME NEW b \in Processed,
             {a \in Processed : Height[a] < Height[b]} # {}
      PROVE  Highest({a \in Processed : Height[a] < Height[b]}) \in Processed
  <2> DEFINE below == {a \in Processed : Height[a] < Height[b]}
  <2>1. below \subseteq Blocks /\ below # {} /\ \A a \in below : Height[a] <= k
    BY <1>1, <1>2, <1>3
  <2>2. Highest(below) \in below
    <3> HIDE DEF below
    <3>1. QED
      BY <2>1, HighestIn
  <2>3. QED
    BY <2>2
<1>4. QED
  BY <1>3 DEF Mismatched

\* The lowest mismatched block has another one above it.
LEMMA LowestMismatched ==
  ASSUME Ranked, Mismatched # {}
  PROVE  /\ Lowest(Mismatched) \in Processed
         /\ \E c \in Processed : Height[Lowest(Mismatched)] < Height[c]
<1>1. Processed \subseteq Blocks /\ Mismatched \subseteq Processed
  BY MismatchedType DEF Processed
<1>2. PICK k \in Nat : \A b \in Processed : Height[b] <= k
  BY DEF Ranked
<1>3. PICK b \in Processed :
         /\ {a \in Processed : Height[a] < Height[b]} # {}
         /\ Highest({a \in Processed : Height[a] < Height[b]}) \in Mismatched
  BY DEF Mismatched
<1> DEFINE below == {a \in Processed : Height[a] < Height[b]}
<1>4. Highest(below) \in below
  <2>1. below \subseteq Blocks /\ below # {} /\ \A a \in below : Height[a] <= k
    BY <1>1, <1>2, <1>3
  <2> HIDE DEF below
  <2>2. QED
    BY <2>1, HighestIn
<1>5. /\ Lowest(Mismatched) \in Mismatched
      /\ Height[Lowest(Mismatched)] <= Height[Highest(below)]
  BY <1>1, <1>3, LowestIn
<1>6. /\ Height[Highest(below)] < Height[b] /\ Height[b] \in Nat
      /\ Height[Highest(below)] \in Nat /\ Height[Lowest(Mismatched)] \in Nat
  BY <1>1, <1>4, <1>5, ParentType
<1>7. QED
  BY <1>1, <1>5, <1>6

\* handleReorg goes on, or starts to delete from a block on.
Passes(b, onward) ==
    /\ sync' = [sync EXCEPT !.stage = onward]
    /\ Tip = None \/ Tip \in {Parent[b], b} \/ Tip = Genesis
    /\ astray' = (astray \/ Bottomed(b))

RollsBack(b, onward, base, then) ==
    /\ sync' = [sync EXCEPT !.stage = "undo", !.from = Height[base],
                            !.marks = {"blocks", "txs"}, !.then = then]
    /\ Tip \notin {None, Parent[b], b, Genesis}
    /\ astray' = (astray \/ base = Genesis \/ base \notin Processed)
    /\ \/ base = Parent[b] /\ then = onward
       \/ base = Tip /\ then = "begin"

LEMMA ReorgDoes ==
  ASSUME Ranked, NEW b \in Blocks, NEW onward, Reorg(b, onward)
  PROVE  \/ Passes(b, onward)
         \/ \E base \in Blocks, then \in {onward, "begin"} :
               RollsBack(b, onward, base, then)
<1>1. Tip \in Blocks \cup {None} /\ Parent[b] \in Blocks \cup {None}
      /\ None \notin Blocks
  BY TipType, ParentType, TreeAssumption
<1>2. CASE Tip = None \/ Tip \in {Parent[b], b} \/ Tip = Genesis
  BY <1>2 DEF Reorg, Goto, Passes
<1>3. CASE ~(Tip = None \/ Tip \in {Parent[b], b} \/ Tip = Genesis)
  <2>1. CASE Stored(Parent[b])
    <3>1. Parent[b] \in Blocks
      BY <1>1, <2>1 DEF Stored
    <3>2. RollsBack(b, onward, Parent[b], onward)
      BY <1>3, <2>1 DEF Reorg, RollsBack
    <3>3. QED
      BY <3>1, <3>2
  <2>2. CASE ~Stored(Parent[b])
    <3>1. RollsBack(b, onward, Tip, "begin")
      BY <1>3, <2>2 DEF Reorg, RollsBack
    <3>2. QED
      BY <1>1, <1>3, <3>1
  <2>3. QED
    BY <2>1, <2>2
<1>4. QED
  BY <1>2, <1>3

\* Both places that call it.
LEMMA Rollbacks ==
  ASSUME TypeOK, SyncType, Ranked, ValidateLocators \/ CheckReorg
  PROVE  /\ sync.stage \in {"locate", "check"}
         /\ UNCHANGED <<node, db, mempool, events, torn, early, missed, raced, lost>>
         /\ \/ /\ sync.stage = "locate" /\ Mismatched = {}
               /\ sync' = [sync EXCEPT !.stage = "check"] /\ astray' = astray
            \/ \E b \in Blocks, onward \in {"check", "write"} :
                  /\ \/ /\ sync.stage = "locate" /\ onward = "check"
                        /\ b \in Processed
                        /\ \E c \in Processed : Height[b] < Height[c]
                     \/ /\ sync.stage = "check" /\ onward = "write"
                        /\ b = sync.block
                  /\ \/ Passes(b, onward)
                     \/ \E base \in Blocks, then \in {onward, "begin"} :
                           RollsBack(b, onward, base, then)
<1>1. CASE ValidateLocators /\ Mismatched = {}
  BY <1>1 DEF ValidateLocators, Goto
<1>2. CASE ValidateLocators /\ Mismatched # {}
  <2>1. Mismatched \subseteq Processed /\ Processed \subseteq Blocks
    BY MismatchedType DEF Processed
  <2>2. PICK b \in Processed :
           /\ b = Lowest(Mismatched)
           /\ \E c \in Processed : Height[b] < Height[c]
    BY <1>2, LowestMismatched
  <2>3. Reorg(b, "check") /\ sync.stage = "locate"
    BY <1>2, <2>2 DEF ValidateLocators
  <2>4. \/ Passes(b, "check")
        \/ \E base \in Blocks, then \in {"check", "begin"} :
              RollsBack(b, "check", base, then)
    BY <2>1, <2>3, ReorgDoes
  <2>5. UNCHANGED <<node, db, mempool, events, torn, early, missed, raced, lost>>
    BY <1>2 DEF ValidateLocators
  <2>6. QED
    BY <2>1, <2>2, <2>3, <2>4, <2>5
<1>3. CASE CheckReorg
  <2>1. sync.stage = "check" /\ sync.block \in Blocks
    BY <1>3 DEF CheckReorg, SyncType, AtBlock
  <2>2. Reorg(sync.block, "write")
    BY <1>3 DEF CheckReorg
  <2>3. \/ Passes(sync.block, "write")
        \/ \E base \in Blocks, then \in {"write", "begin"} :
              RollsBack(sync.block, "write", base, then)
    BY <2>1, <2>2, ReorgDoes
  <2>4. UNCHANGED <<node, db, mempool, events, torn, early, missed, raced, lost>>
    BY <1>3 DEF CheckReorg
  <2>5. QED
    BY <2>1, <2>3, <2>4
<1>4. QED
  BY <1>1, <1>2, <1>3

\* What the pending transactions do leaves the blocks and the synchronisation
\* alone.
Aside == \E t \in Txs : \/ Announce(t) \/ GetTransaction(t) \/ InsertTx(t)
                       \/ Prune(t) \/ PruneLost(t)

LEMMA AsideDoes ==
  ASSUME Aside
  PROVE  UNCHANGED <<node, blocks, complete, sync, astray, torn, missed>>
BY DEF Aside, Announce, GetTransaction, InsertTx, Prune, PruneLost, node, db,
       history, mempool

\* A failure and a crash.
LEMMA FailureDoes ==
  ASSUME SyncFails \/ Crash
  PROVE  /\ sync' = Resting("begin")
         /\ UNCHANGED <<head, db, astray, early, missed, raced>>
         /\ torn' = (torn \/ Tearing)
         /\ header' \in {header, FALSE}
         /\ relay' \in {relay, [t \in Txs |-> "none"]}
         /\ inv' \in {inv, {}}
         /\ \E L \in SUBSET sent : sent' = sent \ L /\ lost' = lost \cup L
         /\ events < MaxEvents /\ events' = events + 1
<1>1. CASE SyncFails
  <2>1. sent' = sent \ {} /\ lost' = lost \cup {} /\ {} \in SUBSET sent
    BY <1>1 DEF SyncFails, mempool
  <2>2. QED
    BY <1>1, <2>1 DEF SyncFails, node, db, mempool
<1>2. CASE Crash
  BY <1>2 DEF Crash, db
<1>3. QED
  BY <1>1, <1>2

LEMMA RestingType ==
  ASSUME NEW stage \in {"begin", "idle"}
  PROVE  Resting(stage) \in SyncRecord /\ Resting(stage).stage = stage
BY DEF Resting, SyncRecord, Stages

LEMMA PrunedType ==
  ASSUME txs \in [Txs -> Blocks \cup {None, Pending, Conflicting}], NEW T
  PROVE  /\ Pruned(T) \in [Txs -> Blocks \cup {None, Pending, Conflicting}]
         /\ \A t \in Txs :
               Pruned(T)[t] = IF txs[t] = Pending /\ Rivals(t) \cap T # {}
                              THEN Conflicting ELSE txs[t]
BY DEF Pruned

LEMMA TypeStep ==
  ASSUME TypeOK, SyncType, Ranked, SyncType', Next
  PROVE  TypeOK'
<1>1. sync'.stage \in Stages /\ sync'.block \in Blocks \cup {None}
  BY DEF SyncType, SyncRecord
<1>2. events \in 0 .. MaxEvents /\ MaxEvents \in Nat
  BY TreeAssumption DEF TypeOK
<1>3. CASE \E b \in Blocks : NodeAdvances(b)
  BY <1>1, <1>3 DEF TypeOK, NodeAdvances, db, mempool, history
<1>4. CASE HearHeader
  BY <1>1, <1>4 DEF TypeOK, HearHeader, db, mempool
<1>5. CASE Begin
  BY <1>1, <1>5 DEF TypeOK, Begin, node, db, mempool
<1>6. CASE End
  BY <1>1, <1>6 DEF TypeOK, End, node, mempool, history
<1>7. CASE GetBlock
  BY <1>1, <1>7 DEF TypeOK, GetBlock, node, db, mempool, history
<1>8. CASE ValidateLocators \/ CheckReorg
  <2>1. UNCHANGED <<node, db, mempool, events, torn, early, missed, raced, lost>>
    BY <1>8, Rollbacks
  <2>2. astray' \in BOOLEAN
    <3>1. astray \in BOOLEAN
      BY DEF TypeOK
    <3>2. QED
      BY <1>8, <3>1, Rollbacks DEF Passes, RollsBack
  <2>3. QED
    BY <1>1, <2>1, <2>2 DEF TypeOK, node, db, mempool
<1>9. ASSUME NEW m \in {"blocks", "txs"}, Undo(m)
      PROVE  TypeOK'
  <2>1. blocks' \in [Blocks -> {None} \cup [processed : BOOLEAN,
                                            next : Blocks \cup {None}]]
    BY <1>9, UndoDoes
  <2>2. txs' \in [Txs -> Blocks \cup {None, Pending, Conflicting}]
    BY <1>9 DEF TypeOK, Undo
  <2>3. QED
    BY <1>1, <1>9, <2>1, <2>2 DEF TypeOK, Undo, node, mempool, history
<1>10. CASE WriteBlock
  BY <1>1, <1>10, WriteBlockDoes
     DEF TypeOK, WriteBlock, node, mempool, history
<1>11. CASE LinkPrevious
  BY <1>1, <1>11, LinkPreviousDoes
     DEF TypeOK, LinkPrevious, node, mempool, history
<1>12. ASSUME NEW m \in {"prune", "write"}, Import(m)
       PROVE  TypeOK'
  <2>1. sync.block \in Blocks /\ TxsIn[sync.block] \subseteq Txs
    BY <1>12, TreeAssumption DEF SyncType, AtBlock, Import
  <2>2. txs' \in [Txs -> Blocks \cup {None, Pending, Conflicting}]
    BY <1>12, <2>1 DEF TypeOK, Import
  <2>3. /\ early' \subseteq Txs /\ raced' \subseteq Txs
        /\ sent' \subseteq Txs /\ lost' \subseteq Txs
    BY <1>12, <2>1 DEF TypeOK, Import
  <2>4. QED
    BY <1>1, <1>12, <2>2, <2>3 DEF TypeOK, Import, node
<1>13. CASE MarkProcessed
  BY <1>1, <1>13, MarkProcessedDoes
     DEF TypeOK, MarkProcessed, node, mempool, history
<1>14. CASE NextHeight
  <2>1. missed' \in BOOLEAN
    BY <1>14 DEF NextHeight, TypeOK
  <2>2. QED
    BY <1>1, <1>14, <2>1 DEF TypeOK, NextHeight, node, db, mempool
<1>15. ASSUME NEW t \in Txs, Announce(t)
       PROVE  TypeOK'
  BY <1>1, <1>2, <1>15 DEF TypeOK, Announce, node, db, history
<1>16. ASSUME NEW t \in Txs, GetTransaction(t)
       PROVE  TypeOK'
  <2>1. {b \in Line[head] : t \in TxsIn[b]} \subseteq Blocks
    BY LineType DEF TypeOK
  <2>2. /\ relay' \in [Txs -> Blocks \cup {Pending, "none", "told"}]
        /\ sent' \subseteq Txs /\ lost' \subseteq Txs
    BY <1>16, <2>1 DEF TypeOK, GetTransaction
  <2>3. QED
    BY <1>1, <1>16, <2>2 DEF TypeOK, GetTransaction, node, db
<1>17. ASSUME NEW t \in Txs, InsertTx(t)
       PROVE  TypeOK'
  <2>1. /\ relay' \in [Txs -> Blocks \cup {Pending, "none", "told"}]
        /\ txs' \in [Txs -> Blocks \cup {None, Pending, Conflicting}]
        /\ early' \subseteq Txs /\ raced' \subseteq Txs
    BY <1>17 DEF TypeOK, InsertTx
  <2>2. QED
    BY <1>1, <1>17, <2>1 DEF TypeOK, InsertTx, node
<1>18. CASE SyncFails \/ Crash
  <2>1. /\ UNCHANGED <<head, db, astray, early, missed, raced>>
        /\ torn' = (torn \/ Tearing)
        /\ header' \in {header, FALSE}
        /\ relay' \in {relay, [t \in Txs |-> "none"]}
        /\ inv' \in {inv, {}}
        /\ \E L \in SUBSET sent : sent' = sent \ L /\ lost' = lost \cup L
        /\ events < MaxEvents /\ events' = events + 1
    BY <1>18, FailureDoes
  <2>2. torn' \in BOOLEAN
    BY <2>1 DEF TypeOK, Tearing
  <2>3. relay' \in [Txs -> Blocks \cup {Pending, "none", "told"}]
    BY <2>1 DEF TypeOK
  <2>4. events' \in 0 .. MaxEvents
    BY <1>2, <2>1
  <2>5. /\ header' \in BOOLEAN /\ inv' \subseteq Txs
        /\ sent' \subseteq Txs /\ lost' \subseteq Txs
    BY <2>1 DEF TypeOK
  <2>6. UNCHANGED <<head, blocks, txs, complete, astray, early, missed, raced>>
    BY <2>1 DEF db
  <2>7. QED
    BY <1>1, <2>2, <2>3, <2>4, <2>5, <2>6 DEF TypeOK
<1>19. ASSUME NEW t \in Txs, Prune(t)
       PROVE  TypeOK'
  <2>1. txs' \in [Txs -> Blocks \cup {None, Pending, Conflicting}]
    BY <1>19, PrunedType DEF TypeOK, Prune
  <2>2. QED
    BY <1>1, <1>19, <2>1 DEF TypeOK, Prune, node, history
<1>20. ASSUME NEW t \in Txs, PruneLost(t)
       PROVE  TypeOK'
  <2>1. events' \in 0 .. MaxEvents
    BY <1>2, <1>20 DEF PruneLost
  <2>2. QED
    BY <1>1, <1>20, <2>1 DEF TypeOK, PruneLost, node, db
<1>21. QED
  BY <1>3, <1>4, <1>5, <1>6, <1>7, <1>8, <1>9, <1>10, <1>11, <1>12, <1>13,
     <1>14, <1>15, <1>16, <1>17, <1>18, <1>19, <1>20 DEF Next, Sync

LEMMA SyncTypeStep ==
  ASSUME TypeOK, SyncType, Ranked, Next
  PROVE  SyncType'
<1>1. sync \in SyncRecord
  BY DEF SyncType
<1>2. head \in Blocks /\ Height[head] \in Nat /\ Tip \in Blocks \cup {None}
      /\ \A b \in Blocks : Height[b] \in Nat
  BY ParentType, TipType DEF TypeOK
<1>3. CASE (\E b \in Blocks : NodeAdvances(b)) \/ Aside
  <2>1. sync' = sync /\ blocks' = blocks
    BY <1>3, AsideDoes DEF NodeAdvances, db
  <2>2. QED
    BY <2>1 DEF SyncType, Stored, Processed
<1>4. CASE HearHeader
  <2>1. CASE sync.stage = "idle"
    BY <1>4, <2>1, RestingType DEF HearHeader, SyncType, AtBlock
  <2>2. CASE sync.stage # "idle"
    BY <1>4, <2>2 DEF HearHeader, SyncType, db, Stored, Processed
  <2>3. QED
    BY <2>1, <2>2
<1>5. CASE Begin
  <2>1. sync' \in SyncRecord /\ sync'.stage = "fetch"
    <3>1. complete \in BOOLEAN
      BY DEF TypeOK
    <3>2. IF Tip = None THEN 0 = 0 ELSE Height[Tip] \in Nat
      BY <1>2
    <3>3. QED
      BY <1>2, <1>5, <3>1, <3>2 DEF Begin, Resting, SyncRecord, Stages
  <2>2. QED
    BY <2>1 DEF SyncType, AtBlock
<1>6. CASE End \/ SyncFails \/ Crash
  <2>1. sync' \in {Resting("idle"), Resting("begin")}
    BY <1>6, FailureDoes DEF End
  <2>2. QED
    BY <2>1, RestingType DEF SyncType, AtBlock
<1>7. CASE GetBlock
  <2>1. PICK b \in Line[head] :
           /\ Height[b] = sync.at
           /\ sync' = [sync EXCEPT !.stage = "locate", !.block = b]
    BY <1>7 DEF GetBlock
  <2>2. b \in Blocks
    BY <1>2, LineType
  <2>3. sync' \in SyncRecord
    BY <1>1, <2>1, <2>2 DEF SyncRecord, Stages
  <2>4. /\ sync'.stage = "locate" /\ sync'.block = b /\ sync'.at = sync.at
        /\ sync'.best = sync.best
    BY <1>1, <2>1 DEF SyncRecord
  <2>5. sync.at <= sync.best
    BY <1>7 DEF GetBlock
  <2>6. QED
    BY <2>1, <2>2, <2>3, <2>4, <2>5 DEF SyncType
<1>8. CASE ValidateLocators \/ CheckReorg
  <2>1. /\ sync.stage \in AtBlock /\ sync.block \in Blocks
        /\ sync.at = Height[sync.block] /\ sync.at <= sync.best
    BY <1>8, Rollbacks DEF SyncType, AtBlock
  <2>2. CASE \E onward \in {"check", "write"} :
                sync' = [sync EXCEPT !.stage = onward]
    <3>1. /\ sync' \in SyncRecord /\ sync'.stage \in {"check", "write"}
          /\ sync'.block = sync.block /\ sync'.at = sync.at
          /\ sync'.best = sync.best
      BY <1>1, <2>2 DEF SyncRecord, Stages
    <3>2. QED
      BY <2>1, <3>1 DEF SyncType
  <2>3. ASSUME NEW base \in Blocks, NEW then \in {"check", "write", "begin"},
               sync' = [sync EXCEPT !.stage = "undo", !.from = Height[base],
                            !.marks = {"blocks", "txs"}, !.then = then]
        PROVE  SyncType'
    <3>1. /\ sync' \in SyncRecord /\ sync'.stage = "undo"
          /\ sync'.marks = {"blocks", "txs"}
          /\ sync'.block = sync.block /\ sync'.at = sync.at
          /\ sync'.best = sync.best
      BY <1>1, <1>2, <2>3 DEF SyncRecord, Stages
    <3>2. QED
      BY <2>1, <3>1 DEF SyncType
  <2>4. QED
    BY <1>8, <2>2, <2>3, Rollbacks DEF Passes, RollsBack
<1>9. ASSUME NEW m \in {"blocks", "txs"}, Undo(m)
      PROVE  SyncType'
  <2>1. /\ sync.stage = "undo" /\ m \in sync.marks
        /\ sync.marks \in {{"blocks", "txs"}, {"blocks"}, {"txs"}}
        /\ sync.block \in Blocks /\ sync.at = Height[sync.block]
        /\ sync.at <= sync.best
    BY <1>9 DEF SyncType, AtBlock, Undo
  <2>2. sync' = [sync EXCEPT !.marks = sync.marks \ {m},
                             !.stage = IF sync.marks = {m} THEN sync.then
                                       ELSE sync.stage]
    BY <1>9 DEF Undo
  <2>3. /\ sync' \in SyncRecord
        /\ sync'.block = sync.block /\ sync'.at = sync.at
        /\ sync'.best = sync.best
        /\ sync'.marks = sync.marks \ {m}
        /\ sync'.stage = IF sync.marks = {m} THEN sync.then ELSE "undo"
    BY <1>1, <2>1, <2>2 DEF SyncRecord, Stages
  <2>4. sync'.stage \in {"undo", "begin", "check", "write"}
    BY <1>1, <2>3 DEF SyncRecord
  <2>5. sync'.stage = "undo" =>
           sync'.marks \in {{"blocks", "txs"}, {"blocks"}, {"txs"}}
    <3>1. sync.then # "undo"
      BY <1>1 DEF SyncRecord
    <3>2. QED
      BY <2>1, <2>3, <3>1
  <2>6. QED
    BY <2>1, <2>3, <2>4, <2>5 DEF SyncType
<1>10. CASE WriteBlock
  <2>1. /\ sync.stage \in AtBlock /\ sync.block \in Blocks
        /\ sync.at = Height[sync.block] /\ sync.at <= sync.best
    BY <1>10 DEF WriteBlock, SyncType, AtBlock
  <2>2. /\ sync' \in SyncRecord /\ sync'.stage = "link"
        /\ sync'.block = sync.block /\ sync'.at = sync.at
        /\ sync'.best = sync.best
    BY <1>1, <1>10 DEF WriteBlock, Goto, SyncRecord, Stages
  <2>3. sync.block # None /\ blocks'[sync.block] # None
    BY <1>10, <2>1, WriteBlockDoes, TreeAssumption DEF Stored
  <2>4. QED
    BY <2>1, <2>2, <2>3 DEF SyncType, Stored
<1>11. CASE LinkPrevious
  <2>1. /\ sync.stage \in AtBlock /\ sync.block \in Blocks
        /\ sync.at = Height[sync.block] /\ sync.at <= sync.best
        /\ Stored(sync.block)
    BY <1>11 DEF LinkPrevious, SyncType, AtBlock
  <2>2. /\ sync' \in SyncRecord /\ sync'.stage = "import"
        /\ sync'.block = sync.block /\ sync'.at = sync.at
        /\ sync'.best = sync.best /\ sync'.marks = {"prune", "write"}
    BY <1>1, <1>11 DEF LinkPrevious, SyncRecord, Stages
  <2>3. sync.block # None /\ blocks'[sync.block] # None
    BY <1>11, <2>1, LinkPreviousDoes, TreeAssumption DEF Stored
  <2>4. QED
    BY <2>1, <2>2, <2>3 DEF SyncType, Stored
<1>12. ASSUME NEW m \in {"prune", "write"}, Import(m)
       PROVE  SyncType'
  <2>1. /\ sync.stage \in AtBlock /\ sync.block \in Blocks
        /\ sync.at = Height[sync.block] /\ sync.at <= sync.best
        /\ Stored(sync.block) /\ sync.stage = "import"
        /\ sync.marks \subseteq {"prune", "write"}
    BY <1>12 DEF Import, SyncType, AtBlock
  <2>2. sync' = [sync EXCEPT !.marks = sync.marks \ {m},
                             !.stage = IF sync.marks \ {m} = {} THEN "mark"
                                       ELSE sync.stage]
    BY <1>12 DEF Import
  <2>3. /\ sync' \in SyncRecord /\ sync'.stage \in {"import", "mark"}
        /\ sync'.block = sync.block /\ sync'.at = sync.at
        /\ sync'.best = sync.best /\ sync'.marks = sync.marks \ {m}
    BY <1>1, <2>1, <2>2 DEF SyncRecord, Stages
  <2>4. blocks' = blocks
    BY <1>12 DEF Import
  <2>5. QED
    BY <2>1, <2>3, <2>4 DEF SyncType, Stored
<1>13. CASE MarkProcessed
  <2>1. /\ sync.stage \in AtBlock /\ sync.block \in Blocks
        /\ sync.at = Height[sync.block] /\ sync.at <= sync.best
    BY <1>13 DEF MarkProcessed, SyncType, AtBlock
  <2>2. /\ sync' \in SyncRecord /\ sync'.stage = "next"
        /\ sync'.block = sync.block /\ sync'.at = sync.at
        /\ sync'.best = sync.best
    BY <1>1, <1>13 DEF MarkProcessed, Goto, SyncRecord, Stages
  <2>3. sync.block \in Processed'
    BY <1>13, MarkProcessedDoes
  <2>4. QED
    BY <2>1, <2>2, <2>3 DEF SyncType
<1>14. CASE NextHeight
  <2>1. (IF Tip = None THEN 0 ELSE Height[Tip] + 1) \in Nat
    BY <1>2
  <2>2. (IF sync.at = sync.best THEN Height[head] ELSE sync.best) \in Nat
    BY <1>1, <1>2 DEF SyncRecord
  <2>3. sync' = [sync EXCEPT !.stage = "fetch",
                   !.at = IF Tip = None THEN 0 ELSE Height[Tip] + 1,
                   !.best = IF sync.at = sync.best THEN Height[head]
                            ELSE sync.best]
    BY <1>14 DEF NextHeight
  <2>4. sync' \in SyncRecord /\ sync'.stage = "fetch"
    BY <1>1, <2>1, <2>2, <2>3 DEF SyncRecord, Stages
  <2>5. QED
    BY <2>4 DEF SyncType, AtBlock
<1>15. QED
  BY <1>3, <1>4, <1>5, <1>6, <1>7, <1>8, <1>9, <1>10, <1>11, <1>12, <1>13,
     <1>14 DEF Next, Sync, Aside

-----------------------------------------------------------------------------
(***************************************************************************)
(* The processed blocks                                                    *)
(***************************************************************************)

\* Three steps change them.
LEMMA ProcessedStep ==
  ASSUME TypeOK, SyncType, Ranked, Next
  PROVE  \/ Processed' = Processed
         \/ WriteBlock /\ Processed' = Processed \ {sync.block}
         \/ MarkProcessed /\ Processed' = Processed \cup {sync.block}
         \/ Undo("blocks") /\ Processed' = Kept
<1>1. CASE blocks' = blocks
  BY <1>1 DEF Processed, Stored
<1>2. CASE WriteBlock
  BY <1>2, WriteBlockDoes
<1>3. CASE LinkPrevious
  BY <1>3, LinkPreviousDoes
<1>4. CASE MarkProcessed
  BY <1>4, MarkProcessedDoes
<1>5. CASE Undo("blocks")
  BY <1>5, UndoDoes
<1>6. CASE Undo("txs")
  BY <1>1, <1>6, UndoDoes
<1>7. CASE ValidateLocators \/ CheckReorg \/ SyncFails \/ Crash \/ Aside
  BY <1>1, <1>7, Rollbacks, FailureDoes, AsideDoes DEF db
<1>8. CASE (\E b \in Blocks : NodeAdvances(b)) \/ HearHeader \/ Begin
             \/ NextHeight \/ GetBlock
  BY <1>1, <1>8 DEF NodeAdvances, HearHeader, Begin, NextHeight, GetBlock, db
<1>9. CASE End \/ \E m \in {"prune", "write"} : Import(m)
  BY <1>1, <1>9 DEF End, Import
<1>10. QED
  BY <1>2, <1>3, <1>4, <1>5, <1>6, <1>7, <1>8, <1>9 DEF Next, Sync, Aside

LEMMA RankedStep ==
  ASSUME TypeOK, SyncType, Ranked, Topped, Next
  PROVE  Ranked'
<1>1. CASE Processed' \subseteq Processed
  BY <1>1 DEF Ranked
<1>2. CASE MarkProcessed /\ Processed' = Processed \cup {sync.block}
  <2>1. /\ sync.block \in Blocks /\ sync.at = Height[sync.block]
        /\ \A b \in Processed \ {sync.block} : Height[b] < sync.at
    BY <1>2 DEF MarkProcessed, SyncType, AtBlock, OnTop, Topped
  <2>2. \A b \in Processed' : b \in Blocks /\ Height[b] \in Nat
    BY ParentType DEF Processed
  <2>3. \A b \in Processed' \ {sync.block} : Height[b] < Height[sync.block]
    BY <1>2, <2>1
  <2>4. Height[sync.block] \in Nat
    BY <2>1, ParentType
  <2>5. \A b \in Processed' : Height[b] <= Height[sync.block]
    BY <2>2, <2>3, <2>4
  <2>6. \A b, c \in Processed' : Height[b] = Height[c] => b = c
    <3>1. ASSUME NEW b \in Processed', NEW c \in Processed', Height[b] = Height[c]
          PROVE  b = c
      <4>1. CASE b \in Processed \ {sync.block} /\ c \in Processed \ {sync.block}
        BY <3>1, <4>1 DEF Ranked
      <4>2. CASE b = sync.block \/ c = sync.block
        BY <2>2, <2>3, <2>4, <3>1, <4>2
      <4>3. QED
        BY <1>2, <4>1, <4>2
    <3>2. QED
      BY <3>1
  <2>7. QED
    BY <2>4, <2>5, <2>6 DEF Ranked
<1>3. QED
  BY <1>1, <1>2, ProcessedStep DEF Kept

\* Steps after which sync is not at a block that it writes or rolls back to.
LEMMA Elsewhere ==
  ASSUME TypeOK, SyncType, Ranked,
         \/ (HearHeader /\ sync.stage = "idle") \/ Begin \/ End \/ GetBlock
         \/ NextHeight \/ SyncFails \/ Crash
  PROVE  sync'.stage \in {"begin", "idle", "fetch", "locate"}
<1>1. sync \in SyncRecord
  BY DEF SyncType
<1>2. CASE HearHeader /\ sync.stage = "idle"
  BY <1>2, RestingType DEF HearHeader
<1>3. CASE Begin
  BY <1>3 DEF Begin, Resting
<1>4. CASE End \/ SyncFails \/ Crash
  BY <1>4, FailureDoes, RestingType DEF End
<1>5. CASE GetBlock \/ NextHeight
  BY <1>1, <1>5 DEF GetBlock, NextHeight, SyncRecord
<1>6. QED
  BY <1>2, <1>3, <1>4, <1>5

\* Steps that are neither that nor steps of the import.
LEMMA Unmoved ==
  ASSUME TypeOK, SyncType, Ranked,
         \/ Aside \/ \E b \in Blocks : NodeAdvances(b)
         \/ HearHeader /\ sync.stage # "idle"
  PROVE  sync' = sync /\ blocks' = blocks /\ Processed' = Processed
         /\ astray' = astray /\ Kept' = Kept
<1>1. sync' = sync /\ blocks' = blocks /\ astray' = astray
  BY AsideDoes DEF NodeAdvances, HearHeader, db, history
<1>2. QED
  BY <1>1 DEF Processed, Stored, Kept

\* What sync' is after one delete of a rollback.
LEMMA UndoSync ==
  ASSUME TypeOK, SyncType, NEW m \in {"blocks", "txs"}, Undo(m)
  PROVE  /\ sync.stage = "undo" /\ sync.block \in Blocks
         /\ sync.at = Height[sync.block] /\ sync.from \in Nat
         /\ sync'.block = sync.block /\ sync'.at = sync.at
         /\ sync'.from = sync.from /\ sync'.then = sync.then
         /\ sync'.best = sync.best
         /\ sync'.marks = sync.marks \ {m}
         /\ \/ sync'.stage = "undo" /\ sync.marks = {"blocks", "txs"}
            \/ sync'.stage = sync.then /\ sync.marks = {m}
         /\ sync.then \in {"begin", "check", "write"}
         /\ astray' = astray /\ torn' = torn
<1>1. /\ sync \in SyncRecord /\ sync.stage = "undo" /\ m \in sync.marks
      /\ sync.marks \in {{"blocks", "txs"}, {"blocks"}, {"txs"}}
      /\ sync.block \in Blocks /\ sync.at = Height[sync.block]
  BY DEF SyncType, AtBlock, Undo
<1>2. sync' = [sync EXCEPT !.marks = sync.marks \ {m},
                           !.stage = IF sync.marks = {m} THEN sync.then
                                     ELSE sync.stage]
  BY DEF Undo
<1>3. /\ sync'.block = sync.block /\ sync'.at = sync.at
      /\ sync'.from = sync.from /\ sync'.then = sync.then
      /\ sync'.best = sync.best /\ sync'.marks = sync.marks \ {m}
      /\ sync'.stage = IF sync.marks = {m} THEN sync.then ELSE "undo"
      /\ sync.from \in Nat /\ sync.then \in {"begin", "check", "write"}
  BY <1>1, <1>2 DEF SyncRecord
<1>4. sync.marks # {m} => sync.marks = {"blocks", "txs"}
  BY <1>1
<1>5. astray' = astray /\ torn' = torn
  BY DEF Undo, history
<1>6. QED
  BY <1>1, <1>3, <1>4, <1>5

\* The steps of the import of a block.
Importing ==
    \/ WriteBlock \/ LinkPrevious \/ MarkProcessed
    \/ \E m \in {"prune", "write"} : Import(m)

LEMMA ImportingSync ==
  ASSUME TypeOK, SyncType, Importing
  PROVE  /\ sync.stage \in OnTop /\ sync'.stage \in OnTop \ {"write"}
         /\ sync.block \in Blocks /\ sync.at = Height[sync.block]
         /\ sync'.block = sync.block /\ sync'.at = sync.at
         /\ sync'.best = sync.best
         /\ astray' = astray /\ torn' = torn /\ missed' = missed
         /\ UNCHANGED node
         /\ Processed' \ {sync.block} = Processed \ {sync.block}
<1>1. sync \in SyncRecord
  BY DEF SyncType
<1>2. CASE WriteBlock
  <2>1. Processed' = Processed \ {sync.block}
    BY <1>2, WriteBlockDoes
  <2>2. QED
    BY <1>1, <1>2, <2>1
       DEF WriteBlock, Goto, SyncType, AtBlock, OnTop, SyncRecord, history
<1>3. CASE LinkPrevious
  <2>1. Processed' = Processed
    BY <1>3, LinkPreviousDoes
  <2>2. QED
    BY <1>1, <1>3, <2>1
       DEF LinkPrevious, SyncType, AtBlock, OnTop, SyncRecord, history
<1>4. CASE MarkProcessed
  <2>1. Processed' = Processed \cup {sync.block}
    BY <1>4, MarkProcessedDoes
  <2>2. QED
    BY <1>1, <1>4, <2>1
       DEF MarkProcessed, Goto, SyncType, AtBlock, OnTop, SyncRecord, history
<1>5. ASSUME NEW m \in {"prune", "write"}, Import(m)
      PROVE  /\ sync.stage \in OnTop /\ sync'.stage \in OnTop \ {"write"}
             /\ sync.block \in Blocks /\ sync.at = Height[sync.block]
             /\ sync'.block = sync.block /\ sync'.at = sync.at
             /\ sync'.best = sync.best
             /\ astray' = astray /\ torn' = torn /\ missed' = missed
             /\ UNCHANGED node
             /\ Processed' \ {sync.block} = Processed \ {sync.block}
  <2>1. Processed' = Processed
    BY <1>5 DEF Import, Processed, Stored
  <2>2. sync' = [sync EXCEPT !.marks = sync.marks \ {m},
                             !.stage = IF sync.marks \ {m} = {} THEN "mark"
                                       ELSE sync.stage]
    BY <1>5 DEF Import
  <2>3. /\ sync.stage = "import" /\ astray' = astray /\ torn' = torn
        /\ missed' = missed /\ UNCHANGED node
    BY <1>5 DEF Import
  <2>4. QED
    BY <1>1, <2>1, <2>2, <2>3 DEF SyncType, AtBlock, OnTop, SyncRecord
<1>6. QED
  BY <1>2, <1>3, <1>4, <1>5 DEF Importing

LEMMA ToppedStep ==
  ASSUME TypeOK, SyncType, Ranked, Topped, Next
  PROVE  Topped'
<1>1. sync \in SyncRecord
  BY DEF SyncType
<1>2. CASE \/ (HearHeader /\ sync.stage = "idle") \/ Begin \/ End \/ GetBlock
           \/ NextHeight \/ SyncFails \/ Crash
  BY <1>2, Elsewhere DEF Topped, OnTop
<1>3. CASE \/ Aside \/ \E b \in Blocks : NodeAdvances(b)
           \/ HearHeader /\ sync.stage # "idle"
  BY <1>3, Unmoved DEF Topped
<1>4. CASE Importing
  <2>1. \A b \in Processed' \ {sync.block} : Height[b] < sync.at
    BY <1>4, ImportingSync DEF Topped
  <2>2. QED
    BY <1>4, <2>1, ImportingSync DEF Topped, OnTop
<1>5. CASE ValidateLocators \/ CheckReorg
  <2>1. Processed' = Processed /\ Processed \subseteq Blocks
    BY <1>5, Rollbacks DEF db, Processed, Stored
  <2>2. CASE sync' = [sync EXCEPT !.stage = "check"]
    <3>1. sync'.stage = "check"
      BY <1>1, <2>2 DEF SyncRecord
    <3>2. QED
      BY <3>1 DEF Topped, OnTop
  <2>3. ASSUME sync.stage = "check", Passes(sync.block, "write")
        PROVE  Topped'
    <3>1. /\ sync'.stage = "write" /\ sync'.block = sync.block
          /\ sync'.at = sync.at
          /\ sync.block \in Blocks /\ sync.at = Height[sync.block]
      BY <1>1, <2>3 DEF Passes, SyncRecord, SyncType, AtBlock
    <3>2. ASSUME NEW b \in Processed \ {sync.block}
          PROVE  Height[b] < Height[sync.block]
      <4>1. /\ Tip \in Processed /\ Tip # None
            /\ b = Tip \/ Height[b] < Height[Tip]
        BY <3>2, TipType
      <4>2. /\ b \in Blocks /\ Tip \in Blocks
            /\ \A c \in {b, Tip, sync.block} : c \in Blocks /\ Height[c] \in Nat
        BY <2>1, <3>1, <3>2, <4>1, ParentType
      <4>3. CASE Tip = sync.block
        BY <3>2, <4>1, <4>3
      <4>4. CASE Tip = Parent[sync.block]
        <5>1. Height[Tip] < Height[sync.block]
          BY <3>1, <4>2, <4>4, ParentType
        <5>2. QED
          BY <4>1, <4>2, <5>1
      <4>5. CASE Tip = Genesis
        <5>1. Height[Tip] = 0
          BY <4>2, <4>5, ParentType
        <5>2. b = Genesis /\ sync.block # Genesis
          BY <3>2, <4>1, <4>2, <4>5, <5>1
        <5>3. Height[sync.block] # 0
          BY <3>1, <5>2, ParentType
        <5>4. QED
          BY <4>2, <4>5, <5>1, <5>2, <5>3
      <4>6. QED
        BY <2>3, <4>1, <4>3, <4>4, <4>5 DEF Passes
    <3>3. QED
      BY <2>1, <3>1, <3>2 DEF Topped
  <2>4. ASSUME NEW b \in Blocks, NEW onward \in {"check", "write"},
               onward = "write" => b = sync.block,
               NEW base \in Blocks, NEW then \in {onward, "begin"},
               RollsBack(b, onward, base, then)
        PROVE  Topped'
    <3>1. /\ sync'.stage = "undo" /\ sync'.marks = {"blocks", "txs"}
          /\ sync'.then = then /\ sync'.from = Height[base]
          /\ sync'.at = sync.at
      BY <1>1, <2>4 DEF RollsBack, SyncRecord
    <3>2. sync.at = Height[sync.block]
      BY <1>5, Rollbacks DEF SyncType, AtBlock
    <3>3. then = "write" => base = Parent[sync.block] /\ b = sync.block
      BY <2>4 DEF RollsBack
    <3>4. then = "write" => Height[base] < sync.at
      BY <2>4, <3>2, <3>3, ParentType
    <3>5. QED
      BY <3>1, <3>4 DEF Topped, OnTop
  <2>5. QED
    <3>1. \A b : Passes(b, "check") => sync' = [sync EXCEPT !.stage = "check"]
      BY DEF Passes
    <3>2. QED
      BY <1>5, <2>2, <2>3, <2>4, <3>1, Rollbacks
<1>6. ASSUME NEW m \in {"blocks", "txs"}, Undo(m)
      PROVE  Topped'
  <2>1. /\ sync.stage = "undo" /\ sync.block \in Blocks
        /\ sync.at = Height[sync.block] /\ sync.from \in Nat
        /\ sync'.block = sync.block /\ sync'.at = sync.at
        /\ sync'.from = sync.from /\ sync'.then = sync.then
        /\ sync'.marks = sync.marks \ {m}
        /\ \/ sync'.stage = "undo" /\ sync.marks = {"blocks", "txs"}
           \/ sync'.stage = sync.then /\ sync.marks = {m}
        /\ sync.then \in {"begin", "check", "write"}
    BY <1>6, UndoSync
  <2>2. "blocks" \notin sync'.marks => Processed' = Kept
    <3>1. CASE m = "blocks"
      BY <1>6, <3>1, UndoDoes
    <3>2. CASE m = "txs"
      <4>1. Processed' = Processed
        BY <1>6, <3>2, UndoDoes DEF Processed, Stored
      <4>2. QED
        BY <2>1, <3>2, <4>1 DEF Topped
    <3>3. QED
      BY <3>1, <3>2
  <2>3. CASE sync'.stage = "undo"
    <3>1. "blocks" \notin sync'.marks => Processed' = Kept'
      BY <2>1, <2>2 DEF Kept
    <3>2. QED
      BY <2>1, <2>3, <3>1 DEF Topped, OnTop
  <2>4. CASE sync'.stage = sync.then /\ sync.marks = {m}
    <3>1. Processed' = Kept
      BY <2>1, <2>2, <2>4
    <3>2. sync.then = "write" =>
             \A b \in Processed' : Height[b] < sync.at
      <4>1. \A b \in Kept : Height[b] < sync.from /\ Height[b] \in Nat
        BY ParentType DEF Kept, Processed
      <4>2. sync.at \in Nat
        BY <1>1 DEF SyncRecord
      <4>3. sync.then = "write" => sync.from < sync.at
        BY <2>1 DEF Topped
      <4>4. QED
        BY <2>1, <3>1, <4>1, <4>2, <4>3
    <3>3. QED
      BY <2>1, <2>4, <3>2 DEF Topped, OnTop
  <2>5. QED
    BY <2>1, <2>3, <2>4
<1>7. QED
  BY <1>2, <1>3, <1>4, <1>5, <1>6 DEF Next, Sync, Importing, Aside

LEMMA NothingMismatched ==
  ASSUME Ranked, Mismatched = {}, Chain(Processed)
  PROVE  Whole(Processed)
<1>1. Processed \subseteq Blocks
  BY DEF Processed
<1>2. CASE Processed = {}
  BY <1>2 DEF Whole
<1>3. CASE Processed # {}
  <2> DEFINE b == Highest(Processed)
             p == Parent[b]
             below == {a \in Processed : Height[a] < Height[b]}
  <2>1. /\ b \in Processed /\ b \in Blocks /\ Carries(Processed \ {b}, b)
        /\ \A a \in Processed \ {b} : Height[a] < Height[b]
        /\ Height[b] \in Nat
    BY <1>1, <1>3, ChainLast, ParentType
  <2>2. below = Processed \ {b}
    <3> HIDE DEF b
    <3>1. QED
      BY <2>1
  <2>3. CASE Processed \ {b} = Line[b] \ {b}
    <3>1. Processed = Line[b]
      BY <2>1, <2>3, LineSelf
    <3>2. QED
      BY <2>1, <3>1 DEF Whole
  <2>4. CASE p \in Blocks \ {Genesis} /\ Processed \ {b} = Line[b] \ {b, p}
    <3>1. Line[b] \ {b} = Line[p]
      BY <2>1, LineSelf, LineCut
    <3>2. Line[p] \ {p} = Line[Parent[p]] /\ Parent[p] \in Line[Parent[p]]
      BY <2>4, LineSelf, LineCut, ParentType
    <3>3. below # {}
      BY <2>2, <2>4, <3>1, <3>2
    <3>4. PICK k \in Nat : \A a \in Processed : Height[a] <= k
      BY DEF Ranked
    <3>5. Highest(below) \in below
      <4>1. below \subseteq Blocks /\ \A a \in below : Height[a] <= k
        BY <1>1, <3>4
      <4> HIDE DEF below
      <4>2. QED
        BY <3>3, <4>1, HighestIn
    <3>6. Joined(Highest(below), b)
      <4>1. ASSUME NEW d \in Processed,
                   {a \in Processed : Height[a] < Height[d]} # {},
                   ~Joined(Highest({a \in Processed : Height[a] < Height[d]}), d)
            PROVE  d \in Mismatched
        <5> DEFINE under(x) == Highest({a \in Processed : Height[a] < Height[x]})
                   U(x) == IF \/ {a \in Processed : Height[a] < Height[x]} = {}
                              \/ Joined(under(x), x)
                           THEN {} ELSE {under(x), x}
        <5>1. Mismatched = UNION {U(x) : x \in Processed}
          BY DEF Mismatched
        <5>2. d \in U(d)
          BY <4>1
        <5> HIDE DEF U
        <5>3. QED
          BY <5>1, <5>2
      <4>2. \A d \in Processed :
               \/ {a \in Processed : Height[a] < Height[d]} = {}
               \/ Joined(Highest({a \in Processed : Height[a] < Height[d]}), d)
        BY <4>1
      <4> HIDE DEF b
      <4>3. QED
        BY <2>1, <3>3, <4>2
    <3>7. p = Highest(below)
      BY <3>6 DEF Joined
    <3>8. QED
      BY <2>2, <2>4, <3>5, <3>7
  <2>5. QED
    BY <2>1, <2>3, <2>4 DEF Carries
<1>4. QED
  BY <1>2, <1>3

LEMMA ShapedStep ==
  ASSUME TypeOK, SyncType, Ranked, Topped, Shaped, Next, ~astray'
  PROVE  Shaped'
<1>1. sync \in SyncRecord /\ Processed \subseteq Blocks
  BY DEF SyncType, Processed
<1>2. CASE \/ (HearHeader /\ sync.stage = "idle") \/ Begin \/ End \/ GetBlock
           \/ NextHeight \/ SyncFails \/ Crash
  <2>1. astray' = astray /\ Processed' = Processed
    <3>1. astray' = astray /\ blocks' = blocks
      BY <1>2, FailureDoes
         DEF HearHeader, Begin, End, GetBlock, NextHeight, db, history
    <3>2. QED
      BY <3>1 DEF Processed, Stored
  <2>2. sync'.stage \in {"begin", "idle", "fetch", "locate"}
    BY <1>2, Elsewhere
  <2>3. QED
    BY <2>1, <2>2 DEF Shaped, OnTop
<1>3. CASE \/ Aside \/ \E b \in Blocks : NodeAdvances(b)
           \/ HearHeader /\ sync.stage # "idle"
  BY <1>3, Unmoved DEF Shaped
<1>4. CASE Importing
  <2>1. /\ ~astray /\ sync.block \in Blocks /\ sync'.block = sync.block
        /\ sync'.stage \in OnTop \ {"write"}
        /\ Processed' \ {sync.block} = Processed \ {sync.block}
        /\ Carries(Processed \ {sync.block}, sync.block)
    BY <1>4, ImportingSync DEF Shaped
  <2>2. Chain(Processed')
    <3>1. CASE sync.block \in Processed'
      <4>1. Processed' = (Processed \ {sync.block}) \cup {sync.block}
        BY <2>1, <3>1
      <4>2. QED
        BY <2>1, <4>1, CarriesChain
    <3>2. CASE sync.block \notin Processed'
      <4>1. Processed' = Processed \ {sync.block}
        BY <2>1, <3>2
      <4>2. QED
        BY <2>1, <4>1, CarriesType
    <3>3. QED
      BY <3>1, <3>2
  <2>3. QED
    BY <2>1, <2>2 DEF Shaped, OnTop
<1>5. CASE ValidateLocators \/ CheckReorg
  <2>1. Processed' = Processed /\ sync.stage \in {"locate", "check"}
    BY <1>5, Rollbacks DEF db, Processed, Stored
  <2>2. ~astray /\ Chain(Processed)
    <3>1. ~astray
      <4>1. \/ astray' = astray
            \/ \E b \in Blocks : astray' = (astray \/ Bottomed(b))
            \/ \E base \in Blocks :
                  astray' = (astray \/ base = Genesis \/ base \notin Processed)
        BY <1>5, Rollbacks DEF Passes, RollsBack
      <4>2. QED
        BY <4>1
    <3>2. QED
      BY <3>1 DEF Shaped
  <2>3. CASE /\ sync.stage = "locate" /\ Mismatched = {}
             /\ sync' = [sync EXCEPT !.stage = "check"]
    <3>1. sync'.stage = "check"
      BY <1>1, <2>3 DEF SyncRecord
    <3>2. QED
      BY <2>1, <2>2, <2>3, <3>1, NothingMismatched DEF Shaped, OnTop
  <2>4. ASSUME NEW b \in Processed, NEW c \in Processed, Height[b] < Height[c]
        PROVE  ~Passes(b, "check")
    <3>1. /\ Tip \in Processed /\ Tip # None
          /\ c = Tip \/ Height[c] < Height[Tip]
      BY <2>4, TipType
    <3>2. /\ b \in Blocks /\ c \in Blocks /\ Tip \in Blocks
          /\ Height[b] \in Nat /\ Height[c] \in Nat /\ Height[Tip] \in Nat
      BY <1>1, <3>1, ParentType
    <3>3. Height[b] < Height[Tip]
      BY <2>4, <3>1, <3>2
    <3>4. Tip # Genesis
      BY <3>2, <3>3, ParentType
    <3>5. Tip # Parent[b]
      <4>1. SUFFICES ASSUME Tip = Parent[b] PROVE FALSE
        OBVIOUS
      <4>2. Height[Tip] < Height[b]
        BY <3>2, <4>1, ParentType
      <4>3. QED
        BY <3>2, <3>3, <4>2
    <3>6. Tip # b
      BY <3>2, <3>3
    <3>7. QED
      BY <3>1, <3>4, <3>5, <3>6 DEF Passes
  <2>5. ASSUME sync.stage = "check", Passes(sync.block, "write")
        PROVE  Shaped'
    <3> DEFINE b == sync.block
    <3>1. sync'.stage = "write" /\ sync'.block = b /\ b \in Blocks
      BY <1>1, <2>5 DEF Passes, SyncRecord, SyncType, AtBlock
    <3>2. Whole(Processed) /\ Tip \in {Parent[b], b}
      BY <2>2, <2>5 DEF Shaped, Passes, Bottomed
    <3>3. Carries(Processed \ {b}, b)
      <4>1. CASE Processed = {}
        <5>1. Tip = None /\ b # None
          BY <3>1, <4>1, TipType, ParentType
        <5>2. Parent[b] = None
          BY <3>2, <5>1
        <5>3. Line[b] \ {b} = {}
          BY <3>1, <5>2, LineStep, LineNone
        <5>4. QED
          BY <4>1, <5>3 DEF Carries
      <4>2. CASE Processed # {}
        <5>1. Tip \in Processed /\ Tip = Highest(Processed)
          BY <4>2, TipType
        <5>2. Processed = Line[Tip]
          BY <1>1, <3>2, <4>2, <5>1, WholeLast
        <5>3. CASE Tip = b
          BY <5>2, <5>3 DEF Carries
        <5>4. CASE Tip = Parent[b]
          <6>1. Line[b] \ {b} = Line[Tip]
            BY <3>1, <5>4, LineSelf, LineCut
          <6>2. Processed \ {b} = Line[b] \ {b}
            BY <5>2, <6>1
          <6>3. QED
            BY <6>2 DEF Carries
        <5>5. QED
          BY <3>2, <5>3, <5>4
      <4>3. QED
        BY <4>1, <4>2
    <3>4. QED
      BY <2>1, <2>2, <3>1, <3>3 DEF Shaped, OnTop
  <2>6. ASSUME NEW b \in Blocks, NEW onward \in {"check", "write"},
               onward = "write" => b = sync.block,
               NEW base \in Blocks, NEW then \in {onward, "begin"},
               RollsBack(b, onward, base, then)
        PROVE  Shaped'
    <3>1. /\ sync'.stage = "undo" /\ sync'.block = sync.block
          /\ sync'.then = then /\ sync'.from = Height[base]
      BY <1>1, <2>6 DEF RollsBack, SyncRecord
    <3>2. Kept' = {c \in Processed : Height[c] < Height[base]}
      BY <2>1, <3>1 DEF Kept
    <3>3. ASSUME then # "begin"
          PROVE  /\ base = Parent[b] /\ base # Genesis
                 /\ Kept' = Line[base] \ {base}
      <4>1. /\ base = Parent[b] /\ base # Genesis /\ base \in Processed
            /\ base # Tip
        BY <2>6, <3>3 DEF RollsBack
      <4>2. base # Highest(Processed)
        BY <4>1, TipType
      <4>3. QED
        BY <1>1, <2>2, <3>2, <4>1, <4>2, CutAt
    <3>4. then = "check" => Whole(Kept')
      BY <3>3, WithoutLast
    <3>5. then = "write" => Carries(Kept', sync.block)
      <4>1. SUFFICES ASSUME then = "write"
                     PROVE  Carries(Kept', sync.block)
        OBVIOUS
      <4>2. b = sync.block /\ base = Parent[b] /\ base # Genesis
            /\ Kept' = Line[base] \ {base}
        BY <2>6, <3>3, <4>1
      <4>3. Line[b] \ {b} = Line[base]
        BY <4>2, LineSelf, LineCut
      <4>4. Line[b] \ {b, Parent[b]} = Line[base] \ {base}
        BY <4>2, <4>3
      <4>5. QED
        BY <4>2, <4>4 DEF Carries
    <3>6. QED
      BY <2>1, <2>2, <3>1, <3>4, <3>5 DEF Shaped, OnTop
  <2>7. QED
    BY <1>5, <2>3, <2>4, <2>5, <2>6, Rollbacks
<1>6. ASSUME NEW m \in {"blocks", "txs"}, Undo(m)
      PROVE  Shaped'
  <2>1. /\ sync.stage = "undo" /\ sync.block \in Blocks /\ sync.from \in Nat
        /\ sync'.block = sync.block
        /\ sync'.from = sync.from /\ sync'.then = sync.then
        /\ \/ sync'.stage = "undo" /\ sync.marks = {"blocks", "txs"}
           \/ sync'.stage = sync.then /\ sync.marks = {m}
        /\ sync.then \in {"begin", "check", "write"}
        /\ ~astray
    BY <1>6, UndoSync
  <2>2. Processed' = Kept \/ (m = "txs" /\ Processed' = Processed)
    BY <1>6, UndoDoes DEF Processed, Stored
  <2>3. Kept' = Kept
    BY <2>1, <2>2 DEF Kept
  <2>4. Chain(Processed) /\ Chain(Kept)
    BY <1>1, <2>1, ChainCut DEF Shaped, Kept
  <2>5. CASE sync'.stage = "undo"
    BY <2>1, <2>2, <2>3, <2>4, <2>5 DEF Shaped, OnTop
  <2>6. CASE sync'.stage = sync.then /\ sync.marks = {m}
    <3>1. Processed' = Kept
      BY <2>1, <2>2, <2>6 DEF Topped
    <3>2. sync.then = "write" => Carries(Kept \ {sync.block}, sync.block)
      <4>1. SUFFICES ASSUME sync.then = "write"
                     PROVE  Carries(Kept \ {sync.block}, sync.block)
        OBVIOUS
      <4>2. Carries(Kept, sync.block)
        BY <2>1, <4>1 DEF Shaped
      <4>3. Kept \ {sync.block} = Kept
        BY <2>1, <4>2, CarriesType
      <4>4. QED
        BY <4>2, <4>3
    <3>3. sync.then = "check" => Whole(Kept)
      BY <2>1 DEF Shaped
    <3>4. QED
      BY <2>1, <2>4, <2>6, <3>1, <3>2, <3>3 DEF Shaped, OnTop
  <2>7. QED
    BY <2>1, <2>5, <2>6
<1>7. QED
  BY <1>2, <1>3, <1>4, <1>5, <1>6 DEF Next, Sync, Importing, Aside

-----------------------------------------------------------------------------
(***************************************************************************)
(* The node's best block                                                   *)
(***************************************************************************)

LEMMA ReachedStays ==
  ASSUME Processed' = Processed, head' = head, Reached
  PROVE  Reached'
BY DEF Reached, Tip

LEMMA UpToDateStep ==
  ASSUME TypeOK, SyncType, Ranked, Topped, UpToDate, Next, Informed'
  PROVE  UpToDate'
<1>1. sync \in SyncRecord /\ head \in Blocks /\ Height[head] \in Nat
  BY ParentType DEF SyncType, TypeOK
<1>2. ASSUME NEW b \in Blocks, NodeAdvances(b)
      PROVE  FALSE
  BY <1>2 DEF NodeAdvances, Informed
<1>3. CASE HearHeader
  <2>1. sync.stage = "idle"
    BY <1>3 DEF HearHeader, Informed
  <2>2. sync'.stage = "begin"
    BY <1>3, <2>1, RestingType DEF HearHeader
  <2>3. QED
    BY <2>2 DEF UpToDate, AtBlock
<1>4. CASE SyncFails \/ Crash
  <2>1. sync'.stage = "begin"
    BY <1>4, FailureDoes, RestingType
  <2>2. QED
    BY <2>1 DEF UpToDate, AtBlock
<1>5. CASE Aside
  <2>1. UNCHANGED <<node, sync, missed>> /\ Processed' = Processed
    BY <1>5, AsideDoes DEF Processed, Stored
  <2>2. Informed /\ head' = head /\ sync' = sync
    BY <2>1 DEF Informed, node
  <2>3. QED
    BY <2>1, <2>2, ReachedStays DEF UpToDate
<1>6. CASE Begin
  <2>1. /\ sync'.stage = "fetch" /\ sync'.best = Height[head] /\ head' = head
        /\ sync'.at = IF Tip = None THEN 0 ELSE Height[Tip]
        /\ Processed' = Processed
    BY <1>6 DEF Begin, Resting, node, db, Processed, Stored
  <2>2. ASSUME sync'.best < sync'.at
        PROVE  Reached
    <3>1. Tip # None
      BY <1>1, <2>1, <2>2
    <3>2. Height[head] < Height[Tip]
      BY <2>1, <2>2, <3>1
    <3>3. QED
      BY <3>2 DEF Reached
  <2>3. QED
    BY <2>1, <2>2, ReachedStays DEF UpToDate, AtBlock
<1>7. CASE End
  <2>1. /\ sync'.stage = "idle" /\ sync.stage = "fetch" /\ sync.best < sync.at
        /\ head' = head /\ Processed' = Processed /\ missed' = missed
        /\ header' = header
    <3>1. sync.best < sync.at
      BY <1>1, <1>7 DEF End, SyncRecord
    <3>2. QED
      BY <1>7, <3>1, RestingType DEF End, node, history, Processed, Stored
  <2>2. Reached
    BY <2>1 DEF UpToDate, Informed
  <2>3. QED
    BY <2>1, <2>2, ReachedStays DEF UpToDate, AtBlock
<1>8. CASE GetBlock
  <2>1. PICK b \in Line[head] :
           /\ Height[b] = sync.at
           /\ sync' = [sync EXCEPT !.stage = "locate", !.block = b]
    BY <1>8 DEF GetBlock
  <2>2. /\ sync.stage = "fetch" /\ head' = head /\ Informed
        /\ sync'.stage = "locate" /\ sync'.block = b
        /\ sync'.at = sync.at /\ sync'.best = sync.best
    BY <1>1, <1>8, <2>1 DEF GetBlock, SyncRecord, node, history, Informed
  <2>3. sync.best = Height[head]
    BY <2>2 DEF UpToDate
  <2>4. sync.at = sync.best => b = head
    <3>1. head \in Line[head]
      BY <1>1, LineSelf
    <3>2. QED
      BY <1>1, <2>1, <2>3, <3>1, SameHeight
  <2>5. QED
    BY <2>2, <2>3, <2>4 DEF UpToDate
<1>9. CASE ValidateLocators \/ CheckReorg
  <2>1. /\ sync.stage \in {"locate", "check"} /\ head' = head /\ Informed
    BY <1>9, Rollbacks DEF node, Informed
  <2>2. /\ sync'.stage \in {"check", "write", "undo"}
        /\ sync'.at = sync.at /\ sync'.best = sync.best
        /\ sync'.block = sync.block
    <3>1. \/ \E onward \in {"check", "write"} :
                sync' = [sync EXCEPT !.stage = onward]
          \/ \E base \in Blocks, then \in {"check", "write", "begin"} :
                sync' = [sync EXCEPT !.stage = "undo", !.from = Height[base],
                            !.marks = {"blocks", "txs"}, !.then = then]
      BY <1>9, Rollbacks DEF Passes, RollsBack
    <3>2. QED
      BY <1>1, <3>1 DEF SyncRecord
  <2>3. QED
    BY <2>1, <2>2 DEF UpToDate, AtBlock
<1>10. ASSUME NEW m \in {"blocks", "txs"}, Undo(m)
       PROVE  UpToDate'
  <2>1. /\ sync.stage = "undo"
        /\ sync'.stage \in {"undo", "begin", "check", "write"}
        /\ sync'.at = sync.at /\ sync'.best = sync.best
        /\ sync'.block = sync.block
    BY <1>10, UndoSync
  <2>2. Informed /\ head' = head
    BY <1>10 DEF Undo, Informed, node, history
  <2>3. QED
    BY <2>1, <2>2 DEF UpToDate, AtBlock
<1>11. CASE Importing
  <2>1. /\ sync.stage \in OnTop /\ sync'.stage \in OnTop
        /\ sync'.block = sync.block /\ sync'.at = sync.at
        /\ sync'.best = sync.best /\ missed' = missed /\ UNCHANGED node
    BY <1>11, ImportingSync
  <2>2. Informed /\ head' = head
    BY <2>1 DEF Informed, node
  <2>3. QED
    BY <2>1, <2>2 DEF UpToDate, AtBlock, OnTop
<1>12. CASE NextHeight
  <2>1. /\ sync.stage = "next" /\ sync.block \in Processed
        /\ sync.block \in Blocks /\ sync.at = Height[sync.block]
        /\ sync.at <= sync.best /\ sync.at \in Nat /\ sync.best \in Nat
        /\ \A b \in Processed \ {sync.block} : Height[b] < sync.at
    BY <1>1, <1>12
       DEF NextHeight, SyncType, AtBlock, Topped, OnTop, SyncRecord
  <2>2. Tip = sync.block
    <3>1. Tip \in Processed /\ Tip # None
      BY <2>1, TipType
    <3>2. Tip # sync.block => Height[sync.block] < Height[Tip]
      BY <2>1, TipType
    <3>3. Height[Tip] \in Nat
      BY <3>1, ParentType DEF Processed
    <3>4. Tip # sync.block => Height[Tip] < Height[sync.block]
      BY <2>1, <3>1
    <3>5. QED
      BY <2>1, <3>2, <3>3, <3>4
  <2>3. /\ sync'.stage = "fetch" /\ sync'.at = sync.at + 1 /\ head' = head
        /\ sync'.best = IF sync.at = sync.best THEN Height[head] ELSE sync.best
        /\ header' = header
        /\ missed' = (missed /\ ~(sync.at = sync.best /\ Height[head] > sync.best))
        /\ Processed' = Processed
    <3>1. Tip # None
      BY <2>1, <2>2, ParentType
    <3>2. QED
      BY <1>1, <1>12, <2>1, <2>2, <3>1
         DEF NextHeight, SyncRecord, node, db, Processed, Stored
  <2>4. CASE Informed
    <3>1. sync.best = Height[head]
      BY <2>1, <2>4 DEF UpToDate
    <3>2. sync.at = sync.best => Reached
      BY <2>1, <2>4 DEF UpToDate, AtBlock, Reached
    <3>3. sync'.best < sync'.at => sync.at = sync.best
      BY <2>1, <2>3, <3>1
    <3>4. QED
      BY <2>3, <3>1, <3>2, <3>3, ReachedStays DEF UpToDate, AtBlock
  <2>5. CASE ~Informed
    <3>1. sync.at = sync.best /\ Height[head] > sync.best
      BY <2>3, <2>5 DEF Informed
    <3>2. ~(sync'.best < sync'.at)
      BY <1>1, <2>1, <2>3, <3>1
    <3>3. QED
      BY <2>3, <3>1, <3>2 DEF UpToDate, AtBlock
  <2>6. QED
    BY <2>4, <2>5
<1>13. QED
  BY <1>2, <1>3, <1>4, <1>5, <1>6, <1>7, <1>8, <1>9, <1>10, <1>11, <1>12
     DEF Next, Sync, Importing, Aside


-----------------------------------------------------------------------------
(***************************************************************************)
(* The transactions                                                        *)
(***************************************************************************)

LEMMA NamesApart ==
  /\ None \notin Blocks /\ Pending \notin Blocks /\ Conflicting \notin Blocks
  /\ "none" \notin Blocks /\ "told" \notin Blocks
  /\ Pending # None /\ Conflicting # None /\ Pending # Conflicting
BY TreeAssumption, NameAssumption DEF Pending, Conflicting

LEMMA RivalsAreMutual ==
  ASSUME NEW s \in Txs, NEW t \in Rivals(s)
  PROVE  t \in Txs /\ s \in Rivals(t)
BY DEF Rivals

\* Steps that leave the transactions alone, and come neither upon nor out of a
\* half of a rollback.
Settles ==
    /\ UNCHANGED <<txs, early, raced, Due>>
    /\ Processed' \subseteq Processed
    /\ \A b \in Blocks : Stored(b) => Stored(b)'
    /\ ~Written' /\ ~Cleared'
    /\ \A b \in Blocks : ~BlocksGone(b)' /\ ~TxsGone(b)'
    /\ ~torn' => ~torn /\ \A b \in Blocks : ~BlocksGone(b) /\ ~TxsGone(b)
    /\ ~astray' => ~astray

LEMMA Settling ==
  ASSUME TypeOK, SyncType, Ranked,
         \/ HearHeader /\ sync.stage = "idle"
         \/ Begin \/ End \/ GetBlock \/ NextHeight \/ SyncFails \/ Crash
         \/ ValidateLocators \/ CheckReorg \/ WriteBlock \/ LinkPrevious
  PROVE  Settles
<1>1. sync \in SyncRecord
  BY DEF SyncType
<1>2. CASE \/ HearHeader /\ sync.stage = "idle"
           \/ Begin \/ End \/ GetBlock \/ NextHeight
  <2>1. /\ UNCHANGED <<blocks, txs, early, raced, Due, torn, astray>>
        /\ sync.stage \in {"idle", "begin", "fetch", "next"}
    BY <1>2 DEF HearHeader, Begin, End, GetBlock, NextHeight, db, mempool,
                history, Due
  <2>2. sync'.stage \in {"begin", "idle", "fetch", "locate"}
    BY <1>2, Elsewhere
  <2>3. QED
    BY <2>1, <2>2
       DEF Settles, Processed, Stored, Written, Cleared, BlocksGone, TxsGone
<1>3. CASE SyncFails \/ Crash
  <2>1. /\ UNCHANGED <<blocks, txs, early, raced, Due, astray>>
        /\ torn' = (torn \/ Tearing) /\ sync'.stage = "begin"
    BY <1>3, FailureDoes, RestingType DEF db, Due
  <2>2. ~torn' => ~torn /\ \A b \in Blocks : ~BlocksGone(b) /\ ~TxsGone(b)
    <3>1. {"txs"} # {"blocks", "txs"} /\ {"blocks"} # {"blocks", "txs"}
      <4>1. "blocks" \notin {"txs"} /\ "txs" \notin {"blocks"}
        OBVIOUS
      <4>2. QED
        BY <4>1
    <3>2. Tearing \/ \A b \in Blocks : ~BlocksGone(b) /\ ~TxsGone(b)
      BY <3>1 DEF Tearing, BlocksGone, TxsGone
    <3>3. QED
      BY <2>1, <3>2
  <2>3. QED
    BY <2>1, <2>2
       DEF Settles, Processed, Stored, Written, Cleared, BlocksGone, TxsGone
<1>4. CASE ValidateLocators \/ CheckReorg
  <2>1. /\ UNCHANGED <<blocks, txs, early, raced, Due, torn>>
        /\ sync.stage \in {"locate", "check"}
    BY <1>4, Rollbacks DEF db, mempool, Due
  <2>2. ~astray' => ~astray
    <3>1. \/ astray' = astray
          \/ \E b \in Blocks : astray' = (astray \/ Bottomed(b))
          \/ \E base \in Blocks :
                astray' = (astray \/ base = Genesis \/ base \notin Processed)
      BY <1>4, Rollbacks DEF Passes, RollsBack
    <3>2. QED
      BY <3>1
  <2>3. \/ sync'.stage \in {"check", "write"}
        \/ sync'.stage = "undo" /\ sync'.marks = {"blocks", "txs"}
    <3>1. \/ \E onward \in {"check", "write"} :
                sync' = [sync EXCEPT !.stage = onward]
          \/ \E base \in Blocks, then \in {"check", "write", "begin"} :
                sync' = [sync EXCEPT !.stage = "undo", !.from = Height[base],
                            !.marks = {"blocks", "txs"}, !.then = then]
      BY <1>4, Rollbacks DEF Passes, RollsBack
    <3>2. QED
      BY <1>1, <3>1 DEF SyncRecord
  <2>4. QED
    BY <2>1, <2>2, <2>3
       DEF Settles, Processed, Stored, Written, Cleared, BlocksGone, TxsGone
<1>5. CASE WriteBlock
  <2>1. /\ UNCHANGED <<txs, early, raced, Due, torn, astray>>
        /\ sync.stage = "write" /\ sync'.stage = "link"
    BY <1>1, <1>5 DEF WriteBlock, Goto, SyncRecord, mempool, history, Due
  <2>2. Processed' \subseteq Processed /\ \A b \in Blocks : Stored(b) => Stored(b)'
    BY <1>5, WriteBlockDoes
  <2>3. QED
    BY <2>1, <2>2 DEF Settles, Written, Cleared, BlocksGone, TxsGone
<1>6. CASE LinkPrevious
  <2>1. /\ UNCHANGED <<txs, early, raced, Due, torn, astray>>
        /\ sync.stage = "link"
        /\ sync'.stage = "import" /\ sync'.marks = {"prune", "write"}
    BY <1>1, <1>6 DEF LinkPrevious, SyncRecord, mempool, history, Due
  <2>2. Processed' = Processed /\ \A b \in Blocks : Stored(b) => Stored(b)'
    BY <1>6, LinkPreviousDoes
  <2>3. QED
    BY <2>1, <2>2 DEF Settles, Written, Cleared, BlocksGone, TxsGone
<1>7. QED
  BY <1>2, <1>3, <1>4, <1>5, <1>6

\* Steps that change nothing that the transactions' invariants speak of.
Bypasses == UNCHANGED <<blocks, txs, sync, early, raced, Due, torn, astray>>

LEMMA Bypassing ==
  ASSUME \/ \E b \in Blocks : NodeAdvances(b)
         \/ HearHeader /\ sync.stage # "idle"
         \/ \E t \in Txs : Announce(t) \/ PruneLost(t)
  PROVE  Bypasses
BY DEF Bypasses, NodeAdvances, HearHeader, Announce, PruneLost, db, mempool,
       history, Due

\* Every other step is one that the transactions' invariants treat by itself.
LEMMA Kinds ==
  ASSUME TypeOK, SyncType, Ranked, Next
  PROVE  \/ Settles \/ Bypasses \/ MarkProcessed
         \/ \E m \in {"blocks", "txs"} : Undo(m)
         \/ \E m \in {"prune", "write"} : Import(m)
         \/ \E t \in Txs : GetTransaction(t) \/ InsertTx(t) \/ Prune(t)
BY Settling, Bypassing DEF Next, Sync

LEMMA UndoTxs ==
  ASSUME TypeOK, NEW m \in {"blocks", "txs"}, Undo(m)
  PROVE  /\ UNCHANGED <<relay, early, raced, Due>>
         /\ \A t \in Txs :
               txs'[t] = IF /\ m = "txs" /\ txs[t] \in Blocks
                            /\ Height[txs[t]] >= sync.from
                         THEN None ELSE txs[t]
BY DEF Undo, mempool, history, Due

LEMMA ImportDoes ==
  ASSUME TypeOK, SyncType, NEW m \in {"prune", "write"}, Import(m)
  PROVE  /\ sync.stage = "import" /\ m \in sync.marks
         /\ sync.block \in Blocks /\ Stored(sync.block)
         /\ sync'.block = sync.block /\ sync'.marks = sync.marks \ {m}
         /\ sync'.stage = IF sync.marks \ {m} = {} THEN "mark" ELSE "import"
         /\ UNCHANGED <<blocks, relay, astray, torn>> /\ Processed' = Processed
         /\ m = "write" =>
               /\ \A t \in Txs : txs'[t] = IF t \in TxsIn[sync.block]
                                           THEN sync.block ELSE txs[t]
               /\ early' = early \ TxsIn[sync.block]
               /\ raced' = raced /\ Due' = Due
         /\ m = "prune" =>
               /\ early' = early /\ txs' = txs
               /\ raced \cup Due \cup TxsIn[sync.block] \subseteq raced' \cup Due'
               /\ raced \subseteq raced'
<1>1. sync \in SyncRecord /\ sync.stage = "import"
  BY DEF SyncType, Import
<1>2. sync.block \in Blocks /\ Stored(sync.block) /\ m \in sync.marks
  BY <1>1 DEF SyncType, AtBlock, Import
<1>3. /\ sync'.block = sync.block /\ sync'.marks = sync.marks \ {m}
      /\ sync'.stage = IF sync.marks \ {m} = {} THEN "mark" ELSE "import"
  BY <1>1 DEF Import, SyncRecord
<1>4. UNCHANGED <<blocks, relay, astray, torn>>
  BY DEF Import, mempool
<1>5. Processed' = Processed
  BY <1>4 DEF Processed, Stored
<1>6. m = "write" =>
         /\ \A t \in Txs : txs'[t] = IF t \in TxsIn[sync.block]
                                     THEN sync.block ELSE txs[t]
         /\ early' = early \ TxsIn[sync.block]
         /\ raced' = raced /\ Due' = Due
  BY DEF Import, Due
<1>7. m = "prune" =>
         /\ early' = early /\ txs' = txs
         /\ raced \cup Due \cup TxsIn[sync.block] \subseteq raced' \cup Due'
         /\ raced \subseteq raced'
  BY DEF Import, Due
<1>8. QED
  BY <1>1, <1>2, <1>3, <1>4, <1>5, <1>6, <1>7

LEMMA MarkDoes ==
  ASSUME TypeOK, SyncType, MarkProcessed
  PROVE  /\ sync.stage = "mark" /\ sync'.stage = "next"
         /\ sync.block \in Blocks /\ Processed' = Processed \cup {sync.block}
         /\ \A b \in Blocks : Stored(b)' <=> Stored(b)
         /\ UNCHANGED <<txs, relay, early, raced, Due, torn, astray>>
<1>1. sync \in SyncRecord /\ sync.stage = "mark"
  BY DEF SyncType, MarkProcessed
<1>2. sync'.stage = "next" /\ sync.block \in Blocks
  BY <1>1 DEF MarkProcessed, Goto, SyncRecord, SyncType, AtBlock
<1>3. QED
  BY <1>1, <1>2, MarkProcessedDoes DEF MarkProcessed, mempool, history, Due

\* What is stored of a transaction that the node is asked for is left alone.
LEMMA GetDoes ==
  ASSUME TypeOK, NEW t \in Txs, GetTransaction(t)
  PROVE  /\ UNCHANGED <<blocks, txs, sync, early, raced, torn, astray>>
         /\ Due \subseteq Due'
         /\ \A s \in Txs : \/ relay'[s] \in {relay[s], Pending, "none"}
                           \/ /\ s = t
                              /\ \E b \in Blocks : /\ relay'[s] = b
                                                   /\ t \in TxsIn[b]
<1>1. UNCHANGED <<blocks, txs, sync, early, raced, torn, astray>>
  BY DEF GetTransaction, db
<1>2. Due \subseteq Due'
  BY DEF GetTransaction, Due
<1>4. Line[head] \subseteq Blocks
  BY LineType DEF TypeOK
<1>5. \/ relay' = [relay EXCEPT ![t] = "none"]
      \/ relay' = [relay EXCEPT ![t] = Pending]
      \/ \E b \in Blocks : t \in TxsIn[b] /\ relay' = [relay EXCEPT ![t] = b]
  BY <1>4 DEF GetTransaction
<1>6. \A s \in Txs : \/ relay'[s] \in {relay[s], Pending, "none"}
                     \/ /\ s = t
                        /\ \E b \in Blocks : relay'[s] = b /\ t \in TxsIn[b]
  BY <1>5 DEF TypeOK
<1>7. QED
  BY <1>1, <1>2, <1>6

LEMMA PruneDoes ==
  ASSUME TypeOK, NEW t \in Txs, Prune(t)
  PROVE  /\ UNCHANGED <<blocks, sync, relay, early, raced, torn, astray>>
         /\ Due \subseteq Due' \cup {t}
         /\ \A s \in Txs : \/ /\ txs'[s] = txs[s]
                              /\ txs[s] # Pending \/ t \notin Rivals(s)
                           \/ txs[s] = Pending /\ txs'[s] = Conflicting
<1>1. UNCHANGED <<blocks, sync, relay, early, raced, torn, astray>>
  BY DEF Prune, history
<1>2. Due \subseteq Due' \cup {t}
  BY DEF Prune, Due, history
<1>3. txs' = Pruned({t}) /\ txs \in [Txs -> Blocks \cup {None, Pending, Conflicting}]
  BY DEF Prune, TypeOK
<1>4. \A s \in Txs : txs'[s] = IF txs[s] = Pending /\ Rivals(s) \cap {t} # {}
                                THEN Conflicting ELSE txs[s]
  BY <1>3, PrunedType
<1>5. QED
  BY <1>1, <1>2, <1>4

LEMMA InsertDoes ==
  ASSUME TypeOK, NEW t \in Txs, InsertTx(t)
  PROVE  /\ UNCHANGED <<blocks, sync, sent, lost, torn, astray>>
         /\ \A s \in Txs : relay'[s] \in {relay[s], "none"}
         /\ \/ UNCHANGED <<txs, early, raced>>
            \/ /\ txs[t] = None /\ txs'[t] = relay[t]
               /\ \A s \in Txs \ {t} : txs'[s] = txs[s]
               /\ relay[t] \in Blocks \cup {Pending}
               /\ early' = IF relay[t] \in Blocks THEN early \cup {t} ELSE early
               /\ raced' = IF \E s \in Rivals(t) \ sent :
                                     txs[s] \in Blocks \/ BeingMined(s)
                           THEN raced \cup {t} ELSE raced
BY DEF InsertTx, TypeOK

LEMMA MinedWhereItIsStep ==
  ASSUME TypeOK, SyncType, Ranked, MinedWhereItIs, Next
  PROVE  MinedWhereItIs'
<1>1. ASSUME NEW t \in Txs, txs'[t] \in Blocks
      PROVE  t \in TxsIn[txs'[t]]
  <2>1. CASE Settles \/ Bypasses \/ MarkProcessed
    BY <1>1, <2>1, MarkDoes DEF Settles, Bypasses, MinedWhereItIs
  <2>2. ASSUME NEW m \in {"blocks", "txs"}, Undo(m)
        PROVE  t \in TxsIn[txs'[t]]
    BY <1>1, <2>2, UndoTxs, NamesApart DEF MinedWhereItIs
  <2>3. ASSUME NEW m \in {"prune", "write"}, Import(m)
        PROVE  t \in TxsIn[txs'[t]]
    <3>1. \/ txs'[t] = txs[t]
          \/ t \in TxsIn[sync.block] /\ txs'[t] = sync.block
      BY <2>3, ImportDoes
    <3>2. QED
      BY <1>1, <3>1 DEF MinedWhereItIs
  <2>4. ASSUME NEW s \in Txs, GetTransaction(s)
        PROVE  t \in TxsIn[txs'[t]]
    BY <1>1, <2>4, GetDoes, NamesApart DEF MinedWhereItIs
  <2>5. ASSUME NEW s \in Txs, InsertTx(s)
        PROVE  t \in TxsIn[txs'[t]]
    BY <1>1, <2>5, InsertDoes DEF MinedWhereItIs
  <2>6. ASSUME NEW s \in Txs, Prune(s)
        PROVE  t \in TxsIn[txs'[t]]
    BY <1>1, <2>6, PruneDoes, NamesApart DEF MinedWhereItIs
  <2>7. QED
    BY <2>1, <2>2, <2>3, <2>4, <2>5, <2>6, Kinds
<1>2. ASSUME NEW t \in Txs, relay'[t] \in Blocks
      PROVE  t \in TxsIn[relay'[t]]
  <2>1. CASE relay' = relay
    BY <1>2, <2>1 DEF MinedWhereItIs
  <2>2. CASE SyncFails \/ Crash
    <3>1. relay'[t] \in {relay[t], "none"}
      BY <2>2, FailureDoes
    <3>2. QED
      BY <1>2, <3>1, NamesApart DEF MinedWhereItIs
  <2>3. ASSUME NEW s \in Txs, Announce(s)
        PROVE  t \in TxsIn[relay'[t]]
    <3>1. relay'[t] \in {relay[t], "told"}
      BY <2>3 DEF Announce, TypeOK
    <3>2. QED
      BY <1>2, <3>1, NamesApart DEF MinedWhereItIs
  <2>4. ASSUME NEW s \in Txs, GetTransaction(s)
        PROVE  t \in TxsIn[relay'[t]]
    BY <1>2, <2>4, GetDoes, NamesApart DEF MinedWhereItIs
  <2>5. ASSUME NEW s \in Txs, InsertTx(s)
        PROVE  t \in TxsIn[relay'[t]]
    BY <1>2, <2>5, InsertDoes, NamesApart DEF MinedWhereItIs
  <2>6. relay' = relay \/ SyncFails \/ Crash \/ Aside
    BY DEF Next, Sync, Aside, NodeAdvances, HearHeader, Begin, End, GetBlock,
           ValidateLocators, CheckReorg, Undo, WriteBlock, LinkPrevious,
           Import, MarkProcessed, NextHeight, mempool
  <2>7. ASSUME NEW s \in Txs, Prune(s) \/ PruneLost(s)
        PROVE  relay' = relay
    BY <2>7 DEF Prune, PruneLost
  <2>8. QED
    BY <2>1, <2>2, <2>3, <2>4, <2>5, <2>6, <2>7 DEF Aside
<1>3. QED
  BY <1>1, <1>2 DEF MinedWhereItIs

LEMMA BackedStep ==
  ASSUME TypeOK, SyncType, Ranked, Backed, Next
  PROVE  Backed'
<1> SUFFICES ASSUME ~torn', NEW t \in Txs, t \notin early',
                    NEW b \in Blocks, txs'[t] = b
             PROVE  /\ Stored(b)' \/ BlocksGone(b)'
                    /\ ~TxsGone(b)'
  BY DEF Backed
<1>1. CASE Settles
  <2>1. /\ ~torn /\ t \notin early /\ txs[t] = b /\ b \in Blocks
        /\ ~BlocksGone(b) /\ ~TxsGone(b) /\ ~TxsGone(b)'
        /\ Stored(b) => Stored(b)'
    BY <1>1 DEF Settles
  <2>2. Stored(b)
    BY <2>1 DEF Backed
  <2>3. QED
    BY <2>1, <2>2
<1>2. CASE Bypasses
  BY <1>2 DEF Bypasses, Backed, Stored, BlocksGone, TxsGone
<1>3. CASE MarkProcessed
  <2>1. /\ ~torn /\ t \notin early /\ txs[t] = b
        /\ Stored(b)' <=> Stored(b)
        /\ sync.stage = "mark" /\ sync'.stage = "next"
    BY <1>3, MarkDoes
  <2>2. Stored(b) \/ BlocksGone(b)
    BY <2>1 DEF Backed
  <2>3. ~BlocksGone(b) /\ ~TxsGone(b)'
    BY <2>1 DEF BlocksGone, TxsGone
  <2>4. QED
    BY <2>1, <2>2, <2>3
<1>4. ASSUME NEW m \in {"blocks", "txs"}, Undo(m)
      PROVE  /\ Stored(b)' \/ BlocksGone(b)'
             /\ ~TxsGone(b)'
  <2>1. /\ sync.stage = "undo" /\ sync.from \in Nat /\ sync'.from = sync.from
        /\ sync'.marks = sync.marks \ {m}
        /\ \/ sync'.stage = "undo" /\ sync.marks = {"blocks", "txs"}
           \/ sync'.stage = sync.then /\ sync.marks = {m}
        /\ sync.then # "undo" /\ torn' = torn /\ Height[b] \in Nat
    BY <1>4, UndoSync, ParentType
  <2>2. /\ t \notin early /\ txs[t] = b
        /\ m = "txs" => Height[b] < sync.from
    BY <1>4, <2>1, UndoTxs, NamesApart
  <2>3. /\ Stored(b) \/ BlocksGone(b)
        /\ ~TxsGone(b)
    BY <2>1, <2>2 DEF Backed
  <2>4. CASE m = "blocks"
    <3>1. Stored(b)' <=> Stored(b) /\ Height[b] < sync.from
      BY <1>4, <2>4, UndoDoes
    <3>2. Stored(b)
      BY <2>1, <2>3, <2>4 DEF BlocksGone
    <3>3. CASE sync'.stage = "undo"
      <4>1. sync'.marks = {"txs"} /\ sync'.marks # {"blocks"}
        BY <2>1, <2>4, <3>3
      <4>2. QED
        BY <2>1, <3>1, <3>2, <3>3, <4>1 DEF BlocksGone, TxsGone
    <3>4. CASE sync'.stage = sync.then /\ sync.marks = {m}
      <4>1. Height[b] < sync.from
        BY <2>1, <2>3, <2>4, <3>4 DEF TxsGone
      <4>2. QED
        BY <2>1, <3>1, <3>2, <3>4, <4>1 DEF TxsGone
    <3>5. QED
      BY <2>1, <3>3, <3>4
  <2>5. CASE m = "txs"
    <3>1. blocks' = blocks
      BY <1>4, <2>5, UndoDoes
    <3>2. Stored(b)
      BY <2>1, <2>2, <2>3, <2>5 DEF BlocksGone
    <3>3. QED
      BY <2>1, <2>2, <2>5, <3>1, <3>2 DEF Stored, TxsGone
  <2>6. QED
    BY <2>4, <2>5
<1>5. ASSUME NEW m \in {"prune", "write"}, Import(m)
      PROVE  /\ Stored(b)' \/ BlocksGone(b)'
             /\ ~TxsGone(b)'
  <2>1. /\ sync.stage = "import" /\ sync'.stage # "undo" /\ Stored(sync.block)
        /\ blocks' = blocks /\ ~torn
    BY <1>5, ImportDoes
  <2>2. \/ b = sync.block
        \/ txs[t] = b /\ t \notin early
    <3>1. CASE m = "write"
      BY <1>5, <3>1, ImportDoes
    <3>2. CASE m = "prune"
      BY <1>5, <3>2, ImportDoes
    <3>3. QED
      BY <3>1, <3>2
  <2>3. Stored(b)
    BY <2>1, <2>2 DEF Backed, BlocksGone
  <2>4. QED
    BY <2>1, <2>3 DEF Stored, TxsGone
<1>6. ASSUME NEW s \in Txs, GetTransaction(s) \/ InsertTx(s) \/ Prune(s)
      PROVE  /\ Stored(b)' \/ BlocksGone(b)'
             /\ ~TxsGone(b)'
  <2>1. /\ UNCHANGED <<blocks, sync>> /\ ~torn
        /\ txs[t] = b /\ t \notin early
    BY <1>6, GetDoes, InsertDoes, PruneDoes, NamesApart
  <2>2. QED
    BY <2>1 DEF Backed, Stored, BlocksGone, TxsGone
<1>7. QED
  BY <1>1, <1>2, <1>3, <1>4, <1>5, <1>6, Kinds

LEMMA FollowedStep ==
  ASSUME TypeOK, SyncType, Ranked, Topped, Shaped, Followed, Next
  PROVE  Followed'
<1> SUFFICES ASSUME ~torn', ~astray'
             PROVE  /\ \A b \in Processed' : \A t \in TxsIn[b] :
                          txs'[t] = b \/ TxsGone(b)'
                    /\ Written' => \A t \in TxsIn[sync'.block] :
                                      txs'[t] = sync'.block
  BY DEF Followed
<1> DEFINE Goal == /\ \A b \in Processed' : \A t \in TxsIn[b] :
                         txs'[t] = b \/ TxsGone(b)'
                   /\ Written' => \A t \in TxsIn[sync'.block] :
                                     txs'[t] = sync'.block
<1>1. /\ Processed \subseteq Blocks
      /\ \A b \in Blocks : TxsIn[b] \subseteq Txs
      /\ txs \in [Txs -> Blocks \cup {None, Pending, Conflicting}]
  BY TreeAssumption DEF Processed, TypeOK
<1>2. CASE Settles
  <2>1. /\ ~torn /\ ~astray /\ txs' = txs /\ Processed' \subseteq Processed
        /\ ~Written' /\ \A b \in Processed : ~TxsGone(b)
    BY <1>1, <1>2 DEF Settles
  <2>2. QED
    BY <2>1 DEF Followed
<1>3. CASE Bypasses
  BY <1>3 DEF Bypasses, Followed, Processed, Stored, TxsGone, Written
<1>4. CASE MarkProcessed
  <2>1. /\ ~torn /\ ~astray /\ txs' = txs
        /\ Processed' = Processed \cup {sync.block}
        /\ sync.stage = "mark" /\ sync'.stage = "next"
    BY <1>4, MarkDoes
  <2>2. /\ \A b \in Processed : \A t \in TxsIn[b] : txs[t] = b
        /\ \A t \in TxsIn[sync.block] : txs[t] = sync.block
    BY <2>1 DEF Followed, TxsGone, Written
  <2>3. QED
    BY <2>1, <2>2 DEF Written
<1>5. ASSUME NEW m \in {"blocks", "txs"}, Undo(m)
      PROVE  Goal
  <2>1. /\ sync.stage = "undo" /\ sync.from \in Nat /\ sync'.from = sync.from
        /\ sync'.marks = sync.marks \ {m}
        /\ \/ sync'.stage = "undo" /\ sync.marks = {"blocks", "txs"}
           \/ sync'.stage = sync.then /\ sync.marks = {m}
        /\ sync.then \in {"begin", "check", "write"} /\ ~torn /\ ~astray
    BY <1>5, UndoSync
  <2>2. ~Written'
    BY <2>1 DEF Written
  <2>3. ASSUME NEW b \in Processed', NEW t \in TxsIn[b]
        PROVE  txs'[t] = b \/ TxsGone(b)'
    <3>1. Processed' = Kept \/ (m = "txs" /\ Processed' = Processed)
      BY <1>5, UndoDoes DEF Processed, Stored
    <3>2. b \in Processed /\ b \in Blocks /\ t \in Txs /\ Height[b] \in Nat
      BY <1>1, <2>3, <3>1, ParentType DEF Kept
    <3>3. txs[t] = b \/ TxsGone(b)
      BY <2>1, <3>2 DEF Followed
    <3>4. CASE m = "blocks"
      <4>1. Height[b] < sync.from
        BY <3>1, <3>4 DEF Kept
      <4>2. ~TxsGone(b)
        BY <2>1, <3>2, <4>1 DEF TxsGone
      <4>3. QED
        BY <1>5, <3>2, <3>3, <3>4, <4>2, UndoTxs
    <3>5. CASE m = "txs"
      <4>1. ~TxsGone(b)
        BY <2>1, <3>5 DEF TxsGone
      <4>2. CASE Height[b] < sync.from
        BY <1>5, <2>1, <3>2, <3>3, <4>1, <4>2, UndoTxs
      <4>3. CASE Height[b] >= sync.from
        <5>1. sync.marks # {m}
          <6>1. SUFFICES ASSUME sync.marks = {m} PROVE FALSE
            OBVIOUS
          <6>2. "blocks" \notin sync.marks
            BY <3>5, <6>1
          <6>3. Processed = Kept
            BY <2>1, <6>2 DEF Topped
          <6>4. Height[b] < sync.from
            BY <3>2, <6>3 DEF Kept
          <6>5. QED
            BY <2>1, <3>2, <4>3, <6>4
        <5>2. sync'.stage = "undo" /\ sync'.marks = {"blocks"}
          BY <2>1, <3>5, <5>1
        <5>3. QED
          BY <2>1, <3>2, <4>3, <5>2 DEF TxsGone
      <4>4. QED
        BY <2>1, <3>2, <4>2, <4>3
    <3>6. QED
      BY <3>4, <3>5
  <2>4. QED
    BY <2>2, <2>3
<1>6. ASSUME NEW m \in {"prune", "write"}, Import(m)
      PROVE  Goal
  <2> DEFINE c == sync.block
  <2>1. /\ sync.stage = "import" /\ m \in sync.marks /\ c \in Blocks
        /\ sync'.block = c /\ sync'.marks = sync.marks \ {m}
        /\ sync'.stage = IF sync.marks \ {m} = {} THEN "mark" ELSE "import"
        /\ ~torn /\ ~astray /\ Processed' = Processed
    BY <1>6, ImportDoes
  <2>2. \A b \in Processed : \A t \in TxsIn[b] : txs[t] = b
    BY <2>1 DEF Followed, TxsGone
  <2>3. CASE m = "write"
    <3>1. \A t \in Txs : txs'[t] = IF t \in TxsIn[c] THEN c ELSE txs[t]
      BY <1>6, <2>3, ImportDoes
    <3>2. ASSUME NEW b \in Processed, NEW t \in TxsIn[b], t \in TxsIn[c]
          PROVE  b = c
      <4>1. Carries(Processed \ {c}, c)
        BY <2>1 DEF Shaped, OnTop
      <4>2. b = c \/ b \in Line[c]
        BY <2>1, <4>1, CarriesType
      <4>3. c \in Line[c]
        BY <2>1, LineSelf
      <4>4. QED
        BY <2>1, <3>2, <4>2, <4>3, NonceAssumption
    <3>3. QED
      BY <1>1, <2>1, <2>2, <3>1, <3>2
  <2>4. CASE m = "prune"
    <3>1. txs' = txs
      BY <1>6, <2>4, ImportDoes
    <3>2. Written' => Written
      BY <2>1, <2>4 DEF Written
    <3>3. Written => \A t \in TxsIn[c] : txs[t] = c
      BY <2>1 DEF Followed
    <3>4. QED
      BY <1>1, <2>1, <2>2, <3>1, <3>2, <3>3
  <2>5. QED
    BY <2>3, <2>4
<1>7. ASSUME NEW s \in Txs, GetTransaction(s) \/ InsertTx(s) \/ Prune(s)
      PROVE  Goal
  <2>1. UNCHANGED <<blocks, sync, torn, astray>>
    BY <1>7, GetDoes, InsertDoes, PruneDoes
  <2>2. \A t \in Txs : txs[t] \in Blocks => txs'[t] = txs[t]
    BY <1>7, GetDoes, InsertDoes, PruneDoes, NamesApart
  <2>3. Processed' = Processed /\ Written' = Written /\ ~torn /\ ~astray
    BY <2>1 DEF Processed, Stored, Written
  <2>4. \A b \in Blocks : TxsGone(b)' = TxsGone(b)
    BY <2>1 DEF TxsGone
  <2>5. Written => sync.block \in Blocks
    BY DEF Written, SyncType, AtBlock
  <2>6. QED
    BY <1>1, <2>1, <2>2, <2>3, <2>4, <2>5 DEF Followed
<1>8. QED
  BY <1>2, <1>3, <1>4, <1>5, <1>6, <1>7, Kinds

LEMMA AloneStep ==
  ASSUME TypeOK, SyncType, SyncType', Ranked, Topped, Followed, Alone, Next
  PROVE  Alone'
<1>1. /\ Processed \subseteq Blocks /\ Processed' \subseteq Blocks
      /\ Cleared => sync.block \in Blocks
      /\ Cleared' => sync'.block \in Blocks
      /\ \A b \in Blocks : TxsIn[b] \subseteq Txs
      /\ \A t \in Txs : Rivals(t) \subseteq Txs
      /\ txs \in [Txs -> Blocks \cup {None, Pending, Conflicting}]
  BY TreeAssumption DEF Processed, TypeOK, SyncType, AtBlock, Cleared, Rivals
<1>2. SUFFICES ASSUME ~torn', ~astray', NEW b \in Blocks,
                      \/ b \in Processed' /\ ~TxsGone(b)'
                      \/ Cleared' /\ sync'.block = b,
                      NEW t \in TxsIn[b], t \notin raced' \cup Due',
                      NEW r \in Rivals(t), r \notin raced', txs'[r] = Pending
               PROVE  FALSE
  BY <1>1 DEF Alone, NoRivals
<1>3. t \in Txs /\ r \in Txs /\ t \in Rivals(r)
  BY <1>1, RivalsAreMutual
<1>4. ASSUME ~torn, ~astray, raced \subseteq raced', txs[r] = Pending,
             t \notin Due,
             \/ b \in Processed /\ ~TxsGone(b)
             \/ Cleared /\ sync.block = b
      PROVE  FALSE
  BY <1>2, <1>4 DEF Alone, NoRivals
<1>5. CASE Settles
  <2>1. /\ ~torn /\ ~astray /\ raced = raced' /\ Due = Due' /\ txs[r] = Pending
        /\ b \in Processed /\ ~TxsGone(b)
    BY <1>2, <1>5 DEF Settles
  <2>2. QED
    BY <1>2, <1>4, <2>1
<1>6. CASE Bypasses
  <2>1. /\ ~torn /\ ~astray /\ raced = raced' /\ Due = Due' /\ txs[r] = Pending
        /\ Processed' = Processed /\ TxsGone(b)' = TxsGone(b)
        /\ Cleared' = Cleared /\ sync'.block = sync.block
    BY <1>2, <1>6 DEF Bypasses, Processed, Stored, TxsGone, Cleared
  <2>2. QED
    BY <1>2, <1>4, <2>1
<1>7. CASE MarkProcessed
  <2>1. /\ ~torn /\ ~astray /\ raced = raced' /\ Due = Due' /\ txs[r] = Pending
        /\ Processed' = Processed \cup {sync.block}
        /\ sync.stage = "mark" /\ sync'.stage = "next"
    BY <1>2, <1>7, MarkDoes
  <2>2. Cleared /\ ~TxsGone(b) /\ ~Cleared'
    BY <2>1 DEF Cleared, TxsGone
  <2>3. QED
    BY <1>2, <1>4, <2>1, <2>2
<1>8. ASSUME NEW m \in {"blocks", "txs"}, Undo(m)
      PROVE  FALSE
  <2>1. /\ sync.stage = "undo" /\ sync.from \in Nat /\ sync'.from = sync.from
        /\ sync'.marks = sync.marks \ {m}
        /\ \/ sync'.stage = "undo" /\ sync.marks = {"blocks", "txs"}
           \/ sync'.stage = sync.then /\ sync.marks = {m}
        /\ sync.then \in {"begin", "check", "write"}
        /\ ~torn /\ ~astray /\ Height[b] \in Nat
    BY <1>2, <1>8, UndoSync, ParentType
  <2>2. b \in Processed' /\ ~TxsGone(b)'
    BY <1>2, <2>1 DEF Cleared
  <2>3. raced' = raced /\ Due' = Due /\ txs[r] = Pending
    BY <1>2, <1>3, <1>8, UndoTxs, NamesApart
  <2>4. Processed' = Kept \/ (m = "txs" /\ Processed' = Processed)
    BY <1>8, UndoDoes DEF Processed, Stored
  <2>5. b \in Processed
    BY <2>2, <2>4 DEF Kept
  <2>6. ~TxsGone(b)
    <3>1. CASE m = "txs"
      BY <2>1, <3>1 DEF TxsGone
    <3>2. CASE m = "blocks"
      <4>1. Height[b] < sync.from
        BY <2>2, <2>4, <3>2 DEF Kept
      <4>2. QED
        BY <2>1, <4>1 DEF TxsGone
    <3>3. QED
      BY <3>1, <3>2
  <2>7. QED
    BY <1>2, <1>4, <2>1, <2>3, <2>5, <2>6
<1>9. ASSUME NEW m \in {"prune", "write"}, Import(m)
      PROVE  FALSE
  <2> DEFINE c == sync.block
  <2>1. /\ sync.stage = "import" /\ m \in sync.marks /\ c \in Blocks
        /\ sync'.block = c /\ sync'.marks = sync.marks \ {m}
        /\ sync'.stage = IF sync.marks \ {m} = {} THEN "mark" ELSE "import"
        /\ ~torn /\ ~astray /\ Processed' = Processed
    BY <1>2, <1>9, ImportDoes
  <2>2. ~TxsGone(b)
    BY <2>1 DEF TxsGone
  <2>3. CASE m = "write"
    <3>1. raced' = raced /\ Due' = Due /\ txs[r] = Pending
      BY <1>2, <1>3, <1>9, <2>1, <2>3, ImportDoes, NamesApart
    <3>2. Cleared' => Cleared
      BY <2>1, <2>3 DEF Cleared
    <3>3. QED
      BY <1>2, <1>4, <2>1, <2>2, <3>1, <3>2
  <2>4. CASE m = "prune"
    <3>1. /\ txs' = txs /\ raced \subseteq raced'
          /\ raced \cup Due \cup TxsIn[c] \subseteq raced' \cup Due'
      BY <1>9, <2>4, ImportDoes
    <3>2. b # c /\ t \notin Due /\ txs[r] = Pending
      BY <1>2, <3>1
    <3>3. QED
      BY <1>2, <1>4, <2>1, <2>2, <3>1, <3>2
  <2>5. QED
    BY <2>3, <2>4
<1>10. ASSUME NEW s \in Txs, GetTransaction(s) \/ InsertTx(s) \/ Prune(s)
       PROVE  FALSE
  <2>1. UNCHANGED <<blocks, sync, torn, astray>>
    BY <1>10, GetDoes, InsertDoes, PruneDoes
  <2>2. /\ Processed' = Processed /\ Cleared' = Cleared /\ ~torn /\ ~astray
        /\ TxsGone(b)' = TxsGone(b) /\ sync'.block = sync.block
    BY <1>2, <2>1 DEF Processed, Stored, Cleared, TxsGone
  <2>3. \/ b \in Processed /\ ~TxsGone(b)
        \/ Cleared /\ sync.block = b
    BY <1>2, <2>2
  <2>4. CASE GetTransaction(s)
    <3>1. raced' = raced /\ Due \subseteq Due' /\ txs[r] = Pending
      BY <1>2, <1>3, <2>4, GetDoes
    <3>2. QED
      BY <1>2, <1>4, <2>2, <2>3, <3>1
  <2>5. CASE InsertTx(s)
    <3>1. raced \subseteq raced' /\ Due' = Due /\ sent' = sent
      BY <2>5, InsertDoes DEF Due
    <3>2. txs[r] # Pending
      BY <1>2, <1>4, <2>2, <2>3, <3>1
    <3>3. /\ s = r
          /\ raced' = IF \E u \in Rivals(r) \ sent :
                               txs[u] \in Blocks \/ BeingMined(u)
                      THEN raced \cup {r} ELSE raced
      BY <1>2, <1>3, <2>5, <3>2, InsertDoes
    <3>4. txs[t] \notin Blocks /\ ~BeingMined(t)
      <4>1. t \in Rivals(r) \ sent
        BY <1>2, <1>3, <3>1 DEF Due
      <4>2. QED
        BY <1>2, <3>3, <4>1
    <3>5. CASE b \in Processed /\ ~TxsGone(b)
      <4>1. txs[t] = b
        BY <2>2, <3>5 DEF Followed
      <4>2. QED
        BY <3>4, <4>1
    <3>6. CASE Cleared /\ sync.block = b
      <4>1. sync.stage = "mark"
        BY <3>4, <3>6 DEF Cleared, BeingMined
      <4>2. txs[t] = b
        BY <2>2, <3>6, <4>1 DEF Followed, Written
      <4>3. QED
        BY <3>4, <4>2
    <3>7. QED
      BY <2>3, <3>5, <3>6
  <2>6. CASE Prune(s)
    <3>1. /\ raced' = raced /\ Due \subseteq Due' \cup {s}
          /\ txs[r] = Pending /\ s \notin Rivals(r)
      BY <1>2, <1>3, <2>6, PruneDoes, NamesApart
    <3>2. t \notin Due
      BY <1>2, <1>3, <3>1
    <3>3. QED
      BY <1>4, <2>2, <2>3, <3>1, <3>2
  <2>7. QED
    BY <1>10, <2>4, <2>5, <2>6
<1>11. QED
  BY <1>5, <1>6, <1>7, <1>8, <1>9, <1>10, Kinds

-----------------------------------------------------------------------------
(***************************************************************************)
(* The inductive invariant, and the theorems                               *)
(***************************************************************************)

IInv ==
    /\ TypeOK /\ SyncType
    /\ Ranked /\ Topped /\ Shaped /\ UpToDate
    /\ MinedWhereItIs /\ Backed /\ Followed /\ Alone

\* Each block of a line below its last one has one above it.
LEMMA LineAbove ==
  ASSUME NEW b \in Blocks, NEW a \in Line[b], a # b
  PROVE  \E c \in Line[b] : Parent[c] = a
<1> DEFINE S == {d \in Line[b] : d = b \/ \E c \in Line[b] : Parent[c] = d}
<1>1. S \subseteq Blocks /\ b \in S
  BY LineType, LineSelf
<1>2. \A c \in S : Parent[c] \in S \cup {None}
  BY LineSelf
<1> HIDE DEF S
<1>3. a \in S
  BY <1>1, <1>2, LineLeast
<1> USE DEF S
<1>4. QED
  BY <1>3

LEMMA InitInv == Init => IInv
<1> SUFFICES ASSUME Init PROVE IInv
  OBVIOUS
<1> USE DEF Init
<1>1. /\ Base \in Blocks /\ Line[Base] \subseteq Blocks /\ Base \in Line[Base]
      /\ Height[Base] \in Nat /\ None \notin Blocks
  BY TreeAssumption, LineType, LineSelf, ParentType
<1>2. \A b \in Line[Base] : Above(b) \in Blocks \cup {None}
  <2>1. ASSUME NEW b \in Line[Base], b # Base
        PROVE  Above(b) \in Line[Base]
    BY <1>1, <2>1, LineAbove DEF Above
  <2>2. Above(Base) = None
    BY DEF Above
  <2>3. QED
    BY <1>1, <2>1, <2>2
<1>3. blocks \in [Blocks -> {None} \cup [processed : BOOLEAN,
                                         next : Blocks \cup {None}]]
  BY <1>2
<1>4. Processed = Line[Base]
  <2>1. ASSUME NEW b \in Line[Base]
        PROVE  blocks[b] # None /\ blocks[b].processed
    <3>1. blocks[b] = [processed |-> TRUE, next |-> Above(b)] /\ b \in Blocks
      BY <1>1, <2>1
    <3>2. [processed |-> TRUE, next |-> Above(b)]
             \in [processed : BOOLEAN, next : Blocks \cup {None}]
      BY <1>2
    <3>3. blocks[b] # None
      BY <3>1, <3>2, DocNotNone
    <3>4. QED
      BY <3>1, <3>3
  <2>2. ASSUME NEW b \in Blocks, b \notin Line[Base]
        PROVE  blocks[b] = None
    BY <2>2
  <2>3. QED
    BY <1>1, <2>1, <2>2, ProcessedIs
<1>5. \A t \in Txs :
         \/ txs[t] = None /\ \A b \in Line[Base] : t \notin TxsIn[b]
         \/ txs[t] \in Line[Base] /\ t \in TxsIn[txs[t]]
  <2>1. ASSUME NEW t \in Txs, NEW b \in Line[Base], t \in TxsIn[b]
        PROVE  txs[t] \in Line[Base] /\ t \in TxsIn[txs[t]]
    <3>1. txs[t] = CHOOSE c \in Line[Base] : t \in TxsIn[c]
      BY <2>1
    <3>2. QED
      BY <2>1, <3>1
  <2>2. ASSUME NEW t \in Txs, \A b \in Line[Base] : t \notin TxsIn[b]
        PROVE  txs[t] = None
    BY <2>2
  <2>3. QED
    BY <2>1, <2>2
<1>6. sync \in SyncRecord /\ sync.stage = "begin"
  BY RestingType
<1>7. TypeOK
  <2>1. txs \in [Txs -> Blocks \cup {None, Pending, Conflicting}]
    <3> DEFINE Has(t) == \E b \in Line[Base] : t \in TxsIn[b]
               mined(t) == CHOOSE b \in Line[Base] : t \in TxsIn[b]
    <3>1. \A t \in Txs : txs[t] \in Blocks \cup {None, Pending, Conflicting}
      BY <1>1, <1>5
    <3>2. txs = [t \in Txs |-> IF Has(t) THEN mined(t) ELSE None]
      OBVIOUS
    <3> HIDE DEF Has, mined
    <3>3. txs = [t \in Txs |-> txs[t]]
      BY <3>2
    <3> HIDE DEF Init
    <3>4. QED
      BY <3>1, <3>3
  <2>2. 0 \in 0 .. MaxEvents
    BY TreeAssumption
  <2>3. sync.stage \in Stages /\ sync.block \in Blocks \cup {None}
    BY <1>6 DEF SyncRecord
  <2>4. QED
    BY <1>1, <1>3, <2>1, <2>2, <2>3 DEF TypeOK
<1>8. SyncType
  BY <1>6 DEF SyncType, AtBlock
<1>9. Ranked
  <2> HIDE DEF Init
  <2>1. \A b \in Processed : Height[b] <= Height[Base]
    <3>1. \A b \in Line[Base] \ {Base} : Height[b] < Height[Base]
      BY <1>1, LineHeights
    <3>2. \A b \in Line[Base] : Height[b] \in Nat
      BY <1>1, ParentType
    <3>3. QED
      BY <1>1, <1>4, <3>1, <3>2
  <2>2. \A b, c \in Processed : Height[b] = Height[c] => b = c
    BY <1>1, <1>4, SameHeight
  <2>3. QED
    BY <1>1, <2>1, <2>2 DEF Ranked
<1>10. Topped
  BY <1>6 DEF Topped, OnTop
<1>11. Shaped
  <2>1. Whole(Processed)
    BY <1>1, <1>4 DEF Whole
  <2>2. QED
    BY <1>6, <2>1, WholeIsChain DEF Shaped, OnTop
<1>12. UpToDate
  BY <1>6 DEF UpToDate, AtBlock
<1>13. MinedWhereItIs
  BY <1>1, <1>5, NamesApart DEF MinedWhereItIs
<1>14. Backed
  <2>1. \A t \in Txs : txs[t] \in Blocks => Stored(txs[t])
    BY <1>1, <1>4, <1>5 DEF Processed
  <2>2. QED
    BY <1>6, <2>1 DEF Backed, TxsGone
<1>15. Followed
  <2>1. ASSUME NEW b \in Line[Base], NEW t \in TxsIn[b]
        PROVE  txs[t] = b
    <3>1. t \in Txs
      BY <1>1, TreeAssumption
    <3>2. txs[t] \in Line[Base] /\ t \in TxsIn[txs[t]]
      BY <1>5, <2>1, <3>1
    <3>3. QED
      BY <1>1, <2>1, <3>2, NonceAssumption
  <2>2. QED
    BY <1>4, <1>6, <2>1 DEF Followed, Written
<1>16. Alone
  <2>1. \A t \in Txs : txs[t] # Pending
    BY <1>1, <1>5, NamesApart
  <2>2. \A b \in Processed : NoRivals(b)
    BY <2>1 DEF NoRivals, Rivals
  <2>3. QED
    BY <1>6, <2>2 DEF Alone, Cleared
<1>17. QED
  BY <1>7, <1>8, <1>9, <1>10, <1>11, <1>12, <1>13, <1>14, <1>15, <1>16 DEF IInv

LEMMA StepInv == IInv /\ [Next]_vars => IInv'
<1> SUFFICES ASSUME IInv, [Next]_vars PROVE IInv'
  OBVIOUS
<1>1. CASE Next
  <2>1. /\ TypeOK /\ SyncType /\ Ranked /\ Topped /\ Shaped /\ UpToDate
        /\ MinedWhereItIs /\ Backed /\ Followed /\ Alone
    BY DEF IInv
  <2>2. SyncType'
    BY <1>1, <2>1, SyncTypeStep
  <2>3. TypeOK'
    BY <1>1, <2>1, <2>2, TypeStep
  <2>4. Ranked' /\ Topped'
    BY <1>1, <2>1, RankedStep, ToppedStep
  <2>5. Shaped'
    BY <1>1, <2>1, ShapedStep DEF Shaped
  <2>6. UpToDate'
    BY <1>1, <2>1, UpToDateStep DEF UpToDate
  <2>7. MinedWhereItIs' /\ Backed'
    BY <1>1, <2>1, MinedWhereItIsStep, BackedStep
  <2>8. Followed' /\ Alone'
    BY <1>1, <2>1, <2>2, FollowedStep, AloneStep
  <2>9. QED
    BY <2>2, <2>3, <2>4, <2>5, <2>6, <2>7, <2>8 DEF IInv
<1>2. CASE UNCHANGED vars
  <2>1. UNCHANGED <<head, header, blocks, txs, complete, sync, relay, inv, sent,
                    events, astray, torn, early, missed, raced, lost>>
    BY <1>2 DEF vars, node, db, mempool, history
  <2>2. /\ Processed' = Processed /\ Tip' = Tip /\ Kept' = Kept
        /\ \A b : Stored(b)' = Stored(b) /\ TxsGone(b)' = TxsGone(b)
                  /\ BlocksGone(b)' = BlocksGone(b) /\ NoRivals(b)' = NoRivals(b)
        /\ Written' = Written /\ Cleared' = Cleared
    BY <2>1 DEF Processed, Tip, Kept, Stored, TxsGone, BlocksGone, NoRivals, Due,
                Written, Cleared
  <2>3. TypeOK' /\ SyncType' /\ Ranked' /\ Topped'
    BY <2>1, <2>2 DEF IInv, TypeOK, SyncType, Ranked, Topped
  <2>4. Shaped' /\ UpToDate'
    BY <2>1, <2>2 DEF IInv, Shaped, UpToDate, Informed, Reached
  <2>5. MinedWhereItIs' /\ Backed' /\ Followed' /\ Alone'
    BY <2>1, <2>2 DEF IInv, MinedWhereItIs, Backed, Followed, Alone
  <2>6. QED
    BY <2>3, <2>4, <2>5 DEF IInv
<1>3. QED
  BY <1>1, <1>2

LEMMA Invariance == Spec => []IInv
BY InitInv, StepInv, PTL DEF Spec

\* The variables keep their types, whatever the node reorganises and whatever
\* fails: a stored block is processed or not and points to a block or to none, a
\* transaction is pending, conflicting or in a block.
THEOREM TypesCorrect == Spec => []TypeOK
<1>1. IInv => TypeOK
  BY DEF IInv
<1>2. QED
  BY <1>1, Invariance, PTL

\* When sync() of p2p.ts is at rest the processed blocks are one chain that ends
\* with the worker's tip, only the tip's parent may be missing, and the node's
\* best block is among them: however many rollbacks of handleReorg, each of which
\* deletes the parent too, however many attempts, errors and crashes it took, and
\* with the exceptions FollowsNode names.
THEOREM FollowsTheNode == Spec => []FollowsNode
<1>1. IInv => FollowsNode
  <2> SUFFICES ASSUME IInv, sync.stage = "idle", ~header
               PROVE  /\ \/ astray
                         \/ Processed \in {Line[Tip], Line[Tip] \ {Parent[Tip]}}
                      /\ missed \/ head \in Processed \/ Height[head] < Height[Tip]
    BY DEF FollowsNode, AtRest
  <2>1. Ranked /\ Shaped /\ UpToDate /\ Processed \subseteq Blocks
    BY DEF IInv, Processed
  <2>2. ASSUME ~astray
        PROVE  Processed \in {Line[Tip], Line[Tip] \ {Parent[Tip]}}
    <3>1. CASE Processed = {}
      BY <2>1, <3>1, TipType, LineNone
    <3>2. CASE Processed # {}
      <4>1. /\ Tip \in Processed /\ Tip \in Blocks
            /\ Carries(Processed \ {Tip}, Tip)
        BY <2>1, <2>2, <3>2, TipType, ChainLast DEF Shaped
      <4>2. Tip \in Line[Tip] /\ Parent[Tip] # Tip
        BY <4>1, LineSelf, ParentType
      <4>3. \/ Processed \ {Tip} = Line[Tip] \ {Tip}
            \/ Processed \ {Tip} = Line[Tip] \ {Tip, Parent[Tip]}
        BY <4>1 DEF Carries
      <4>4. QED
        BY <4>1, <4>2, <4>3
    <3>3. QED
      BY <3>1, <3>2
  <2>3. missed \/ head \in Processed \/ Height[head] < Height[Tip]
    BY <2>1 DEF UpToDate, Informed, Reached
  <2>4. QED
    BY <2>2, <2>3
<1>2. QED
  BY <1>1, Invariance, PTL

\* At rest the transaction documents agree with the block documents, although
\* handleReorg deletes the two in parallel, batchImport writes a block's
\* transactions after the block itself, and the mempool's inserts come between
\* any two of these writes.
THEOREM TxsFollow == Spec => []TxsFollowBlocks
<1>1. IInv => TxsFollowBlocks
  <2> SUFFICES ASSUME IInv, sync.stage = "idle", ~torn
               PROVE  /\ astray \/ \A b \in Processed : \A t \in TxsIn[b] :
                                      txs[t] = b
                      /\ \A t \in Txs \ early :
                            txs[t] \in Blocks => Stored(txs[t])
    BY DEF TxsFollowBlocks, AtRest
  <2>1. \A b : ~TxsGone(b) /\ ~BlocksGone(b)
    BY DEF TxsGone, BlocksGone
  <2>2. QED
    BY <2>1 DEF IInv, Followed, Backed
<1>2. QED
  BY <1>1, Invariance, PTL

\* At rest no other transaction with the sender and nonce of a mined one is
\* pending, or mined in a processed block: what pruneMempool of the block and of
\* the announced transaction, and toMempoolSafeUpsert, are there for, in every
\* order in which the imports run and the unacknowledged updates arrive; with the
\* exceptions that NonceOnce names, an update that was lost among them.
THEOREM NoncesUsedOnce == Spec => []NonceOnce
<1>1. IInv => NonceOnce
  <2> SUFFICES ASSUME IInv, sync.stage = "idle", ~torn, ~astray,
                      NEW b \in Processed, NEW t \in TxsIn[b], ~Unpruned(t),
                      NEW r \in Rivals(t), r \notin raced
               PROVE  \/ txs[r] \in {None, Conflicting}
                      \/ /\ txs[r] \in Blocks \ Processed
                         /\ r \in early \/ Stored(txs[r])
    BY DEF NonceOnce, AtRest
  <2>1. ~TxsGone(b) /\ \A c : ~BlocksGone(c)
    BY DEF TxsGone, BlocksGone
  <2>2. /\ b \in Blocks /\ r \in Txs /\ t \in Txs /\ r # t /\ Slot[r] = Slot[t]
        /\ txs[r] \in Blocks \cup {None, Pending, Conflicting}
        /\ Processed \subseteq Blocks
    BY TreeAssumption DEF IInv, TypeOK, Processed, Rivals
  <2>3. txs[r] # Pending
    <3>1. t \in TxsIn[b] \ (raced \cup Due)
      BY DEF Unpruned, Due
    <3>2. QED
      BY <2>1, <3>1 DEF IInv, Alone, NoRivals
  <2>4. ASSUME txs[r] \in Processed
        PROVE  FALSE
    <3>1. r \in TxsIn[txs[r]]
      BY <2>2, <2>4 DEF IInv, MinedWhereItIs
    <3>2. Processed \subseteq Line[Highest(Processed)]
          /\ Highest(Processed) \in Blocks
      BY <2>2, ChainLast DEF IInv, Shaped
    <3>3. QED
      BY <2>2, <2>4, <3>1, <3>2, NonceAssumption
  <2>5. txs[r] \in Blocks => r \in early \/ Stored(txs[r])
    BY <2>1, <2>2 DEF IInv, Backed
  <2>6. QED
    BY <2>2, <2>3, <2>4, <2>5
<1>2. QED
  BY <1>1, Invariance, PTL

=============================================================================
