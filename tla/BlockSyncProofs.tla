-------------------------- MODULE BlockSyncProofs ---------------------------
(***************************************************************************)
(* The processed blocks are one chain and implement ChainStore, and the    *)
(* coins and transactions are theirs, for every tree of blocks, any number *)
(* of peers, crashes and failed writes.                                    *)
(***************************************************************************)
EXTENDS BlockSync, WellFoundedInduction, TLAPS

(***************************************************************************)
(* The least and the greatest of a set of natural numbers                  *)
(***************************************************************************)

LEMMA Smallest ==
  ASSUME NEW T, T \subseteq Nat, T # {}
  PROVE  \E m \in T : \A n \in T : m <= n
<1> DEFINE R == {ss \in Nat \X Nat : ss[1] < ss[2]}
<1>1. IsWellFoundedOn(R, Nat)
  BY NatLessThanWellFounded DEF OpToRel
<1>2. \A m, n \in Nat : <<n, m>> \notin R => m <= n
  OBVIOUS
<1> HIDE DEF R
<1>3. \E m \in T : \A n \in T : <<n, m>> \notin R
  BY <1>1, WFMin
<1>4. QED
  BY <1>2, <1>3

LEMMA Greatest ==
  ASSUME NEW T, T \subseteq Nat, T # {},
         NEW bound \in Nat, \A n \in T : n <= bound
  PROVE  Max(T) \in T /\ \A n \in T : n <= Max(T)
<1> DEFINE Gaps == {bound - n : n \in T}
<1>1. PICK g \in Gaps : \A h \in Gaps : g <= h
  <2>1. \A n \in T : bound - n \in Nat
    OBVIOUS
  <2>2. Gaps \subseteq Nat /\ Gaps # {}
    BY <2>1
  <2>3. QED
    BY <2>2, Smallest
<1>2. PICK m \in T : g = bound - m
  OBVIOUS
<1>3. ASSUME NEW n \in T
      PROVE  m >= n
  <2>1. bound - n \in Gaps
    OBVIOUS
  <2>2. bound - m <= bound - n
    BY <1>1, <1>2, <2>1
  <2>3. m \in Nat /\ n \in Nat
    OBVIOUS
  <2>4. QED
    BY <2>2, <2>3
<1>4. \E x \in T : \A y \in T : x >= y
  BY <1>3
<1>5. Max(T) \in T /\ \A y \in T : Max(T) >= y
  BY <1>4 DEF Max
<1>6. QED
  BY <1>5

-----------------------------------------------------------------------------
(***************************************************************************)
(* A block and what is below it                                            *)
(***************************************************************************)

Closed(S) == \A s \in S : Parent[s] \in S \cup {Genesis}

LEMMA AncestorTypes ==
  ASSUME NEW b \in Blocks
  PROVE  /\ Ancestors[b] \subseteq Blocks
         /\ b \in Ancestors[b]
         /\ Closed(Ancestors[b])
<1>1. Ancestors[b] =
        {a \in Blocks : \A S \in SUBSET Blocks : b \in S /\ Closed(S) => a \in S}
  BY DEF Ancestors, Closed
<1>2. ASSUME NEW s \in Ancestors[b], Parent[s] # Genesis
      PROVE  Parent[s] \in Ancestors[b]
  <2>1. Parent[s] \in Blocks
    BY <1>1, <1>2, TreeAssumption
  <2>2. ASSUME NEW S \in SUBSET Blocks, b \in S, Closed(S)
        PROVE  Parent[s] \in S
    <3>1. s \in S
      BY <1>1, <2>2
    <3>2. QED
      BY <1>2, <2>2, <3>1 DEF Closed
  <2>3. QED
    BY <1>1, <2>1, <2>2
<1>3. QED
  BY <1>1, <1>2 DEF Closed

\* What holds of b and passes to parents holds of all below b.
LEMMA AncestorsLeast ==
  ASSUME NEW b \in Blocks, NEW S \in SUBSET Blocks, b \in S, Closed(S)
  PROVE  Ancestors[b] \subseteq S
BY DEF Ancestors, Closed

LEMMA ParentHeight ==
  ASSUME NEW b \in Blocks
  PROVE  /\ Height[b] \in Nat /\ Height[b] >= 1
         /\ Parent[b] = Genesis => Height[b] = 1
         /\ Parent[b] # Genesis =>
               /\ Parent[b] \in Blocks
               /\ Height[Parent[b]] \in Nat
               /\ Height[b] = Height[Parent[b]] + 1
               /\ Height[b] > 1
BY TreeAssumption

LEMMA AncestorsBelow ==
  ASSUME NEW b \in Blocks, NEW a \in Ancestors[b]
  PROVE  a = b \/ Height[a] < Height[b]
<1> DEFINE S == {x \in Blocks : x = b \/ Height[x] < Height[b]}
<1>1. ASSUME NEW s \in S, Parent[s] # Genesis
      PROVE  Parent[s] \in S
  BY <1>1, ParentHeight
<1>2. b \in S /\ Closed(S) /\ S \in SUBSET Blocks
  BY <1>1 DEF Closed
<1>3. QED
  BY <1>2, AncestorsLeast

LEMMA AncestorsLinked ==
  ASSUME NEW b \in Blocks, NEW a \in Ancestors[b], a # b
  PROVE  \E c \in Ancestors[b] : Parent[c] = a
<1> SUFFICES ASSUME \A c \in Ancestors[b] : Parent[c] # a
             PROVE  FALSE
  OBVIOUS
<1> DEFINE S == Ancestors[b] \ {a}
<1>1. b \in S /\ Closed(S) /\ S \in SUBSET Blocks
  BY AncestorTypes DEF Closed
<1>2. QED
  BY <1>1, AncestorsLeast

\* A chain has one block of every height.
LEMMA AncestorsUnique ==
  ASSUME NEW b \in Blocks, NEW a \in Ancestors[b], NEW c \in Ancestors[b],
         Height[a] = Height[c]
  PROVE  a = c
<1> DEFINE S == {x \in Ancestors[b] :
                    \A y \in Ancestors[b] : Height[y] = Height[x] => y = x}
<1>1. b \in S
  <2>1. ASSUME NEW y \in Ancestors[b], Height[y] = Height[b]
        PROVE  y = b
    BY <2>1, AncestorsBelow, AncestorTypes, ParentHeight
  <2>2. QED
    BY <2>1, AncestorTypes
<1>2. ASSUME NEW s \in S, Parent[s] # Genesis
      PROVE  Parent[s] \in S
  <2>1. Parent[s] \in Ancestors[b] /\ s \in Blocks /\ s \in Ancestors[b]
    BY <1>2, AncestorTypes DEF Closed
  <2>2. ASSUME NEW y \in Ancestors[b], Height[y] = Height[Parent[s]]
        PROVE  y = Parent[s]
    <3>1. y \in Blocks
      BY AncestorTypes
    <3>2. y # b
      <4>1. s = b \/ Height[s] < Height[b]
        BY <2>1, AncestorsBelow
      <4>2. QED
        BY <1>2, <2>1, <2>2, <4>1, ParentHeight
    <3>3. PICK z \in Ancestors[b] : Parent[z] = y
      BY <3>2, AncestorsLinked
    <3>4. z \in Blocks
      BY AncestorTypes
    <3>5. y # Genesis
      BY <3>1, TreeAssumption
    <3>6. Height[z] = Height[s]
      BY <1>2, <2>1, <2>2, <3>3, <3>4, <3>5, ParentHeight
    <3>7. z = s
      BY <1>2, <3>6
    <3>8. QED
      BY <3>3, <3>7
  <2>3. QED
    BY <2>1, <2>2
<1>3. Closed(S) /\ S \in SUBSET Blocks
  BY <1>2, AncestorTypes DEF Closed
<1>4. Ancestors[b] \subseteq S
  BY <1>1, <1>3, AncestorsLeast
<1>5. QED
  BY <1>4

LEMMA AncestorsReach ==
  ASSUME NEW b \in Blocks, NEW h \in 1 .. Height[b]
  PROVE  \E a \in Ancestors[b] : Height[a] = h
<1> SUFFICES ASSUME \A a \in Ancestors[b] : Height[a] # h
             PROVE  FALSE
  OBVIOUS
<1> DEFINE T == {Height[a] : a \in {x \in Ancestors[b] : Height[x] > h}}
<1>1. \A a \in Ancestors[b] : a \in Blocks /\ Height[a] \in Nat
  BY AncestorTypes, ParentHeight
<1>2. T \subseteq Nat /\ T # {}
  <2>1. b \in Ancestors[b] /\ Height[b] > h
    BY AncestorTypes, ParentHeight
  <2>2. QED
    BY <1>1, <2>1
<1>3. PICK m \in T : \A n \in T : m <= n
  BY <1>2, Smallest
<1>4. PICK a \in Ancestors[b] : Height[a] = m /\ Height[a] > h
  OBVIOUS
<1>5. Parent[a] # Genesis
  BY <1>1, <1>4, ParentHeight
<1>6. /\ Parent[a] \in Ancestors[b]
      /\ Height[Parent[a]] \in Nat
      /\ Height[a] = Height[Parent[a]] + 1
  BY <1>1, <1>5, AncestorTypes, ParentHeight DEF Closed
<1>7. Height[Parent[a]] > h
  BY <1>4, <1>6
<1>8. Height[Parent[a]] \in T
  BY <1>6, <1>7
<1>9. QED
  BY <1>3, <1>4, <1>6, <1>8

LEMMA AncestorAtLinked ==
  ASSUME NEW b \in Blocks, NEW h \in 1 .. Height[b]
  PROVE  /\ AncestorAt(b, h) \in Ancestors[b]
         /\ AncestorAt(b, h) \in Blocks
         /\ Height[AncestorAt(b, h)] = h
         /\ h = 1 => Parent[AncestorAt(b, h)] = Genesis
         /\ h > 1 => Parent[AncestorAt(b, h)] = AncestorAt(b, h - 1)
<1>1. ASSUME NEW g \in 1 .. Height[b]
      PROVE  /\ AncestorAt(b, g) \in Ancestors[b]
             /\ AncestorAt(b, g) \in Blocks
             /\ Height[AncestorAt(b, g)] = g
  BY AncestorsReach, AncestorTypes DEF AncestorAt
<1>2. h = 1 => Parent[AncestorAt(b, h)] = Genesis
  BY <1>1, ParentHeight
<1>3. ASSUME h > 1
      PROVE  Parent[AncestorAt(b, h)] = AncestorAt(b, h - 1)
  <2> DEFINE a == AncestorAt(b, h)
  <2>1. a \in Blocks /\ a \in Ancestors[b] /\ Height[a] = h
    BY <1>1
  <2>2. Parent[a] # Genesis
    BY <1>3, <2>1, ParentHeight
  <2>3. /\ Parent[a] \in Ancestors[b]
        /\ Height[Parent[a]] = h - 1
    BY <2>1, <2>2, AncestorTypes, ParentHeight DEF Closed
  <2>4. h - 1 \in 1 .. Height[b]
    BY <1>3, ParentHeight
  <2>5. /\ AncestorAt(b, h - 1) \in Ancestors[b]
        /\ Height[AncestorAt(b, h - 1)] = h - 1
    BY <1>1, <2>4
  <2>6. QED
    BY <2>3, <2>5, AncestorsUnique
<1>4. QED
  BY <1>1, <1>2, <1>3

-----------------------------------------------------------------------------
(***************************************************************************)
(* A peer's answer leads up the tree from a block of the question          *)
(***************************************************************************)

Linked(list) == \A i \in 2 .. Len(list) : Parent[list[i]] = list[i - 1]

StartsAbove(S, list) == list # <<>> => Parent[list[1]] \in S \cup {Genesis}

Messages ==
    [type : {"headers", "block"}, asked : SUBSET Blocks, list : Seq(Blocks)]

WellFormed(m) ==
    /\ m.type = "headers" => Linked(m.list) /\ StartsAbove(m.asked, m.list)
    /\ m.type = "block" => m.list # <<>>

LEMMA AnswerLinked ==
  ASSUME best \in [Peers -> Blocks], NEW p \in Peers
  PROVE  Answer(p) \in Messages /\ WellFormed(Answer(p))
<1> DEFINE b == best[p]
           T == {0} \cup {Height[a] : a \in Known(b)}
           common == Max(T)
           n == Min({MaxHeaders, Height[b] - common})
           list == [i \in 1 .. n |-> AncestorAt(b, common + i)]
<1>1. b \in Blocks /\ Height[b] \in Nat /\ Processed \subseteq Blocks
  BY ParentHeight DEF Processed
<1>2. Known(b) \subseteq Processed \cap Ancestors[b]
  BY DEF Known
<1>3. common \in T /\ common \in Nat /\ common <= Height[b]
  <2>1. ASSUME NEW a \in Known(b)
        PROVE  Height[a] \in Nat /\ Height[a] <= Height[b]
    <3>1. a \in Ancestors[b] /\ a \in Blocks
      BY <1>1, <1>2
    <3>2. QED
      BY <1>1, <3>1, AncestorsBelow, ParentHeight
  <2>2. T \subseteq Nat /\ T # {} /\ \A t \in T : t <= Height[b]
    BY <1>1, <2>1
  <2> HIDE DEF T
  <2>3. QED
    BY <1>1, <2>2, Greatest
<1>4. n \in Nat /\ n <= Height[b] - common
  <2>1. Height[b] - common \in Nat /\ MaxHeaders \in Nat
    BY <1>1, <1>3, DataAssumption
  <2>2. \E x \in {MaxHeaders, Height[b] - common} :
          \A y \in {MaxHeaders, Height[b] - common} : x =< y
    BY <2>1
  <2>3. /\ n \in {MaxHeaders, Height[b] - common}
        /\ \A y \in {MaxHeaders, Height[b] - common} : n =< y
    BY <2>2 DEF Min
  <2>4. QED
    BY <2>1, <2>3
<1>5. Answer(p) = [type |-> "headers", asked |-> Processed, list |-> list]
  BY DEF Answer
<1>6. \A h \in T : h = 0 \/ \E a \in Known(b) : Height[a] = h
  OBVIOUS
<1> HIDE DEF n, common, T
<1>7. ASSUME NEW i \in 1 .. n
      PROVE  /\ common + i \in 1 .. Height[b]
             /\ AncestorAt(b, common + i) \in Blocks
  <2>1. common + i \in 1 .. Height[b]
    BY <1>1, <1>3, <1>4
  <2>2. QED
    BY <1>1, <2>1, AncestorAtLinked
<1>8. list \in Seq(Blocks) /\ Len(list) = n
  BY <1>4, <1>7
<1>9. \A i \in 1 .. n : list[i] = AncestorAt(b, common + i)
  OBVIOUS
<1> HIDE DEF list
<1>10. Linked(list)
  <2>1. ASSUME NEW i \in 2 .. n
        PROVE  Parent[list[i]] = list[i - 1]
    <3>1. PICK h \in 1 .. Height[b] : h = common + i
      BY <1>1, <1>3, <1>4
    <3>2. /\ h > 1 /\ h - 1 = common + (i - 1)
          /\ i \in 1 .. n /\ i - 1 \in 1 .. n
      BY <1>3, <1>4, <3>1
    <3>3. Parent[AncestorAt(b, h)] = AncestorAt(b, h - 1)
      BY <1>1, <3>2, AncestorAtLinked
    <3>4. list[i] = AncestorAt(b, h) /\ list[i - 1] = AncestorAt(b, h - 1)
      BY <1>9, <3>1, <3>2
    <3>5. QED
      BY <3>3, <3>4
  <2>2. QED
    BY <1>8, <2>1 DEF Linked
<1>11. StartsAbove(Processed, list)
  <2>1. SUFFICES ASSUME n >= 1
                 PROVE  Parent[list[1]] \in Processed \cup {Genesis}
    BY <1>4, <1>8 DEF StartsAbove
  <2>2. common + 1 \in 1 .. Height[b] /\ list[1] = AncestorAt(b, common + 1)
    BY <1>1, <1>3, <1>4, <1>9, <2>1
  <2>3. CASE common = 0
    BY <1>1, <2>2, <2>3, AncestorAtLinked
  <2>4. CASE common # 0
    <3>1. PICK a \in Known(b) : Height[a] = common
      BY <1>3, <1>6, <2>4
    <3>2. a \in Ancestors[b] /\ a \in Processed
      BY <1>2
    <3>3. common \in 1 .. Height[b] /\ common + 1 > 1 /\ common + 1 - 1 = common
      BY <1>1, <1>3, <2>4
    <3>4. AncestorAt(b, common) = a
      BY <1>1, <3>1, <3>2, <3>3, AncestorAtLinked, AncestorsUnique
    <3>5. Parent[AncestorAt(b, common + 1)] = AncestorAt(b, common + 1 - 1)
      BY <1>1, <2>2, <3>3, AncestorAtLinked
    <3>6. QED
      BY <2>2, <3>2, <3>3, <3>4, <3>5
  <2>5. QED
    BY <2>3, <2>4
<1>12. QED
  BY <1>1, <1>5, <1>8, <1>10, <1>11 DEF Messages, WellFormed

-----------------------------------------------------------------------------
(***************************************************************************)
(* The inductive invariant                                                 *)
(***************************************************************************)

\* The stages of a block's import, in which todo begins with that block.
Importing == {"check", "block", "link", "mint", "spend", "txs", "mark"}
Written == {"link", "mint", "spend", "txs", "mark"}

\* What comes over the wire, and what the worker has taken from it, leads up
\* the tree; a block that is being imported has its document.
Shape ==
    /\ \A p \in Peers : \A i \in 1 .. Len(wire[p]) : WellFormed(wire[p][i])
    /\ at \in Importing => todo # <<>> /\ Linked(todo)
    /\ at \in Written => Stored(Current)

TrueHeights == \A b \in Blocks : Stored(b) => blocks[b].height = Height[b]

\* The processed blocks are one chain, whatever is left of other blocks.
OneChain ==
    \A b \in Processed :
        /\ Parent[b] # Genesis =>
              /\ Parent[b] \in Processed
              /\ blocks[Parent[b]].next = b
        /\ \A a \in Processed : Height[a] = Height[b] => a = b

\* b comes on top of the processed blocks.
Fits(b) ==
    /\ b \notin Processed
    /\ IF Parent[b] = Genesis THEN Processed = {} ELSE IsTip(Parent[b])

CurrentFits ==
    /\ at = "check" => Parent[Current] \in Processed \cup {Genesis}
    /\ at \in {"block"} \cup Written => Fits(Current)
    /\ at \in Written \ {"link"} /\ Parent[Current] # Genesis =>
          blocks[Parent[Current]].next = Current

\* What holds as long as the worker has taken no late answer.
ChainInv == TrueHeights /\ OneChain /\ CurrentFits

IInv == TypeOK /\ Shape /\ (late \/ ChainInv)

-----------------------------------------------------------------------------
(***************************************************************************)
(* Types                                                                   *)
(***************************************************************************)

LEMMA LinkedTail ==
  ASSUME NEW list \in Seq(Blocks), list # <<>>, Linked(list)
  PROVE  /\ Head(list) = list[1] /\ Head(list) \in Blocks
         /\ Tail(list) \in Seq(Blocks) /\ Linked(Tail(list))
         /\ Tail(list) # <<>> => Parent[Head(Tail(list))] = Head(list)
<1>1. /\ Len(list) \in Nat /\ Len(list) >= 1
      /\ Head(list) = list[1] /\ list[1] \in Blocks
      /\ Tail(list) \in Seq(Blocks) /\ Len(Tail(list)) = Len(list) - 1
      /\ \A i \in 1 .. Len(list) - 1 : Tail(list)[i] = list[i + 1]
  OBVIOUS
<1>2. ASSUME NEW i \in 2 .. Len(Tail(list))
      PROVE  Parent[Tail(list)[i]] = Tail(list)[i - 1]
  <2>1. /\ i + 1 \in 2 .. Len(list) /\ i \in 1 .. Len(list) - 1
        /\ i - 1 \in 1 .. Len(list) - 1
        /\ i - 1 + 1 = i /\ i + 1 - 1 = i
    BY <1>1
  <2>2. Parent[list[i + 1]] = list[i]
    BY <2>1 DEF Linked
  <2>3. QED
    BY <1>1, <2>1, <2>2
<1>3. ASSUME Tail(list) # <<>>
      PROVE  Parent[Head(Tail(list))] = Head(list)
  <2>1. Head(Tail(list)) = Tail(list)[1] /\ Len(list) >= 2
    BY <1>1, <1>3
  <2>2. Parent[list[2]] = list[1]
    BY <1>1, <2>1 DEF Linked
  <2>3. QED
    BY <1>1, <2>1, <2>2
<1>4. QED
  BY <1>1, <1>2, <1>3 DEF Linked

LEMMA StoredDoc ==
  ASSUME TypeOK, NEW b, Stored(b)
  PROVE  b \in Blocks /\ blocks[b] \in BlockDocs
BY DEF TypeOK, Stored

\* Messages are only added at the end, and well-formed ones.
WireGrows ==
    \A p \in Peers :
        \/ wire'[p] = wire[p]
        \/ wire'[p] = <<>>
        \/ wire[p] # <<>> /\ wire'[p] = Tail(wire[p])
        \/ \E m \in Messages : WellFormed(m) /\ wire'[p] = Append(wire[p], m)

WireOK ==
    /\ wire \in [Peers -> Seq(Messages)]
    /\ \A p \in Peers : \A i \in 1 .. Len(wire[p]) : WellFormed(wire[p][i])

LEMMA WireStaysOK ==
  ASSUME WireOK, WireGrows, wire' = [p \in Peers |-> wire'[p]]
  PROVE  WireOK'
<1>1. ASSUME NEW p \in Peers
      PROVE  /\ wire'[p] \in Seq(Messages)
             /\ \A i \in 1 .. Len(wire'[p]) : WellFormed(wire'[p][i])
  <2>1. wire[p] \in Seq(Messages)
    BY DEF WireOK
  <2>2. CASE wire'[p] = wire[p]
    BY <2>1, <2>2 DEF WireOK
  <2>3. CASE wire'[p] = <<>>
    BY <2>3
  <2>4. CASE wire[p] # <<>> /\ wire'[p] = Tail(wire[p])
    <3>1. /\ Tail(wire[p]) \in Seq(Messages)
          /\ Len(Tail(wire[p])) = Len(wire[p]) - 1
          /\ \A i \in 1 .. Len(wire[p]) - 1 : Tail(wire[p])[i] = wire[p][i + 1]
      BY <2>1, <2>4
    <3>2. \A i \in 1 .. Len(wire[p]) - 1 : i + 1 \in 1 .. Len(wire[p])
      BY <2>1
    <3>3. QED
      BY <2>4, <3>1, <3>2 DEF WireOK
  <2>5. CASE \E m \in Messages : WellFormed(m) /\ wire'[p] = Append(wire[p], m)
    <3>1. PICK m \in Messages : WellFormed(m) /\ wire'[p] = Append(wire[p], m)
      BY <2>5
    <3>2. /\ wire'[p] \in Seq(Messages)
          /\ Len(wire'[p]) = Len(wire[p]) + 1
          /\ \A i \in 1 .. Len(wire[p]) : wire'[p][i] = wire[p][i]
          /\ wire'[p][Len(wire[p]) + 1] = m
      BY <2>1, <3>1
    <3>3. \A i \in 1 .. Len(wire[p]) + 1 :
             i \in 1 .. Len(wire[p]) \/ i = Len(wire[p]) + 1
      BY <2>1
    <3>4. QED
      BY <3>1, <3>2, <3>3 DEF WireOK
  <2>6. QED
    BY <2>2, <2>3, <2>4, <2>5 DEF WireGrows
<1>2. QED
  BY <1>1 DEF WireOK

LEMMA NextWire ==
  ASSUME TypeOK, WireOK, [Next]_vars
  PROVE  WireOK'
<1> SUFFICES WireGrows /\ wire' = [p \in Peers |-> wire'[p]]
  BY WireStaysOK
<1>1. wire = [p \in Peers |-> wire[p]]
  BY DEF TypeOK
<1>2. CASE UNCHANGED wire
  BY <1>1, <1>2 DEF WireGrows
<1>3. CASE SendQuestion
  BY <1>3, AnswerLinked DEF SendQuestion, WireGrows, TypeOK
<1>4. ASSUME NEW p \in Peers, wire[p] # <<>>,
             wire' = [wire EXCEPT ![p] = Tail(@)]
      PROVE  WireGrows /\ wire' = [q \in Peers |-> wire'[q]]
  BY <1>1, <1>4 DEF WireGrows
<1>5. ASSUME NEW p \in Peers, NEW b \in Blocks, PeerAdvances(p, b)
      PROVE  WireGrows /\ wire' = [q \in Peers |-> wire'[q]]
  <2> DEFINE m == [type |-> "block", asked |-> {}, list |-> <<b>>]
  <2>1. m \in Messages /\ WellFormed(m)
    BY DEF Messages, WellFormed
  <2>2. wire' = wire \/ wire' = [wire EXCEPT ![p] = Append(@, m)]
    BY <1>5 DEF PeerAdvances
  <2> HIDE DEF m
  <2>3. QED
    BY <1>1, <2>1, <2>2 DEF WireGrows
<1>6. CASE Crash
  BY <1>6 DEF Crash, WireGrows
<1>7. QED
  BY <1>2, <1>3, <1>4, <1>5, <1>6
  DEF Next, Work, Start, AskHeaders, AskAgain, ReceiveHeaders, ReceiveBlock,
      NoReorg, Reorg, UndoOne, UndoBlocks, UndoTxs, UndoCoins, Unspend, Step,
      WriteBlock, LinkPrevious, MintCoins, SpendCoins, StoreTxs,
      MarkProcessed, StepFails, vars

LEMMA NoBlocks == <<>> \in Seq(Blocks)
OBVIOUS

LEMMA InitOK == Init => IInv
<1> SUFFICES ASSUME Init
             PROVE  IInv
  OBVIOUS
<1>1. TypeOK
  <2>1. \A p \in Peers : wire[p] = <<>>
    BY DEF Init
  <2>2. wire \in [Peers -> Seq([type : {"headers", "block"},
                               asked : SUBSET Blocks, list : Seq(Blocks)])]
    BY DEF Init
  <2>3. /\ blocks \in [Blocks -> {None} \cup BlockDocs]
        /\ coins \in [Coins -> {None} \cup CoinDocs]
        /\ txs \in [Txs -> {None} \cup TxDocs]
    BY DEF Init
  <2>4. crashes \in 0 .. MaxCrashes /\ retries \in 0 .. MaxRetries
    BY DataAssumption DEF Init
  <2>5. at \in Stages /\ undo \subseteq Deletes /\ from \in Nat
    BY DEF Init, Stages
  <2>6. QED
    BY <2>2, <2>3, <2>4, <2>5, NoBlocks DEF Init, TypeOK
<1>2. Processed = {} /\ \A b \in Blocks : ~Stored(b)
  BY DEF Init, Stored, Processed
<1>3. Shape /\ ChainInv
  BY <1>2
  DEF Init, Shape, ChainInv, TrueHeights, OneChain, CurrentFits, Importing,
      Written
<1>4. QED
  BY <1>1, <1>3 DEF IInv

LEMMA ShapeFacts ==
  ASSUME TypeOK, Shape
  PROVE  /\ WireOK
         /\ at \in Importing =>
               /\ todo # <<>> /\ Linked(todo)
               /\ Current \in Blocks /\ Current = todo[1]
               /\ Tail(todo) \in Seq(Blocks)
         /\ at \in Written =>
               /\ blocks[Current] \in BlockDocs
               /\ BlockHeight \in Nat \ {0}
<1>1. WireOK
  BY DEF WireOK, TypeOK, Shape, Messages
<1>2. ASSUME at \in Importing
      PROVE  /\ todo # <<>> /\ Linked(todo)
             /\ Current \in Blocks /\ Current = todo[1]
             /\ Tail(todo) \in Seq(Blocks)
  <2>1. todo \in Seq(Blocks) /\ todo # <<>> /\ Linked(todo)
    BY <1>2 DEF TypeOK, Shape
  <2>2. QED
    BY <2>1, LinkedTail DEF Current
<1>3. ASSUME at \in Written
      PROVE  blocks[Current] \in BlockDocs /\ BlockHeight \in Nat \ {0}
  <2>1. blocks[Current] \in BlockDocs
    BY <1>3, StoredDoc DEF Shape
  <2>2. QED
    BY <2>1 DEF BlockDocs, BlockHeight
<1>4. QED
  BY <1>1, <1>2, <1>3

LEMMA NewHeightType ==
  ASSUME TypeOK, NEW b \in Blocks
  PROVE  NewHeight(b) \in Nat \ {0}
<1>1. CASE Stored(Parent[b])
  BY <1>1, StoredDoc DEF NewHeight, BlockDocs
<1>2. CASE ~Stored(Parent[b])
  BY <1>2 DEF NewHeight
<1>3. QED
  BY <1>1, <1>2

\* What the writes of a block's import leave alone.
LEMMA StepType ==
  ASSUME TypeOK, NEW this, NEW next \in Stages, Step(this, next),
         blocks' \in [Blocks -> {None} \cup BlockDocs],
         coins' \in [Coins -> {None} \cup CoinDocs],
         txs' \in [Txs -> {None} \cup TxDocs]
  PROVE  TypeOK'
BY DEF TypeOK, Step, history

LEMMA UndoType ==
  ASSUME TypeOK, NEW d, UndoOne(d),
         blocks' \in [Blocks -> {None} \cup BlockDocs],
         coins' \in [Coins -> {None} \cup CoinDocs],
         txs' \in [Txs -> {None} \cup TxDocs]
  PROVE  TypeOK'
<1>1. at' \in Stages /\ undo' \subseteq Deletes
  BY DEF TypeOK, UndoOne, Stages
<1>2. QED
  BY <1>1 DEF TypeOK, UndoOne, history

LEMMA InterruptedType ==
  ASSUME TypeOK, Interrupted
  PROVE  crashes' \in 0 .. MaxCrashes /\ torn' \in BOOLEAN
BY DataAssumption DEF TypeOK, Interrupted

LEMMA NextType ==
  ASSUME TypeOK, Shape, [Next]_vars
  PROVE  TypeOK'
<1>1. wire' \in [Peers -> Seq([type : {"headers", "block"},
                               asked : SUBSET Blocks, list : Seq(Blocks)])]
  BY NextWire, ShapeFacts DEF WireOK, Messages
<1>2. CASE Start
  BY <1>2 DEF Start, TypeOK, Stages, db, history
<1>3. CASE AskHeaders
  BY <1>1, <1>3 DEF AskHeaders, TypeOK, Stages, db, history
<1>4. CASE AskAgain
  <2>1. retries' \in 0 .. MaxRetries
    BY <1>4, DataAssumption DEF AskAgain, TypeOK
  <2>2. QED
    BY <1>1, <1>4, <2>1 DEF AskAgain, TypeOK, db, history, worker
<1>5. ASSUME NEW p \in Peers, ReceiveHeaders(p)
      PROVE  TypeOK'
  <2>1. wire[p] \in Seq(Messages) /\ wire[p] # <<>>
    BY <1>5, ShapeFacts DEF ReceiveHeaders, WireOK
  <2>2. Head(wire[p]) \in Messages
    BY <2>1
  <2>3. Head(wire[p]).list \in Seq(Blocks)
    BY <2>2 DEF Messages
  <2>4. todo' \in Seq(Blocks) /\ at' \in Stages /\ late' \in BOOLEAN
    BY <1>5, <2>3 DEF ReceiveHeaders, TypeOK, Stages
  <2>5. QED
    BY <1>1, <1>5, <2>4 DEF ReceiveHeaders, TypeOK, db
<1>6. ASSUME NEW p \in Peers, ReceiveBlock(p)
      PROVE  TypeOK'
  <2>1. wire[p] \in Seq(Messages) /\ wire[p] # <<>> /\ WellFormed(wire[p][1])
    BY <1>6, ShapeFacts DEF ReceiveBlock, WireOK
  <2>2. Head(wire[p]) \in Messages /\ WellFormed(Head(wire[p]))
    BY <2>1
  <2>3. Head(wire[p]).list \in Seq(Blocks) /\ Head(wire[p]).list # <<>>
    BY <1>6, <2>2 DEF Messages, WellFormed, ReceiveBlock
  <2>4. Head(Head(wire[p]).list) \in Blocks
    BY <2>3
  <2>5. cached' \subseteq Blocks /\ at' \in Stages
    BY <1>6, <2>4 DEF ReceiveBlock, TypeOK, Stages
  <2>6. QED
    BY <1>1, <1>6, <2>5 DEF ReceiveBlock, TypeOK, db, history
<1>7. CASE NoReorg
  <2>1. Current \in Blocks
    BY <1>7, ShapeFacts DEF NoReorg, Importing
  <2>2. QED
    BY <1>7, <2>1 DEF NoReorg, TypeOK, Stages, db, history
<1>8. CASE Reorg
  <2>1. Current \in Blocks
    BY <1>8, ShapeFacts DEF Reorg, Importing
  <2>2. from' \in Nat
    <3>1. PICK tip \in Blocks : IsTip(tip) /\ from' = blocks[
              IF Stored(Parent[Current]) THEN Parent[Current] ELSE tip].height
      BY <1>8 DEF Reorg
    <3>2. Stored(tip)
      BY <3>1 DEF IsTip, Processed
    <3>3. QED
      BY <3>1, <3>2, StoredDoc DEF BlockDocs
  <2>3. QED
    BY <1>8, <2>1, <2>2 DEF Reorg, TypeOK, Stages, db, history
<1>9. CASE UndoBlocks
  BY <1>9, UndoType DEF UndoBlocks, TypeOK
<1>10. CASE UndoTxs
  BY <1>10, UndoType DEF UndoTxs, TypeOK
<1>11. CASE UndoCoins
  BY <1>11, UndoType DEF UndoCoins, TypeOK
<1>12. CASE Unspend
  <2>1. ASSUME NEW c \in Coins, coins[c] # None
        PROVE  [coins[c] EXCEPT !.spent = Unspent, !.by = None] \in CoinDocs
    BY <2>1 DEF TypeOK, CoinDocs
  <2>2. coins' \in [Coins -> {None} \cup CoinDocs]
    BY <1>12, <2>1 DEF Unspend, TypeOK
  <2>3. QED
    BY <1>12, <2>2, NoBlocks DEF Unspend, TypeOK, Stages, history
<1>13. CASE WriteBlock
  <2>1. Current \in Blocks /\ NewHeight(Current) \in Nat \ {0}
    BY <1>13, ShapeFacts, NewHeightType DEF WriteBlock, Step, Importing
  <2>2. blocks' \in [Blocks -> {None} \cup BlockDocs]
    BY <1>13, <2>1 DEF WriteBlock, TypeOK, BlockDocs
  <2>3. "link" \in Stages /\ Step("block", "link")
    BY <1>13 DEF WriteBlock, Stages
  <2>4. QED
    BY <1>13, <2>2, <2>3, StepType DEF WriteBlock, TypeOK
<1>14. CASE LinkPrevious
  <2>1. Current \in Blocks
    BY <1>14, ShapeFacts DEF LinkPrevious, Step, Importing
  <2>2. Stored(Parent[Current]) =>
           [blocks[Parent[Current]] EXCEPT !.next = Current] \in BlockDocs
    BY <2>1, StoredDoc DEF BlockDocs
  <2>3. blocks' \in [Blocks -> {None} \cup BlockDocs]
    BY <1>14, <2>2 DEF LinkPrevious, TypeOK
  <2>4. "mint" \in Stages /\ Step("link", "mint")
    BY <1>14 DEF LinkPrevious, Stages
  <2>5. QED
    BY <1>14, <2>3, <2>4, StepType DEF LinkPrevious, TypeOK
<1>15. CASE MintCoins
  <2>1. BlockHeight \in Nat \ {0}
    BY <1>15, ShapeFacts DEF MintCoins, Step, Written
  <2>2. [mint |-> BlockHeight, spent |-> Unspent, by |-> None] \in CoinDocs
    BY <2>1 DEF CoinDocs
  <2>3. ASSUME NEW c \in Coins, coins[c] # None
        PROVE  [coins[c] EXCEPT !.mint = BlockHeight] \in CoinDocs
    BY <2>1, <2>3 DEF TypeOK, CoinDocs
  <2>4. coins' \in [Coins -> {None} \cup CoinDocs]
    BY <1>15, <2>2, <2>3 DEF MintCoins, TypeOK
  <2>5. "spend" \in Stages /\ Step("mint", "spend")
    BY <1>15 DEF MintCoins, Stages
  <2>6. QED
    BY <1>15, <2>4, <2>5, StepType DEF MintCoins, TypeOK
<1>16. CASE SpendCoins
  <2>1. BlockHeight \in Nat /\ Current \in Blocks
    BY <1>16, ShapeFacts DEF SpendCoins, Step, Written, Importing
  <2>2. ASSUME NEW c \in Coins, coins[c] # None,
               \E t \in TxsIn[Current] : c \in Spends[t]
        PROVE  [coins[c] EXCEPT !.spent = BlockHeight, !.by = Spender(c)]
                  \in CoinDocs
    <3>1. Spender(c) \in Txs
      BY <2>1, <2>2, DataAssumption DEF Spender
    <3>2. QED
      BY <2>1, <2>2, <3>1 DEF TypeOK, CoinDocs
  <2>3. coins' \in [Coins -> {None} \cup CoinDocs]
    BY <1>16, <2>2 DEF SpendCoins, TypeOK
  <2>4. "txs" \in Stages /\ Step("spend", "txs")
    BY <1>16 DEF SpendCoins, Stages
  <2>5. QED
    BY <1>16, <2>3, <2>4, StepType DEF SpendCoins, TypeOK
<1>17. CASE StoreTxs
  <2>1. BlockHeight \in Nat \ {0} /\ Current \in Blocks
    BY <1>17, ShapeFacts DEF StoreTxs, Step, Written, Importing
  <2>2. txs' \in [Txs -> {None} \cup TxDocs]
    BY <1>17, <2>1 DEF StoreTxs, TypeOK, TxDocs
  <2>3. "mark" \in Stages /\ Step("txs", "mark")
    BY <1>17 DEF StoreTxs, Stages
  <2>4. QED
    BY <1>17, <2>2, <2>3, StepType DEF StoreTxs, TypeOK
<1>18. CASE MarkProcessed
  <2>1. /\ blocks[Current] \in BlockDocs /\ Current \in Blocks
        /\ Tail(todo) \in Seq(Blocks)
    BY <1>18, ShapeFacts DEF MarkProcessed, Written, Importing
  <2>2. blocks' \in [Blocks -> {None} \cup BlockDocs]
    BY <1>18, <2>1 DEF MarkProcessed, TypeOK, BlockDocs
  <2>3. todo' \in Seq(Blocks) /\ at' \in Stages
    BY <1>18, <2>1 DEF MarkProcessed, Stages
  <2>4. QED
    BY <1>18, <2>2, <2>3 DEF MarkProcessed, TypeOK, history
<1>19. CASE Crash
  BY <1>1, <1>19, NoBlocks, InterruptedType DEF Crash, TypeOK, Stages, db
<1>20. CASE StepFails
  BY <1>20, NoBlocks, InterruptedType DEF StepFails, TypeOK, Stages, db
<1>21. ASSUME NEW p \in Peers, NEW b \in Blocks, PeerAdvances(p, b)
       PROVE  TypeOK'
  BY <1>1, <1>21 DEF PeerAdvances, TypeOK, db, worker, history
<1>22. CASE UNCHANGED vars
  BY <1>22 DEF vars, TypeOK
<1>23. QED
  BY <1>2, <1>3, <1>4, <1>5, <1>6, <1>7, <1>8, <1>9, <1>10, <1>11, <1>12,
     <1>13, <1>14, <1>15, <1>16, <1>17, <1>18, <1>19, <1>20, <1>21, <1>22
  DEF Next, Work

-----------------------------------------------------------------------------
(***************************************************************************)
(* What comes over the wire keeps its shape                                *)
(***************************************************************************)

LEMMA DocsNotNone == \A d \in BlockDocs : d # None
BY NoneAssumption

LEMMA NextShape ==
  ASSUME TypeOK, TypeOK', Shape, [Next]_vars
  PROVE  Shape'
<1>1. WireOK'
  BY NextWire, ShapeFacts
<1>2. ASSUME at' \notin Importing
      PROVE  Shape'
  BY <1>1, <1>2 DEF Shape, WireOK, Importing, Written
<1>3. ASSUME UNCHANGED <<blocks, todo>>, at' \in Importing => at \in Importing,
             at' \in Written => at \in Written
      PROVE  Shape'
  BY <1>1, <1>3 DEF Shape, WireOK, Stored, Current
<1>4. ASSUME NEW p \in Peers, ReceiveHeaders(p), at' \in Importing
      PROVE  Shape'
  <2>1. CASE at = "headers"
    <3>1. wire[p] \in Seq(Messages) /\ wire[p] # <<>> /\ WellFormed(wire[p][1])
      BY <1>4, ShapeFacts DEF ReceiveHeaders, WireOK
    <3>2. Head(wire[p]) \in Messages /\ WellFormed(Head(wire[p]))
      BY <3>1
    <3>3. Linked(todo') /\ todo' # <<>> /\ at' = "check"
      BY <1>4, <2>1, <3>2 DEF ReceiveHeaders, WellFormed, Importing
    <3>4. QED
      BY <1>1, <3>3 DEF Shape, WireOK, Written
  <2>2. CASE at # "headers"
    BY <1>3, <1>4, <2>2 DEF ReceiveHeaders, db
  <2>3. QED
    BY <2>1, <2>2
<1>5. CASE NoReorg
  BY <1>3, <1>5 DEF NoReorg, db, Importing, Written
<1>6. CASE WriteBlock
  <2>1. /\ Current \in Blocks /\ todo' = todo /\ at' = "link"
        /\ todo # <<>> /\ Linked(todo)
    BY <1>6, ShapeFacts DEF WriteBlock, Step, Importing
  <2>2. blocks'[Current] =
           [height |-> NewHeight(Current), processed |-> FALSE, next |-> None]
    BY <1>6, <2>1 DEF WriteBlock, TypeOK
  <2>3. blocks'[Current] \in BlockDocs
    BY <2>1, <2>2, NewHeightType DEF BlockDocs
  <2>4. Stored(Current)'
    BY <2>1, <2>3, DocsNotNone DEF Stored, Current
  <2>5. QED
    BY <1>1, <2>1, <2>4 DEF Shape, WireOK
<1>7. CASE LinkPrevious
  <2>1. /\ Current \in Blocks /\ todo' = todo /\ at' = "mint"
        /\ todo # <<>> /\ Linked(todo)
        /\ blocks[Current] \in BlockDocs
    BY <1>7, ShapeFacts DEF LinkPrevious, Step, Importing, Written
  <2>2. \/ blocks' = blocks
        \/ blocks' = [blocks EXCEPT ![Parent[Current]].next = Current]
    BY <1>7 DEF LinkPrevious
  <2>3. blocks'[Current] \in BlockDocs
    <3>1. Parent[Current] # Current
      BY <2>1, ParentHeight, TreeAssumption
    <3>2. blocks'[Current] = blocks[Current]
      BY <2>1, <2>2, <3>1 DEF TypeOK
    <3>3. QED
      BY <2>1, <3>2
  <2>4. Stored(Current)'
    BY <2>1, <2>3, DocsNotNone DEF Stored, Current
  <2>5. QED
    BY <1>1, <2>1, <2>4 DEF Shape, WireOK
<1>8. CASE MintCoins \/ SpendCoins \/ StoreTxs
  BY <1>3, <1>8
  DEF MintCoins, SpendCoins, StoreTxs, Step, Importing, Written
<1>9. CASE MarkProcessed
  <2>1. todo # <<>> /\ Linked(todo) /\ todo \in Seq(Blocks)
    BY <1>9, ShapeFacts DEF MarkProcessed, Importing, TypeOK
  <2>2. at' \in Importing => todo' # <<>> /\ Linked(todo') /\ at' = "check"
    BY <1>9, <2>1, LinkedTail DEF MarkProcessed, Importing
  <2>3. QED
    BY <1>1, <1>2, <2>2 DEF Shape, WireOK, Written
<1>10. CASE UndoBlocks \/ UndoTxs \/ UndoCoins
  BY <1>2, <1>10 DEF UndoBlocks, UndoTxs, UndoCoins, UndoOne, Importing
<1>11. CASE Start \/ AskHeaders \/ Reorg \/ Unspend \/ Crash \/ StepFails
  BY <1>2, <1>11
  DEF Start, AskHeaders, Reorg, Unspend, Crash, StepFails, Importing
<1>12. ASSUME NEW p \in Peers, ReceiveBlock(p)
       PROVE  Shape'
  BY <1>3, <1>12 DEF ReceiveBlock, db, Importing, Written
<1>13. ASSUME \/ AskAgain
              \/ \E p \in Peers, b \in Blocks : PeerAdvances(p, b)
       PROVE  Shape'
  BY <1>3, <1>13 DEF AskAgain, PeerAdvances, db, worker
<1>14. CASE UNCHANGED vars
  BY <1>3, <1>14 DEF vars
<1>15. QED
  BY <1>2, <1>4, <1>5, <1>6, <1>7, <1>8, <1>9, <1>10, <1>11, <1>12, <1>13,
     <1>14
  DEF Next, Work

-----------------------------------------------------------------------------
(***************************************************************************)
(* The processed blocks stay one chain                                     *)
(***************************************************************************)

LEMMA ProcessedFacts ==
  ASSUME TypeOK, TrueHeights, NEW b \in Processed
  PROVE  /\ b \in Blocks /\ Stored(b) /\ b # Genesis
         /\ blocks[b] \in BlockDocs /\ blocks[b].processed
         /\ blocks[b].height = Height[b] /\ Height[b] \in Nat
BY StoredDoc, ParentHeight, TreeAssumption DEF Processed, TrueHeights

\* A block that fits is above all that are processed.
LEMMA FitsAbove ==
  ASSUME TypeOK, TrueHeights, NEW b \in Blocks, Fits(b), NEW a \in Processed
  PROVE  Height[a] < Height[b] /\ Parent[b] \in Processed
<1>1. Parent[b] # Genesis /\ IsTip(Parent[b])
  BY DEF Fits
<1>2. Parent[b] \in Processed /\ blocks[a].height <= blocks[Parent[b]].height
  BY <1>1 DEF IsTip
<1>3. QED
  BY <1>1, <1>2, ProcessedFacts, ParentHeight

\* NoReorg lets a block through only when it fits.
LEMMA NoReorgFits ==
  ASSUME TypeOK, Shape, ChainInv, NoReorg
  PROVE  Fits(Current)
<1>1. Current \in Blocks /\ Parent[Current] \in Processed \cup {Genesis}
  BY ShapeFacts DEF NoReorg, Importing, ChainInv, CurrentFits
<1>2. CASE Processed = {}
  BY <1>1, <1>2 DEF Fits
<1>3. CASE IsTip(Parent[Current])
  <2>1. Parent[Current] \in Processed /\ Parent[Current] # Genesis
    BY <1>3, ProcessedFacts DEF IsTip, ChainInv
  <2>2. ASSUME Current \in Processed
        PROVE  FALSE
    <3>1. blocks[Current].height <= blocks[Parent[Current]].height
      BY <1>3, <2>2 DEF IsTip
    <3>2. Height[Current] <= Height[Parent[Current]]
      BY <2>1, <2>2, <3>1, ProcessedFacts DEF ChainInv
    <3>3. QED
      BY <1>1, <2>1, <3>2, ParentHeight
  <2>3. QED
    BY <1>3, <2>1, <2>2 DEF Fits
<1>4. QED
  BY <1>2, <1>3 DEF NoReorg

LEMMA ChainKept ==
  ASSUME ChainInv, UNCHANGED blocks,
         \/ at' \notin Importing
         \/ UNCHANGED <<at, todo>>
         \/ UNCHANGED todo /\ at' \in Written \ {"link"}
               /\ at \in Written \ {"link"}
  PROVE  ChainInv'
BY DEF ChainInv, TrueHeights, OneChain, CurrentFits, Processed, Stored, IsTip,
       Fits, Current, Importing, Written

LEMMA WriteBlockChain ==
  ASSUME TypeOK, Shape, ChainInv, WriteBlock
  PROVE  ChainInv' /\ Processed' = Processed
<1>0. PICK c \in Blocks : c = Current
  BY ShapeFacts DEF WriteBlock, Step, Importing
<1>1. /\ Fits(c) /\ todo' = todo /\ at' = "link" /\ Current' = c
      /\ blocks' = [blocks EXCEPT ![c] =
            [height |-> NewHeight(c), processed |-> FALSE, next |-> None]]
  BY <1>0 DEF WriteBlock, Step, ChainInv, CurrentFits, Current
<1>2. c \notin Processed /\ (Parent[c] # Genesis => IsTip(Parent[c]))
  BY <1>1 DEF Fits
<1>3. NewHeight(c) = Height[c]
  <2>1. CASE Parent[c] = Genesis
    BY <1>1, <2>1, ParentHeight, TreeAssumption DEF NewHeight, Stored
  <2>2. CASE Parent[c] # Genesis
    BY <1>1, <1>2, <2>2, ParentHeight, ProcessedFacts
    DEF NewHeight, IsTip, ChainInv
  <2>3. QED
    BY <2>1, <2>2
<1>4. /\ blocks'[c].height = Height[c] /\ blocks'[c].processed = FALSE
      /\ \A b \in Blocks \ {c} : blocks'[b] = blocks[b]
  BY <1>1, <1>3 DEF TypeOK
<1>5. Processed' = Processed
  BY <1>1, <1>2, <1>4 DEF Processed, Stored
<1>6. TrueHeights'
  BY <1>4 DEF TrueHeights, Stored, ChainInv
<1>7. OneChain'
  BY <1>2, <1>4, <1>5, ProcessedFacts DEF OneChain, ChainInv
<1>8. Fits(c)'
  <2>1. \A b \in Processed : blocks'[b] = blocks[b]
    BY <1>2, <1>4, ProcessedFacts DEF ChainInv
  <2>2. IsTip(Parent[c]) => IsTip(Parent[c])'
    BY <1>5, <2>1 DEF IsTip
  <2>3. QED
    BY <1>1, <1>5, <2>2 DEF Fits
<1>9. CurrentFits'
  BY <1>1, <1>8 DEF CurrentFits, Written
<1>10. QED
  BY <1>5, <1>6, <1>7, <1>9 DEF ChainInv

LEMMA LinkPreviousChain ==
  ASSUME TypeOK, Shape, ChainInv, LinkPrevious
  PROVE  ChainInv' /\ Processed' = Processed
<1>1. PICK c \in Blocks : c = Current
  BY ShapeFacts DEF LinkPrevious, Step, Importing
<1>2. /\ Fits(c) /\ todo' = todo /\ at' = "mint" /\ Current' = c
      /\ blocks' = IF Stored(Parent[c])
                   THEN [blocks EXCEPT ![Parent[c]].next = c] ELSE blocks
  BY <1>1
  DEF LinkPrevious, Step, ChainInv, CurrentFits, Current, Written
<1>3. c \notin Processed /\ (Parent[c] # Genesis => IsTip(Parent[c]))
  BY <1>2 DEF Fits
<1>4. CASE Parent[c] = Genesis
  <2>1. UNCHANGED <<blocks, todo>>
    BY <1>2, <1>4, TreeAssumption DEF Stored
  <2>2. Processed' = Processed
    BY <2>1 DEF Processed, Stored
  <2>3. TrueHeights' /\ OneChain'
    BY <2>1, <2>2 DEF ChainInv, TrueHeights, OneChain, Stored
  <2>4. Fits(c)'
    BY <1>2, <1>4, <2>2 DEF Fits
  <2>5. QED
    BY <1>2, <1>4, <2>2, <2>3, <2>4 DEF ChainInv, CurrentFits, Written
<1>5. CASE Parent[c] # Genesis
  <2>1. /\ Parent[c] \in Processed /\ Parent[c] \in Blocks
        /\ blocks[Parent[c]] \in BlockDocs /\ Stored(Parent[c])
    BY <1>3, <1>5, ProcessedFacts DEF IsTip, ChainInv
  <2>2. /\ blocks'[Parent[c]] = [blocks[Parent[c]] EXCEPT !.next = c]
        /\ \A b \in Blocks \ {Parent[c]} : blocks'[b] = blocks[b]
    BY <1>2, <2>1 DEF TypeOK
  <2>3. /\ blocks'[Parent[c]] # None /\ blocks'[Parent[c]].next = c
        /\ blocks'[Parent[c]].height = blocks[Parent[c]].height
        /\ blocks'[Parent[c]].processed = blocks[Parent[c]].processed
    BY <2>1, <2>2, DocsNotNone DEF BlockDocs
  <2>4. \A b \in Blocks :
           /\ (blocks'[b] = None) <=> (blocks[b] = None)
           /\ blocks'[b].height = blocks[b].height
           /\ blocks'[b].processed = blocks[b].processed
    BY <2>1, <2>2, <2>3 DEF Stored
  <2>5. Processed' = Processed
    BY <2>4 DEF Processed, Stored
  <2>6. TrueHeights'
    BY <2>4 DEF TrueHeights, Stored, ChainInv
  <2>7. Fits(c)'
    <3>1. IsTip(Parent[c])'
      BY <1>3, <1>5, <2>4, <2>5, ProcessedFacts DEF IsTip, ChainInv
    <3>2. QED
      BY <1>3, <1>5, <2>5, <3>1 DEF Fits
  <2>8. ASSUME NEW b \in Processed, Parent[b] # Genesis
        PROVE  blocks'[Parent[b]].next = b
    <3>1. b \in Blocks /\ Height[b] < Height[c]
      BY <1>2, ProcessedFacts, FitsAbove DEF ChainInv
    <3>2. Parent[b] # Parent[c]
      BY <1>5, <3>1, ParentHeight
    <3>3. Parent[b] \in Blocks /\ blocks[Parent[b]].next = b
      BY <2>8, <3>1, ParentHeight DEF ChainInv, OneChain
    <3>4. QED
      BY <2>2, <3>2, <3>3
  <2>9. OneChain'
    BY <2>5, <2>8 DEF OneChain, ChainInv
  <2>10. CurrentFits'
    BY <1>2, <2>3, <2>7 DEF CurrentFits, Written
  <2>11. QED
    BY <2>5, <2>6, <2>9, <2>10 DEF ChainInv
<1>6. QED
  BY <1>4, <1>5

\* The block that is complete comes on top of the chain.
LEMMA MarkProcessedChain ==
  ASSUME TypeOK, Shape, ChainInv, MarkProcessed
  PROVE  /\ ChainInv'
         /\ Current \in Blocks /\ Fits(Current)
         /\ Processed' = Processed \cup {Current}
<1>1. PICK c \in Blocks : c = Current
  BY ShapeFacts DEF MarkProcessed, Importing
<1>2. /\ Fits(c) /\ Stored(c) /\ blocks[c] \in BlockDocs
      /\ Parent[c] # Genesis => blocks[Parent[c]].next = c
      /\ todo # <<>> /\ todo \in Seq(Blocks) /\ Linked(todo)
      /\ todo' = Tail(todo)
      /\ at' = IF todo' = <<>> THEN "ask" ELSE "check"
      /\ blocks' = [blocks EXCEPT ![c].processed = TRUE]
  BY <1>1, ShapeFacts
  DEF MarkProcessed, ChainInv, CurrentFits, Importing, Written, TypeOK, Shape
<1>3. /\ blocks'[c] = [blocks[c] EXCEPT !.processed = TRUE]
      /\ \A b \in Blocks \ {c} : blocks'[b] = blocks[b]
  BY <1>2 DEF TypeOK
<1>4. /\ blocks'[c] # None /\ blocks'[c].processed
      /\ \A b \in Blocks : /\ (blocks'[b] = None) <=> (blocks[b] = None)
                           /\ blocks'[b].height = blocks[b].height
                           /\ blocks'[b].next = blocks[b].next
  <2>1. ASSUME NEW d \in BlockDocs
        PROVE  /\ [d EXCEPT !.processed = TRUE] \in BlockDocs
               /\ [d EXCEPT !.processed = TRUE].processed
               /\ [d EXCEPT !.processed = TRUE].height = d.height
               /\ [d EXCEPT !.processed = TRUE].next = d.next
    BY DEF BlockDocs
  <2>2. /\ blocks'[c] # None /\ blocks'[c].processed
        /\ blocks'[c].height = blocks[c].height
        /\ blocks'[c].next = blocks[c].next
    BY <1>2, <1>3, <2>1, DocsNotNone
  <2>3. QED
    BY <1>2, <1>3, <2>2 DEF Stored
<1>5. Processed' = Processed \cup {c}
  BY <1>3, <1>4 DEF Processed, Stored
<1>6. TrueHeights'
  BY <1>4 DEF TrueHeights, Stored, ChainInv
<1>7. ASSUME NEW b \in Processed', Parent[b] # Genesis
      PROVE  Parent[b] \in Processed' /\ blocks'[Parent[b]].next = b
  <2>1. Parent[b] \in Blocks
    BY <1>5, <1>7, ProcessedFacts, ParentHeight DEF ChainInv
  <2>2. CASE b = c
    <3>1. Parent[c] \in Processed
      BY <1>2, <1>7, <2>2 DEF Fits, IsTip
    <3>2. QED
      BY <1>2, <1>4, <1>5, <1>7, <2>1, <2>2, <3>1
  <2>3. CASE b # c
    BY <1>4, <1>5, <1>7, <2>1, <2>3 DEF OneChain, ChainInv
  <2>4. QED
    BY <2>2, <2>3
<1>8. ASSUME NEW b \in Processed', NEW a \in Processed', Height[a] = Height[b]
      PROVE  a = b
  <2>1. ASSUME NEW x \in Processed
        PROVE  Height[x] < Height[c] /\ Height[x] \in Nat
    BY <1>2, FitsAbove, ProcessedFacts DEF ChainInv
  <2>2. QED
    BY <1>5, <1>8, <2>1, ParentHeight DEF OneChain, ChainInv
<1>9. OneChain'
  BY <1>7, <1>8 DEF OneChain
<1>10. CurrentFits'
  <2>1. ASSUME at' = "check"
        PROVE  Parent[Current'] = c
    BY <1>1, <1>2, <2>1, LinkedTail DEF Current
  <2>2. QED
    BY <1>2, <1>5, <2>1 DEF CurrentFits, Written
<1>11. QED
  BY <1>1, <1>2, <1>5, <1>6, <1>9, <1>10 DEF ChainInv

\* A rollback cuts the chain at a height.
LEMMA UndoBlocksChain ==
  ASSUME TypeOK, ChainInv, UndoBlocks
  PROVE  /\ ChainInv'
         /\ Processed' \subseteq Processed
         /\ \A b \in Processed' : Parent[b] \in Processed' \cup {Genesis}
<1>1. /\ blocks' = [b \in Blocks |->
            IF Stored(b) /\ blocks[b].height >= from THEN None ELSE blocks[b]]
      /\ at' \notin Importing
      /\ from \in Nat
  BY DEF UndoBlocks, UndoOne, Importing, TypeOK
<1>2. Processed' = {b \in Processed : ~(blocks[b].height >= from)}
  BY <1>1 DEF Processed, Stored
<1>3. \A b \in Processed' : blocks'[b] = blocks[b]
  BY <1>1, <1>2 DEF Processed
<1>4. TrueHeights'
  BY <1>1 DEF TrueHeights, Stored, ChainInv
<1>5. ASSUME NEW b \in Processed', Parent[b] # Genesis
      PROVE  Parent[b] \in Processed' /\ blocks'[Parent[b]].next = b
  <2>1. b \in Processed /\ b \in Blocks /\ Height[b] < from
    BY <1>1, <1>2, ProcessedFacts DEF ChainInv
  <2>2. Parent[b] \in Processed /\ blocks[Parent[b]].next = b
    BY <1>5, <2>1 DEF OneChain, ChainInv
  <2>3. Height[Parent[b]] < from /\ blocks[Parent[b]].height = Height[Parent[b]]
    BY <1>1, <1>5, <2>1, <2>2, ParentHeight, ProcessedFacts DEF ChainInv
  <2>4. Parent[b] \in Processed'
    BY <1>1, <1>2, <1>5, <2>1, <2>2, <2>3, ParentHeight
  <2>5. QED
    BY <1>3, <2>2, <2>4
<1>6. OneChain'
  BY <1>2, <1>5 DEF OneChain, ChainInv
<1>7. CurrentFits'
  BY <1>1 DEF CurrentFits, Importing, Written
<1>8. QED
  BY <1>2, <1>4, <1>5, <1>6, <1>7 DEF ChainInv

LEMMA ReceiveHeadersChain ==
  ASSUME TypeOK, Shape, ~late, ChainInv, NEW p \in Peers, ReceiveHeaders(p),
         ~late'
  PROVE  ChainInv'
<1>1. CASE at = "headers" /\ at' \in Importing
  <2>1. wire[p] \in Seq(Messages) /\ wire[p] # <<>> /\ WellFormed(wire[p][1])
    BY ShapeFacts DEF ReceiveHeaders, WireOK
  <2>2. /\ Head(wire[p]) \in Messages /\ WellFormed(Head(wire[p]))
        /\ Head(wire[p]).type = "headers"
    BY <2>1 DEF ReceiveHeaders
  <2>3. /\ todo' = Head(wire[p]).list
        /\ todo' # <<>> /\ at' = "check" /\ blocks' = blocks
        /\ Head(wire[p]).asked = Processed
    BY <1>1 DEF ReceiveHeaders, Importing, db
  <2>4. todo' \in Seq(Blocks) /\ Parent[todo'[1]] \in Processed \cup {Genesis}
    BY <2>2, <2>3 DEF Messages, WellFormed, StartsAbove
  <2>5. Parent[Current'] \in Processed \cup {Genesis}
    BY <2>3, <2>4, LinkedTail DEF Current
  <2>6. Processed' = Processed
    BY <2>3 DEF Processed, Stored
  <2>7. TrueHeights' /\ OneChain'
    BY <2>3, <2>6 DEF TrueHeights, OneChain, ChainInv, Stored
  <2>8. CurrentFits'
    BY <2>3, <2>5, <2>6 DEF CurrentFits, Written
  <2>9. QED
    BY <2>7, <2>8 DEF ChainInv
<1>2. CASE at = "headers" /\ at' \notin Importing
  BY <1>2, ChainKept DEF ReceiveHeaders, db
<1>3. CASE at # "headers"
  BY <1>3, ChainKept DEF ReceiveHeaders, db
<1>4. QED
  BY <1>1, <1>2, <1>3

\* What a step does to the processed blocks while no late answer is taken.
Grows(b) ==
    /\ b \notin Processed /\ Fits(b)
    /\ Processed' = Processed \cup {b}
IsCutBack ==
    /\ Processed' \subseteq Processed
    /\ \A b \in Processed' : Parent[b] \in Processed' \cup {Genesis}

LEMMA NextChain ==
  ASSUME TypeOK, Shape, ~late, ChainInv, [Next]_vars, ~late'
  PROVE  /\ ChainInv'
         /\ \/ Processed' = Processed
            \/ \E b \in Blocks : Grows(b)
            \/ IsCutBack
<1>1. UNCHANGED blocks => Processed' = Processed
  BY DEF Processed, Stored
<1>2. ASSUME NEW p \in Peers, ReceiveHeaders(p)
      PROVE  ChainInv' /\ UNCHANGED blocks
  BY <1>2, ReceiveHeadersChain DEF ReceiveHeaders, db
<1>3. CASE NoReorg
  <2>1. /\ Fits(Current) /\ UNCHANGED <<blocks, todo>>
        /\ at' = "block"
    BY <1>3, NoReorgFits DEF NoReorg, db
  <2>2. Fits(Current)' /\ TrueHeights' /\ OneChain'
    BY <2>1, <1>1
    DEF Fits, IsTip, Current, ChainInv, TrueHeights, OneChain, Stored
  <2>3. CurrentFits'
    BY <2>1, <2>2 DEF CurrentFits, Written
  <2>4. QED
    BY <1>1, <2>1, <2>2, <2>3 DEF ChainInv
<1>4. CASE MarkProcessed
  BY <1>4, MarkProcessedChain DEF Grows, Fits
<1>5. CASE UndoBlocks
  BY <1>5, UndoBlocksChain DEF IsCutBack
<1>6. CASE UndoTxs \/ UndoCoins
  BY <1>1, <1>6, ChainKept DEF UndoTxs, UndoCoins, UndoOne, Importing
<1>7. CASE Start \/ AskHeaders \/ Reorg \/ Unspend \/ Crash \/ StepFails
  BY <1>1, <1>7, ChainKept
  DEF Start, AskHeaders, Reorg, Unspend, Crash, StepFails, Importing, db
<1>8. CASE MintCoins \/ SpendCoins \/ StoreTxs
  BY <1>1, <1>8, ChainKept DEF MintCoins, SpendCoins, StoreTxs, Step, Written
<1>9. ASSUME NEW p \in Peers, ReceiveBlock(p)
      PROVE  ChainInv' /\ UNCHANGED blocks
  BY <1>9, ChainKept DEF ReceiveBlock, db, Importing
<1>10. ASSUME \/ AskAgain
              \/ \E p \in Peers, b \in Blocks : PeerAdvances(p, b)
       PROVE  ChainInv' /\ UNCHANGED blocks
  BY <1>10, ChainKept DEF AskAgain, PeerAdvances, db, worker
<1>11. CASE UNCHANGED vars
  BY <1>1, <1>11, ChainKept DEF vars
<1>12. QED
  BY <1>1, <1>2, <1>3, <1>4, <1>5, <1>6, <1>7, <1>8, <1>9, <1>10, <1>11,
     WriteBlockChain, LinkPreviousChain
  DEF Next, Work

-----------------------------------------------------------------------------
(***************************************************************************)
(* The inductive invariant of the coins and transactions                   *)
(***************************************************************************)

\* No other write to height h is to be undone.
RollsBack == at \in {"undo", "unspend"}
Stays(h) == RollsBack => h < from

\* Whatever a crash has left of a block, it came on top of the chain.
StoredFits ==
    \A b \in Blocks : Stored(b) => Parent[b] \in Processed \cup {Genesis}

\* What the collections hold, a stored block has brought, be it processed or
\* left behind.
Justified ==
    /\ \A c \in Coins : coins[c] # None =>
          /\ Stays(coins[c].mint) =>
                \E b \in Blocks : /\ Stored(b) /\ c \in Minted(b)
                                  /\ coins[c].mint = Height[b]
          /\ coins[c].spent = Unspent => coins[c].by = None
          /\ coins[c].spent # Unspent /\ Stays(coins[c].spent) =>
                \E b \in Blocks : /\ Stored(b) /\ coins[c].by \in TxsIn[b]
                                  /\ c \in Spends[coins[c].by]
                                  /\ coins[c].spent = Height[b]
    /\ \A t \in Txs : txs[t] # None /\ Stays(txs[t].height) =>
          /\ Stored(txs[t].block) /\ t \in TxsIn[txs[t].block]
          /\ txs[t].height = Height[txs[t].block]

HasMints(b) ==
    \A c \in Minted(b) : coins[c] # None /\ coins[c].mint = Height[b]

\* What block b spends is spent by b, or still by a block left behind at b's
\* height or below, whose spend is only undone with b's own.
HasSpends(b) ==
    \A t \in TxsIn[b] : \A c \in Spends[t] :
        /\ coins[c] # None /\ coins[c].spent # Unspent
        /\ \/ coins[c].spent = Height[b] /\ coins[c].by = t
           \/ \E a \in Blocks \ {b} :
                 /\ Stored(a) /\ a \notin Processed
                 /\ Height[a] <= Height[b] /\ coins[c].spent = Height[a]

HasTxs(b) ==
    \A t \in TxsIn[b] : txs[t] = [height |-> Height[b], block |-> b]

Complete ==
    /\ \A b \in Processed :
          Stays(Height[b]) => HasMints(b) /\ HasSpends(b) /\ HasTxs(b)
    /\ at \in {"spend", "txs", "mark"} => HasMints(Current)
    /\ at \in {"txs", "mark"} => HasSpends(Current)
    /\ at = "mark" => HasTxs(Current)

\* How far a rollback has come.
UndoneSoFar ==
    /\ at = "unspend" => undo = {}
    /\ RollsBack /\ "blocks" \notin undo =>
          \A b \in Blocks : Stored(b) => Height[b] < from
    /\ RollsBack /\ "coins" \notin undo =>
          \A c \in Coins : coins[c] # None => coins[c].mint < from
    /\ RollsBack /\ "txs" \notin undo =>
          \A t \in Txs : txs[t] # None => txs[t].height < from

DataInv == StoredFits /\ Justified /\ Complete /\ UndoneSoFar

Whole == late \/ torn \/ DataInv

-----------------------------------------------------------------------------
(***************************************************************************)
(* The blocks below one that is being imported                             *)
(***************************************************************************)

\* All below a block that fits are processed, and nothing else is.
LEMMA FitsAncestors ==
  ASSUME TypeOK, ChainInv, NEW c \in Blocks, Fits(c)
  PROVE  Processed = Ancestors[c] \ {c}
<1> DEFINE S == Processed \cup {c}
<1>1. \A b \in Processed : b \in Blocks /\ Height[b] \in Nat
  BY ProcessedFacts DEF ChainInv
<1>2. ASSUME NEW s \in S
      PROVE  Parent[s] \in S \cup {Genesis}
  <2>1. CASE s = c
    BY <2>1 DEF Fits, IsTip
  <2>2. CASE s \in Processed
    BY <2>2 DEF ChainInv, OneChain
  <2>3. QED
    BY <2>1, <2>2
<1>3. S \in SUBSET Blocks /\ Closed(S)
  BY <1>1, <1>2 DEF Closed
<1>4. Ancestors[c] \subseteq S
  BY <1>3, AncestorsLeast
<1>5. ASSUME NEW b \in Processed
      PROVE  b \in Ancestors[c] \ {c}
  <2>1. Height[b] < Height[c] /\ b \in Blocks
    BY <1>1, FitsAbove DEF ChainInv
  <2>2. Height[b] \in 1 .. Height[c]
    BY <2>1, ParentHeight
  <2>3. PICK a \in Ancestors[c] : Height[a] = Height[b]
    BY <2>2, AncestorsReach
  <2>4. a # c
    BY <2>1, <2>3, ParentHeight
  <2>5. a \in Processed
    BY <1>4, <2>4
  <2>6. a = b
    BY <2>3, <2>5 DEF ChainInv, OneChain
  <2>7. QED
    BY <2>3, <2>4, <2>6
<1>6. c \notin Processed
  BY DEF Fits
<1>7. QED
  BY <1>4, <1>5, <1>6

LEMMA ProcessedAncestors ==
  ASSUME TypeOK, ChainInv, NEW b \in Processed
  PROVE  Ancestors[b] \subseteq Processed
<1>1. b \in Blocks /\ Processed \in SUBSET Blocks
  BY DEF Processed
<1>2. Closed(Processed)
  BY DEF ChainInv, OneChain, Closed
<1>3. QED
  BY <1>1, <1>2, AncestorsLeast

\* What a block that fits shares with the processed ones: nothing.
LEMMA FitsBranch ==
  ASSUME TypeOK, ChainInv, NEW c \in Blocks, Fits(c), NEW b \in Processed
  PROVE  /\ TxsIn[b] \cap TxsIn[c] = {}
         /\ Minted(b) \cap Minted(c) = {}
         /\ \A t \in TxsIn[b], u \in TxsIn[c] : Spends[t] \cap Spends[u] = {}
<1>1. b \in Ancestors[c] \ {c}
  BY FitsAncestors
<1>2. /\ TxsIn[b] \cap TxsIn[c] = {}
      /\ \A t \in TxsIn[b], u \in TxsIn[c] :
            Mints[t] \cap Mints[u] = {} /\ Spends[t] \cap Spends[u] = {}
  BY <1>1, BranchAssumption
<1>3. QED
  BY <1>2 DEF Minted

\* Every stored block is at most as high as one that fits.
LEMMA StoredBelow ==
  ASSUME TypeOK, ChainInv, StoredFits, NEW c \in Blocks, Fits(c),
         NEW b \in Blocks, Stored(b)
  PROVE  Height[b] <= Height[c]
<1>1. CASE Parent[b] = Genesis
  BY <1>1, ParentHeight
<1>2. CASE Parent[b] # Genesis
  <2>1. Parent[b] \in Processed
    BY <1>2 DEF StoredFits
  <2>2. Height[Parent[b]] < Height[c]
    BY <2>1, FitsAbove DEF ChainInv
  <2>3. QED
    BY <1>2, <2>2, ParentHeight
<1>3. QED
  BY <1>1, <1>2

-----------------------------------------------------------------------------
(***************************************************************************)
(* The coins and transactions, step by step                                *)
(***************************************************************************)

\* A document of each kind, with its fields.
LEMMA DataDocs ==
  ASSUME TypeOK
  PROVE  /\ \A c \in Coins : coins[c] # None =>
               /\ coins[c] \in CoinDocs
               /\ coins[c].mint \in Nat \ {0}
               /\ coins[c].spent \in {Unspent} \cup Nat
               /\ coins[c].spent # Unspent => coins[c].spent \in Nat
         /\ \A t \in Txs : txs[t] # None =>
               /\ txs[t] \in TxDocs
               /\ txs[t].height \in Nat \ {0} /\ txs[t].block \in Blocks
BY DEF TypeOK, CoinDocs, TxDocs

LEMMA MintedCoins ==
  ASSUME NEW b \in Blocks
  PROVE  Minted(b) \subseteq Coins /\ TxsIn[b] \subseteq Txs
BY DataAssumption DEF Minted

\* A block that is being written has a true height and fits.
LEMMA WrittenFacts ==
  ASSUME TypeOK, Shape, ChainInv, at \in Written
  PROVE  /\ Current \in Blocks /\ Stored(Current) /\ Fits(Current)
         /\ Current \notin Processed
         /\ BlockHeight = Height[Current] /\ Height[Current] \in Nat \ {0}
<1>1. Current \in Blocks /\ Stored(Current)
  BY ShapeFacts DEF Shape, Written, Importing
<1>2. Fits(Current) /\ BlockHeight = Height[Current]
  BY <1>1 DEF ChainInv, CurrentFits, TrueHeights, BlockHeight
<1>3. QED
  BY <1>1, <1>2, ParentHeight DEF Fits

\* Steps that leave the collections alone, except that a rollback begins.
LEMMA DataKept ==
  ASSUME TypeOK, Shape, DataInv, UNCHANGED db,
         \/ at' \notin Written \cup {"undo", "unspend"} /\ ~RollsBack
         \/ UNCHANGED <<at, todo, from, undo>>
         \/ at' = "undo" /\ ~RollsBack /\ undo' = Deletes
  PROVE  DataInv'
<1>1. UNCHANGED <<blocks, coins, txs>>
  BY DEF db
<1>2. /\ Processed' = Processed
      /\ \A b : Stored(b)' <=> Stored(b)
  BY <1>1 DEF Processed, Stored
<1>3. StoredFits'
  BY <1>2 DEF DataInv, StoredFits
<1>4. \A h : Stays(h)' => Stays(h)
  BY DEF Stays, RollsBack, Written
<1>5. Justified'
  BY <1>1, <1>2, <1>4 DEF DataInv, Justified
<1>6. \A b \in Blocks : /\ HasMints(b) => HasMints(b)'
                        /\ HasSpends(b) => HasSpends(b)'
                        /\ HasTxs(b) => HasTxs(b)'
  BY <1>1, <1>2 DEF HasMints, HasSpends, HasTxs
<1>7. \A b \in Processed : b \in Blocks
  BY DEF Processed
<1>8. at' \in Written => UNCHANGED <<at, todo>>
  BY DEF Written
<1>9. at \in {"spend", "txs", "mark"} => Current \in Blocks
  BY ShapeFacts DEF Importing
<1>10. Complete'
  BY <1>2, <1>4, <1>6, <1>7, <1>8, <1>9
  DEF DataInv, Complete, Written, Current
<1>11. UndoneSoFar'
  BY <1>1, <1>2 DEF DataInv, UndoneSoFar, RollsBack, Written, Deletes
<1>12. QED
  BY <1>3, <1>5, <1>10, <1>11 DEF DataInv

LEMMA WriteBlockData ==
  ASSUME TypeOK, Shape, ChainInv, DataInv, WriteBlock
  PROVE  DataInv'
<1>1. PICK c \in Blocks : c = Current
  BY ShapeFacts DEF WriteBlock, Step, Importing
<1>2. /\ at = "block" /\ at' = "link" /\ UNCHANGED <<coins, txs, todo>>
      /\ blocks' = [blocks EXCEPT ![c] =
            [height |-> NewHeight(c), processed |-> FALSE, next |-> None]]
      /\ Fits(c)
  BY <1>1 DEF WriteBlock, Step, ChainInv, CurrentFits
<1>3. Processed' = Processed
  BY WriteBlockChain
<1>4. \A b \in Blocks : Stored(b)' <=> Stored(b) \/ b = c
  <2>1. [height |-> NewHeight(c), processed |-> FALSE, next |-> None]
           \in BlockDocs
    BY NewHeightType DEF BlockDocs
  <2>2. blocks'[c] # None /\ \A b \in Blocks \ {c} : blocks'[b] = blocks[b]
    BY <1>2, <2>1, DocsNotNone DEF TypeOK
  <2>3. QED
    BY <2>2 DEF Stored
<1>5. StoredFits'
  BY <1>2, <1>3, <1>4 DEF DataInv, StoredFits, Fits, IsTip
<1>6. (\A h : Stays(h)) /\ ~RollsBack'
  BY <1>2 DEF Stays, RollsBack
<1>7. Justified'
  <2>1. \A t \in Txs : txs[t] # None => txs[t].block \in Blocks
    BY DataDocs
  <2>2. QED
    BY <1>2, <1>4, <1>6, <2>1 DEF DataInv, Justified
<1>8. \A b \in Blocks : /\ HasMints(b) => HasMints(b)'
                        /\ HasSpends(b) => HasSpends(b)'
                        /\ HasTxs(b) => HasTxs(b)'
  BY <1>2, <1>3, <1>4 DEF HasMints, HasSpends, HasTxs
<1>9. \A b \in Processed : b \in Blocks
  BY DEF Processed
<1>10. Complete'
  BY <1>2, <1>3, <1>6, <1>8, <1>9 DEF DataInv, Complete
<1>11. UndoneSoFar'
  BY <1>2, <1>6 DEF UndoneSoFar
<1>12. QED
  BY <1>5, <1>7, <1>10, <1>11 DEF DataInv

LEMMA LinkPreviousData ==
  ASSUME TypeOK, Shape, ChainInv, DataInv, LinkPrevious
  PROVE  DataInv'
<1>1. /\ at = "link" /\ at' = "mint" /\ UNCHANGED <<coins, txs, todo>>
      /\ Current \in Blocks
  BY ShapeFacts DEF LinkPrevious, Step, Importing
<1>2. Processed' = Processed
  BY LinkPreviousChain
<1>3. \A b \in Blocks : Stored(b)' <=> Stored(b)
  <2> DEFINE p == Parent[Current]
  <2>1. CASE Stored(p)
    <3>1. p \in Blocks /\ blocks[p] \in BlockDocs
      BY <2>1, StoredDoc
    <3>2. [blocks[p] EXCEPT !.next = Current] \in BlockDocs
      BY <1>1, <3>1 DEF BlockDocs
    <3>3. /\ blocks'[p] = [blocks[p] EXCEPT !.next = Current]
          /\ \A b \in Blocks \ {p} : blocks'[b] = blocks[b]
      BY <2>1, <3>1 DEF LinkPrevious, TypeOK
    <3>4. blocks'[p] # None
      BY <3>2, <3>3, DocsNotNone
    <3>5. QED
      BY <2>1, <3>3, <3>4 DEF Stored
  <2>2. CASE ~Stored(p)
    BY <2>2 DEF LinkPrevious, Stored
  <2>3. QED
    BY <2>1, <2>2
<1>4. StoredFits'
  BY <1>2, <1>3 DEF DataInv, StoredFits
<1>5. (\A h : Stays(h)) /\ ~RollsBack'
  BY <1>1 DEF Stays, RollsBack
<1>6. Justified'
  <2>1. \A t \in Txs : txs[t] # None => txs[t].block \in Blocks
    BY DataDocs
  <2>2. QED
    BY <1>1, <1>3, <1>5, <2>1 DEF DataInv, Justified
<1>7. \A b \in Blocks : /\ HasMints(b) => HasMints(b)'
                        /\ HasSpends(b) => HasSpends(b)'
                        /\ HasTxs(b) => HasTxs(b)'
  BY <1>1, <1>2, <1>3 DEF HasMints, HasSpends, HasTxs
<1>8. \A b \in Processed : b \in Blocks
  BY DEF Processed
<1>9. Complete'
  BY <1>1, <1>2, <1>5, <1>7, <1>8 DEF DataInv, Complete
<1>10. UndoneSoFar'
  BY <1>1, <1>5 DEF UndoneSoFar
<1>11. QED
  BY <1>4, <1>6, <1>9, <1>10 DEF DataInv

\* The import's writes to coins and transactions: what they need of the rest.
LEMMA ImportStep ==
  ASSUME TypeOK, Shape, ChainInv, DataInv, at \in Written \ {"mark"},
         UNCHANGED <<blocks, todo>>,
         at' \in Written
  PROVE  /\ Processed' = Processed /\ Current' = Current
         /\ StoredFits' /\ UndoneSoFar' /\ ~RollsBack'
         /\ \A b : Stored(b)' <=> Stored(b)
         /\ \A h : Stays(h)
         /\ \A b \in Processed : HasMints(b) /\ HasSpends(b) /\ HasTxs(b)
<1>1. /\ Processed' = Processed /\ Current' = Current
      /\ \A b : Stored(b)' <=> Stored(b)
  BY DEF Processed, Stored, Current
<1>2. ~RollsBack' /\ (\A h : Stays(h)) /\ at' # "unspend"
  BY DEF RollsBack, Stays, Written
<1>3. QED
  BY <1>1, <1>2 DEF DataInv, StoredFits, UndoneSoFar, Complete

LEMMA MintCoinsData ==
  ASSUME TypeOK, Shape, ChainInv, DataInv, MintCoins
  PROVE  DataInv'
<1>1. PICK c \in Blocks : c = Current
  BY ShapeFacts DEF MintCoins, Step, Importing
<1>2. /\ at = "mint" /\ at' = "spend" /\ UNCHANGED <<blocks, txs, todo>>
      /\ Stored(c) /\ Fits(c) /\ c \notin Processed
      /\ BlockHeight = Height[c] /\ Height[c] \in Nat \ {0}
  BY <1>1, WrittenFacts DEF MintCoins, Step, Written
<1>3. \A k \in Coins : coins'[k] =
         IF k \notin Minted(c) THEN coins[k]
         ELSE IF coins[k] = None
         THEN [mint |-> Height[c], spent |-> Unspent, by |-> None]
         ELSE [coins[k] EXCEPT !.mint = Height[c]]
  BY <1>1, <1>2 DEF MintCoins
<1>4. /\ Processed' = Processed /\ Current' = c
      /\ StoredFits' /\ UndoneSoFar' /\ ~RollsBack'
      /\ \A b : Stored(b)' <=> Stored(b)
      /\ \A h : Stays(h)
      /\ \A b \in Processed : HasMints(b) /\ HasSpends(b) /\ HasTxs(b)
  BY <1>1, <1>2, ImportStep DEF Written
<1>5. ASSUME NEW k \in Minted(c)
      PROVE  /\ k \in Coins /\ coins'[k] # None /\ coins'[k].mint = Height[c]
             /\ coins[k] = None =>
                   coins'[k].spent = Unspent /\ coins'[k].by = None
             /\ coins[k] # None =>
                   coins'[k].spent = coins[k].spent /\ coins'[k].by = coins[k].by
  <2>1. k \in Coins
    BY MintedCoins
  <2>2. CASE coins[k] = None
    <3>1. coins'[k] = [mint |-> Height[c], spent |-> Unspent, by |-> None]
      BY <1>3, <2>1, <2>2
    <3>2. coins'[k] \in CoinDocs
      BY <1>2, <3>1 DEF CoinDocs
    <3>3. coins'[k] # None
      BY <3>2, NoneAssumption
    <3>4. QED
      BY <2>1, <2>2, <3>1, <3>3
  <2>3. CASE coins[k] # None
    <3>1. coins'[k] = [coins[k] EXCEPT !.mint = Height[c]]
      BY <1>3, <2>1, <2>3
    <3>2. coins[k] \in CoinDocs
      BY <2>1, <2>3, DataDocs
    <3>3. coins'[k] \in CoinDocs
      BY <1>2, <3>1, <3>2 DEF CoinDocs
    <3>4. coins'[k] # None
      BY <3>3, NoneAssumption
    <3>5. coins'[k].mint = Height[c] /\ coins'[k].spent = coins[k].spent
          /\ coins'[k].by = coins[k].by
      BY <3>1, <3>2 DEF CoinDocs
    <3>6. QED
      BY <2>1, <2>3, <3>4, <3>5
  <2>4. QED
    BY <2>2, <2>3
<1>6. \A k \in Coins \ Minted(c) : coins'[k] = coins[k]
  BY <1>3
<1>7. Justified'
  <2>1. ASSUME NEW k \in Coins, coins'[k] # None
        PROVE  /\ \E b \in Blocks : /\ Stored(b) /\ k \in Minted(b)
                                    /\ coins'[k].mint = Height[b]
               /\ coins'[k].spent = Unspent => coins'[k].by = None
               /\ coins'[k].spent # Unspent =>
                     \E b \in Blocks : /\ Stored(b) /\ coins'[k].by \in TxsIn[b]
                                       /\ k \in Spends[coins'[k].by]
                                       /\ coins'[k].spent = Height[b]
    <3>1. CASE k \notin Minted(c)
      BY <1>4, <1>6, <2>1, <3>1 DEF DataInv, Justified
    <3>2. CASE k \in Minted(c)
      BY <1>2, <1>4, <1>5, <2>1, <3>2 DEF DataInv, Justified
    <3>3. QED
      BY <3>1, <3>2
  <2>2. \A t \in Txs : txs'[t] # None =>
           /\ Stored(txs'[t].block) /\ t \in TxsIn[txs'[t].block]
           /\ txs'[t].height = Height[txs'[t].block]
    BY <1>2, <1>4 DEF DataInv, Justified
  <2>3. QED
    BY <1>4, <2>1, <2>2 DEF Justified, Minted
<1>8. ASSUME NEW b \in Processed
      PROVE  HasMints(b)' /\ HasSpends(b)' /\ HasTxs(b)'
  <2>1. b \in Blocks /\ Minted(b) \cap Minted(c) = {}
    BY <1>2, FitsBranch DEF Processed
  <2>2. HasMints(b)'
    BY <1>4, <1>6, <2>1, MintedCoins DEF HasMints, Minted
  <2>3. ASSUME NEW t \in TxsIn[b], NEW k \in Spends[t]
        PROVE  /\ coins'[k] # None /\ coins'[k].spent = coins[k].spent
               /\ coins'[k].by = coins[k].by
    <3>1. k \in Coins /\ coins[k] # None
      BY <1>4, <2>1, DataAssumption DEF HasSpends
    <3>2. QED
      BY <1>5, <1>6, <3>1
  <2>4. HasSpends(b)'
    BY <1>4, <2>3 DEF HasSpends
  <2>5. HasTxs(b)'
    BY <1>2, <1>4 DEF HasTxs
  <2>6. QED
    BY <2>2, <2>4, <2>5
<1>9. HasMints(c)'
  BY <1>5 DEF HasMints, Minted
<1>10. Complete'
  BY <1>2, <1>4, <1>8, <1>9 DEF Complete
<1>11. QED
  BY <1>4, <1>7, <1>10 DEF DataInv

\* A coin that the block spends is there: it or a block below has minted it.
LEMMA SpentIsMinted ==
  ASSUME TypeOK, Shape, ChainInv, DataInv, at = "spend",
         NEW t \in TxsIn[Current], NEW k \in Spends[t]
  PROVE  k \in Coins /\ t \in Txs /\ coins[k] # None
<1>1. /\ Current \in Blocks /\ Fits(Current)
      /\ HasMints(Current)
      /\ \A b \in Processed : HasMints(b)
  BY WrittenFacts DEF Written, DataInv, Complete, Stays, RollsBack
<1>2. t \in Txs /\ k \in Coins
  BY <1>1, DataAssumption
<1>3. PICK a \in Ancestors[Current] : \E u \in TxsIn[a] : k \in Mints[u]
  BY <1>1, BranchAssumption
<1>4. a = Current \/ a \in Processed
  BY <1>1, FitsAncestors
<1>5. k \in Minted(a)
  BY <1>3 DEF Minted
<1>6. QED
  BY <1>1, <1>2, <1>4, <1>5 DEF HasMints

LEMMA SpendCoinsData ==
  ASSUME TypeOK, Shape, ChainInv, DataInv, SpendCoins
  PROVE  DataInv'
<1> DEFINE Hit(k) == /\ \E t \in TxsIn[Current] : k \in Spends[t]
                     /\ coins[k] # None /\ coins[k].spent < 0
<1>1. PICK c \in Blocks : c = Current
  BY ShapeFacts DEF SpendCoins, Step, Importing
<1>2. /\ at = "spend" /\ at' = "txs" /\ UNCHANGED <<blocks, txs, todo>>
      /\ Stored(c) /\ Fits(c) /\ c \notin Processed
      /\ BlockHeight = Height[c] /\ Height[c] \in Nat \ {0}
      /\ HasMints(c)
  BY <1>1, WrittenFacts
  DEF SpendCoins, Step, Written, DataInv, Complete
<1>3. \A k \in Coins : coins'[k] =
         IF Hit(k) THEN [coins[k] EXCEPT !.spent = Height[c], !.by = Spender(k)]
         ELSE coins[k]
  BY <1>2 DEF SpendCoins
<1>4. /\ Processed' = Processed /\ Current' = c
      /\ StoredFits' /\ UndoneSoFar' /\ ~RollsBack'
      /\ \A b : Stored(b)' <=> Stored(b)
      /\ \A h : Stays(h)
      /\ \A b \in Processed : HasMints(b) /\ HasSpends(b) /\ HasTxs(b)
  BY <1>1, <1>2, ImportStep DEF Written
<1>5. ASSUME NEW k \in Coins, coins[k] # None
      PROVE  coins[k].spent < 0 <=> coins[k].spent = Unspent
  BY <1>5, DataDocs DEF Unspent
<1>6. ASSUME NEW k \in Coins, Hit(k)
      PROVE  /\ Spender(k) \in TxsIn[c] /\ k \in Spends[Spender(k)]
             /\ coins'[k] # None /\ coins'[k].mint = coins[k].mint
             /\ coins'[k].spent = Height[c] /\ coins'[k].by = Spender(k)
  <2>1. Spender(k) \in TxsIn[c] /\ k \in Spends[Spender(k)]
    BY <1>1, <1>6 DEF Spender
  <2>2. Spender(k) \in Txs /\ coins[k] \in CoinDocs
    BY <1>6, <2>1, DataDocs, DataAssumption
  <2>3. coins'[k] = [coins[k] EXCEPT !.spent = Height[c], !.by = Spender(k)]
    BY <1>3, <1>6
  <2> HIDE DEF Hit
  <2>4. coins'[k] \in CoinDocs
    BY <1>2, <2>2, <2>3 DEF CoinDocs
  <2>5. coins'[k] # None
    BY <2>4, NoneAssumption
  <2>6. QED
    BY <2>1, <2>2, <2>3, <2>5 DEF CoinDocs
<1>7. ASSUME NEW k \in Coins, ~Hit(k)
      PROVE  coins'[k] = coins[k]
  BY <1>3, <1>7
<1>8. ASSUME NEW k \in Coins, Hit(k)
      PROVE  coins[k] # None /\ coins[k].spent = Unspent
  BY <1>5, <1>8
<1>9. ASSUME NEW t \in TxsIn[c], NEW k \in Spends[t]
      PROVE  k \in Coins /\ coins[k] # None /\
             (coins[k].spent = Unspent => Hit(k))
  BY <1>1, <1>2, <1>5, SpentIsMinted
<1> HIDE DEF Hit
<1>10. \A k \in Coins : (coins'[k] = None) <=> (coins[k] = None)
  BY <1>6, <1>7, <1>8
<1>11. \A k \in Coins : coins[k] # None => coins'[k].mint = coins[k].mint
  BY <1>6, <1>7
<1>12. Justified'
  <2>1. ASSUME NEW k \in Coins, coins'[k] # None
        PROVE  /\ \E b \in Blocks : /\ Stored(b) /\ k \in Minted(b)
                                    /\ coins'[k].mint = Height[b]
               /\ coins'[k].spent = Unspent => coins'[k].by = None
               /\ coins'[k].spent # Unspent =>
                     \E b \in Blocks : /\ Stored(b) /\ coins'[k].by \in TxsIn[b]
                                       /\ k \in Spends[coins'[k].by]
                                       /\ coins'[k].spent = Height[b]
    <3>1. \E b \in Blocks : /\ Stored(b) /\ k \in Minted(b)
                            /\ coins'[k].mint = Height[b]
      BY <1>4, <1>10, <1>11, <2>1 DEF DataInv, Justified
    <3>2. CASE Hit(k)
      <4>1. coins'[k].spent # Unspent
        BY <1>2, <1>6, <3>2 DEF Unspent
      <4>2. QED
        BY <1>2, <1>6, <3>1, <3>2, <4>1
    <3>3. CASE ~Hit(k)
      BY <1>4, <1>7, <2>1, <3>1, <3>3 DEF DataInv, Justified
    <3>4. QED
      BY <3>2, <3>3
  <2>2. \A t \in Txs : txs'[t] # None =>
           /\ Stored(txs'[t].block) /\ t \in TxsIn[txs'[t].block]
           /\ txs'[t].height = Height[txs'[t].block]
    BY <1>2, <1>4 DEF DataInv, Justified
  <2>3. QED
    BY <1>4, <2>1, <2>2 DEF Justified, Minted
<1>13. ASSUME NEW b \in Blocks, HasMints(b)
       PROVE  HasMints(b)'
  BY <1>10, <1>11, <1>13, MintedCoins DEF HasMints, Minted
<1>14. ASSUME NEW b \in Processed
       PROVE  HasMints(b)' /\ HasSpends(b)' /\ HasTxs(b)'
  <2>1. b \in Blocks
    BY DEF Processed
  <2>2. ASSUME NEW t \in TxsIn[b], NEW k \in Spends[t]
        PROVE  coins'[k] = coins[k]
    <3>1. k \in Coins /\ coins[k].spent # Unspent
      BY <1>4, <2>1, DataAssumption DEF HasSpends
    <3>2. QED
      BY <1>7, <1>8, <3>1
  <2>3. HasSpends(b)'
    BY <1>4, <2>2 DEF HasSpends
  <2>4. HasTxs(b)'
    BY <1>2, <1>4 DEF HasTxs
  <2>5. QED
    BY <1>4, <1>13, <2>1, <2>3, <2>4
<1>15. HasSpends(c)'
  <2>1. ASSUME NEW t \in TxsIn[c], NEW k \in Spends[t]
        PROVE  /\ coins'[k] # None /\ coins'[k].spent # Unspent
               /\ \/ coins'[k].spent = Height[c] /\ coins'[k].by = t
                  \/ \E a \in Blocks \ {c} :
                        /\ Stored(a) /\ a \notin Processed
                        /\ Height[a] <= Height[c]
                        /\ coins'[k].spent = Height[a]
    <3>1. k \in Coins /\ coins[k] # None /\ (coins[k].spent = Unspent => Hit(k))
      BY <1>9
    <3>2. \A u \in TxsIn[c] : k \in Spends[u] => u = t
      BY BranchAssumption
    <3>3. CASE Hit(k)
      <4>1. Spender(k) = t
        BY <1>6, <3>1, <3>2, <3>3
      <4>2. Height[c] # Unspent
        BY <1>2 DEF Unspent
      <4>3. QED
        BY <1>6, <3>1, <3>3, <4>1, <4>2
    <3>4. CASE ~Hit(k)
      <4>1. coins'[k] = coins[k] /\ coins[k].spent # Unspent
        BY <1>7, <3>1, <3>4
      <4>2. PICK b \in Blocks : /\ Stored(b) /\ coins[k].by \in TxsIn[b]
                                /\ k \in Spends[coins[k].by]
                                /\ coins[k].spent = Height[b]
        BY <1>4, <3>1, <4>1 DEF DataInv, Justified
      <4>3. CASE b = c
        BY <3>1, <3>2, <4>1, <4>2, <4>3
      <4>4. CASE b # c
        <5>1. b \notin Processed
          BY <1>2, <4>2, FitsBranch
        <5>2. Height[b] <= Height[c]
          BY <1>2, <4>2, StoredBelow DEF DataInv
        <5>3. QED
          BY <3>1, <4>1, <4>2, <4>4, <5>1, <5>2
      <4>5. QED
        BY <4>3, <4>4
    <3>5. QED
      BY <3>3, <3>4
  <2>2. QED
    BY <1>4, <2>1 DEF HasSpends
<1>16. Complete'
  BY <1>2, <1>4, <1>13, <1>14, <1>15 DEF Complete
<1>17. QED
  BY <1>4, <1>12, <1>16 DEF DataInv

LEMMA StoreTxsData ==
  ASSUME TypeOK, Shape, ChainInv, DataInv, StoreTxs
  PROVE  DataInv'
<1>1. PICK c \in Blocks : c = Current
  BY ShapeFacts DEF StoreTxs, Step, Importing
<1>2. /\ at = "txs" /\ at' = "mark" /\ UNCHANGED <<blocks, coins, todo>>
      /\ Stored(c) /\ Fits(c) /\ c \notin Processed
      /\ BlockHeight = Height[c]
      /\ HasMints(c) /\ HasSpends(c)
  BY <1>1, WrittenFacts
  DEF StoreTxs, Step, Written, DataInv, Complete
<1>3. /\ \A t \in TxsIn[c] : txs'[t] = [height |-> Height[c], block |-> c]
      /\ \A t \in Txs \ TxsIn[c] : txs'[t] = txs[t]
  BY <1>1, <1>2, MintedCoins DEF StoreTxs
<1>4. /\ Processed' = Processed /\ Current' = c
      /\ StoredFits' /\ UndoneSoFar' /\ ~RollsBack'
      /\ \A b : Stored(b)' <=> Stored(b)
      /\ \A h : Stays(h)
      /\ \A b \in Processed : HasMints(b) /\ HasSpends(b) /\ HasTxs(b)
  BY <1>1, <1>2, ImportStep DEF Written
<1>5. Justified'
  <2>1. \A t \in Txs : txs'[t] # None =>
           /\ Stored(txs'[t].block) /\ t \in TxsIn[txs'[t].block]
           /\ txs'[t].height = Height[txs'[t].block]
    BY <1>2, <1>3, <1>4 DEF DataInv, Justified
  <2>2. \A k \in Coins : coins'[k] # None =>
           /\ \E b \in Blocks : /\ Stored(b) /\ k \in Minted(b)
                                /\ coins'[k].mint = Height[b]
           /\ coins'[k].spent = Unspent => coins'[k].by = None
           /\ coins'[k].spent # Unspent =>
                 \E b \in Blocks : /\ Stored(b) /\ coins'[k].by \in TxsIn[b]
                                   /\ k \in Spends[coins'[k].by]
                                   /\ coins'[k].spent = Height[b]
    BY <1>2, <1>4 DEF DataInv, Justified
  <2>3. QED
    BY <1>4, <2>1, <2>2 DEF Justified, Minted
<1>6. \A b \in Blocks : /\ HasMints(b) => HasMints(b)'
                        /\ HasSpends(b) => HasSpends(b)'
  BY <1>2, <1>4 DEF HasMints, HasSpends, Minted
<1>7. ASSUME NEW b \in Processed
      PROVE  HasTxs(b)'
  <2>1. b \in Blocks /\ TxsIn[b] \subseteq Txs \ TxsIn[c]
    BY <1>2, FitsBranch, MintedCoins DEF Processed
  <2>2. QED
    BY <1>3, <1>4, <2>1 DEF HasTxs
<1>8. HasTxs(c)'
  BY <1>3 DEF HasTxs
<1>9. \A b \in Processed : b \in Blocks
  BY DEF Processed
<1>10. Complete'
  BY <1>2, <1>4, <1>6, <1>7, <1>8, <1>9 DEF Complete
<1>11. QED
  BY <1>4, <1>5, <1>10 DEF DataInv

LEMMA MarkProcessedData ==
  ASSUME TypeOK, Shape, ChainInv, DataInv, MarkProcessed
  PROVE  DataInv'
<1>1. PICK c \in Blocks : c = Current
  BY ShapeFacts DEF MarkProcessed, Importing
<1>2. /\ at = "mark" /\ at' \in {"ask", "check"} /\ UNCHANGED <<coins, txs>>
      /\ Stored(c) /\ Fits(c) /\ blocks[c] \in BlockDocs
      /\ HasMints(c) /\ HasSpends(c) /\ HasTxs(c)
  BY <1>1, WrittenFacts, StoredDoc
  DEF MarkProcessed, Written, DataInv, Complete
<1>3. Processed' = Processed \cup {c}
  BY <1>1, MarkProcessedChain
<1>4. \A b \in Blocks : Stored(b)' <=> Stored(b)
  <2>1. [blocks[c] EXCEPT !.processed = TRUE] \in BlockDocs
    BY <1>2 DEF BlockDocs
  <2>2. /\ blocks'[c] = [blocks[c] EXCEPT !.processed = TRUE]
        /\ \A b \in Blocks \ {c} : blocks'[b] = blocks[b]
    BY <1>1 DEF MarkProcessed, TypeOK
  <2>3. blocks'[c] # None
    BY <2>1, <2>2, DocsNotNone
  <2>4. QED
    BY <1>2, <2>2, <2>3 DEF Stored
<1>5. StoredFits'
  BY <1>3, <1>4 DEF DataInv, StoredFits
<1>6. (\A h : Stays(h)) /\ ~RollsBack'
  BY <1>2 DEF Stays, RollsBack
<1>7. Justified'
  <2>1. \A t \in Txs : txs[t] # None => txs[t].block \in Blocks
    BY DataDocs
  <2>2. QED
    BY <1>2, <1>4, <1>6, <2>1 DEF DataInv, Justified
<1>8. ASSUME NEW b \in Processed'
      PROVE  HasMints(b)' /\ HasSpends(b)' /\ HasTxs(b)'
  <2>1. b \in Blocks /\ HasMints(b) /\ HasSpends(b) /\ HasTxs(b)
    BY <1>2, <1>3, <1>6 DEF DataInv, Complete, Processed
  <2>2. b = c \/ Height[b] < Height[c]
    BY <1>2, <1>3, FitsAbove DEF ChainInv
  <2>3. ASSUME NEW a \in Blocks \ {b}, Height[a] <= Height[b],
               a \notin Processed
        PROVE  a \notin Processed'
    BY <1>3, <2>1, <2>2, <2>3, ParentHeight
  <2>4. HasSpends(b)'
    BY <1>2, <1>4, <2>1, <2>3 DEF HasSpends
  <2>5. QED
    BY <1>2, <2>1, <2>4 DEF HasMints, HasTxs
<1>9. Complete'
  BY <1>2, <1>8 DEF Complete
<1>10. UndoneSoFar'
  BY <1>2, <1>6 DEF UndoneSoFar
<1>11. QED
  BY <1>5, <1>7, <1>9, <1>10 DEF DataInv

\* A rollback leaves what is below its height: the blocks, ...
LEMMA UndoBlocksData ==
  ASSUME TypeOK, Shape, ChainInv, DataInv, UndoBlocks
  PROVE  DataInv'
<1>1. /\ at = "undo" /\ at' \in {"undo", "unspend"} /\ from' = from
      /\ from \in Nat /\ UNCHANGED <<coins, txs>>
      /\ undo' = undo \ {"blocks"} /\ (at' = "unspend" => undo' = {})
      /\ \A b \in Blocks : blocks'[b] =
            IF Stored(b) /\ blocks[b].height >= from THEN None ELSE blocks[b]
  BY DEF UndoBlocks, UndoOne, TypeOK
<1>2. RollsBack /\ RollsBack' /\ \A h : Stays(h) <=> h < from
  BY <1>1 DEF RollsBack, Stays
<1>3. \A b \in Blocks : Stored(b)' <=> Stored(b) /\ Height[b] < from
  <2>1. \A b \in Blocks : Stored(b) => blocks[b].height = Height[b]
    BY DEF ChainInv, TrueHeights
  <2>2. \A b \in Blocks : Height[b] \in Nat
    BY ParentHeight
  <2>3. QED
    BY <1>1, <2>1, <2>2 DEF Stored
<1>4. \A b \in Blocks : b \in Processed' <=> b \in Processed /\ Height[b] < from
  BY <1>1, <1>3 DEF Processed, Stored
<1>5. StoredFits'
  <2>1. ASSUME NEW b \in Blocks, Stored(b)', Parent[b] # Genesis
        PROVE  Parent[b] \in Processed'
    <3>1. Parent[b] \in Processed /\ Parent[b] \in Blocks
      BY <1>3, <2>1, ParentHeight DEF DataInv, StoredFits
    <3>2. Height[Parent[b]] < from
      BY <1>1, <1>3, <2>1, ParentHeight
    <3>3. QED
      BY <1>4, <3>1, <3>2
  <2>2. QED
    BY <2>1 DEF StoredFits
<1>6. Justified'
  <2>1. \A t \in Txs : txs[t] # None => txs[t].block \in Blocks
    BY DataDocs
  <2>2. \A h : Stays(h)' <=> h < from
    BY <1>1, <1>2 DEF Stays
  <2>3. QED
    BY <1>1, <1>2, <1>3, <2>1, <2>2 DEF DataInv, Justified
<1>7. ASSUME NEW b \in Processed'
      PROVE  HasMints(b)' /\ HasSpends(b)' /\ HasTxs(b)'
  <2>1. b \in Blocks /\ b \in Processed /\ Height[b] < from
    BY <1>4 DEF Processed
  <2>2. HasMints(b) /\ HasSpends(b) /\ HasTxs(b)
    BY <1>2, <2>1 DEF DataInv, Complete
  <2>3. ASSUME NEW a \in Blocks, Stored(a), a \notin Processed,
               Height[a] <= Height[b]
        PROVE  Stored(a)' /\ a \notin Processed'
    BY <1>1, <1>3, <1>4, <2>1, <2>3, ParentHeight
  <2>4. HasSpends(b)'
    BY <1>1, <2>2, <2>3 DEF HasSpends
  <2>5. QED
    BY <1>1, <2>2, <2>4 DEF HasMints, HasTxs
<1>8. Complete'
  BY <1>1, <1>7 DEF Complete
<1>9. UndoneSoFar'
  BY <1>1, <1>2, <1>3 DEF DataInv, UndoneSoFar
<1>10. QED
  BY <1>5, <1>6, <1>8, <1>9 DEF DataInv

\* ... the transactions, ...
LEMMA UndoTxsData ==
  ASSUME TypeOK, Shape, ChainInv, DataInv, UndoTxs
  PROVE  DataInv'
<1>1. /\ at = "undo" /\ at' \in {"undo", "unspend"} /\ from' = from
      /\ from \in Nat /\ UNCHANGED <<blocks, coins>>
      /\ undo' = undo \ {"txs"} /\ (at' = "unspend" => undo' = {})
      /\ \A t \in Txs : txs'[t] =
            IF txs[t] # None /\ txs[t].height >= from THEN None ELSE txs[t]
  BY DEF UndoTxs, UndoOne, TypeOK
<1>2. /\ RollsBack /\ RollsBack'
      /\ \A h : Stays(h) <=> h < from
      /\ \A h : Stays(h)' <=> h < from
  BY <1>1 DEF RollsBack, Stays
<1>3. Processed' = Processed /\ \A b : Stored(b)' <=> Stored(b)
  BY <1>1 DEF Processed, Stored
<1>4. \A t \in Txs : txs[t] # None => txs[t].height \in Nat
  BY DataDocs
<1>5. StoredFits'
  BY <1>3 DEF DataInv, StoredFits
<1>6. Justified'
  BY <1>1, <1>2, <1>3 DEF DataInv, Justified
<1>7. ASSUME NEW b \in Processed, Height[b] < from
      PROVE  HasMints(b)' /\ HasSpends(b)' /\ HasTxs(b)'
  <2>1. b \in Blocks /\ TxsIn[b] \subseteq Txs
    BY MintedCoins DEF Processed
  <2>2. HasMints(b) /\ HasSpends(b) /\ HasTxs(b)
    BY <1>2, <1>7 DEF DataInv, Complete
  <2>3. ASSUME NEW t \in TxsIn[b]
        PROVE  txs'[t] = [height |-> Height[b], block |-> b]
    <3>1. txs[t] = [height |-> Height[b], block |-> b] /\ t \in Txs
      BY <2>1, <2>2 DEF HasTxs
    <3>2. ~(txs[t].height >= from)
      BY <1>1, <1>7, <2>1, <3>1, ParentHeight
    <3>3. QED
      BY <1>1, <3>1, <3>2
  <2>4. QED
    BY <1>1, <1>3, <2>2, <2>3 DEF HasMints, HasSpends, HasTxs, Minted
<1>8. Complete'
  BY <1>1, <1>2, <1>3, <1>7 DEF Complete
<1>9. ASSUME NEW t \in Txs, txs'[t] # None
      PROVE  txs'[t].height < from
  BY <1>1, <1>4, <1>9
<1>10. UndoneSoFar'
  BY <1>1, <1>2, <1>3, <1>9 DEF DataInv, UndoneSoFar
<1>11. QED
  BY <1>5, <1>6, <1>8, <1>10 DEF DataInv

\* ... and the coins, of which some are still spent above it ...
LEMMA UndoCoinsData ==
  ASSUME TypeOK, Shape, ChainInv, DataInv, UndoCoins
  PROVE  DataInv'
<1>1. /\ at = "undo" /\ at' \in {"undo", "unspend"} /\ from' = from
      /\ from \in Nat /\ UNCHANGED <<blocks, txs>>
      /\ undo' = undo \ {"coins"} /\ (at' = "unspend" => undo' = {})
      /\ \A k \in Coins : coins'[k] =
            IF coins[k] # None /\ coins[k].mint >= from THEN None ELSE coins[k]
  BY DEF UndoCoins, UndoOne, TypeOK
<1>2. /\ RollsBack /\ RollsBack'
      /\ \A h : Stays(h) <=> h < from
      /\ \A h : Stays(h)' <=> h < from
  BY <1>1 DEF RollsBack, Stays
<1>3. Processed' = Processed /\ \A b : Stored(b)' <=> Stored(b)
  BY <1>1 DEF Processed, Stored
<1>4. \A k \in Coins : coins[k] # None => coins[k].mint \in Nat
  BY DataDocs
<1>5. StoredFits'
  BY <1>3 DEF DataInv, StoredFits
<1>6. Justified'
  <2>1. \A k \in Coins : coins'[k] # None =>
           coins'[k] = coins[k] /\ coins[k] # None
    BY <1>1
  <2>2. QED
    BY <1>1, <1>2, <1>3, <2>1 DEF DataInv, Justified, Minted
<1>7. ASSUME NEW b \in Processed, Height[b] < from
      PROVE  HasMints(b)' /\ HasSpends(b)' /\ HasTxs(b)'
  <2>1. b \in Blocks /\ Minted(b) \subseteq Coins
    BY MintedCoins DEF Processed
  <2>2. HasMints(b) /\ HasSpends(b) /\ HasTxs(b)
    BY <1>2, <1>7 DEF DataInv, Complete
  <2>3. ASSUME NEW k \in Minted(b)
        PROVE  coins'[k] # None /\ coins'[k].mint = Height[b]
    <3>1. k \in Coins /\ coins[k] # None /\ coins[k].mint = Height[b]
      BY <2>1, <2>2 DEF HasMints
    <3>2. ~(coins[k].mint >= from)
      BY <1>1, <1>7, <2>1, <3>1, ParentHeight
    <3>3. QED
      BY <1>1, <3>1, <3>2
  <2>4. HasMints(b)'
    BY <2>3 DEF HasMints, Minted
  <2>5. ASSUME NEW t \in TxsIn[b], NEW k \in Spends[t]
        PROVE  coins'[k] = coins[k]
    <3>1. PICK a \in Ancestors[b] : \E u \in TxsIn[a] : k \in Mints[u]
      BY <2>1, BranchAssumption
    <3>2. a \in Processed /\ a \in Blocks /\ Height[a] <= Height[b]
      BY <2>1, <3>1, ProcessedAncestors, AncestorsBelow, ParentHeight
      DEF Processed
    <3>3. k \in Minted(a) /\ k \in Coins
      BY <3>1, <3>2, MintedCoins DEF Minted
    <3>4. Height[a] < from
      BY <1>1, <1>7, <2>1, <3>2, ParentHeight
    <3>5. coins[k].mint = Height[a]
      BY <1>2, <3>2, <3>3, <3>4 DEF DataInv, Complete, HasMints
    <3>6. ~(coins[k].mint >= from)
      BY <1>1, <3>2, <3>4, <3>5, ParentHeight
    <3>7. QED
      BY <1>1, <3>3, <3>6
  <2>6. HasSpends(b)'
    BY <1>1, <1>3, <2>2, <2>5 DEF HasSpends
  <2>7. QED
    BY <1>1, <2>2, <2>4, <2>6 DEF HasTxs
<1>8. Complete'
  BY <1>1, <1>2, <1>3, <1>7 DEF Complete
<1>9. ASSUME NEW k \in Coins, coins'[k] # None
      PROVE  coins'[k].mint < from
  BY <1>1, <1>4, <1>9
<1>10. UndoneSoFar'
  BY <1>1, <1>2, <1>3, <1>9 DEF DataInv, UndoneSoFar
<1>11. QED
  BY <1>5, <1>6, <1>8, <1>10 DEF DataInv

\* ... until the rollback ends.
LEMMA UnspendData ==
  ASSUME TypeOK, Shape, ChainInv, DataInv, Unspend
  PROVE  DataInv'
<1> DEFINE Undone(k) == coins[k] # None /\ coins[k].spent >= from
<1>1. /\ at = "unspend" /\ at' = "ask" /\ undo = {} /\ from \in Nat
      /\ UNCHANGED <<blocks, txs>>
      /\ \A k \in Coins : coins'[k] =
            IF Undone(k) THEN [coins[k] EXCEPT !.spent = Unspent, !.by = None]
            ELSE coins[k]
  BY DEF Unspend, TypeOK, DataInv, UndoneSoFar
<1>2. /\ RollsBack /\ ~RollsBack'
      /\ \A h : Stays(h) <=> h < from
  BY <1>1 DEF RollsBack, Stays
<1>3. Processed' = Processed /\ \A b : Stored(b)' <=> Stored(b)
  BY <1>1 DEF Processed, Stored
<1>4. /\ \A b \in Blocks : Stored(b) => Height[b] < from
      /\ \A k \in Coins : coins[k] # None => coins[k].mint < from
      /\ \A t \in Txs : txs[t] # None => txs[t].height < from
  BY <1>1, <1>2 DEF DataInv, UndoneSoFar
<1>5. ASSUME NEW k \in Coins, Undone(k)
      PROVE  /\ coins'[k] # None /\ coins'[k].mint = coins[k].mint
             /\ coins'[k].spent = Unspent /\ coins'[k].by = None
             /\ coins[k] # None
  <2>1. coins[k] # None /\ coins[k] \in CoinDocs
    BY <1>5, DataDocs
  <2>2. coins'[k] = [coins[k] EXCEPT !.spent = Unspent, !.by = None]
    BY <1>1, <1>5
  <2>3. coins'[k] \in CoinDocs
    BY <2>1, <2>2 DEF CoinDocs
  <2>4. coins'[k] # None
    BY <2>3, NoneAssumption
  <2>5. QED
    BY <2>1, <2>2, <2>4 DEF CoinDocs
<1>6. ASSUME NEW k \in Coins, ~Undone(k)
      PROVE  /\ coins'[k] = coins[k]
             /\ coins[k] # None /\ coins[k].spent # Unspent =>
                   coins[k].spent < from
  <2>1. coins'[k] = coins[k]
    BY <1>1, <1>6
  <2>2. ASSUME coins[k] # None, coins[k].spent # Unspent
        PROVE  coins[k].spent < from
    <3>1. coins[k].spent \in Nat /\ from \in Nat
      BY <2>2, DataDocs DEF TypeOK
    <3>2. ~(coins[k].spent >= from)
      BY <1>6, <2>2
    <3>3. QED
      BY <3>1, <3>2
  <2>3. QED
    BY <2>1, <2>2
<1> HIDE DEF Undone
<1>7. StoredFits'
  BY <1>3 DEF DataInv, StoredFits
<1>8. Justified'
  <2>1. ASSUME NEW k \in Coins, coins'[k] # None
        PROVE  /\ \E b \in Blocks : /\ Stored(b) /\ k \in Minted(b)
                                    /\ coins'[k].mint = Height[b]
               /\ coins'[k].spent = Unspent => coins'[k].by = None
               /\ coins'[k].spent # Unspent =>
                     \E b \in Blocks : /\ Stored(b) /\ coins'[k].by \in TxsIn[b]
                                       /\ k \in Spends[coins'[k].by]
                                       /\ coins'[k].spent = Height[b]
    <3>1. coins[k] # None /\ coins'[k].mint = coins[k].mint
      BY <1>5, <1>6, <2>1
    <3>2. \E b \in Blocks : /\ Stored(b) /\ k \in Minted(b)
                            /\ coins'[k].mint = Height[b]
      BY <1>2, <1>4, <3>1 DEF DataInv, Justified
    <3>3. CASE Undone(k)
      BY <1>5, <3>2, <3>3
    <3>4. CASE ~Undone(k)
      BY <1>2, <1>6, <3>1, <3>2, <3>4 DEF DataInv, Justified
    <3>5. QED
      BY <3>3, <3>4
  <2>2. \A t \in Txs : txs'[t] # None =>
           /\ Stored(txs'[t].block) /\ t \in TxsIn[txs'[t].block]
           /\ txs'[t].height = Height[txs'[t].block]
    BY <1>1, <1>2, <1>4 DEF DataInv, Justified
  <2>3. QED
    BY <1>3, <2>1, <2>2 DEF Justified, Minted
<1>9. ASSUME NEW b \in Processed
      PROVE  HasMints(b)' /\ HasSpends(b)' /\ HasTxs(b)'
  <2>1. b \in Blocks /\ Stored(b) /\ Height[b] < from /\ Height[b] \in Nat
    BY <1>4, ParentHeight DEF Processed
  <2>2. HasMints(b) /\ HasSpends(b) /\ HasTxs(b)
    BY <1>2, <2>1 DEF DataInv, Complete
  <2>3. \A k \in Coins : coins[k] # None =>
           coins'[k] # None /\ coins'[k].mint = coins[k].mint
    BY <1>5, <1>6
  <2>4. HasMints(b)'
    BY <2>1, <2>2, <2>3, MintedCoins DEF HasMints, Minted
  <2>5. ASSUME NEW t \in TxsIn[b], NEW k \in Spends[t]
        PROVE  coins'[k] = coins[k]
    <3>1. k \in Coins /\ coins[k] # None
      BY <2>1, <2>2, DataAssumption DEF HasSpends
    <3>2. ASSUME Undone(k)
          PROVE  FALSE
      <4>1. PICK a \in Blocks : Height[a] <= Height[b] /\ coins[k].spent = Height[a]
        BY <2>1, <2>2 DEF HasSpends
      <4>2. Height[a] \in Nat /\ coins[k].spent >= from
        BY <3>2, ParentHeight DEF Undone
      <4>3. QED
        <5>1. from \in Nat /\ Height[b] < from /\ Height[b] \in Nat
          BY <2>1 DEF TypeOK
        <5>2. Height[a] <= Height[b] /\ Height[a] >= from
          BY <4>1, <4>2
        <5>3. QED
          BY <4>2, <5>1, <5>2
    <3>3. QED
      BY <1>6, <3>1, <3>2
  <2>6. HasSpends(b)'
    BY <1>3, <2>2, <2>5 DEF HasSpends
  <2>7. HasTxs(b)'
    BY <1>1, <2>2 DEF HasTxs
  <2>8. QED
    BY <2>4, <2>6, <2>7
<1>10. Complete'
  BY <1>1, <1>3, <1>9 DEF Complete
<1>11. UndoneSoFar'
  BY <1>1, <1>2 DEF UndoneSoFar
<1>12. QED
  BY <1>7, <1>8, <1>10, <1>11 DEF DataInv

LEMMA NextTorn ==
  ASSUME TypeOK, TypeOK', [Next]_vars, torn
  PROVE  torn'
BY DEF Next, Work, Start, AskHeaders, AskAgain, ReceiveHeaders, ReceiveBlock,
       NoReorg, Reorg, UndoOne, UndoBlocks, UndoTxs, UndoCoins, Unspend, Step,
       WriteBlock, LinkPrevious, MintCoins, SpendCoins, StoreTxs,
       MarkProcessed, Crash, StepFails, Interrupted, PeerAdvances, vars, history

LEMMA NextData ==
  ASSUME TypeOK, Shape, ChainInv, DataInv, [Next]_vars, ~torn'
  PROVE  DataInv'
<1>1. CASE Start \/ AskHeaders \/ NoReorg
  BY <1>1, DataKept
  DEF Start, AskHeaders, NoReorg, Written, RollsBack
<1>2. CASE Reorg
  BY <1>2, DataKept DEF Reorg, RollsBack
<1>3. ASSUME NEW p \in Peers, ReceiveHeaders(p) \/ ReceiveBlock(p)
      PROVE  DataInv'
  BY <1>3, DataKept DEF ReceiveHeaders, ReceiveBlock, Written, RollsBack
<1>4. CASE Crash \/ StepFails
  <2>1. ~RollsBack /\ at' \in {"off", "ask"} /\ UNCHANGED db
    BY <1>4 DEF Crash, StepFails, Interrupted, RollsBack
  <2>2. QED
    BY <2>1, DataKept DEF Written
<1>5. ASSUME \/ AskAgain
             \/ \E p \in Peers, b \in Blocks : PeerAdvances(p, b)
      PROVE  DataInv'
  BY <1>5, DataKept DEF AskAgain, PeerAdvances, worker
<1>6. CASE UNCHANGED vars
  BY <1>6, DataKept DEF vars, db
<1>7. QED
  BY <1>1, <1>2, <1>3, <1>4, <1>5, <1>6, WriteBlockData, LinkPreviousData,
     MintCoinsData, SpendCoinsData, StoreTxsData, MarkProcessedData,
     UndoBlocksData, UndoTxsData, UndoCoinsData, UnspendData
  DEF Next, Work

-----------------------------------------------------------------------------
(***************************************************************************)
(* What a complete store says                                              *)
(***************************************************************************)

LEMMA StoreIsWhole ==
  ASSUME TypeOK, ChainInv, DataInv, at = "rest", ~LeftBehind
  PROVE  /\ \A k \in Coins : coins[k] = CoinOf(k)
         /\ \A t \in Txs : txs[t] = TxDocOf(t)
<1>1. \A b \in Blocks : Stored(b) => b \in Processed
  BY DEF LeftBehind, Processed
<1>2. \A b \in Processed : b \in Blocks /\ HasMints(b) /\ HasSpends(b) /\ HasTxs(b)
  BY DEF DataInv, Complete, Stays, RollsBack, Processed
<1>3. \A h : Stays(h)
  BY DEF Stays, RollsBack
<1>4. ASSUME NEW k \in Coins
      PROVE  coins[k] = CoinOf(k)
  <2>1. CASE \A b \in Processed : k \notin Minted(b)
    <3>1. coins[k] = None
      BY <1>1, <1>3, <2>1 DEF DataInv, Justified
    <3>2. QED
      BY <2>1, <3>1 DEF CoinOf
  <2>2. CASE \E b \in Processed : k \in Minted(b)
    <3> DEFINE m == CHOOSE b \in Processed : k \in Minted(b)
               spenders == {t \in UNION {TxsIn[b] : b \in Processed} :
                                k \in Spends[t]}
               t == CHOOSE u \in spenders : TRUE
               s == CHOOSE b \in Processed : t \in TxsIn[b]
    <3>1. m \in Processed /\ k \in Minted(m)
      BY <2>2
    <3>2. CoinOf(k) =
             IF spenders = {}
             THEN [mint |-> Height[m], spent |-> Unspent, by |-> None]
             ELSE [mint |-> Height[m], spent |-> Height[s], by |-> t]
      BY <2>2 DEF CoinOf
    <3> HIDE DEF m
    <3>3. coins[k] # None /\ coins[k].mint = Height[m] /\ coins[k] \in CoinDocs
      BY <1>2, <3>1, DataDocs DEF HasMints
    <3>4. coins[k] = [mint |-> coins[k].mint, spent |-> coins[k].spent,
                      by |-> coins[k].by]
      BY <3>3 DEF CoinDocs
    <3>5. CASE spenders = {}
      <4>1. coins[k].spent = Unspent
        <5>1. SUFFICES ASSUME coins[k].spent # Unspent
                       PROVE  FALSE
          OBVIOUS
        <5>2. PICK b \in Blocks : /\ Stored(b) /\ coins[k].by \in TxsIn[b]
                                  /\ k \in Spends[coins[k].by]
          BY <1>3, <3>3, <5>1 DEF DataInv, Justified
        <5>3. coins[k].by \in spenders
          BY <1>1, <5>2
        <5>4. QED
          BY <3>5, <5>3
      <4>2. coins[k].by = None
        BY <3>3, <4>1 DEF DataInv, Justified
      <4>3. QED
        BY <3>2, <3>3, <3>4, <3>5, <4>1, <4>2
    <3>6. CASE spenders # {}
      <4>1. t \in spenders
        BY <3>6
      <4>2. /\ k \in Spends[t]
            /\ \E b \in Processed : t \in TxsIn[b]
        BY <4>1
      <4>3. s \in Processed /\ t \in TxsIn[s]
        BY <4>2
      <4> HIDE DEF s, t, spenders
      <4>4. coins[k].spent = Height[s] /\ coins[k].by = t
        BY <1>1, <1>2, <4>2, <4>3 DEF HasSpends
      <4>5. QED
        BY <3>2, <3>3, <3>4, <3>6, <4>4
    <3>7. QED
      BY <3>5, <3>6
  <2>3. QED
    BY <2>1, <2>2
<1>5. ASSUME NEW t \in Txs
      PROVE  txs[t] = TxDocOf(t)
  <2>1. CASE \A b \in Processed : t \notin TxsIn[b]
    <3>1. txs[t] = None
      BY <1>1, <1>3, <2>1, DataDocs DEF DataInv, Justified
    <3>2. QED
      BY <2>1, <3>1 DEF TxDocOf
  <2>2. CASE \E b \in Processed : t \in TxsIn[b]
    <3> DEFINE b == CHOOSE a \in Processed : t \in TxsIn[a]
    <3>1. b \in Processed /\ t \in TxsIn[b]
      BY <2>2
    <3>2. TxDocOf(t) = [height |-> Height[b], block |-> b]
      BY <2>2 DEF TxDocOf
    <3>3. txs[t] = [height |-> Height[b], block |-> b]
      BY <1>2, <3>1 DEF HasTxs
    <3>4. QED
      BY <3>2, <3>3
  <2>3. QED
    BY <2>1, <2>2
<1>6. QED
  BY <1>4, <1>5
-----------------------------------------------------------------------------
(***************************************************************************)
(* The theorems                                                            *)
(***************************************************************************)

LEMMA NextLate ==
  ASSUME TypeOK, TypeOK', [Next]_vars, late
  PROVE  late'
BY DEF Next, Work, Start, AskHeaders, AskAgain, ReceiveHeaders, ReceiveBlock,
       NoReorg, Reorg, UndoOne, UndoBlocks, UndoTxs, UndoCoins, Unspend, Step,
       WriteBlock, LinkPrevious, MintCoins, SpendCoins, StoreTxs,
       MarkProcessed, Crash, StepFails, PeerAdvances, vars, history

LEMMA SyncInvariant == Spec => []IInv
<1>1. Init => IInv
  BY InitOK
<1>2. IInv /\ [Next]_vars => IInv'
  BY NextType, NextShape, NextChain, NextLate DEF IInv
<1>3. QED
  BY <1>1, <1>2, PTL DEF Spec

\* The type invariant: no step of a synchronisation, wherever it is cut off,
\* writes a document of a wrong shape.
THEOREM SyncTypeCorrect == Spec => []TypeOK
<1>1. IInv => TypeOK
  BY DEF IInv
<1>2. QED
  BY <1>1, SyncInvariant, PTL

\* The processed blocks are one chain with true heights and a nextBlockHash
\* that leads up it, whatever reorganisations, crashes and failed writes there
\* are, until the worker takes an answer to an earlier question.
THEOREM ProcessedChainAlways == Spec => []ProcessedChain
<1>1. IInv => ProcessedChain
  BY ProcessedFacts DEF IInv, ChainInv, OneChain, ProcessedChain
<1>2. QED
  BY <1>1, SyncInvariant, PTL

\* The worker implements ChainStore: the processed blocks grow at their tip
\* or are cut back to a shorter chain, as long as no late answer is taken.
THEOREM SyncRefinesChainStore == Spec => IsChainStore
<1>1. Init => Store!Init
  BY DEF Init, Store!Init, Processed, Stored
<1>2. ASSUME IInv, IInv', [Next]_vars
      PROVE  [Store!Next]_<<Processed, ~late>>
  <2>1. CASE late'
    BY <2>1 DEF Store!Next
  <2>2. CASE ~late'
    <3>1. ~late /\ ChainInv /\ TypeOK /\ Shape
      BY <1>2, <2>2, NextLate DEF IInv
    <3>2. CASE Processed' = Processed
      BY <2>2, <3>1, <3>2
    <3>3. ASSUME NEW b \in Blocks, Grows(b)
          PROVE  Store!Grow(b)
      <4>1. ASSUME NEW a \in Processed
            PROVE  Parent[a] # Parent[b]
        <5>1. Height[a] < Height[b] /\ Parent[b] \in Processed /\ a \in Blocks
          BY <3>1, <3>3, FitsAbove, ProcessedFacts DEF Grows, ChainInv
        <5>2. Parent[b] # Genesis
          BY <3>1, <5>1, ProcessedFacts DEF ChainInv
        <5>3. QED
          BY <5>1, <5>2, ParentHeight
      <4>2. Parent[b] = Genesis \/ Parent[b] \in Processed
        BY <3>3 DEF Grows, Fits, IsTip
      <4>3. QED
        BY <3>3, <4>1, <4>2 DEF Grows, Store!Grow
    <3>4. CASE IsCutBack
      BY <2>2, <3>1, <3>4 DEF IsCutBack, Store!Next, Store!CutBack
    <3>5. QED
      BY <1>2, <2>2, <3>1, <3>2, <3>3, <3>4, NextChain DEF Store!Next
  <2>3. QED
    BY <2>1, <2>2
<1>3. QED
  BY <1>1, <1>2, SyncInvariant, PTL DEF Spec, IsChainStore, Store!Spec

LEMMA DataInvariant == Spec => [](IInv /\ (late \/ torn \/ DataInv))
<1>1. Init => DataInv
  BY DEF Init, DataInv, StoredFits, Justified, Complete, UndoneSoFar, RollsBack,
         Processed, Stored
<1>2. ASSUME IInv, IInv', late \/ torn \/ DataInv, [Next]_vars
      PROVE  late' \/ torn' \/ DataInv'
  <2>1. TypeOK /\ TypeOK' /\ Shape
    BY <1>2 DEF IInv
  <2>2. ~late' /\ ~torn' => ~late /\ ~torn
    BY <1>2, <2>1, NextLate, NextTorn
  <2>3. ~late => ChainInv
    BY <1>2 DEF IInv
  <2>4. QED
    BY <1>2, <2>1, <2>2, <2>3, NextData
<1>3. QED
  BY <1>1, <1>2, SyncInvariant, PTL DEF Spec

\* After a synchronisation the coins and transactions are exactly those of the
\* processed chain, whatever reorganisations, crashes and failed writes there
\* were, unless a rollback was interrupted, the worker took a late answer or a
\* half-imported block is still lying about.
THEOREM StoreMatchesChainAlways == Spec => []StoreMatchesChain
<1>1. IInv /\ (late \/ torn \/ DataInv) => StoreMatchesChain
  BY StoreIsWhole DEF IInv, StoreMatchesChain
<1>2. QED
  BY <1>1, DataInvariant, PTL
=============================================================================
