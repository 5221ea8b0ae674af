----------------------------- MODULE PagesProofs -----------------------------
(* Theorems about Pages, Browser, Publish and Netguard: for any rows, any      *)
(* order that the database gives to equal names, pages of any size and shelves *)
(* that are smaller than a page; for any tabs, people, fields that differ,     *)
(* addresses and redirects.                                                    *)
EXTENDS Pages, Browser, Publish, Netguard, Integers, TLAPS, SequenceTheorems,
        FiniteSetTheorems, WellFoundedInduction

-----------------------------------------------------------------------------
(* Recursive functions: that they exist and satisfy their equations is said    *)
(* here with functions, where the library's theorems take operators.           *)

\* A set of naturals that is not empty has a least element.
LEMMA SmallestNat ==
    ASSUME NEW S, S \subseteq Nat, S # {}
    PROVE  \E x \in S : \A y \in S : x <= y
  <1>1. PICK x \in S : \A y \in S : ~ (<<y, x>> \in OpToRel(<, Nat))
    BY NatLessThanWellFounded, WFMin
  <1>2. \A y \in S : ~ (y < x)
    BY <1>1 DEF OpToRel
  <1> QED
    BY <1>2

\* What starts at 0 and passes from each number to the next holds up to n.
LEMMA UpTo ==
    ASSUME NEW n \in Nat, NEW H, 0 \in H, \A k \in 1 .. n : k - 1 \in H => k \in H
    PROVE  \A k \in 0 .. n : k \in H
  <1> DEFINE Missing == {k \in 0 .. n : k \notin H}
  <1> SUFFICES ASSUME Missing # {} PROVE FALSE
    OBVIOUS
  <1>1. Missing \subseteq Nat
    OBVIOUS
  <1>2. PICK k \in Missing : \A j \in Missing : k <= j
    BY <1>1, SmallestNat
  <1>3. k \in 1 .. n /\ k - 1 \in 0 .. n /\ ~ k <= k - 1
    <2>1. k # 0 /\ k \in 0 .. n
      BY <1>2
    <2> QED
      BY <2>1
  <1>4. k - 1 \in H
    BY <1>2, <1>3
  <1> QED
    BY <1>2, <1>3, <1>4

\* f starts at a and takes n steps of G.
Recurs(f, S, n, a, G) ==
    /\ f \in [0 .. n -> S]
    /\ f[0] = a /\ \A k \in 1 .. n : f[k] = G[<<k, f[k - 1]>>]

\* A function that is defined by recursion from 0 to n exists.
LEMMA RecursiveFunction ==
    ASSUME NEW S, NEW n \in Nat, NEW a \in S, NEW G \in [(1 .. n) \X S -> S]
    PROVE  \E f : Recurs(f, S, n, a, G)
  <1> DEFINE Upto(m, f) == f[0] = a /\ \A k \in 1 .. m : f[k] = G[<<k, f[k - 1]>>]
             H == {m \in 0 .. n : \E f \in [0 .. m -> S] : Upto(m, f)}
  <1>1. 0 \in H
    <2> DEFINE g == [k \in 0 .. 0 |-> a]
    <2>1. g \in [0 .. 0 -> S] /\ Upto(0, g)
      OBVIOUS
    <2>2. 0 \in 0 .. n
      OBVIOUS
    <2> HIDE DEF g, Upto
    <2> QED
      BY <2>1, <2>2
  <1>2. ASSUME NEW m \in 1 .. n, m - 1 \in H
        PROVE  m \in H
    <2>1. PICK f \in [0 .. m - 1 -> S] : Upto(m - 1, f)
      BY <1>2
    <2> DEFINE g == [k \in 0 .. m |-> IF k = m THEN G[<<m, f[m - 1]>>] ELSE f[k]]
    <2>2. m \in Nat /\ m \in 0 .. m /\ m - 1 \in 0 .. m - 1 /\ 0 \in 0 .. m - 1 /\ m - 1 # m
      OBVIOUS
    <2>3. f[m - 1] \in S /\ G[<<m, f[m - 1]>>] \in S
      BY <2>2
    <2>4. \A k \in 0 .. m : k = m \/ k \in 0 .. m - 1
      OBVIOUS
    <2>5. g \in [0 .. m -> S]
      BY <2>3, <2>4
    <2>6. /\ \A k \in 0 .. m - 1 : g[k] = f[k]
          /\ g[m] = G[<<m, f[m - 1]>>]
      BY <2>2
    <2>7. g[m] = G[<<m, g[m - 1]>>]
      BY <2>2, <2>6
    <2>8. \A k \in 1 .. m - 1 : g[k] = G[<<k, g[k - 1]>>]
      <3> TAKE k \in 1 .. m - 1
      <3>1. k \in 0 .. m - 1 /\ k - 1 \in 0 .. m - 1
        OBVIOUS
      <3> QED
        BY <2>1, <2>6, <3>1
    <2>9. g[0] = a
      BY <2>1, <2>2, <2>6
    <2> HIDE DEF g
    <2>10. \A k \in 1 .. m : k = m \/ k \in 1 .. m - 1
      OBVIOUS
    <2>11. \A k \in 1 .. m : g[k] = G[<<k, g[k - 1]>>]
      BY <2>7, <2>8, <2>10
    <2> QED
      BY <2>5, <2>9, <2>11
  <1>3. \A m \in 0 .. n : m \in H
    <2> HIDE DEF H
    <2> QED
      BY <1>1, <1>2, UpTo
  <1>4. \E f \in [0 .. n -> S] : Upto(n, f)
    BY <1>3
  <1> QED
    BY <1>4 DEF Recurs

LEMMA OneTo ==
    ASSUME NEW z \in Nat
    PROVE  IsFiniteSet(1 .. z) /\ Cardinality(1 .. z) = z
  <1>1. 1 \in Int /\ z \in Int /\ (1 > z => z = 0) /\ (z - 1) + 1 = z
    OBVIOUS
  <1>2. /\ IsFiniteSet(1 .. z)
        /\ Cardinality(1 .. z) = IF 1 > z THEN 0 ELSE z - 1 + 1
    BY <1>1, FS_Interval, Zenon
  <1> QED
    BY <1>1, <1>2

-----------------------------------------------------------------------------
(* Copies are grouped.                                                         *)

CardType == [row : Rows, also_in : SUBSET Nat]

LEMMA RowFacts ==
    ASSUME NEW r \in Rows
    PROVE  /\ r.id \in Nat /\ r.name \in Nat /\ r.bacaro \in Bacari /\ Rank[r.bacaro] \in Int
           /\ Rank[r.bacaro] \in 0 .. 2
  <1>1. r \in Row
    BY PagesConstants
  <1>2. r.id \in Nat /\ r.name \in Nat /\ r.bacaro \in Bacari
    BY <1>1 DEF Row
  <1> QED
    BY <1>2, PagesConstants

\* A copy that joins a sequence of cards has joined the card of its key, or has
\* the last.
LEMMA JoinsCases ==
    ASSUME NEW cards \in Seq(CardType), NEW r \in Rows
    PROVE  \/ /\ \A i \in DOMAIN cards : cards[i].row.key # r.key
              /\ Joins(cards, r) = Append(cards, Card(r, {}))
           \/ \E i \in DOMAIN cards :
                /\ cards[i].row.key = r.key
                /\ Joins(cards, r) =
                     [cards EXCEPT ![i] =
                        IF Better(r, cards[i])
                        THEN Card(r, cards[i].also_in \cup {cards[i].row.id})
                        ELSE Card(cards[i].row, cards[i].also_in \cup {r.id})]
  <1> DEFINE mine == {i \in DOMAIN cards : cards[i].row.key = r.key}
  <1>1. CASE mine = {}
    BY <1>1 DEF Joins
  <1>2. CASE mine # {}
    <2> DEFINE i == CHOOSE j \in mine : TRUE
    <2>1. i \in mine
      BY <1>2
    <2>2. Joins(cards, r) =
             [cards EXCEPT ![i] =
                IF Better(r, @)
                THEN Card(r, @.also_in \cup {@.row.id})
                ELSE Card(@.row, @.also_in \cup {r.id})]
      BY <1>2 DEF Joins
    <2> HIDE DEF i
    <2> QED
      BY <2>1, <2>2
  <1> QED
    BY <1>1, <1>2

\* What a sequence of cards says of the rows R that were grouped.
Grouped(cards, R) ==
    /\ cards \in Seq(CardType)
    /\ \A i \in DOMAIN cards : cards[i].row \in R
    /\ \A i, j \in DOMAIN cards : cards[i].row.key = cards[j].row.key => i = j
    /\ \A r \in R : \E i \in DOMAIN cards : cards[i].row.key = r.key
    /\ \A i \in DOMAIN cards : cards[i].also_in =
          {t.id : t \in {u \in R : u.key = cards[i].row.key /\ u.id # cards[i].row.id}}
    /\ \A i \in DOMAIN cards : \A t \in R :
          t.key = cards[i].row.key => Rank[cards[i].row.bacaro] <= Rank[t.bacaro]

LEMMA AppendPlaces ==
    ASSUME NEW S, NEW s \in Seq(S), NEW x \in S
    PROVE  /\ Append(s, x) \in Seq(S) /\ DOMAIN s \subseteq DOMAIN Append(s, x)
           /\ \A i \in DOMAIN s : Append(s, x)[i] = s[i] /\ i # Len(s) + 1
           /\ Len(s) + 1 \in DOMAIN Append(s, x) /\ Append(s, x)[Len(s) + 1] = x
           /\ \A i \in DOMAIN Append(s, x) : i \in DOMAIN s \/ i = Len(s) + 1
           /\ Len(Append(s, x)) = Len(s) + 1
  OBVIOUS

LEMMA GroupedNew ==
    ASSUME NEW cards, NEW R, Grouped(cards, R), R \subseteq Rows, NEW r \in Rows \ R,
           \A i \in DOMAIN cards : cards[i].row.key # r.key
    PROVE  Grouped(Append(cards, Card(r, {})), R \cup {r})
  <1> DEFINE c == Card(r, {})
             d == Append(cards, c)
             n == Len(cards) + 1
             Q == R \cup {r}
  <1>1. cards \in Seq(CardType) /\ c \in CardType /\ c.row = r /\ c.also_in = {}
    BY DEF Grouped, Card, CardType
  <1>2. /\ d \in Seq(CardType) /\ DOMAIN cards \subseteq DOMAIN d
        /\ \A i \in DOMAIN cards : d[i] = cards[i] /\ i # n
        /\ n \in DOMAIN d /\ d[n] = c
        /\ \A i \in DOMAIN d : i \in DOMAIN cards \/ i = n
    <2> HIDE DEF c
    <2> QED
      BY <1>1, AppendPlaces
  <1>3. \A t \in R : t.key # r.key
    BY DEF Grouped
  <1> HIDE DEF c, d, n
  <1>4. \A i \in DOMAIN d : d[i].row \in Q
    BY <1>1, <1>2 DEF Grouped
  <1>5. \A i, j \in DOMAIN d : d[i].row.key = d[j].row.key => i = j
    BY <1>1, <1>2 DEF Grouped
  <1>6. \A t \in Q : \E i \in DOMAIN d : d[i].row.key = t.key
    BY <1>1, <1>2 DEF Grouped
  <1>7. ASSUME NEW i \in DOMAIN d
        PROVE  /\ d[i].also_in =
                    {t.id : t \in {u \in Q : u.key = d[i].row.key /\ u.id # d[i].row.id}}
               /\ \A t \in Q : t.key = d[i].row.key => Rank[d[i].row.bacaro] <= Rank[t.bacaro]
    <2>1. CASE i = n
      <3>1. {u \in Q : u.key = r.key /\ u.id # r.id} = {}
        BY <1>3
      <3>2. Rank[r.bacaro] \in Int
        BY RowFacts
      <3> QED
        BY <1>1, <1>2, <1>3, <2>1, <3>1, <3>2
    <2>2. CASE i \in DOMAIN cards
      <3>1. d[i] = cards[i] /\ cards[i].row.key # r.key
        BY <1>2, <2>2
      <3>2. {u \in Q : u.key = d[i].row.key /\ u.id # d[i].row.id}
              = {u \in R : u.key = d[i].row.key /\ u.id # d[i].row.id}
        BY <3>1
      <3> QED
        BY <2>2, <3>1, <3>2 DEF Grouped
    <2> QED
      BY <1>2, <2>1, <2>2
  <1>8. Grouped(d, Q)
    BY <1>2, <1>4, <1>5, <1>6, <1>7 DEF Grouped
  <1> QED
    BY <1>8 DEF d, c

LEMMA GroupedJoins ==
    ASSUME NEW cards, NEW R, Grouped(cards, R), R \subseteq Rows, NEW r \in Rows \ R,
           NEW i \in DOMAIN cards, cards[i].row.key = r.key
    PROVE  Grouped([cards EXCEPT ![i] = IF Better(r, cards[i])
                        THEN Card(r, cards[i].also_in \cup {cards[i].row.id})
                        ELSE Card(cards[i].row, cards[i].also_in \cup {r.id})],
                   R \cup {r})
  <1> DEFINE c == IF Better(r, cards[i])
                  THEN Card(r, cards[i].also_in \cup {cards[i].row.id})
                  ELSE Card(cards[i].row, cards[i].also_in \cup {r.id})
             d == [cards EXCEPT ![i] = c]
             Q == R \cup {r}
             Fits(k, b) == /\ b.row \in Q
                           /\ b.also_in =
                                {t.id : t \in {u \in Q : u.key = b.row.key /\ u.id # b.row.id}}
                           /\ \A t \in Q : t.key = b.row.key => Rank[b.row.bacaro] <= Rank[t.bacaro]
  <1>0. cards \in Seq(CardType) /\ cards[i] \in CardType /\ cards[i].row \in R
        /\ cards[i].also_in \in SUBSET Nat /\ cards[i].row \in Rows
    <2>1. cards \in Seq(CardType) /\ cards[i].row \in R
      BY DEF Grouped
    <2>2. cards[i] \in CardType
      BY <2>1
    <2> QED
      BY <2>1, <2>2 DEF CardType
  <1>i. r.id \in Nat /\ cards[i].row.id \in Nat /\ r.id # cards[i].row.id
        /\ \A t \in R : t.id # r.id
    BY <1>0, RowFacts, PagesConstants
  <1>1. c \in CardType /\ c.row.key = r.key
    BY <1>0, <1>i DEF Card, CardType
  <1>2. /\ d \in Seq(CardType) /\ DOMAIN d = DOMAIN cards /\ d[i] = c
        /\ \A k \in DOMAIN cards : k # i => d[k] = cards[k]
    <2> HIDE DEF c
    <2> QED
      BY <1>0, <1>1
  <1> DEFINE same == {u \in R : u.key = r.key /\ u.id # cards[i].row.id}
  <1>3. /\ cards[i].also_in = {t.id : t \in same}
        /\ \A t \in R : t.key = r.key => Rank[cards[i].row.bacaro] <= Rank[t.bacaro]
    BY DEF Grouped
  <1>4. c.row \in Q /\ \A t \in Q : t.key = c.row.key => Rank[c.row.bacaro] <= Rank[t.bacaro]
    <2>1. \A t \in Q : t \in Rows /\ Rank[t.bacaro] \in Int
      BY RowFacts
    <2>2. CASE Better(r, cards[i])
      BY <1>0, <1>3, <2>1, <2>2 DEF Better, Card
    <2>3. CASE ~ Better(r, cards[i])
      BY <1>0, <1>3, <2>1, <2>3 DEF Better, Card
    <2> QED
      BY <2>2, <2>3
  <1>5. c.also_in = {t.id : t \in {u \in Q : u.key = c.row.key /\ u.id # c.row.id}}
    <2>2. CASE Better(r, cards[i])
      <3>1. c.row = r /\ c.also_in = {t.id : t \in same} \cup {cards[i].row.id}
        BY <1>3, <2>2 DEF Card
      <3>2. {u \in Q : u.key = r.key /\ u.id # r.id} = same \cup {cards[i].row}
        BY <1>0, <1>i, PagesConstants
      <3> HIDE DEF same
      <3>3. {t.id : t \in same \cup {cards[i].row}} = {t.id : t \in same} \cup {cards[i].row.id}
        OBVIOUS
      <3> QED
        BY <1>1, <3>1, <3>2, <3>3
    <2>3. CASE ~ Better(r, cards[i])
      <3>1. c.row = cards[i].row /\ c.also_in = {t.id : t \in same} \cup {r.id}
        BY <1>3, <2>3 DEF Card
      <3>2. {u \in Q : u.key = r.key /\ u.id # cards[i].row.id} = same \cup {r}
        BY <1>0, <1>i
      <3> HIDE DEF same
      <3>3. {t.id : t \in same \cup {r}} = {t.id : t \in same} \cup {r.id}
        OBVIOUS
      <3> QED
        BY <1>1, <3>1, <3>2, <3>3
    <2> QED
      BY <2>2, <2>3
  <1> HIDE DEF c, d
  <1>6. \A k \in DOMAIN d : d[k].row \in Q
    BY <1>2, <1>4 DEF Grouped
  <1>7. \A k, j \in DOMAIN d : d[k].row.key = d[j].row.key => k = j
    <2>1. \A k \in DOMAIN d : d[k].row.key = cards[k].row.key
      BY <1>1, <1>2
    <2> QED
      BY <1>2, <2>1 DEF Grouped
  <1>8. \A t \in Q : \E k \in DOMAIN d : d[k].row.key = t.key
    <2>1. \A k \in DOMAIN d : d[k].row.key = cards[k].row.key
      BY <1>1, <1>2
    <2> QED
      BY <1>2, <2>1 DEF Grouped
  <1>9. ASSUME NEW k \in DOMAIN d
        PROVE  /\ d[k].also_in =
                    {t.id : t \in {u \in Q : u.key = d[k].row.key /\ u.id # d[k].row.id}}
               /\ \A t \in Q : t.key = d[k].row.key => Rank[d[k].row.bacaro] <= Rank[t.bacaro]
    <2>1. CASE k = i
      BY <1>2, <1>4, <1>5, <2>1
    <2>2. CASE k # i
      <3>1. d[k] = cards[k] /\ cards[k].row.key # r.key
        BY <1>2, <2>2 DEF Grouped
      <3>2. {u \in Q : u.key = d[k].row.key /\ u.id # d[k].row.id}
              = {u \in R : u.key = d[k].row.key /\ u.id # d[k].row.id}
        BY <3>1
      <3> QED
        BY <1>2, <3>1, <3>2 DEF Grouped
    <2> QED
      BY <2>1, <2>2
  <1>10. Grouped(d, Q)
    BY <1>2, <1>6, <1>7, <1>8, <1>9 DEF Grouped
  <1> QED
    BY <1>10 DEF d, c

\* The cards are in the order of the first names of their keys.
InOrder(cards, R) ==
    \A i, j \in DOMAIN cards : i < j =>
        \E t \in R : /\ t.key = cards[i].row.key
                     /\ \A u \in R : u.key = cards[j].row.key => t.name < u.name

LEMMA GroupedStep ==
    ASSUME NEW cards, NEW R, Grouped(cards, R), InOrder(cards, R), R \subseteq Rows,
           NEW r \in Rows \ R, \A t \in R : t.name <= r.name
    PROVE  Grouped(Joins(cards, r), R \cup {r}) /\ InOrder(Joins(cards, r), R \cup {r})
  <1>0. cards \in Seq(CardType)
    BY DEF Grouped
  <1>n. \A t \in R \cup {r} : t.name \in Nat
    BY RowFacts
  <1>1. CASE /\ \A i \in DOMAIN cards : cards[i].row.key # r.key
             /\ Joins(cards, r) = Append(cards, Card(r, {}))
    <2> DEFINE c == Card(r, {})
               d == Append(cards, c)
               n == Len(cards) + 1
    <2>1. Grouped(d, R \cup {r})
      BY <1>1, GroupedNew
    <2>2. c \in CardType /\ c.row = r
      BY DEF CardType, Card
    <2>3. /\ DOMAIN cards \subseteq DOMAIN d
          /\ \A i \in DOMAIN cards : d[i] = cards[i] /\ i # n
          /\ n \in DOMAIN d /\ d[n] = c
          /\ \A i \in DOMAIN d : i \in DOMAIN cards \/ i = n
      <3> HIDE DEF c
      <3> QED
        BY <1>0, <2>2, AppendPlaces
    <2>4. \A i \in DOMAIN cards : i \in Nat /\ i < n
      BY <1>0
    <2>5. n \in Nat
      BY <1>0
    <2> HIDE DEF c, d, n
    <2>6. ASSUME NEW i \in DOMAIN d, NEW j \in DOMAIN d, i < j
          PROVE  \E t \in R \cup {r} :
                    /\ t.key = d[i].row.key
                    /\ \A u \in R \cup {r} : u.key = d[j].row.key => t.name < u.name
      <3>1. i \in DOMAIN cards
        BY <2>3, <2>4, <2>5, <2>6
      <3>2. CASE j \in DOMAIN cards
        <4>1. PICK t \in R : /\ t.key = cards[i].row.key
                             /\ \A u \in R : u.key = cards[j].row.key => t.name < u.name
          BY <2>6, <3>1, <3>2 DEF InOrder
        <4>2. cards[j].row.key # r.key
          BY <1>1, <3>2
        <4> QED
          BY <2>3, <3>1, <3>2, <4>1, <4>2
      <3>3. CASE j = n
        <4>1. cards[i].row \in R /\ cards[i].row.key # r.key
          BY <1>1, <3>1 DEF Grouped
        <4> DEFINE t == cards[i].row
        <4>2. t.name # r.name /\ t \in Rows
          BY <4>1, PagesConstants
        <4>3. t.name < r.name
          BY <1>n, <4>1, <4>2
        <4>4. \A u \in R : u.key # r.key
          BY <1>1 DEF Grouped
        <4>5. d[j].row.key = r.key /\ d[i].row.key = t.key
          BY <2>2, <2>3, <3>1, <3>3
        <4> HIDE DEF t
        <4>6. \A u \in R \cup {r} : u.key = d[j].row.key => t.name < u.name
          BY <4>3, <4>4, <4>5
        <4> QED
          BY <4>1, <4>5, <4>6 DEF t
      <3> QED
        BY <2>3, <3>2, <3>3
    <2>7. InOrder(d, R \cup {r})
      BY <2>6 DEF InOrder
    <2> QED
      BY <1>1, <2>1, <2>7 DEF d, c
  <1>2. ASSUME NEW i \in DOMAIN cards, cards[i].row.key = r.key,
               Joins(cards, r) =
                     [cards EXCEPT ![i] =
                        IF Better(r, cards[i])
                        THEN Card(r, cards[i].also_in \cup {cards[i].row.id})
                        ELSE Card(cards[i].row, cards[i].also_in \cup {r.id})]
        PROVE  Grouped(Joins(cards, r), R \cup {r}) /\ InOrder(Joins(cards, r), R \cup {r})
    <2> DEFINE d == Joins(cards, r)
               c == IF Better(r, cards[i])
                    THEN Card(r, cards[i].also_in \cup {cards[i].row.id})
                    ELSE Card(cards[i].row, cards[i].also_in \cup {r.id})
    <2>1. Grouped(d, R \cup {r})
      <3>1. Grouped([cards EXCEPT ![i] = IF Better(r, cards[i])
                        THEN Card(r, cards[i].also_in \cup {cards[i].row.id})
                        ELSE Card(cards[i].row, cards[i].also_in \cup {r.id})],
                    R \cup {r})
        BY <1>2, GroupedJoins
      <3> QED
        BY <1>2, <3>1, Zenon
    <2>2. c.row.key = r.key
      BY <1>2 DEF Card
    <2>3. d = [cards EXCEPT ![i] = c]
      BY <1>2
    <2> HIDE DEF c, d
    <2>4. DOMAIN d = DOMAIN cards /\ \A k \in DOMAIN cards : d[k].row.key = cards[k].row.key
      BY <1>0, <1>2, <2>2, <2>3
    <2>5. ASSUME NEW k \in DOMAIN cards, NEW j \in DOMAIN cards, k < j
          PROVE  \E t \in R \cup {r} :
                    /\ t.key = cards[k].row.key
                    /\ \A u \in R \cup {r} : u.key = cards[j].row.key => t.name < u.name
      <3>1. PICK t \in R : /\ t.key = cards[k].row.key
                           /\ \A u \in R : u.key = cards[j].row.key => t.name < u.name
        BY <2>5 DEF InOrder
      <3>2. PICK u \in R : u.key = cards[j].row.key /\ t.name < u.name
        BY <3>1 DEF Grouped
      <3>3. t.name < r.name
        BY <1>n, <3>2
      <3> QED
        BY <3>1, <3>3
    <2>6. InOrder(d, R \cup {r})
      BY <2>4, <2>5 DEF InOrder
    <2> QED
      BY <2>1, <2>6 DEF d
  <1> QED
    BY <1>0, <1>1, <1>2, JoinsCases

\* The cards after each row.
LEMMA DedupSteps ==
    ASSUME NEW rows \in Seq(Rows)
    PROVE  \E f \in [0 .. Len(rows) -> Seq(CardType)] :
              /\ f[0] = <<>> /\ \A k \in 1 .. Len(rows) : f[k] = Joins(f[k - 1], rows[k])
              /\ DedupGroups(rows) = f[Len(rows)]
  <1> DEFINE n == Len(rows)
             S == Seq(CardType)
             G == [x \in (1 .. n) \X S |-> Joins(x[2], rows[x[1]])]
             Cards(f) == f = [k \in 0 .. n |-> IF k = 0 THEN <<>> ELSE Joins(f[k - 1], rows[k])]
  <1>0. n \in Nat /\ (\A k \in 1 .. n : rows[k] \in Rows) /\ <<>> \in S
    OBVIOUS
  <1>1. \A s \in S, r \in Rows : Joins(s, r) \in S
    <2> TAKE s \in S, r \in Rows
    <2>1. CASE Joins(s, r) = Append(s, Card(r, {}))
      <3>1. Card(r, {}) \in CardType
        BY DEF Card, CardType
      <3> QED
        BY <2>1, <3>1
    <2>2. ASSUME NEW i \in DOMAIN s,
                 Joins(s, r) =
                     [s EXCEPT ![i] =
                        IF Better(r, s[i])
                        THEN Card(r, s[i].also_in \cup {s[i].row.id})
                        ELSE Card(s[i].row, s[i].also_in \cup {r.id})]
          PROVE  Joins(s, r) \in S
      <3>1. s[i] \in CardType
        OBVIOUS
      <3>2. s[i].row \in Rows /\ s[i].also_in \in SUBSET Nat /\ s[i].row.id \in Nat /\ r.id \in Nat
        BY <3>1, RowFacts DEF CardType
      <3>3. /\ Card(r, s[i].also_in \cup {s[i].row.id}) \in CardType
            /\ Card(s[i].row, s[i].also_in \cup {r.id}) \in CardType
        BY <3>2 DEF Card, CardType
      <3> QED
        BY <2>2, <3>3
    <2> QED
      BY <2>1, <2>2, JoinsCases
  <1>2. G \in [(1 .. n) \X S -> S] /\ \A k \in 1 .. n, s \in S : G[<<k, s>>] = Joins(s, rows[k])
    BY <1>0, <1>1
  <1> HIDE DEF G, n, S
  <1>3. \E g : Recurs(g, S, n, <<>>, G)
    BY <1>0, <1>2, RecursiveFunction, Zenon
  <1>4. PICK g \in [0 .. n -> S] : g[0] = <<>> /\ \A k \in 1 .. n : g[k] = G[<<k, g[k - 1]>>]
    BY <1>3 DEF Recurs
  <1>5. \A k \in 0 .. n : g[k] = IF k = 0 THEN <<>> ELSE Joins(g[k - 1], rows[k])
    <2> TAKE k \in 0 .. n
    <2>1. CASE k # 0
      <3>1. k \in 1 .. n /\ k - 1 \in 0 .. n
        BY <1>0, <2>1
      <3> QED
        BY <1>2, <1>4, <2>1, <3>1
    <2> QED
      BY <1>4, <2>1
  <1>6. Cards(g)
    BY <1>4, <1>5
  <1> DEFINE h == CHOOSE f : Cards(f)
  <1>7. Cards(h) /\ DedupGroups(rows) = h[n]
    BY <1>6 DEF DedupGroups, n
  <1> HIDE DEF h
  <1>8. \A k \in 0 .. n : h[k] = IF k = 0 THEN <<>> ELSE Joins(h[k - 1], rows[k])
    BY <1>7
  <1>9. 0 \in 0 .. n /\ \A k \in 1 .. n : k \in 0 .. n /\ k # 0
    BY <1>0
  <1>10. h[0] = <<>> /\ \A k \in 1 .. n : h[k] = Joins(h[k - 1], rows[k])
    BY <1>8, <1>9
  <1> DEFINE H == {k \in 0 .. n : h[k] \in S}
  <1>11. 0 \in H
    BY <1>0, <1>9, <1>10
  <1>12. ASSUME NEW k \in 1 .. n, k - 1 \in H PROVE k \in H
    BY <1>0, <1>1, <1>9, <1>10, <1>12
  <1>13. \A k \in 0 .. n : k \in H
    <2> HIDE DEF H
    <2> QED
      BY <1>0, <1>11, <1>12, UpTo
  <1>14. h \in [0 .. n -> S]
    BY <1>7, <1>13
  <1> QED
    BY <1>7, <1>10, <1>14 DEF n, S

\* The copies of rows that stand in the order of their names.
LEMMA DedupGrouped ==
    ASSUME NEW rows \in Seq(Rows), \A i, j \in 1 .. Len(rows) : rows[i] = rows[j] => i = j,
           \A i, j \in 1 .. Len(rows) : i < j => rows[i].name <= rows[j].name
    PROVE  LET R == {rows[i] : i \in 1 .. Len(rows)}
           IN  Grouped(DedupGroups(rows), R) /\ InOrder(DedupGroups(rows), R)
  <1> DEFINE n == Len(rows)
             R(k) == {rows[i] : i \in 1 .. k}
  <1>1. PICK f \in [0 .. n -> Seq(CardType)] :
              /\ f[0] = <<>> /\ \A k \in 1 .. n : f[k] = Joins(f[k - 1], rows[k])
              /\ DedupGroups(rows) = f[n]
    BY DedupSteps
  <1> DEFINE H == {k \in 0 .. n : Grouped(f[k], R(k)) /\ InOrder(f[k], R(k))}
  <1>2. n \in Nat /\ \A k \in 1 .. n : rows[k] \in Rows
    OBVIOUS
  <1>3. 0 \in H
    <2>1. DOMAIN <<>> = {} /\ <<>> \in Seq(CardType)
      OBVIOUS
    <2>2. R(0) = {} /\ 0 \in 0 .. n
      BY <1>2
    <2> HIDE DEF R
    <2> QED
      BY <1>1, <2>1, <2>2 DEF Grouped, InOrder
  <1>4. ASSUME NEW k \in 1 .. n, k - 1 \in H
        PROVE  k \in H
    <2>1. k \in 0 .. n /\ k - 1 \in 0 .. n /\ k \in Nat
      BY <1>2
    <2>2. \A i \in 1 .. k - 1 : i \in 1 .. k /\ i \in 1 .. n /\ i # k /\ i < k
      BY <1>2
    <2>3. \A i \in 1 .. k : i = k \/ i \in 1 .. k - 1
      BY <1>2
    <2>4. k \in 1 .. k
      BY <1>2
    <2>5. R(k) = R(k - 1) \cup {rows[k]}
      BY <2>2, <2>3, <2>4
    <2>6. R(k - 1) \subseteq Rows /\ rows[k] \in Rows \ R(k - 1)
      BY <1>2, <2>2
    <2>7. \A t \in R(k - 1) : t.name <= rows[k].name
      BY <2>2
    <2> HIDE DEF R
    <2>8. Grouped(f[k - 1], R(k - 1)) /\ InOrder(f[k - 1], R(k - 1))
      BY <1>4
    <2>9. /\ Grouped(Joins(f[k - 1], rows[k]), R(k - 1) \cup {rows[k]})
          /\ InOrder(Joins(f[k - 1], rows[k]), R(k - 1) \cup {rows[k]})
      <3> DEFINE P == R(k - 1)
      <3>1. P \subseteq Rows /\ rows[k] \in Rows \ P /\ Grouped(f[k - 1], P)
            /\ InOrder(f[k - 1], P) /\ \A t \in P : t.name <= rows[k].name
        BY <2>6, <2>7, <2>8
      <3> HIDE DEF P
      <3>2. /\ Grouped(Joins(f[k - 1], rows[k]), P \cup {rows[k]})
            /\ InOrder(Joins(f[k - 1], rows[k]), P \cup {rows[k]})
        BY <3>1, GroupedStep
      <3> QED
        BY <3>2 DEF P
    <2> QED
      BY <1>1, <2>1, <2>5, <2>9
  <1>5. n \in H
    <2> HIDE DEF H
    <2>1. \A k \in 0 .. n : k \in H
      BY <1>2, <1>3, <1>4, UpTo
    <2> QED
      BY <1>2, <2>1
  <1> QED
    BY <1>1, <1>5

-----------------------------------------------------------------------------
(* Rows in the order of their names.                                       *)

LEMMA BeforeOrders ==
    ASSUME NEW dir, NEW r \in Rows, NEW s \in Rows
    PROVE  /\ ~ Before(r, r, dir)
           /\ \A t \in Rows : Before(r, s, dir) /\ Before(s, t, dir) => Before(r, t, dir)
           /\ r # s => Before(r, s, dir) \/ Before(s, r, dir)
           /\ Before(r, s, dir) => r.name <= s.name
  <1>1. \A t \in Rows : t.name \in Nat /\ t.id \in Nat
    BY RowFacts
  <1>2. r # s => r.id # s.id
    BY PagesConstants
  <1> QED
    BY <1>1, <1>2 DEF Before

Ahead(R, r, dir) == {s \in R : Before(s, r, dir)}

LEMMA AheadCounts ==
    ASSUME NEW R, R \subseteq Rows, NEW dir
    PROVE  /\ IsFiniteSet(R) /\ Cardinality(R) \in Nat
           /\ \A r \in R : Cardinality(Ahead(R, r, dir)) \in 0 .. Cardinality(R) - 1
           /\ \A r, t \in R : Before(r, t, dir) =>
                 Cardinality(Ahead(R, r, dir)) < Cardinality(Ahead(R, t, dir))
  <1>1. IsFiniteSet(R) /\ Cardinality(R) \in Nat
    BY PagesConstants, FS_Subset, FS_CardinalityType
  <1>2. ASSUME NEW r \in R, NEW T \in SUBSET R, r \in T, Ahead(R, r, dir) \subseteq T \ {r}
        PROVE  /\ Cardinality(Ahead(R, r, dir)) \in Nat /\ Cardinality(T) \in Nat
               /\ Cardinality(Ahead(R, r, dir)) < Cardinality(T)
    <2> DEFINE A == Ahead(R, r, dir)
               U == T \ {r}
    <2>1. IsFiniteSet(T) /\ IsFiniteSet(U)
      BY <1>1, FS_Subset
    <2>2. Cardinality(U) = Cardinality(T) - 1 /\ Cardinality(T) \in Nat
      BY <1>2, <2>1, FS_RemoveElement, FS_CardinalityType
    <2>3. A \subseteq U
      BY <1>2
    <2> HIDE DEF A, U
    <2>4. Cardinality(A) <= Cardinality(U) /\ Cardinality(A) \in Nat
      BY <2>1, <2>3, FS_Subset, FS_CardinalityType
    <2>5. Cardinality(A) < Cardinality(T)
      BY <2>2, <2>4
    <2> QED
      BY <2>2, <2>4, <2>5 DEF A
  <1>3. \A r \in R : r \in Rows /\ ~ Before(r, r, dir)
    BY BeforeOrders
  <1>4. ASSUME NEW r \in R
        PROVE  Cardinality(Ahead(R, r, dir)) \in 0 .. Cardinality(R) - 1
    <2>1. Ahead(R, r, dir) \subseteq R \ {r}
      BY <1>3 DEF Ahead
    <2>2. /\ Cardinality(Ahead(R, r, dir)) \in Nat
          /\ Cardinality(Ahead(R, r, dir)) < Cardinality(R)
      BY <1>2, <2>1
    <2> QED
      BY <1>1, <2>2
  <1>5. ASSUME NEW r \in R, NEW t \in R, Before(r, t, dir)
        PROVE  Cardinality(Ahead(R, r, dir)) < Cardinality(Ahead(R, t, dir))
    <2>1. Ahead(R, t, dir) \in SUBSET R /\ r \in Ahead(R, t, dir)
      BY <1>5 DEF Ahead
    <2>2. Ahead(R, r, dir) \subseteq Ahead(R, t, dir) \ {r}
      BY <1>3, <1>5, BeforeOrders DEF Ahead
    <2> QED
      BY <1>2, <2>1, <2>2
  <1> QED
    BY <1>1, <1>4, <1>5

\* Every row has its place, and the places follow the order.
LEMMA ByNameOrders ==
    ASSUME NEW R, R \subseteq Rows, NEW dir
    PROVE  /\ ByName(R, dir) \in Seq(R) /\ Len(ByName(R, dir)) = Cardinality(R)
           /\ R = {ByName(R, dir)[k] : k \in 1 .. Cardinality(R)}
           /\ \A j, k \in 1 .. Cardinality(R) :
                 j < k => Before(ByName(R, dir)[j], ByName(R, dir)[k], dir)
  <1> DEFINE n == Cardinality(R)
             Z == 0 .. n - 1
             place == [r \in R |-> Cardinality(Ahead(R, r, dir))]
             s == ByName(R, dir)
  <1>0. IsFiniteSet(R) /\ n \in Nat
    BY AheadCounts
  <1>1. /\ place \in [R -> Z]
        /\ \A r, t \in R : Before(r, t, dir) => place[r] < place[t]
    BY AheadCounts
  <1>2. \A r \in R : r \in Rows /\ place[r] \in Int
    BY <1>0, <1>1
  <1>3. \A r, t \in R : place[r] = place[t] => r = t
    <2> TAKE r, t \in R
    <2>1. r # t => Before(r, t, dir) \/ Before(t, r, dir)
      BY <1>2, BeforeOrders
    <2> HIDE DEF place
    <2> QED
      BY <1>1, <1>2, <2>1
  <1>4. IsFiniteSet(Z) /\ Cardinality(Z) = n
    <2>1. IsFiniteSet(0 .. n - 1) /\ Cardinality(0 .. n - 1) = IF 0 > n - 1 THEN 0 ELSE n - 1 - 0 + 1
      <3>1. 0 \in Int /\ n - 1 \in Int
        BY <1>0
      <3> QED
        BY <3>1, FS_Interval, Zenon
    <2> QED
      BY <1>0, <2>1
  <1>5. \A z \in Z : \E r \in R : place[r] = z
    <2> HIDE DEF place, Z, n
    <2>1. place \in Injection(R, Z)
      BY <1>1, <1>3 DEF Injection, IsInjective
    <2>2. place \in Surjection(R, Z)
      BY <1>0, <1>4, <2>1, FS_Injection DEF n
    <2> QED
      BY <2>2 DEF Surjection
  <1>6. ASSUME NEW k \in 1 .. n
        PROVE  s[k] \in R /\ place[s[k]] = k - 1
    <2>1. k - 1 \in Z
      BY <1>0
    <2>2. PICK r \in R : place[r] = k - 1
      BY <1>5, <2>1
    <2>3. s[k] = CHOOSE t \in R : Cardinality({u \in R : Before(u, t, dir)}) = k - 1
      BY <1>6 DEF ByName
    <2>4. Cardinality({u \in R : Before(u, r, dir)}) = k - 1
      BY <2>2 DEF Ahead
    <2>5. s[k] \in R /\ Cardinality({u \in R : Before(u, s[k], dir)}) = k - 1
      <3> HIDE DEF s
      <3> QED
        BY <2>3, <2>4
    <2> HIDE DEF s
    <2> QED
      BY <2>5 DEF Ahead
  <1>7. s \in Seq(R) /\ Len(s) = n
    <2> DEFINE nth(k) == CHOOSE r \in R : Cardinality({t \in R : Before(t, r, dir)}) = k - 1
    <2>0. s = [k \in 1 .. n |-> nth(k)]
      BY DEF ByName
    <2> HIDE DEF s, n, place, nth
    <2>1. s = [k \in 1 .. n |-> s[k]]
      BY <2>0
    <2>2. s \in [1 .. n -> R]
      BY <1>6, <2>1
    <2> QED
      BY <1>0, <2>2
  <1>8. \A r \in R : \E k \in 1 .. n : s[k] = r
    <2> TAKE r \in R
    <2>1. place[r] + 1 \in 1 .. n
      BY <1>0, <1>1
    <2> HIDE DEF s, place, n
    <2>2. PICK k \in 1 .. n : k = place[r] + 1
      BY <2>1
    <2>3. s[k] \in R /\ place[s[k]] = k - 1
      BY <1>6
    <2>4. place[s[k]] = place[r]
      BY <1>2, <2>2, <2>3
    <2> QED
      BY <1>3, <2>3, <2>4
  <1>9. ASSUME NEW j \in 1 .. n, NEW k \in 1 .. n, j < k
        PROVE  Before(s[j], s[k], dir)
    <2> HIDE DEF s, place, n
    <2>1. s[j] \in R /\ s[k] \in R /\ place[s[j]] = j - 1 /\ place[s[k]] = k - 1
      BY <1>6
    <2>2. j \in Int /\ k \in Int
      BY <1>0
    <2>3. ~ Before(s[k], s[j], dir) /\ s[j] # s[k]
      BY <1>1, <1>9, <2>1, <2>2
    <2> QED
      BY <1>2, <2>1, <2>3, BeforeOrders
  <1>10. R = {s[k] : k \in 1 .. n}
    BY <1>6, <1>8
  <1> QED
    BY <1>7, <1>9, <1>10

LEMMA GroupsOfRows ==
    ASSUME NEW R, R \subseteq Rows, NEW dir
    PROVE  /\ Grouped(DedupGroups(ByName(R, dir)), R)
           /\ InOrder(DedupGroups(ByName(R, dir)), R)
  <1> DEFINE s == ByName(R, dir)
             n == Cardinality(R)
  <1>1. /\ s \in Seq(R) /\ Len(s) = n /\ R = {s[k] : k \in 1 .. n}
        /\ \A j, k \in 1 .. n : j < k => Before(s[j], s[k], dir)
    BY ByNameOrders
  <1> HIDE DEF s, n
  <1>2. n \in Nat /\ s \in Seq(Rows) /\ \A k \in 1 .. n : s[k] \in Rows
    BY <1>1
  <1>3. \A j, k \in 1 .. n : j < k => s[j].name <= s[k].name /\ s[j] # s[k]
    BY <1>1, <1>2, BeforeOrders
  <1>4. \A j, k \in 1 .. n : s[j] = s[k] => j = k
    <2> TAKE j, k \in 1 .. n
    <2>1. j < k \/ k < j \/ j = k
      BY <1>2
    <2> QED
      BY <1>3, <2>1
  <1>5. LET Q == {s[i] : i \in 1 .. Len(s)} IN Grouped(DedupGroups(s), Q) /\ InOrder(DedupGroups(s), Q)
    BY <1>1, <1>2, <1>3, <1>4, DedupGrouped
  <1> QED
    BY <1>1, <1>5 DEF s

\* f and g enumerate one set, each in the order Less.
Enumerate(m, n, f, g, Less) ==
    /\ \A i \in 1 .. m : \E j \in 1 .. n : g[j] = f[i]
    /\ \A j \in 1 .. n : \E i \in 1 .. m : f[i] = g[j]
    /\ \A i, j \in 1 .. m : i < j => <<f[i], f[j]>> \in Less
    /\ \A i, j \in 1 .. n : i < j => <<g[i], g[j]>> \in Less
    /\ \A x, y : ~ (<<x, y>> \in Less /\ <<y, x>> \in Less)

\* Two enumerations of one set that follow one order are the same.
LEMMA SameOrder ==
    ASSUME NEW m \in Nat, NEW n \in Nat, NEW f, NEW g, NEW Less, Enumerate(m, n, f, g, Less)
    PROVE  m = n /\ \A k \in 1 .. m : f[k] = g[k]
  <1>0. /\ \A i \in 1 .. m : \E j \in 1 .. n : g[j] = f[i]
        /\ \A j \in 1 .. n : \E i \in 1 .. m : f[i] = g[j]
        /\ \A i, j \in 1 .. m : i < j => <<f[i], f[j]>> \in Less
        /\ \A i, j \in 1 .. n : i < j => <<g[i], g[j]>> \in Less
        /\ \A x, y : ~ (<<x, y>> \in Less /\ <<y, x>> \in Less)
    BY DEF Enumerate
  <1>1. \A i, j \in 1 .. m : f[i] = f[j] => i = j
    <2> TAKE i, j \in 1 .. m
    <2>1. i < j \/ j < i \/ i = j
      OBVIOUS
    <2> QED
      BY <1>0, <2>1
  <1>2. \A i, j \in 1 .. n : g[i] = g[j] => i = j
    <2> TAKE i, j \in 1 .. n
    <2>1. i < j \/ j < i \/ i = j
      OBVIOUS
    <2> QED
      BY <1>0, <2>1
  <1> DEFINE l == IF m < n THEN m ELSE n
             H == {k \in 0 .. l : \A i \in 1 .. k : f[i] = g[i]}
  <1>3. l \in Nat /\ \A k \in 1 .. l : k \in 1 .. m /\ k \in 1 .. n
    OBVIOUS
  <1>4. ASSUME NEW k \in 1 .. l, k - 1 \in H
        PROVE  f[k] = g[k]
    <2>1. \A i \in 1 .. k - 1 : f[i] = g[i]
      BY <1>4
    <2> HIDE DEF H
    <2>2. k \in 1 .. m /\ k \in 1 .. n
      BY <1>3
    <2>3. \A i \in 1 .. m : i # k /\ ~ i \in 1 .. k - 1 => k < i
      BY <1>3
    <2>4. \A i \in 1 .. n : i # k /\ ~ i \in 1 .. k - 1 => k < i
      BY <1>3
    <2>5. \A i \in 1 .. k - 1 : i \in 1 .. m /\ i \in 1 .. n /\ i # k
      BY <1>3
    <2> HIDE DEF l
    <2> SUFFICES ASSUME f[k] # g[k] PROVE FALSE
      OBVIOUS
    <2>6. PICK i \in 1 .. m : f[i] = g[k]
      BY <1>0, <2>2
    <2>7. k < i
      BY <1>2, <2>1, <2>2, <2>3, <2>5, <2>6
    <2>8. PICK j \in 1 .. n : g[j] = f[k]
      BY <1>0, <2>2
    <2>9. k < j
      BY <1>1, <2>1, <2>2, <2>4, <2>5, <2>8
    <2>10. <<f[k], f[i]>> \in Less /\ <<g[k], g[j]>> \in Less
      BY <1>0, <2>2, <2>7, <2>9
    <2> QED
      BY <1>0, <2>6, <2>8, <2>10
  <1>5. \A k \in 0 .. l : k \in H
    <2>1. 0 \in H
      BY <1>3
    <2>2. ASSUME NEW k \in 1 .. l, k - 1 \in H
          PROVE  k \in H
      <3>1. f[k] = g[k]
        BY <1>4, <2>2
      <3>2. \A i \in 1 .. k - 1 : f[i] = g[i]
        BY <2>2
      <3>3. k \in 0 .. l /\ \A i \in 1 .. k : i = k \/ i \in 1 .. k - 1
        BY <1>3
      <3> HIDE DEF l
      <3> QED
        BY <3>1, <3>2, <3>3
    <2> HIDE DEF H, l
    <2> QED
      BY <1>3, <2>1, <2>2, UpTo
  <1>6. \A i \in 1 .. l : f[i] = g[i]
    <2>1. l \in H
      <3> HIDE DEF H
      <3>1. l \in 0 .. l
        BY <1>3
      <3> QED
        BY <1>5, <3>1
    <2> QED
      BY <2>1
  <1>7. ASSUME m < n PROVE FALSE
    <2>1. n \in 1 .. n /\ l = m
      BY <1>7
    <2>2. PICK i \in 1 .. m : f[i] = g[n]
      BY <1>0, <2>1
    <2>3. f[i] = g[i] /\ i \in 1 .. n /\ i # n
      BY <1>3, <1>6, <1>7, <2>1
    <2> QED
      BY <1>2, <2>1, <2>2, <2>3
  <1>8. ASSUME n < m PROVE FALSE
    <2>1. m \in 1 .. m /\ l = n
      BY <1>8
    <2>2. PICK i \in 1 .. n : g[i] = f[m]
      BY <1>0, <2>1
    <2>3. f[i] = g[i] /\ i \in 1 .. m /\ i # m
      BY <1>3, <1>6, <1>8, <2>1
    <2> QED
      BY <1>1, <2>1, <2>2, <2>3
  <1>9. m = n
    BY <1>7, <1>8
  <1> QED
    BY <1>6, <1>9

\* However the database orders equal names, the keys of the cards are in one order.
LEMMA KeysSame ==
    ASSUME NEW R, R \subseteq Rows, NEW d, NEW e
    PROVE  LET c == DedupGroups(ByName(R, d))
               b == DedupGroups(ByName(R, e))
           IN  Len(c) = Len(b) /\ \A k \in 1 .. Len(c) : c[k].row.key = b[k].row.key
  <1> DEFINE c == DedupGroups(ByName(R, d))
             b == DedupGroups(ByName(R, e))
             m == Len(c)
             n == Len(b)
             f == [k \in 1 .. m |-> c[k].row.key]
             g == [k \in 1 .. n |-> b[k].row.key]
             RowKeys == {r.key : r \in R}
             First(x, y) == \E t \in R : t.key = x /\ \A u \in R : u.key = y => t.name < u.name
             Less == {p \in RowKeys \X RowKeys : First(p[1], p[2])}
  <1>1. Grouped(c, R) /\ Grouped(b, R) /\ InOrder(c, R) /\ InOrder(b, R)
    BY GroupsOfRows
  <1>n. \A t \in R : t.name \in Nat
    BY RowFacts
  <1> HIDE DEF c, b
  <1>2. /\ c \in Seq(CardType) /\ b \in Seq(CardType) /\ m \in Nat /\ n \in Nat
        /\ DOMAIN c = 1 .. m /\ DOMAIN b = 1 .. n
    BY <1>1 DEF Grouped
  <1>3. /\ \A k \in 1 .. m : f[k] = c[k].row.key /\ c[k].row \in R /\ f[k] \in RowKeys
        /\ \A k \in 1 .. n : g[k] = b[k].row.key /\ b[k].row \in R /\ g[k] \in RowKeys
    BY <1>1, <1>2 DEF Grouped
  <1>g. \A r \in R : (\E i \in 1 .. m : c[i].row.key = r.key)
                     /\ (\E j \in 1 .. n : b[j].row.key = r.key)
    BY <1>1, <1>2 DEF Grouped
  <1>4. \A i \in 1 .. m : \E j \in 1 .. n : g[j] = f[i]
    <2> HIDE DEF f, g, m, n
    <2> QED
      BY <1>3, <1>g
  <1>5. \A j \in 1 .. n : \E i \in 1 .. m : f[i] = g[j]
    <2> HIDE DEF f, g, m, n
    <2> QED
      BY <1>3, <1>g
  <1>60. ASSUME NEW i \in 1 .. m, NEW j \in 1 .. m, i < j PROVE First(f[i], f[j])
    BY <1>1, <1>2, <1>3, <1>60 DEF InOrder
  <1>70. ASSUME NEW i \in 1 .. n, NEW j \in 1 .. n, i < j PROVE First(g[i], g[j])
    BY <1>1, <1>2, <1>3, <1>70 DEF InOrder
  <1>80. \A x, y : ~ (First(x, y) /\ First(y, x))
    BY <1>n
  <1> HIDE DEF First, f, g, RowKeys
  <1>6. \A i, j \in 1 .. m : i < j => <<f[i], f[j]>> \in Less
    BY <1>3, <1>60
  <1>7. \A i, j \in 1 .. n : i < j => <<g[i], g[j]>> \in Less
    BY <1>3, <1>70
  <1>8. \A x, y : ~ (<<x, y>> \in Less /\ <<y, x>> \in Less)
    BY <1>80
  <1> HIDE DEF Less, m, n
  <1>9. m = n /\ \A k \in 1 .. m : f[k] = g[k]
    <2>1. Enumerate(m, n, f, g, Less)
      BY <1>4, <1>5, <1>6, <1>7, <1>8 DEF Enumerate
    <2> QED
      BY <1>2, <2>1, SameOrder
  <1>10. Len(c) = Len(b) /\ \A k \in 1 .. Len(c) : c[k].row.key = b[k].row.key
    BY <1>3, <1>9 DEF m, n
  <1> QED
    BY <1>10 DEF c, b

LEMMA KeysCount ==
    ASSUME NEW cards, NEW R, Grouped(cards, R)
    PROVE  Len(cards) = Cardinality({r.key : r \in R})
  <1> DEFINE n == Len(cards)
             RowKeys == {r.key : r \in R}
             f == [k \in 1 .. n |-> cards[k].row.key]
             P == 1 .. n
  <1>1. n \in Nat /\ DOMAIN cards = P
    BY DEF Grouped
  <1>2. f \in [P -> RowKeys] /\ \A k \in P : f[k] = cards[k].row.key
    BY <1>1 DEF Grouped
  <1>3. \A x \in RowKeys : \E k \in P : f[k] = x
    BY <1>1 DEF Grouped
  <1>4. \A j, k \in P : f[j] = f[k] => j = k
    BY <1>1 DEF Grouped
  <1>5. IsFiniteSet(P) /\ Cardinality(P) = n
    BY <1>1, OneTo
  <1> HIDE DEF f, RowKeys, P, n
  <1>6. f \in Surjection(P, RowKeys) /\ f \in Injection(P, RowKeys)
    BY <1>2, <1>3, <1>4 DEF Surjection, Injection, IsInjective
  <1>7. Cardinality(RowKeys) = Cardinality(P)
    BY <1>5, <1>6, FS_Surjection
  <1> QED
    BY <1>5, <1>7 DEF n, RowKeys

\* At most so many values as places.
LEMMA FewValues ==
    ASSUME NEW n \in Nat, NEW f, NEW T, T \subseteq {f[k] : k \in 1 .. n}
    PROVE  IsFiniteSet(T) /\ Cardinality(T) \in Nat /\ Cardinality(T) <= n
  <1> DEFINE P == 1 .. n
             V == {f[k] : k \in P}
             g == [k \in P |-> f[k]]
  <1>1. IsFiniteSet(P) /\ Cardinality(P) = n
    BY OneTo
  <1>2. g \in [P -> V] /\ \A v \in V : \E k \in P : g[k] = v
    OBVIOUS
  <1>3. T \subseteq V
    OBVIOUS
  <1> HIDE DEF g, P, V
  <1>4. g \in Surjection(P, V)
    BY <1>2 DEF Surjection
  <1>5. IsFiniteSet(V) /\ Cardinality(V) <= n
    BY <1>1, <1>4, FS_Surjection
  <1>6. IsFiniteSet(T) /\ Cardinality(T) <= Cardinality(V)
    BY <1>3, <1>5, FS_Subset
  <1>7. Cardinality(T) \in Nat /\ Cardinality(V) \in Nat
    BY <1>5, <1>6, FS_CardinalityType
  <1> QED
    BY <1>5, <1>6, <1>7

-----------------------------------------------------------------------------
(* The cards of all pages.                                                 *)

\* What the pages are cut from; by what a card is told from another.
Cards(dir) ==
    IF filter = Browse THEN DedupGroups(ByName(Matching, dir))
    ELSE [i \in DOMAIN ByName(Matching, dir) |-> Card(ByName(Matching, dir)[i], {})]
TagOf(row) == IF filter = Browse THEN row.key ELSE row

LEMMA CardsFacts ==
    ASSUME catalog \subseteq Rows, NEW dir
    PROVE  /\ Cards(dir) \in Seq(CardType)
           /\ \A i \in DOMAIN Cards(dir) : Cards(dir)[i].row \in Matching
           /\ \A i, j \in DOMAIN Cards(dir) :
                TagOf(Cards(dir)[i].row) = TagOf(Cards(dir)[j].row) => i = j
           /\ \A r \in Matching : \E i \in DOMAIN Cards(dir) : TagOf(Cards(dir)[i].row) = TagOf(r)
           /\ filter = Browse => Grouped(Cards(dir), Matching)
           /\ Len(Cards(dir)) = IF filter = Browse THEN Cardinality({r.key : r \in Matching})
                                ELSE Cardinality(Matching)
  <1>0. Matching \subseteq Rows
    BY DEF Matching
  <1>1. CASE filter = Browse
    <2>1. Grouped(Cards(dir), Matching)
      BY <1>0, <1>1, GroupsOfRows DEF Cards
    <2>2. Len(Cards(dir)) = Cardinality({r.key : r \in Matching})
      BY <2>1, KeysCount
    <2> QED
      BY <1>1, <2>1, <2>2 DEF Grouped, TagOf
  <1>2. CASE filter # Browse
    <2> DEFINE s == ByName(Matching, dir)
               n == Cardinality(Matching)
               c == Cards(dir)
    <2>1. /\ s \in Seq(Matching) /\ Len(s) = n /\ Matching = {s[k] : k \in 1 .. n}
          /\ \A j, k \in 1 .. n : j < k => Before(s[j], s[k], dir)
      BY <1>0, ByNameOrders
    <2>2. c = [i \in DOMAIN s |-> Card(s[i], {})]
      BY <1>2 DEF Cards
    <2> HIDE DEF s, n, c
    <2>3. n \in Nat /\ DOMAIN s = 1 .. n /\ \A k \in 1 .. n : s[k] \in Matching /\ s[k] \in Rows
      BY <1>0, <2>1
    <2>4. \A r \in Rows : Card(r, {}) \in CardType /\ Card(r, {}).row = r
      BY DEF Card, CardType
    <2>5. /\ c \in Seq(CardType) /\ DOMAIN c = 1 .. n /\ Len(c) = n
          /\ \A k \in 1 .. n : c[k].row = s[k]
      <3>1. c \in [1 .. n -> CardType] /\ \A k \in 1 .. n : c[k].row = s[k]
        BY <2>2, <2>3, <2>4
      <3> QED
        BY <2>3, <3>1
    <2>6. \A i, j \in 1 .. n : s[i] = s[j] => i = j
      <3> TAKE i, j \in 1 .. n
      <3>1. i < j \/ j < i \/ i = j
        BY <2>3
      <3>2. ~ Before(s[i], s[i], dir)
        BY <2>3, BeforeOrders
      <3> QED
        BY <2>1, <3>1, <3>2
    <2>7. \A r \in Rows : TagOf(r) = r
      BY <1>2 DEF TagOf
    <2>8. \A k \in 1 .. n : TagOf(c[k].row) = s[k]
      BY <2>3, <2>5, <2>7
    <2>9. \A r \in Matching : \E k \in 1 .. n : TagOf(c[k].row) = TagOf(r)
      BY <1>0, <2>1, <2>7, <2>8
    <2>10. \A i, j \in 1 .. n : TagOf(c[i].row) = TagOf(c[j].row) => i = j
      BY <2>6, <2>8
    <2>11. Len(c) = Cardinality(Matching) /\ \A k \in 1 .. n : c[k].row \in Matching
      BY <2>3, <2>5 DEF n
    <2> QED
      BY <1>2, <2>5, <2>9, <2>10, <2>11 DEF c
  <1> QED
    BY <1>1, <1>2

\* The order that a request finds is as good as this one.
Dir0 == IF ties = "any" THEN "up" ELSE ties
Tags == [p \in 1 .. Len(Cards(Dir0)) |-> TagOf(Cards(Dir0)[p].row)]

LEMMA TagsFacts ==
    ASSUME catalog \subseteq Rows
    PROVE  /\ Tags \in Seq({TagOf(r) : r \in Matching})
           /\ \A p, q \in DOMAIN Tags : Tags[p] = Tags[q] => p = q
           /\ \A r \in Matching : \E p \in DOMAIN Tags : Tags[p] = TagOf(r)
           /\ Len(Tags) = IF filter = Browse THEN Cardinality({r.key : r \in Matching})
                          ELSE Cardinality(Matching)
  <1> DEFINE c == Cards(Dir0)
             n == Len(c)
             T == {TagOf(r) : r \in Matching}
  <1>1. /\ c \in Seq(CardType)
        /\ \A i \in DOMAIN c : c[i].row \in Matching
        /\ \A i, j \in DOMAIN c : TagOf(c[i].row) = TagOf(c[j].row) => i = j
        /\ \A r \in Matching : \E i \in DOMAIN c : TagOf(c[i].row) = TagOf(r)
        /\ n = IF filter = Browse THEN Cardinality({r.key : r \in Matching})
               ELSE Cardinality(Matching)
    BY CardsFacts
  <1>2. Tags = [p \in 1 .. n |-> TagOf(c[p].row)]
    BY DEF Tags
  <1> HIDE DEF c
  <1>3. n \in Nat /\ DOMAIN c = 1 .. n
    BY <1>1
  <1>4. \A p \in 1 .. n : Tags[p] = TagOf(c[p].row) /\ TagOf(c[p].row) \in T
    BY <1>1, <1>2, <1>3
  <1> HIDE DEF n, T
  <1>5. Tags \in [1 .. n -> T] /\ DOMAIN Tags = 1 .. n
    BY <1>2, <1>4
  <1>6. Tags \in Seq(T) /\ Len(Tags) = n
    BY <1>3, <1>5
  <1>70. /\ \A i, j \in 1 .. n : TagOf(c[i].row) = TagOf(c[j].row) => i = j
         /\ \A r \in Matching : \E i \in 1 .. n : TagOf(c[i].row) = TagOf(r)
    BY <1>1, <1>3
  <1>71. \A p \in 1 .. n : Tags[p] = TagOf(c[p].row)
    BY <1>4
  <1>7. \A p, q \in DOMAIN Tags : Tags[p] = Tags[q] => p = q
    BY <1>5, <1>70, <1>71
  <1>8. \A r \in Matching : \E p \in DOMAIN Tags : Tags[p] = TagOf(r)
    BY <1>5, <1>70, <1>71
  <1> QED
    BY <1>1, <1>6, <1>7, <1>8 DEF T

LEMMA TagsSame ==
    ASSUME catalog \subseteq Rows, filter = Browse \/ ties # "any", NEW dir \in Tie
    PROVE  /\ Len(Cards(dir)) = Len(Tags)
           /\ \A p \in 1 .. Len(Tags) : TagOf(Cards(dir)[p].row) = Tags[p]
  <1>0. Matching \subseteq Rows
    BY DEF Matching
  <1>1. /\ Cards(Dir0) \in Seq(CardType) /\ Tags = [p \in 1 .. Len(Cards(Dir0)) |-> TagOf(Cards(Dir0)[p].row)]
        /\ Cards(dir) \in Seq(CardType)
    BY CardsFacts DEF Tags
  <1>2. Len(Tags) = Len(Cards(Dir0)) /\ Len(Cards(Dir0)) \in Nat
    BY <1>1
  <1>3. CASE filter = Browse
    <2>1. /\ Len(Cards(dir)) = Len(Cards(Dir0))
          /\ \A k \in 1 .. Len(Cards(dir)) : Cards(dir)[k].row.key = Cards(Dir0)[k].row.key
      BY <1>0, <1>3, KeysSame DEF Cards
    <2> QED
      BY <1>1, <1>2, <1>3, <2>1 DEF TagOf
  <1>4. CASE ties # "any"
    <2>1. dir = Dir0
      BY <1>4 DEF Tie, Dir0
    <2> QED
      BY <1>1, <1>2, <2>1
  <1> QED
    BY <1>3, <1>4

-----------------------------------------------------------------------------
(* A page.                                                                 *)

Offset(page) == (page - 1) * PAGE_SIZE
InPage(p, page) == Offset(page) < p /\ p <= Offset(page) + PAGE_SIZE

LEMMA Offsets ==
    ASSUME NEW page \in Nat \ {0}
    PROVE  /\ PAGE_SIZE \in Nat \ {0} /\ Offset(page) \in Nat
           /\ Offset(page) + PAGE_SIZE = page * PAGE_SIZE
           /\ Offset(page + 1) = page * PAGE_SIZE
           /\ \A k \in Nat \ {0} : k < page => Offset(k) + PAGE_SIZE <= Offset(page)
  <1>1. PAGE_SIZE \in Nat \ {0}
    BY PagesConstants
  <1> DEFINE P == PAGE_SIZE
  <1>2. ASSUME NEW k \in Nat \ {0}, k < page
        PROVE  (k - 1) * P + P <= (page - 1) * P
    <2>1. P \in Nat /\ k <= page - 1 /\ (k - 1) * P + P = k * P
      BY <1>1, <1>2
    <2> HIDE DEF P
    <2> QED
      BY <2>1
  <1>3. /\ (page - 1) * P \in Nat /\ (page - 1) * P + P = page * P
        /\ ((page + 1) - 1) * P = page * P
    BY <1>1
  <1> QED
    BY <1>1, <1>2, <1>3 DEF Offset

\* g is what stands at the places of s from a + 1 to a + P.
CutAt(g, s, a, P) ==
    /\ \A j \in DOMAIN g : /\ a < a + j /\ a + j <= a + P
                           /\ a + j \in DOMAIN s
                           /\ g[j] = s[a + j]
    /\ \A p \in DOMAIN s : a < p /\ p <= a + P => p - a \in DOMAIN g
    /\ a = 0 /\ P <= Len(s) => DOMAIN g = 1 .. P

LEMMA SubSeqPlaces ==
    ASSUME NEW S, NEW s \in Seq(S), NEW a \in Nat, NEW P \in Nat \ {0}
    PROVE  LET g == SubSeq(s, a + 1, Least(a + P, Len(s)))
           IN  g \in Seq(S) /\ CutAt(g, s, a, P)
  <1> DEFINE l == Len(s)
             b == Least(a + P, l)
             n == IF a + 1 <= b THEN b - a ELSE 0
             g == SubSeq(s, a + 1, b)
  <1>1. l \in Nat /\ DOMAIN s = 1 .. l /\ \A i \in 1 .. l : s[i] \in S
    OBVIOUS
  <1>0. b = IF a + P < l THEN a + P ELSE l
    BY DEF Least
  <1> HIDE DEF l, b
  <1>2. b \in Nat /\ b <= l /\ b <= a + P /\ (b = l \/ b = a + P)
    BY <1>0, <1>1
  <1>3. \A i \in a + 1 .. b : i \in 1 .. l
    BY <1>1, <1>2
  <1>4. \A i \in a + 1 .. b : s[i] \in S
    BY <1>1, <1>3
  <1>5. a + 1 \in Int /\ b \in Int /\ b - (a + 1) + 1 = b - a
    BY <1>2
  <1>6. /\ g \in Seq(S) /\ Len(g) = IF a + 1 <= b THEN b - (a + 1) + 1 ELSE 0
        /\ \A i \in 1 .. b - (a + 1) + 1 : g[i] = s[(a + 1) + i - 1]
    BY <1>4, <1>5, SubSeqProperties
  <1> HIDE DEF g
  <1>7. Len(g) = n /\ n \in Nat /\ DOMAIN g = 1 .. n
    BY <1>2, <1>5, <1>6
  <1>8. ASSUME NEW j \in 1 .. n
        PROVE  /\ a < a + j /\ a + j <= a + P /\ a + j \in 1 .. l
               /\ j \in 1 .. b - (a + 1) + 1 /\ (a + 1) + j - 1 = a + j
    BY <1>1, <1>2
  <1>9. \A p \in 1 .. l : a < p /\ p <= a + P => p - a \in 1 .. n
    BY <1>1, <1>2
  <1>10. a = 0 /\ P <= l => n = P
    BY <1>1, <1>2
  <1> QED
    BY <1>1, <1>6, <1>7, <1>8, <1>9, <1>10 DEF CutAt, l, b, g

\* The cards of a page are those at its places.
LEMMA PageOfPlaces ==
    ASSUME NEW cards \in Seq(CardType), NEW page \in Nat \ {0}
    PROVE  LET g == PageOf(cards, page)
           IN  /\ g \in Seq(CardType)
               /\ \A j \in DOMAIN g : /\ InPage(Offset(page) + j, page)
                                      /\ Offset(page) + j \in DOMAIN cards
                                      /\ g[j] = cards[Offset(page) + j]
               /\ \A p \in DOMAIN cards : InPage(p, page) => p - Offset(page) \in DOMAIN g
               /\ page = 1 /\ PAGE_SIZE <= Len(cards) => DOMAIN g = 1 .. PAGE_SIZE
  <1> DEFINE g == PageOf(cards, page)
             a == Offset(page)
             b == Least(a + PAGE_SIZE, Len(cards))
  <1>0. a + PAGE_SIZE = page * PAGE_SIZE
    BY Offsets
  <1>1. a \in Nat /\ PAGE_SIZE \in Nat \ {0}
    BY Offsets
  <1>2. g = SubSeq(cards, a + 1, b)
    BY <1>0 DEF PageOf, Cut, Offset
  <1>3. page = 1 => a = 0
    BY <1>1 DEF Offset
  <1> HIDE DEF a, b, g
  <1>4. g = SubSeq(cards, a + 1, Least(a + PAGE_SIZE, Len(cards)))
    BY <1>2 DEF b
  <1>50. g \in Seq(CardType) /\ CutAt(g, cards, a, PAGE_SIZE)
    BY <1>1, <1>4, SubSeqPlaces
  <1>5. /\ g \in Seq(CardType)
        /\ \A j \in DOMAIN g : /\ a < a + j /\ a + j <= a + PAGE_SIZE
                               /\ a + j \in DOMAIN cards
                               /\ g[j] = cards[a + j]
        /\ \A p \in DOMAIN cards : a < p /\ p <= a + PAGE_SIZE => p - a \in DOMAIN g
        /\ a = 0 /\ PAGE_SIZE <= Len(cards) => DOMAIN g = 1 .. PAGE_SIZE
    BY <1>50 DEF CutAt
  <1>6. \A p : InPage(p, page) <=> a < p /\ p <= a + PAGE_SIZE
    BY DEF InPage, a
  <1>7. /\ g \in Seq(CardType)
        /\ \A j \in DOMAIN g : /\ InPage(a + j, page)
                               /\ a + j \in DOMAIN cards
                               /\ g[j] = cards[a + j]
        /\ \A p \in DOMAIN cards : InPage(p, page) => p - a \in DOMAIN g
        /\ page = 1 /\ PAGE_SIZE <= Len(cards) => DOMAIN g = 1 .. PAGE_SIZE
    BY <1>3, <1>5, <1>6
  <1> QED
    BY <1>7 DEF a, g

-----------------------------------------------------------------------------
(* What is left of a sequence.                                             *)

\* f collects the items of the places K, one place after the other.
Gathers(f, n, K, item) ==
    f = [k \in 0 .. n |-> IF k = 0 THEN <<>>
                          ELSE IF k \in K THEN Append(f[k - 1], item[k]) ELSE f[k - 1]]

\* What was collected: the items, each once if they differ.
Collected(s, K, item) ==
    /\ \A j \in DOMAIN s : \E k \in K : s[j] = item[k]
    /\ \A k \in K : \E j \in DOMAIN s : s[j] = item[k]
    /\ (\A j, k \in K : item[j] = item[k] => j = k) => \A i, j \in DOMAIN s : s[i] = s[j] => i = j

LEMMA Collecting ==
    ASSUME NEW S, NEW n \in Nat, NEW K \in SUBSET (1 .. n), NEW item, \A k \in K : item[k] \in S
    PROVE  /\ \E f : Gathers(f, n, K, item)
           /\ \A f : Gathers(f, n, K, item) => f[n] \in Seq(S) /\ Collected(f[n], K, item)
  <1> DEFINE Q == Seq(S)
             Step(k, s) == IF k \in K THEN Append(s, item[k]) ELSE s
             G == [x \in (1 .. n) \X Q |-> Step(x[1], x[2])]
  <1>1. <<>> \in Q /\ \A k \in 1 .. n, s \in Q : Step(k, s) \in Q
    OBVIOUS
  <1>2. G \in [(1 .. n) \X Q -> Q] /\ \A k \in 1 .. n, s \in Q : G[<<k, s>>] = Step(k, s)
    BY <1>1
  <1> HIDE DEF G, Q
  <1>3. \E g : Recurs(g, Q, n, <<>>, G)
    BY <1>1, <1>2, RecursiveFunction, Zenon
  <1>4. PICK g \in [0 .. n -> Q] : g[0] = <<>> /\ \A k \in 1 .. n : g[k] = G[<<k, g[k - 1]>>]
    BY <1>3 DEF Recurs
  <1>5. Gathers(g, n, K, item)
    <2>1. \A k \in 0 .. n : g[k] = IF k = 0 THEN <<>> ELSE Step(k, g[k - 1])
      <3> HIDE DEF Step
      <3> TAKE k \in 0 .. n
      <3>1. CASE k # 0
        <4>1. k \in 1 .. n /\ k - 1 \in 0 .. n
          BY <3>1
        <4> QED
          BY <1>2, <1>4, <3>1, <4>1
      <3> QED
        BY <1>4, <3>1
    <2> QED
      BY <1>4, <2>1 DEF Gathers
  <1>6. ASSUME NEW h, Gathers(h, n, K, item)
        PROVE  h[n] \in Seq(S) /\ Collected(h[n], K, item)
    <2>1. \A k \in 0 .. n : h[k] = IF k = 0 THEN <<>> ELSE Step(k, h[k - 1])
      BY <1>6 DEF Gathers
    <2>2. 0 \in 0 .. n /\ \A k \in 1 .. n : k \in 0 .. n /\ k # 0
      OBVIOUS
    <2>3. h[0] = <<>> /\ \A k \in 1 .. n : h[k] = Step(k, h[k - 1])
      <3> HIDE DEF Step
      <3> QED
        BY <2>1, <2>2
    <2> DEFINE L(k) == {i \in K : i <= k}
               H == {k \in 0 .. n : h[k] \in Seq(S) /\ Collected(h[k], L(k), item)}
    <2>4. 0 \in H
      <3>1. DOMAIN <<>> = {} /\ <<>> \in Seq(S)
        OBVIOUS
      <3>2. L(0) = {}
        <4>1. \A i \in K : ~ i <= 0
          OBVIOUS
        <4> QED
          BY <4>1
      <3> HIDE DEF L
      <3> QED
        BY <2>2, <2>3, <3>1, <3>2 DEF Collected
    <2>5. ASSUME NEW k \in 1 .. n, k - 1 \in H
          PROVE  k \in H
      <3>1. h[k - 1] \in Seq(S) /\ Collected(h[k - 1], L(k - 1), item)
        BY <2>5
      <3>2. CASE k \notin K
        <4>1. L(k) = L(k - 1)
          <5>1. \A i \in K : i <= k <=> i <= k - 1
            BY <3>2
          <5> QED
            BY <5>1
        <4> HIDE DEF L
        <4> QED
          BY <2>2, <2>3, <3>1, <3>2, <4>1
      <3>3. CASE k \in K
        <4> DEFINE s == h[k - 1]
                   x == item[k]
                   d == Append(s, x)
                   z == Len(s) + 1
        <4>0. \A i \in K : /\ i <= k <=> (i <= k - 1 \/ i = k)
                            /\ k <= k /\ ~ k <= k - 1
          OBVIOUS
        <4>1. L(k) = L(k - 1) \cup {k} /\ k \notin L(k - 1) /\ L(k - 1) \subseteq K
          <5>1. \A i \in K : i \in L(k) <=> i \in L(k - 1) \/ i = k
            BY <4>0
          <5>3. k \in K /\ L(k) \subseteq K
            BY <3>3
          <5>2. k \notin L(k - 1) /\ L(k - 1) \subseteq K
            BY <3>3, <4>0
          <5> HIDE DEF L
          <5> QED
            BY <5>1, <5>2, <5>3
        <4>2. x \in S /\ s \in Seq(S) /\ Collected(s, L(k - 1), item) /\ h[k] = d
          BY <2>3, <3>1, <3>3
        <4> HIDE DEF L, s, x
        <4>3. /\ d \in Seq(S) /\ DOMAIN s \subseteq DOMAIN d
              /\ \A i \in DOMAIN s : d[i] = s[i] /\ i # z
              /\ z \in DOMAIN d /\ d[z] = x
              /\ \A i \in DOMAIN d : i \in DOMAIN s \/ i = z
          BY <4>2, AppendPlaces
        <4> HIDE DEF d, z
        <4>4. x = item[k]
          BY DEF x
        <4>50. /\ \A j \in DOMAIN s : \E i \in L(k - 1) : s[j] = item[i]
               /\ \A i \in L(k - 1) : \E j \in DOMAIN s : s[j] = item[i]
          BY <4>2 DEF Collected
        <4>51. \A j \in DOMAIN d : \E i \in L(k) : d[j] = item[i]
          <5> TAKE j \in DOMAIN d
          <5>1. CASE j \in DOMAIN s
            BY <4>1, <4>3, <4>50, <5>1
          <5>2. CASE j = z
            <6>1. k \in L(k) /\ d[j] = item[k]
              BY <4>1, <4>3, <4>4, <5>2
            <6> QED
              BY <6>1
          <5> QED
            BY <4>3, <5>1, <5>2
        <4>52. \A i \in L(k) : \E j \in DOMAIN d : d[j] = item[i]
          BY <4>1, <4>3, <4>4, <4>50
        <4>5. /\ \A j \in DOMAIN d : \E i \in L(k) : d[j] = item[i]
              /\ \A i \in L(k) : \E j \in DOMAIN d : d[j] = item[i]
          BY <4>51, <4>52
        <4>6. ASSUME \A j, i \in L(k) : item[j] = item[i] => j = i
              PROVE  \A i, j \in DOMAIN d : d[i] = d[j] => i = j
          <5>1. \A i, j \in DOMAIN s : s[i] = s[j] => i = j
            BY <4>1, <4>2, <4>6 DEF Collected
          <5>2. \A j \in DOMAIN s : s[j] # x
            BY <4>1, <4>2, <4>4, <4>6 DEF Collected
          <5> QED
            BY <4>3, <5>1, <5>2
        <4>7. Collected(d, L(k), item)
          BY <4>5, <4>6 DEF Collected
        <4> QED
          BY <2>2, <4>2, <4>3, <4>7
      <3> QED
        BY <3>2, <3>3
    <2>6. n \in H
      <3> HIDE DEF H
      <3>1. \A k \in 0 .. n : k \in H
        BY <2>4, <2>5, UpTo
      <3> QED
        BY <3>1
    <2>7. L(n) = K
      <3>1. \A i \in K : i <= n
        OBVIOUS
      <3> QED
        BY <3>1
    <2> HIDE DEF L
    <2> QED
      BY <2>6, <2>7
  <1> QED
    BY <1>5, <1>6

\* The cards that are left have ids that are not left out.
LEMMA NotOfCards ==
    ASSUME NEW cards \in Seq(CardType), NEW ids
    PROVE  LET K == {k \in DOMAIN cards : cards[k].row.id \notin ids}
           IN  NotOf(cards, ids) \in Seq(CardType) /\ Collected(NotOf(cards, ids), K, cards)
  <1> DEFINE n == Len(cards)
             K == {k \in DOMAIN cards : cards[k].row.id \notin ids}
             Kept(f) == f = [k \in 0 .. n |-> IF k = 0 THEN <<>>
                                ELSE IF cards[k].row.id \in ids THEN f[k - 1]
                                ELSE Append(f[k - 1], cards[k])]
             h == CHOOSE f : Kept(f)
  <1>1. n \in Nat /\ K \in SUBSET (1 .. n) /\ \A k \in K : cards[k] \in CardType
    OBVIOUS
  <1>2. \A f : Kept(f) <=> Gathers(f, n, K, cards)
    <2> TAKE f
    <2> DEFINE A(k) == IF k = 0 THEN <<>>
                       ELSE IF cards[k].row.id \in ids THEN f[k - 1]
                       ELSE Append(f[k - 1], cards[k])
               B(k) == IF k = 0 THEN <<>>
                       ELSE IF k \in K THEN Append(f[k - 1], cards[k]) ELSE f[k - 1]
    <2>1. \A k \in 1 .. n : k \in K <=> ~ cards[k].row.id \in ids
      OBVIOUS
    <2>2. \A k \in 0 .. n : k # 0 => k \in 1 .. n
      BY <1>1
    <2>3. \A k \in 0 .. n : A(k) = B(k)
      <3> HIDE DEF K, n
      <3> QED
        BY <2>1, <2>2
    <2>4. (Kept(f) <=> f = [k \in 0 .. n |-> A(k)])
          /\ (Gathers(f, n, K, cards) <=> f = [k \in 0 .. n |-> B(k)])
      BY DEF Gathers
    <2> HIDE DEF A, B, Kept
    <2> QED
      BY <2>3, <2>4
  <1>3. NotOf(cards, ids) = h[n]
    BY DEF NotOf
  <1> HIDE DEF n, K, Kept
  <1>4. /\ \E f : Gathers(f, n, K, cards)
        /\ \A f : Gathers(f, n, K, cards) => f[n] \in Seq(CardType) /\ Collected(f[n], K, cards)
    BY <1>1, Collecting
  <1>5. Kept(h)
    BY <1>2, <1>4
  <1>6. h[n] \in Seq(CardType) /\ Collected(h[n], K, cards)
    BY <1>2, <1>4, <1>5
  <1> QED
    BY <1>3, <1>6 DEF K

\* The rows that ids lead to have these ids.
LEMMA RowsOfIds ==
    ASSUME NEW ids \in Seq(Nat), catalog \subseteq Rows
    PROVE  /\ RowsByIds(ids) \in Seq(Rows)
           /\ IdsOf(RowsByIds(ids)) \subseteq {ids[k] : k \in DOMAIN ids}
  <1> DEFINE n == Len(ids)
             Led(id) == {r \in catalog : r.id = id}
             K == {k \in 1 .. n : Led(ids[k]) # {}}
             item == [k \in 1 .. n |-> CHOOSE r \in Led(ids[k]) : TRUE]
             Found(f) == f = [k \in 0 .. n |-> IF k = 0 THEN <<>>
                                ELSE IF Led(ids[k]) = {} THEN f[k - 1]
                                ELSE Append(f[k - 1], CHOOSE r \in Led(ids[k]) : TRUE)]
             h == CHOOSE f : Found(f)
  <1>1. n \in Nat /\ K \in SUBSET (1 .. n) /\ DOMAIN ids = 1 .. n
    OBVIOUS
  <1>10. \A k \in K : item[k] \in Led(ids[k])
    OBVIOUS
  <1>11. \A k \in K : item[k] \in Rows /\ item[k].id = ids[k]
    <2> HIDE DEF item, K
    <2> QED
      BY <1>10
  <1>2. \A f : Found(f) <=> Gathers(f, n, K, item)
    <2> TAKE f
    <2>1. \A k \in 1 .. n : /\ k \in K <=> ~ Led(ids[k]) = {}
                            /\ item[k] = CHOOSE r \in Led(ids[k]) : TRUE
      OBVIOUS
    <2> DEFINE A(k) == IF k = 0 THEN <<>>
                       ELSE IF Led(ids[k]) = {} THEN f[k - 1]
                       ELSE Append(f[k - 1], CHOOSE r \in Led(ids[k]) : TRUE)
               B(k) == IF k = 0 THEN <<>>
                       ELSE IF k \in K THEN Append(f[k - 1], item[k]) ELSE f[k - 1]
    <2>2. \A k \in 0 .. n : k # 0 => k \in 1 .. n
      BY <1>1
    <2>3. \A k \in 0 .. n : A(k) = B(k)
      <3> HIDE DEF K, n, Led, item
      <3> TAKE k \in 0 .. n
      <3>1. CASE k = 0
        BY <3>1
      <3>2. CASE k # 0 /\ Led(ids[k]) = {}
        BY <2>1, <2>2, <3>2
      <3>3. CASE k # 0 /\ Led(ids[k]) # {}
        <4>1. k \in K /\ item[k] = CHOOSE r \in Led(ids[k]) : TRUE
          BY <2>1, <2>2, <3>3
        <4> QED
          BY <3>3, <4>1
      <3> QED
        BY <3>1, <3>2, <3>3
    <2>4. (Found(f) <=> f = [k \in 0 .. n |-> A(k)])
          /\ (Gathers(f, n, K, item) <=> f = [k \in 0 .. n |-> B(k)])
      BY DEF Gathers
    <2> HIDE DEF A, B, Found
    <2> QED
      BY <2>3, <2>4
  <1>3. RowsByIds(ids) = h[n]
    BY DEF RowsByIds
  <1> HIDE DEF n, K, Found, item, Led
  <1>4. /\ \E f : Gathers(f, n, K, item)
        /\ \A f : Gathers(f, n, K, item) => f[n] \in Seq(Rows) /\ Collected(f[n], K, item)
    BY <1>1, <1>11, Collecting
  <1>5. Found(h)
    BY <1>2, <1>4
  <1>6. h[n] \in Seq(Rows) /\ Collected(h[n], K, item)
    BY <1>2, <1>4, <1>5
  <1> HIDE DEF h
  <1> DEFINE g == h[n]
  <1>70. \A j \in DOMAIN g : \E k \in K : g[j] = item[k]
    BY <1>6 DEF Collected
  <1>71. \A j \in DOMAIN g : g[j].id \in {ids[k] : k \in DOMAIN ids}
    <2> HIDE DEF g
    <2> QED
      BY <1>1, <1>11, <1>70
  <1>7. IdsOf(h[n]) \subseteq {ids[k] : k \in DOMAIN ids}
    BY <1>71 DEF IdsOf
  <1> QED
    BY <1>3, <1>6, <1>7

-----------------------------------------------------------------------------
(* The invariant.                                                          *)

PageType == [grid : Seq(CardType), shelves : SUBSET Nat, total : Nat, next : BOOLEAN]
PagesTypeInv ==
    /\ catalog \subseteq Rows /\ stood \in BOOLEAN
    /\ pc \in {"idle", "count", "rows", "featured", "top", "random", "render"}
    /\ total \in Nat /\ groups \in Seq(CardType) /\ walk \in Seq(PageType)
    /\ fid \in Nat \ {0} /\ featured \in Seq(Rows) /\ top \in Seq(Rows)
    /\ ranked \in Seq(Nat) /\ random_apps \in Seq(CardType)

\* The shelves hold no more than their limits; before the rows are read, and where
\* a filter is set, nothing.
ShelvesInv ==
    /\ IdsOf(featured) \subseteq {FEATURED_CICHETI[i] : i \in 1 .. Len(FEATURED_CICHETI)}
    /\ Len(ranked) <= Top /\ IdsOf(top) \subseteq {ranked[i] : i \in 1 .. Len(ranked)}
    /\ Len(random_apps) <= Shelf
    /\ pc \in {"idle", "count", "rows"} => groups = <<>>
    /\ pc \in {"idle", "count", "rows"} \/ filter # Browse =>
          featured = <<>> /\ top = <<>> /\ random_apps = <<>>
    /\ pc \in {"featured", "top", "random"} => filter = Browse
    /\ pc = "featured" => top = <<>>

\* The pages of the walk but the last, and before a request all, lead on.
WalkInv ==
    /\ \A i \in DOMAIN walk : i < Len(walk) \/ pc # "idle" => walk[i].next
    /\ \A i \in DOMAIN walk : walk[i].next <=> walk[i].grid # <<>> /\ i < PageCount(walk[i].total)

\* The groups of a page stand at its places.
PageFilled(g, page) ==
    /\ \A j \in DOMAIN g : /\ g[j].row \in Matching
                           /\ InPage(Offset(page) + j, page)
                           /\ Offset(page) + j \in DOMAIN Tags
                           /\ TagOf(g[j].row) = Tags[Offset(page) + j]
    /\ \A p \in DOMAIN Tags : InPage(p, page) => p - Offset(page) \in DOMAIN g
    /\ page = 1 /\ PAGE_SIZE <= Len(Tags) => DOMAIN g = 1 .. PAGE_SIZE

\* A page that was shown has the cards of its places, each once, and on the first
\* some of them on the shelves.
OfPage(c, page) ==
    c.row \in Matching /\ \E p \in DOMAIN Tags : InPage(p, page) /\ TagOf(c.row) = Tags[p]
OnShelf(shelves, tag) == filter = Browse /\ \E s \in Matching : s.id \in shelves /\ s.key = tag
PageShown(w, page) ==
    /\ w.total = Len(Tags)
    /\ \A j \in DOMAIN w.grid : OfPage(w.grid[j], page)
    /\ \A i, j \in DOMAIN w.grid : TagOf(w.grid[i].row) = TagOf(w.grid[j].row) => i = j
    /\ \A p \in DOMAIN Tags : InPage(p, page) =>
          \/ \E j \in DOMAIN w.grid : TagOf(w.grid[j].row) = Tags[p]
          \/ page = 1 /\ OnShelf(w.shelves, Tags[p])
    /\ page = 1 /\ w.grid = <<>> => Len(Tags) < PAGE_SIZE

Steady == stood /\ (filter = Browse \/ ties # "any")
SteadyInv ==
    Steady =>
      /\ pc = "rows" => total = Cardinality(Matching)
      /\ pc \in {"featured", "top", "random", "render"} =>
            total = Len(Tags) /\ PageFilled(groups, PageNo)
      /\ \A i \in DOMAIN walk : PageShown(walk[i], i)

\* What CardsStandForCopies says of a card, but for the column of keys.
Stands(card) ==
    LET twins == {t \in catalog : t.key = card.row.key /\ t.id # card.row.id /\ ~ Hidden(t)}
    IN  /\ card.also_in = {t.id : t \in twins}
        /\ \A t \in twins : Rank[card.row.bacaro] <= Rank[t.bacaro]
StandInv == stood /\ filter = Browse => \A i \in DOMAIN groups : Stands(groups[i])

PagesInv == PagesTypeInv /\ ShelvesInv /\ WalkInv /\ SteadyInv /\ StandInv

LEMMA PagesInvInit == PagesInit => PagesInv
  <1> SUFFICES ASSUME PagesInit PROVE PagesInv
    OBVIOUS
  <1>1. DOMAIN <<>> = {} /\ Len(<<>>) = 0
    OBVIOUS
  <1>2. PagesTypeInv
    BY PagesConstants DEF PagesInit, PagesTypeInv
  <1>3. ShelvesInv
    <2>1. IdsOf(<<>>) = {}
      BY <1>1 DEF IdsOf
    <2>2. Top \in Nat /\ Shelf \in Nat
      BY PagesConstants
    <2>3. featured = <<>> /\ top = <<>> /\ random_apps = <<>> /\ ranked = <<>> /\ groups = <<>> /\ pc = "idle"
      BY DEF PagesInit
    <2>4. Len(ranked) <= Top /\ Len(random_apps) <= Shelf
      BY <1>1, <2>2, <2>3
    <2> QED
      BY <2>1, <2>3, <2>4 DEF ShelvesInv
  <1>4. WalkInv
    BY <1>1 DEF PagesInit, WalkInv
  <1>5. SteadyInv
    BY <1>1 DEF PagesInit, SteadyInv
  <1>6. StandInv
    BY <1>1 DEF PagesInit, StandInv
  <1> QED
    BY <1>2, <1>3, <1>4, <1>5, <1>6 DEF PagesInv

\* What the rows of a page are when the catalog stands as long as the walk.
LEMMA PagedFills ==
    ASSUME catalog \subseteq Rows, NEW dir \in Tie, NEW page \in Nat \ {0}
    PROVE  LET g == Paged(ByName(Matching, dir), page)
           IN  /\ g \in Seq(CardType)
               /\ filter = Browse \/ ties # "any" => PageFilled(g, page)
               /\ filter = Browse => \A i \in DOMAIN g : Stands(g[i])
  <1> DEFINE c == Cards(dir)
             g == PageOf(c, page)
             a == Offset(page)
  <1>0. Matching \subseteq Rows
    BY DEF Matching
  <1>1. Paged(ByName(Matching, dir), page) = g
    BY DEF Paged, Cards
  <1>2. /\ c \in Seq(CardType)
        /\ \A i \in DOMAIN c : c[i].row \in Matching
        /\ filter = Browse => Grouped(c, Matching)
    BY CardsFacts
  <1> HIDE DEF c
  <1>3. /\ g \in Seq(CardType)
        /\ \A j \in DOMAIN g : InPage(a + j, page) /\ a + j \in DOMAIN c /\ g[j] = c[a + j]
        /\ \A p \in DOMAIN c : InPage(p, page) => p - a \in DOMAIN g
        /\ page = 1 /\ PAGE_SIZE <= Len(c) => DOMAIN g = 1 .. PAGE_SIZE
    BY <1>2, PageOfPlaces
  <1> HIDE DEF g
  <1>4. ASSUME filter = Browse \/ ties # "any"
        PROVE  PageFilled(g, page)
    <2>1. /\ Len(c) = Len(Tags)
          /\ \A p \in 1 .. Len(Tags) : TagOf(c[p].row) = Tags[p]
      BY <1>4, TagsSame DEF c
    <2>2. DOMAIN c = 1 .. Len(Tags)
      BY <1>2, <2>1
    <2>3. DOMAIN Tags = 1 .. Len(Tags)
      <3>1. Tags \in Seq({TagOf(r) : r \in Matching})
        BY TagsFacts
      <3> HIDE DEF Tags
      <3> QED
        BY <3>1
    <2> HIDE DEF a
    <2>4. \A j \in DOMAIN g : g[j].row \in Matching /\ a + j \in DOMAIN Tags
                              /\ TagOf(g[j].row) = Tags[a + j]
      BY <1>2, <1>3, <2>1, <2>2, <2>3
    <2> QED
      BY <1>3, <2>1, <2>2, <2>3, <2>4 DEF PageFilled, a
  <1>5. ASSUME filter = Browse
        PROVE  \A i \in DOMAIN g : Stands(g[i])
    <2> TAKE i \in DOMAIN g
    <2>1. PICK k \in DOMAIN c : g[i] = c[k]
      BY <1>3
    <2>2. Matching = {r \in catalog : ~ Hidden(r)}
      BY <1>5 DEF Matching, Matches, Browse
    <2> DEFINE d == c[k]
               twins == {t \in catalog : t.key = d.row.key /\ t.id # d.row.id /\ ~ Hidden(t)}
    <2>3. twins = {u \in Matching : u.key = d.row.key /\ u.id # d.row.id}
      BY <2>2
    <2>4. /\ d.also_in = {t.id : t \in {u \in Matching : u.key = d.row.key /\ u.id # d.row.id}}
          /\ \A t \in Matching : t.key = d.row.key => Rank[d.row.bacaro] <= Rank[t.bacaro]
      BY <1>2, <1>5 DEF Grouped
    <2>5. d.also_in = {t.id : t \in twins} /\ \A t \in twins : Rank[d.row.bacaro] <= Rank[t.bacaro]
      BY <2>2, <2>3, <2>4
    <2> QED
      BY <2>1, <2>5 DEF Stands
  <1> QED
    BY <1>1, <1>3, <1>4, <1>5

\* What is said of cards is about the catalog, the filter and the order of names.
LEMMA SameCatalog ==
    ASSUME UNCHANGED <<catalog, ties, filter>>
    PROVE  /\ Matching' = Matching /\ Tags' = Tags
           /\ \A g, page : PageFilled(g, page)' <=> PageFilled(g, page)
           /\ \A w, page : PageShown(w, page)' <=> PageShown(w, page)
           /\ \A card : Stands(card)' <=> Stands(card)
  <1>1. Matching' = Matching
    BY DEF Matching
  <1>2. Dir0' = Dir0
    BY DEF Dir0
  <1>3. \A r : TagOf(r)' = TagOf(r)
    BY DEF TagOf
  <1>4. \A d : Cards(d)' = Cards(d)
    BY <1>1 DEF Cards
  <1>5. Cards(Dir0)' = Cards(Dir0)
    BY <1>1, <1>2 DEF Cards
  <1>6. Tags' = Tags
    BY <1>3, <1>5 DEF Tags
  <1>7. \A g, page : PageFilled(g, page)' <=> PageFilled(g, page)
    BY <1>1, <1>3, <1>6 DEF PageFilled
  <1>8. /\ \A c, page : OfPage(c, page)' <=> OfPage(c, page)
        /\ \A shelves, tag : OnShelf(shelves, tag)' <=> OnShelf(shelves, tag)
    BY <1>1, <1>3, <1>6 DEF OfPage, OnShelf
  <1>9. \A w, page : PageShown(w, page)' <=> PageShown(w, page)
    BY <1>3, <1>6, <1>8 DEF PageShown
  <1>10. \A card : Stands(card)' <=> Stands(card)
    BY DEF Stands
  <1> QED
    BY <1>1, <1>6, <1>7, <1>9, <1>10

LEMMA PageNumber ==
    ASSUME PagesTypeInv
    PROVE  /\ Len(walk) \in Nat /\ DOMAIN walk = 1 .. Len(walk)
           /\ PageNo \in Nat \ {0} /\ PageNo = Len(walk) + 1
  <1>1. Len(walk) \in Nat /\ DOMAIN walk = 1 .. Len(walk)
    BY DEF PagesTypeInv
  <1> QED
    BY <1>1 DEF PageNo

LEMMA OpensStep == PagesInv /\ Opens => PagesInv'
  <1> SUFFICES ASSUME PagesInv, Opens PROVE PagesInv'
    OBVIOUS
  <1>1. DOMAIN <<>> = {} /\ Len(<<>>) = 0
    OBVIOUS
  <1>2. /\ pc = "idle" /\ walk = <<>> /\ walk' = walk /\ groups = <<>> /\ groups' = groups
        /\ pc' = "count" /\ stood' = TRUE
    BY DEF Opens, PagesInv, ShelvesInv, locals
  <1>3. PagesTypeInv'
    BY DEF Opens, PagesInv, PagesTypeInv, locals
  <1>4. ShelvesInv'
    BY <1>2 DEF Opens, PagesInv, ShelvesInv, locals, IdsOf
  <1>5. WalkInv'
    BY <1>1, <1>2 DEF WalkInv
  <1>6. SteadyInv'
    BY <1>1, <1>2 DEF SteadyInv
  <1>7. StandInv'
    BY <1>1, <1>2 DEF StandInv
  <1> QED
    BY <1>3, <1>4, <1>5, <1>6, <1>7 DEF PagesInv

LEMMA TurnsStep == PagesInv /\ Turns => PagesInv'
  <1> SUFFICES ASSUME PagesInv, Turns PROVE PagesInv'
    OBVIOUS
  <1>0. PagesTypeInv /\ ShelvesInv /\ WalkInv /\ SteadyInv /\ StandInv
    BY DEF PagesInv
  <1>1. /\ UNCHANGED <<catalog, ties, filter>> /\ walk' = walk /\ stood' = stood
        /\ groups' = groups /\ pc = "idle" /\ pc' = "count"
    BY DEF Turns, locals
  <1>2. PagesTypeInv'
    BY <1>0 DEF Turns, PagesTypeInv, locals
  <1>3. ShelvesInv'
    BY <1>0 DEF Turns, ShelvesInv, locals, IdsOf
  <1>4. WalkInv'
    <2>1. walk[Len(walk)].next /\ DOMAIN walk = 1 .. Len(walk) /\ Len(walk) \in Nat
      BY <1>0, PageNumber DEF Turns, Last
    <2>2. \A i \in DOMAIN walk : i < Len(walk) \/ i = Len(walk)
      BY <2>1
    <2> QED
      BY <1>0, <1>1, <2>1, <2>2 DEF WalkInv
  <1>5. SteadyInv'
    <2>1. \A w, page : PageShown(w, page)' <=> PageShown(w, page)
      BY <1>1, SameCatalog
    <2>2. Steady' <=> Steady
      BY <1>1 DEF Steady
    <2> QED
      BY <1>0, <1>1, <2>1, <2>2 DEF SteadyInv
  <1>6. StandInv'
    BY <1>0, <1>1 DEF StandInv, Stands
  <1> QED
    BY <1>2, <1>3, <1>4, <1>5, <1>6 DEF PagesInv

LEMMA MatchingCount ==
    ASSUME PagesTypeInv
    PROVE  Cardinality(Matching) \in Nat /\ Len(Tags) \in Nat /\ DOMAIN Tags = 1 .. Len(Tags)
  <1>1. Matching \subseteq Rows /\ catalog \subseteq Rows
    BY DEF PagesTypeInv, Matching
  <1>2. Cardinality(Matching) \in Nat
    BY <1>1, PagesConstants, FS_Subset, FS_CardinalityType
  <1>3. Tags \in Seq({TagOf(r) : r \in Matching})
    BY <1>1, TagsFacts
  <1> HIDE DEF Tags
  <1>4. Len(Tags) \in Nat /\ DOMAIN Tags = 1 .. Len(Tags)
    BY <1>3
  <1> QED
    BY <1>2, <1>4

LEMMA CountsStep == PagesInv /\ Counts => PagesInv'
  <1> SUFFICES ASSUME PagesInv, Counts PROVE PagesInv'
    OBVIOUS
  <1>0. PagesTypeInv /\ ShelvesInv /\ WalkInv /\ SteadyInv /\ StandInv
    BY DEF PagesInv
  <1>1. /\ UNCHANGED <<catalog, ties, filter>> /\ walk' = walk /\ stood' = stood
        /\ groups' = groups /\ pc = "count" /\ pc' = "rows" /\ total' = Cardinality(Matching)
    BY DEF Counts
  <1>2. PagesTypeInv'
    <2>1. total' \in Nat
      BY <1>0, <1>1, MatchingCount
    <2> QED
      BY <1>0, <1>1, <2>1 DEF Counts, PagesTypeInv
  <1>3. ShelvesInv'
    BY <1>0 DEF Counts, ShelvesInv, IdsOf
  <1>4. WalkInv'
    BY <1>0, <1>1 DEF WalkInv
  <1>5. SteadyInv'
    <2>1. Matching' = Matching /\ \A w, page : PageShown(w, page)' <=> PageShown(w, page)
      BY <1>1, SameCatalog
    <2>2. Steady' <=> Steady
      BY <1>1 DEF Steady
    <2> QED
      BY <1>0, <1>1, <2>1, <2>2 DEF SteadyInv
  <1>6. StandInv'
    BY <1>0, <1>1 DEF StandInv, Stands
  <1> QED
    BY <1>2, <1>3, <1>4, <1>5, <1>6 DEF PagesInv

LEMMA ReadsRowsStep == PagesInv /\ ReadsRows => PagesInv'
  <1> SUFFICES ASSUME PagesInv, ReadsRows PROVE PagesInv'
    OBVIOUS
  <1>0. PagesTypeInv /\ ShelvesInv /\ WalkInv /\ SteadyInv /\ StandInv
    BY DEF PagesInv
  <1>1. /\ UNCHANGED <<catalog, ties, filter>> /\ walk' = walk /\ stood' = stood /\ pc = "rows"
        /\ pc' = IF filter = Browse /\ PageNo = 1 THEN "featured" ELSE "render"
    BY DEF ReadsRows
  <1>2. PICK dir \in Tie :
          /\ groups' = Paged(ByName(Matching, dir), PageNo)
          /\ total' = IF filter = Browse THEN Len(DedupGroups(ByName(Matching, dir))) ELSE total
    BY DEF ReadsRows
  <1>3. catalog \subseteq Rows /\ PageNo \in Nat \ {0}
    BY <1>0, PageNumber DEF PagesTypeInv
  <1>4. /\ groups' \in Seq(CardType)
        /\ filter = Browse \/ ties # "any" => PageFilled(groups', PageNo)
        /\ filter = Browse => \A i \in DOMAIN groups' : Stands(groups'[i])
    BY <1>2, <1>3, PagedFills
  <1>5. /\ total' \in Nat
        /\ Steady => total' = Len(Tags)
    <2>1. CASE filter = Browse
      <3>1. total' = Len(Cards(dir))
        BY <1>2, <2>1 DEF Cards
      <3>2. Cards(dir) \in Seq(CardType)
        BY <1>3, CardsFacts
      <3>3. Len(Cards(dir)) = Len(Tags)
        BY <1>3, <2>1, TagsSame
      <3>4. Len(Tags) \in Nat
        BY <1>0, MatchingCount
      <3> QED
        BY <3>1, <3>3, <3>4
    <2>2. CASE filter # Browse
      <3>1. total' = total /\ (Steady => total = Cardinality(Matching))
        BY <1>0, <1>1, <1>2, <2>2 DEF SteadyInv
      <3>2. Len(Tags) = Cardinality(Matching)
        BY <1>3, <2>2, TagsFacts
      <3> QED
        BY <1>0, <3>1, <3>2 DEF PagesTypeInv
    <2> QED
      BY <2>1, <2>2
  <1>6. PagesTypeInv'
    BY <1>0, <1>1, <1>4, <1>5 DEF ReadsRows, PagesTypeInv
  <1>7. ShelvesInv'
    <2>1. UNCHANGED <<featured, ranked, top, random_apps>>
      BY DEF ReadsRows
    <2>2. pc' \notin {"idle", "count", "rows"} /\ (pc' \in {"featured", "top", "random"} => filter' = Browse)
      BY <1>1
    <2>3. featured = <<>> /\ top = <<>> /\ random_apps = <<>>
      BY <1>0, <1>1 DEF ShelvesInv
    <2> QED
      BY <1>0, <2>1, <2>2, <2>3 DEF ShelvesInv, IdsOf
  <1>8. WalkInv'
    BY <1>0, <1>1 DEF WalkInv
  <1>9. SteadyInv'
    <2>1. /\ Tags' = Tags /\ \A w, page : PageShown(w, page)' <=> PageShown(w, page)
          /\ \A g, page : PageFilled(g, page)' <=> PageFilled(g, page)
      BY <1>1, SameCatalog
    <2>2. (Steady' <=> Steady) /\ PageNo' = PageNo /\ pc' # "rows"
      BY <1>1 DEF Steady, PageNo
    <2>3. ASSUME Steady PROVE (total = Len(Tags))' /\ PageFilled(groups, PageNo)'
      <3>1. PageFilled(groups', PageNo)
        BY <1>4, <2>3 DEF Steady
      <3>2. PICK g : g = groups'
        OBVIOUS
      <3>3. PageFilled(g, PageNo)'
        BY <2>1, <2>2, <3>1, <3>2
      <3> QED
        BY <1>5, <2>1, <2>2, <2>3, <3>2, <3>3
    <2> QED
      BY <1>0, <1>1, <2>1, <2>2, <2>3 DEF SteadyInv
  <1>10. StandInv'
    <2>1. \A card : Stands(card)' <=> Stands(card)
      BY <1>1, SameCatalog
    <2> QED
      BY <1>1, <1>4, <2>1 DEF StandInv
  <1> QED
    BY <1>6, <1>7, <1>8, <1>9, <1>10 DEF PagesInv

\* The statements of the shelves leave the grid and the walk as they are.
LEMMA ShelfStatement ==
    ASSUME PagesInv, UNCHANGED <<catalog, ties, filter, walk, stood, groups, total>>,
           pc \in {"featured", "top", "random"}, pc' \in {"featured", "top", "random", "render"}
    PROVE  WalkInv' /\ SteadyInv' /\ StandInv'
  <1>0. PagesTypeInv /\ ShelvesInv /\ WalkInv /\ SteadyInv /\ StandInv
    BY DEF PagesInv
  <1>1. WalkInv'
    BY <1>0 DEF WalkInv
  <1>2. SteadyInv'
    <2>1. /\ Tags' = Tags /\ \A w, page : PageShown(w, page)' <=> PageShown(w, page)
          /\ \A g, page : PageFilled(g, page)' <=> PageFilled(g, page)
      BY SameCatalog
    <2>2. (Steady' <=> Steady) /\ PageNo' = PageNo /\ pc' # "rows"
      BY DEF Steady, PageNo
    <2>3. ASSUME Steady PROVE (total = Len(Tags))' /\ PageFilled(groups, PageNo)'
      <3>1. total = Len(Tags) /\ PageFilled(groups, PageNo)
        BY <1>0, <2>3 DEF SteadyInv
      <3>2. PageFilled(groups, PageNo)'
        BY <2>1, <2>2, <3>1
      <3> QED
        BY <2>1, <3>1, <3>2
    <2> QED
      BY <1>0, <2>1, <2>2, <2>3 DEF SteadyInv
  <1>3. StandInv'
    BY <1>0 DEF StandInv, Stands
  <1> QED
    BY <1>1, <1>2, <1>3

LEMMA IdsAreNat == Ids \subseteq Nat
  BY RowFacts DEF Ids

LEMMA GetsFeaturedStep == PagesInv /\ GetsFeatured => PagesInv'
  <1> SUFFICES ASSUME PagesInv, GetsFeatured PROVE PagesInv'
    OBVIOUS
  <1>0. PagesTypeInv /\ ShelvesInv
    BY DEF PagesInv
  <1>1. /\ UNCHANGED <<catalog, ties, filter, walk, stood, groups, total>>
        /\ pc = "featured" /\ pc' = "featured"
    BY DEF GetsFeatured
  <1>2. WalkInv' /\ SteadyInv' /\ StandInv'
    BY <1>1, ShelfStatement
  <1> DEFINE id == FEATURED_CICHETI[fid]
             found == RowsByIds(<<id>>)
  <1>3. featured' = featured \o found
    BY DEF GetsFeatured
  <1>4. fid \in 1 .. Len(FEATURED_CICHETI) /\ id \in Nat /\ <<id>> \in Seq(Nat) /\ fid' \in Nat \ {0}
    <2>1. /\ fid \in Nat \ {0} /\ fid <= Len(FEATURED_CICHETI) /\ fid' = fid + 1
          /\ FEATURED_CICHETI \in Seq(Nat) /\ Len(FEATURED_CICHETI) \in Nat
      BY <1>0, PagesConstants DEF GetsFeatured, PagesTypeInv
    <2>2. fid \in 1 .. Len(FEATURED_CICHETI) /\ fid' \in Nat \ {0}
      BY <2>1
    <2>3. id \in Nat
      BY <2>1, <2>2
    <2> QED
      BY <2>2, <2>3
  <1>5. found \in Seq(Rows) /\ IdsOf(found) \subseteq {<<id>>[k] : k \in DOMAIN <<id>>}
    BY <1>0, <1>4, RowsOfIds DEF PagesTypeInv
  <1>6. IdsOf(found) \subseteq {FEATURED_CICHETI[i] : i \in 1 .. Len(FEATURED_CICHETI)}
    <2>1. {<<id>>[k] : k \in DOMAIN <<id>>} = {id}
      OBVIOUS
    <2> QED
      BY <1>4, <1>5, <2>1
  <1> HIDE DEF found, id
  <1>7. featured' \in Seq(Rows) /\ IdsOf(featured') \subseteq IdsOf(featured) \cup IdsOf(found)
    <2>1. featured \in Seq(Rows) /\ found \in Seq(Rows)
      BY <1>0, <1>5 DEF PagesTypeInv
    <2>2. /\ featured' \in Seq(Rows)
          /\ \A j \in DOMAIN featured' :
                \/ j \in DOMAIN featured /\ featured'[j] = featured[j]
                \/ j - Len(featured) \in DOMAIN found /\ featured'[j] = found[j - Len(featured)]
      BY <1>3, <2>1
    <2>3. \A j \in DOMAIN featured' : featured'[j].id \in IdsOf(featured) \cup IdsOf(found)
      BY <2>2 DEF IdsOf
    <2> QED
      BY <2>2, <2>3 DEF IdsOf
  <1>8. PagesTypeInv'
    BY <1>0, <1>1, <1>4, <1>7 DEF GetsFeatured, PagesTypeInv
  <1>9. ShelvesInv'
    <2>1. UNCHANGED <<ranked, top, random_apps, filter>> /\ filter = Browse
      BY <1>0, <1>1 DEF GetsFeatured, ShelvesInv
    <2>2. IdsOf(featured') \subseteq {FEATURED_CICHETI[i] : i \in 1 .. Len(FEATURED_CICHETI)}
      BY <1>0, <1>6, <1>7 DEF ShelvesInv
    <2>3. IdsOf(featured)' = IdsOf(featured') /\ IdsOf(top)' = IdsOf(top)
      BY <2>1 DEF IdsOf
    <2> QED
      BY <1>0, <1>1, <2>1, <2>2, <2>3 DEF ShelvesInv
  <1> QED
    BY <1>2, <1>8, <1>9 DEF PagesInv

LEMMA RanksStep == PagesInv /\ Ranks => PagesInv'
  <1> SUFFICES ASSUME PagesInv, Ranks PROVE PagesInv'
    OBVIOUS
  <1>0. PagesTypeInv /\ ShelvesInv
    BY DEF PagesInv
  <1>1. /\ UNCHANGED <<catalog, ties, filter, walk, stood, groups, total, featured, top, random_apps, fid>>
        /\ pc = "featured" /\ pc' = "top"
    BY DEF Ranks
  <1>2. WalkInv' /\ SteadyInv' /\ StandInv'
    BY <1>1, ShelfStatement
  <1>3. PICK n \in 0 .. Top : ranked' \in [1 .. n -> Ids]
    BY DEF Ranks
  <1>4. ranked' \in Seq(Nat) /\ Len(ranked') <= Top
    <2>1. n \in Nat /\ n <= Top
      BY PagesConstants
    <2>2. ranked' \in [1 .. n -> Nat]
      BY <1>3, IdsAreNat
    <2> QED
      BY <2>1, <2>2
  <1>5. top = <<>> /\ IdsOf(top) = {}
    <2>1. top = <<>>
      BY <1>0, <1>1 DEF ShelvesInv
    <2> QED
      BY <2>1 DEF IdsOf
  <1>6. PagesTypeInv'
    BY <1>0, <1>1, <1>4 DEF PagesTypeInv
  <1>7. ShelvesInv'
    <2>1. IdsOf(featured)' = IdsOf(featured) /\ IdsOf(top)' = {} /\ filter = Browse
      BY <1>0, <1>1, <1>5 DEF IdsOf, ShelvesInv
    <2>2. ranked' \in Seq(Nat) /\ Len(ranked)' <= Top
      BY <1>4
    <2> QED
      BY <1>0, <1>1, <2>1, <2>2 DEF ShelvesInv
  <1> QED
    BY <1>2, <1>6, <1>7 DEF PagesInv

LEMMA GetsTopStep == PagesInv /\ GetsTop => PagesInv'
  <1> SUFFICES ASSUME PagesInv, GetsTop PROVE PagesInv'
    OBVIOUS
  <1>0. PagesTypeInv /\ ShelvesInv
    BY DEF PagesInv
  <1>1. /\ UNCHANGED <<catalog, ties, filter, walk, stood, groups, total, featured, ranked, random_apps, fid>>
        /\ pc = "top" /\ pc' = "random" /\ top' = RowsByIds(ranked)
    BY DEF GetsTop
  <1>2. WalkInv' /\ SteadyInv' /\ StandInv'
    BY <1>1, ShelfStatement
  <1>3. ranked \in Seq(Nat) /\ catalog \subseteq Rows /\ DOMAIN ranked = 1 .. Len(ranked)
    BY <1>0 DEF PagesTypeInv
  <1>4. top' \in Seq(Rows) /\ IdsOf(top') \subseteq {ranked[k] : k \in 1 .. Len(ranked)}
    BY <1>1, <1>3, RowsOfIds
  <1>5. PagesTypeInv'
    BY <1>0, <1>1, <1>4 DEF PagesTypeInv
  <1>6. ShelvesInv'
    <2>1. IdsOf(featured)' = IdsOf(featured) /\ IdsOf(top)' = IdsOf(top') /\ filter = Browse
      BY <1>0, <1>1 DEF IdsOf, ShelvesInv
    <2> QED
      BY <1>0, <1>1, <1>4, <2>1 DEF ShelvesInv
  <1> QED
    BY <1>2, <1>5, <1>6 DEF PagesInv

LEMMA SamplesStep == PagesInv /\ Samples => PagesInv'
  <1> SUFFICES ASSUME PagesInv, Samples PROVE PagesInv'
    OBVIOUS
  <1>0. PagesTypeInv /\ ShelvesInv
    BY DEF PagesInv
  <1>1. /\ UNCHANGED <<catalog, ties, filter, walk, stood, groups, total, featured, ranked, top, fid>>
        /\ pc = "random" /\ pc' = "render"
    BY DEF Samples
  <1>2. WalkInv' /\ SteadyInv' /\ StandInv'
    BY <1>1, ShelfStatement
  <1> DEFINE pool == {r \in catalog : ~ Hidden(r) /\ r.id \notin Surfaced}
             most == Least(Sample, Cardinality(pool))
  <1>3. PICK picked \in [1 .. most -> pool] : random_apps' = Cut(DedupGroups(picked), 0, Shelf)
    BY DEF Samples
  <1>4. pool \subseteq Rows /\ most \in Nat
    <2>1. pool \subseteq Rows
      BY <1>0 DEF PagesTypeInv
    <2>2. Sample \in Nat /\ Cardinality(pool) \in Nat
      BY <2>1, PagesConstants, FS_Subset, FS_CardinalityType
    <2> QED
      BY <2>1, <2>2 DEF Least
  <1> HIDE DEF pool, most
  <1>5. picked \in Seq(Rows) /\ Len(picked) \in Nat
    <2>1. picked \in [1 .. most -> Rows]
      BY <1>4
    <2> QED
      BY <1>4, <2>1
  <1> DEFINE c == DedupGroups(picked)
  <1>6. c \in Seq(CardType)
    <2>1. PICK f \in [0 .. Len(picked) -> Seq(CardType)] : c = f[Len(picked)]
      BY <1>5, DedupSteps
    <2> QED
      BY <1>5, <2>1
  <1> HIDE DEF c
  <1>7. random_apps' = SubSeq(c, 0 + 1, Least(0 + Shelf, Len(c))) /\ Shelf \in Nat \ {0}
    <2>1. Shelf \in Nat \ {0}
      BY PagesConstants
    <2>2. 0 + Shelf = Shelf
      BY <2>1
    <2> QED
      BY <1>3, <2>1, <2>2 DEF Cut, c
  <1>8. random_apps' \in Seq(CardType) /\ CutAt(random_apps', c, 0, Shelf)
    BY <1>6, <1>7, SubSeqPlaces
  <1>9. Len(random_apps') <= Shelf
    <2>1. \A j \in 1 .. Len(random_apps') : j <= Shelf
      BY <1>7, <1>8 DEF CutAt
    <2>2. Len(random_apps') \in Nat
      BY <1>8
    <2>3. PICK l : l = Len(random_apps')
      OBVIOUS
    <2>4. l \in Nat /\ Shelf \in Nat /\ \A j \in 1 .. l : j <= Shelf
      BY <1>7, <2>1, <2>2, <2>3
    <2>5. l <= Shelf
      BY ONLY <2>4
    <2> QED
      BY <2>3, <2>5
  <1>10. PagesTypeInv'
    BY <1>0, <1>1, <1>8 DEF PagesTypeInv
  <1>11. ShelvesInv'
    <2>1. IdsOf(featured)' = IdsOf(featured) /\ IdsOf(top)' = IdsOf(top) /\ filter = Browse
      BY <1>0, <1>1 DEF IdsOf, ShelvesInv
    <2> QED
      BY <1>0, <1>1, <1>9, <2>1 DEF ShelvesInv
  <1> QED
    BY <1>2, <1>10, <1>11 DEF PagesInv

\* The shelves hold fewer apps than a page.
LEMMA ShelvedFew ==
    ASSUME PagesTypeInv, ShelvesInv
    PROVE  /\ Shelved \subseteq Nat /\ IsFiniteSet(Shelved)
           /\ Cardinality(Shelved) \in Nat /\ Cardinality(Shelved) < PAGE_SIZE
           /\ filter # Browse => Shelved = {}
  <1> DEFINE F == FEATURED_CICHETI
             A == IdsOf(featured)
             B == IdsOf(top)
             C == {random_apps[i].row.id : i \in DOMAIN random_apps}
             D == A \cup B
  <1>1. /\ Len(F) \in Nat /\ Top \in Nat /\ Shelf \in Nat /\ PAGE_SIZE \in Nat
        /\ Len(F) + Top + Shelf < PAGE_SIZE
    BY PagesConstants
  <1>2. /\ Len(ranked) \in Nat /\ Len(ranked) <= Top /\ Len(random_apps) \in Nat
        /\ Len(random_apps) <= Shelf /\ DOMAIN random_apps = 1 .. Len(random_apps)
    BY DEF PagesTypeInv, ShelvesInv
  <1>3. IsFiniteSet(A) /\ Cardinality(A) \in Nat /\ Cardinality(A) <= Len(F)
    <2>1. A \subseteq {F[k] : k \in 1 .. Len(F)}
      BY DEF ShelvesInv
    <2> HIDE DEF A, F
    <2> QED
      BY <1>1, <2>1, FewValues
  <1>4. IsFiniteSet(B) /\ Cardinality(B) \in Nat /\ Cardinality(B) <= Len(ranked)
    <2>1. B \subseteq {ranked[k] : k \in 1 .. Len(ranked)}
      BY DEF ShelvesInv
    <2> HIDE DEF B
    <2> QED
      BY <1>2, <2>1, FewValues
  <1>5. IsFiniteSet(C) /\ Cardinality(C) \in Nat /\ Cardinality(C) <= Len(random_apps)
    <2> DEFINE f == [k \in 1 .. Len(random_apps) |-> random_apps[k].row.id]
    <2>1. C \subseteq {f[k] : k \in 1 .. Len(random_apps)}
      BY <1>2
    <2> HIDE DEF C, f
    <2> QED
      BY <1>2, <2>1, FewValues
  <1>6. Shelved = D \cup C
    BY DEF Shelved, Surfaced
  <1>7. Shelved \subseteq Nat
    <2>1. A \subseteq Nat /\ B \subseteq Nat
      BY RowFacts DEF IdsOf, PagesTypeInv
    <2>2. C \subseteq Nat
      <3>1. random_apps \in Seq(CardType)
        BY DEF PagesTypeInv
      <3>0. \A i \in DOMAIN random_apps : random_apps[i] \in CardType
        BY <3>1
      <3>2. \A i \in DOMAIN random_apps : random_apps[i].row \in Rows
        BY <3>0 DEF CardType
      <3> QED
        BY <3>2, RowFacts
    <2> QED
      BY <1>6, <2>1, <2>2
  <1>8. filter # Browse => Shelved = {}
    <2>1. DOMAIN <<>> = {}
      OBVIOUS
    <2>2. ASSUME filter # Browse PROVE A = {} /\ B = {} /\ C = {}
      BY <2>1, <2>2 DEF ShelvesInv, IdsOf
    <2> HIDE DEF A, B, C
    <2> QED
      BY <1>6, <2>2
  <1> HIDE DEF A, B, C
  <1>9. IsFiniteSet(D) /\ Cardinality(D) \in Nat /\ Cardinality(D) <= Cardinality(A) + Cardinality(B)
    <2>1. /\ IsFiniteSet(D) /\ Cardinality(D) = Cardinality(A) + Cardinality(B) - Cardinality(A \cap B)
      BY <1>3, <1>4, FS_Union
    <2>2. Cardinality(A \cap B) \in Nat
      BY <1>3, FS_Intersection, FS_CardinalityType
    <2> QED
      BY <1>3, <1>4, <2>1, <2>2, FS_CardinalityType
  <1> HIDE DEF D
  <1>10. /\ IsFiniteSet(D \cup C) /\ Cardinality(D \cup C) \in Nat
         /\ Cardinality(D \cup C) <= Cardinality(D) + Cardinality(C)
    <2>1. /\ IsFiniteSet(D \cup C)
          /\ Cardinality(D \cup C) = Cardinality(D) + Cardinality(C) - Cardinality(D \cap C)
      BY <1>5, <1>9, FS_Union
    <2>2. Cardinality(D \cap C) \in Nat
      BY <1>5, <1>9, FS_Intersection, FS_CardinalityType
    <2> QED
      BY <1>5, <1>9, <2>1, <2>2, FS_CardinalityType
  <1>11. Cardinality(D \cup C) < PAGE_SIZE
    <2> HIDE DEF F
    <2> QED
      BY <1>1, <1>2, <1>3, <1>4, <1>5, <1>9, <1>10
  <1> QED
    BY <1>6, <1>7, <1>8, <1>10, <1>11

\* What is left of a full page is a card at least.
LEMMA SomeCardLeft ==
    ASSUME PagesTypeInv, ShelvesInv, NEW g \in Seq(CardType), DOMAIN g = 1 .. PAGE_SIZE,
           \A i, j \in DOMAIN g : TagOf(g[i].row) = TagOf(g[j].row) => i = j
    PROVE  \E j \in DOMAIN g : g[j].row.id \notin Shelved
  <1> SUFFICES ASSUME \A j \in DOMAIN g : g[j].row.id \in Shelved PROVE FALSE
    OBVIOUS
  <1> DEFINE P == 1 .. PAGE_SIZE
             f == [j \in P |-> g[j].row.id]
  <1>1. PAGE_SIZE \in Nat
    BY PagesConstants
  <1>2. f \in [P -> Shelved] /\ \A j \in P : f[j] = g[j].row.id
    OBVIOUS
  <1>3. \A i, j \in P : g[i].row.id = g[j].row.id => g[i].row = g[j].row
    <2>0. \A i \in DOMAIN g : g[i] \in CardType
      BY ONLY g \in Seq(CardType)
    <2>1. \A i \in P : g[i] \in CardType
      BY <2>0
    <2>2. \A i \in P : g[i].row \in Rows
      BY <2>1 DEF CardType
    <2>3. \A r, s \in Rows : r.id = s.id => r = s
      BY PagesConstants
    <2> HIDE DEF P
    <2> QED
      BY <2>2, <2>3
  <1>4. \A i, j \in P : f[i] = f[j] => i = j
    <2> HIDE DEF f
    <2> QED
      BY <1>2, <1>3
  <1>5. IsFiniteSet(P) /\ Cardinality(P) = PAGE_SIZE
    BY <1>1, OneTo
  <1>6. /\ IsFiniteSet(Shelved) /\ Cardinality(Shelved) \in Nat /\ Cardinality(Shelved) < PAGE_SIZE
    BY ShelvedFew
  <1> HIDE DEF f, P
  <1>7. f \in Injection(P, Shelved)
    BY <1>2, <1>4 DEF Injection, IsInjective
  <1>8. Cardinality(P) <= Cardinality(Shelved)
    BY <1>6, <1>7, FS_Injection
  <1> QED
    BY <1>1, <1>5, <1>6, <1>8

\* The page that is rendered.
NewPage == [grid |-> Grid, shelves |-> IF PageNo = 1 THEN Shelved ELSE {}, total |-> total,
            next |-> Grid # <<>> /\ PageNo < PageCount(total)]

LEMMA GridLeft ==
    ASSUME PagesTypeInv
    PROVE  /\ Grid \in Seq(CardType)
           /\ PageNo = 1 =>
                Collected(Grid, {k \in DOMAIN groups : groups[k].row.id \notin Shelved}, groups)
           /\ PageNo # 1 => Grid = groups
  <1>1. groups \in Seq(CardType)
    BY DEF PagesTypeInv
  <1>2. /\ NotOf(groups, Shelved) \in Seq(CardType)
        /\ Collected(NotOf(groups, Shelved),
                     {k \in DOMAIN groups : groups[k].row.id \notin Shelved}, groups)
    BY <1>1, NotOfCards
  <1> QED
    BY <1>1, <1>2 DEF Grid

LEMMA NewPageShown ==
    ASSUME PagesTypeInv, ShelvesInv, total = Len(Tags), PageFilled(groups, PageNo)
    PROVE  PageShown(NewPage, PageNo)
  <1> DEFINE P == PageNo
             a == Offset(P)
             g == groups
             h == Grid
             K == {k \in DOMAIN g : g[k].row.id \notin Shelved}
  <1>1. P \in Nat \ {0} /\ a \in Nat /\ g \in Seq(CardType) /\ catalog \subseteq Rows
    BY PageNumber, Offsets DEF PagesTypeInv
  <1>2. /\ \A j \in DOMAIN g : /\ g[j].row \in Matching
                               /\ InPage(a + j, P)
                               /\ a + j \in DOMAIN Tags
                               /\ TagOf(g[j].row) = Tags[a + j]
        /\ \A p \in DOMAIN Tags : InPage(p, P) => p - a \in DOMAIN g
        /\ P = 1 /\ PAGE_SIZE <= Len(Tags) => DOMAIN g = 1 .. PAGE_SIZE
    BY DEF PageFilled
  <1>3. /\ h \in Seq(CardType)
        /\ P = 1 => Collected(h, K, g)
        /\ P # 1 => h = g
    BY GridLeft
  <1>4. \A p, q \in DOMAIN Tags : Tags[p] = Tags[q] => p = q
    BY <1>1, TagsFacts
  <1>t. DOMAIN Tags \subseteq Nat
    BY MatchingCount
  <1> HIDE DEF a
  <1>5. \A j \in DOMAIN g : OfPage(g[j], P)
    BY <1>2 DEF OfPage
  <1>6. \A i, j \in DOMAIN g : TagOf(g[i].row) = TagOf(g[j].row) => i = j
    <2> TAKE i, j \in DOMAIN g
    <2> HAVE TagOf(g[i].row) = TagOf(g[j].row)
    <2>1. a + i = a + j
      BY <1>2, <1>4
    <2>2. i \in Nat /\ j \in Nat
      BY <1>1
    <2> QED
      BY <1>1, <2>1, <2>2
  <1>7. \A p \in DOMAIN Tags : InPage(p, P) => \E j \in DOMAIN g : TagOf(g[j].row) = Tags[p]
    <2> TAKE p \in DOMAIN Tags
    <2> HAVE InPage(p, P)
    <2>1. a + (p - a) = p
      BY <1>1, <1>t
    <2>2. p - a \in DOMAIN g /\ TagOf(g[p - a].row) = Tags[p]
      BY <1>2, <2>1
    <2> QED
      BY <2>2
  <1>8. NewPage.grid = h /\ NewPage.total = total
        /\ NewPage.shelves = IF P = 1 THEN Shelved ELSE {}
    BY DEF NewPage
  <1> HIDE DEF P, g, h
  <1>9. CASE P # 1
    <2>1. \A p \in DOMAIN Tags : InPage(p, P) => \E j \in DOMAIN h : TagOf(h[j].row) = Tags[p]
      BY <1>3, <1>7, <1>9
    <2>2. PageShown(NewPage, P)
      BY <1>3, <1>5, <1>6, <1>8, <1>9, <2>1 DEF PageShown
    <2> QED
      BY <2>2 DEF P
  <1>10. CASE P = 1
    <2>1. /\ \A j \in DOMAIN h : \E k \in K : h[j] = g[k]
          /\ \A k \in K : \E j \in DOMAIN h : h[j] = g[k]
          /\ (\A j, k \in K : g[j] = g[k] => j = k) => \A i, j \in DOMAIN h : h[i] = h[j] => i = j
      BY <1>3, <1>10 DEF Collected
    <2>2. \A k \in K : k \in DOMAIN g
      OBVIOUS
    <2>3. \A j \in DOMAIN g : j \in K \/ g[j].row.id \in Shelved
      OBVIOUS
    <2> HIDE DEF K
    <2>4. \A j \in DOMAIN h : OfPage(h[j], P)
      BY <1>5, <2>1, <2>2
    <2>5. \A i, j \in DOMAIN h : h[i] = h[j] => i = j
      BY <1>6, <2>1, <2>2
    <2>6. \A i, j \in DOMAIN h : TagOf(h[i].row) = TagOf(h[j].row) => i = j
      BY <1>6, <2>1, <2>2, <2>5
    <2>7. ASSUME NEW p \in DOMAIN Tags, InPage(p, P)
          PROVE  (\E j \in DOMAIN h : TagOf(h[j].row) = Tags[p]) \/ OnShelf(Shelved, Tags[p])
      <3>1. PICK j \in DOMAIN g : TagOf(g[j].row) = Tags[p]
        BY <1>7, <2>7
      <3>2. CASE j \in K
        BY <2>1, <3>1, <3>2
      <3>3. CASE g[j].row.id \in Shelved
        <4>1. filter = Browse
          BY <3>3, ShelvedFew
        <4>2. g[j].row \in Matching /\ g[j].row.key = Tags[p]
          BY <1>2, <3>1, <4>1 DEF TagOf
        <4> QED
          BY <3>3, <4>1, <4>2 DEF OnShelf
      <3> QED
        BY <2>3, <3>2, <3>3
    <2>8. ASSUME h = <<>> PROVE Len(Tags) < PAGE_SIZE
      <3>1. DOMAIN h = {}
        BY <2>8
      <3>2. \A k \in DOMAIN g : g[k].row.id \in Shelved
        BY <2>1, <2>3, <3>1
      <3>3. ~ DOMAIN g = 1 .. PAGE_SIZE
        BY <1>1, <1>6, <3>2, SomeCardLeft DEF g
      <3>4. Len(Tags) \in Nat /\ PAGE_SIZE \in Nat
        BY PagesConstants, MatchingCount
      <3> QED
        BY <1>2, <1>10, <3>3, <3>4 DEF g, P
    <2>9. PageShown(NewPage, P)
      BY <1>8, <1>10, <2>4, <2>6, <2>7, <2>8 DEF PageShown
    <2> QED
      BY <2>9 DEF P
  <1> QED
    BY <1>9, <1>10

LEMMA RendersStep == PagesInv /\ Renders => PagesInv'
  <1> SUFFICES ASSUME PagesInv, Renders PROVE PagesInv'
    OBVIOUS
  <1>0. PagesTypeInv /\ ShelvesInv /\ WalkInv /\ SteadyInv /\ StandInv
    BY DEF PagesInv
  <1> DEFINE n == Len(walk)
             W == NewPage
  <1>1. /\ UNCHANGED <<catalog, ties, filter>> /\ stood' = stood /\ pc = "render" /\ pc' = "idle"
        /\ walk' = Append(walk, W) /\ total' = 0 /\ groups' = <<>> /\ fid' = 1
        /\ featured' = <<>> /\ ranked' = <<>> /\ top' = <<>> /\ random_apps' = <<>>
    BY DEF Renders, NewPage
  <1>2. n \in Nat /\ DOMAIN walk = 1 .. n /\ PageNo = n + 1 /\ PageNo \in Nat \ {0}
    BY <1>0, PageNumber
  <1>3. DOMAIN <<>> = {} /\ Len(<<>>) = 0
    OBVIOUS
  <1>4. W \in PageType
    <2>1. Grid \in Seq(CardType) /\ Shelved \subseteq Nat /\ total \in Nat
      BY <1>0, GridLeft, ShelvedFew DEF PagesTypeInv
    <2> QED
      BY <2>1 DEF NewPage, PageType
  <1>5. W.next <=> W.grid # <<>> /\ PageNo < PageCount(W.total)
    BY DEF NewPage
  <1> HIDE DEF W
  <1>6. /\ walk' \in Seq(PageType) /\ Len(walk') = n + 1 /\ DOMAIN walk' = 1 .. n + 1
        /\ \A i \in 1 .. n : walk'[i] = walk[i]
        /\ walk'[n + 1] = W
    <2>1. walk \in Seq(PageType)
      BY <1>0 DEF PagesTypeInv
    <2> QED
      BY <1>1, <1>4, <2>1
  <1>7. \A i \in 1 .. n + 1 : i \in 1 .. n \/ i = n + 1
    BY <1>2
  <1>8. \A i \in 1 .. n : i < n + 1 /\ i # n + 1
    BY <1>2
  <1>9. PagesTypeInv'
    BY <1>0, <1>1, <1>6 DEF PagesTypeInv
  <1>10. ShelvesInv'
    <2>1. IdsOf(featured)' = {} /\ IdsOf(top)' = {}
      BY <1>1, <1>3 DEF IdsOf
    <2>2. Len(ranked') = 0 /\ Len(random_apps') = 0
      BY <1>1, <1>3
    <2>3. Top \in Nat /\ Shelf \in Nat
      BY PagesConstants
    <2> QED
      BY <1>1, <2>1, <2>2, <2>3 DEF ShelvesInv
  <1>11. WalkInv'
    <2>1. /\ \A i \in 1 .. n : walk[i].next
          /\ \A i \in 1 .. n : walk[i].next <=> walk[i].grid # <<>> /\ i < PageCount(walk[i].total)
      BY <1>0, <1>1, <1>2 DEF WalkInv
    <2>2. \A i \in 1 .. n + 1 : i < n + 1 => walk'[i].next
      BY <1>2, <1>6, <1>7, <2>1
    <2>3. ASSUME NEW i \in 1 .. n + 1
          PROVE  walk'[i].next <=> walk'[i].grid # <<>> /\ i < PageCount(walk'[i].total)
      <3>1. CASE i \in 1 .. n
        BY <1>6, <2>1, <3>1
      <3>2. CASE i = n + 1
        BY <1>2, <1>5, <1>6, <3>2
      <3> QED
        BY <1>7, <3>1, <3>2
    <2> QED
      BY <1>1, <1>6, <2>2, <2>3 DEF WalkInv
  <1>12. SteadyInv'
    <2>1. \A w, page : PageShown(w, page)' <=> PageShown(w, page)
      BY <1>1, SameCatalog
    <2>2. Steady' <=> Steady
      BY <1>1 DEF Steady
    <2>3. ASSUME Steady, NEW i \in 1 .. n + 1 PROVE PageShown(walk'[i], i)
      <3>1. CASE i \in 1 .. n
        BY <1>0, <1>2, <1>6, <2>3, <3>1 DEF SteadyInv
      <3>2. CASE i = n + 1
        <4>1. total = Len(Tags) /\ PageFilled(groups, PageNo)
          BY <1>0, <1>1, <2>3 DEF SteadyInv
        <4>2. PageShown(W, PageNo)
          BY <1>0, <4>1, NewPageShown DEF W
        <4> QED
          BY <1>2, <1>6, <3>2, <4>2
      <3> QED
        BY <1>7, <3>1, <3>2
    <2>4. ASSUME Steady, NEW i \in 1 .. n + 1 PROVE PageShown(walk[i], i)'
      <3>1. PICK w : w = walk'[i]
        OBVIOUS
      <3>2. PageShown(w, i)'
        BY <2>1, <2>3, <2>4, <3>1
      <3> QED
        BY <3>1, <3>2
    <2> QED
      BY <1>1, <1>6, <2>2, <2>4 DEF SteadyInv
  <1>13. StandInv'
    BY <1>1, <1>3 DEF StandInv
  <1> QED
    BY <1>9, <1>10, <1>11, <1>12, <1>13 DEF PagesInv

LEMMA CrawlsStep == PagesInv /\ (\E b \in Bacari : Crawls(b)) => PagesInv'
  <1> SUFFICES ASSUME PagesInv, NEW b \in Bacari, Crawls(b) PROVE PagesInv'
    OBVIOUS
  <1>0. PagesTypeInv /\ ShelvesInv /\ WalkInv
    BY DEF PagesInv
  <1>1. UNCHANGED <<filter, pc, total, groups, fid, featured, ranked, top, random_apps, walk>>
        /\ stood' = FALSE
    BY DEF Crawls, locals
  <1>2. catalog' \subseteq Rows
    BY <1>0 DEF Crawls, PagesTypeInv
  <1>3. PagesTypeInv'
    BY <1>0, <1>1, <1>2 DEF PagesTypeInv
  <1>4. ShelvesInv'
    <2>1. IdsOf(featured)' = IdsOf(featured) /\ IdsOf(top)' = IdsOf(top)
      BY <1>1 DEF IdsOf
    <2> QED
      BY <1>0, <1>1, <2>1 DEF ShelvesInv
  <1>5. WalkInv'
    BY <1>0, <1>1 DEF WalkInv
  <1>6. SteadyInv' /\ StandInv'
    BY <1>1 DEF SteadyInv, Steady, StandInv
  <1> QED
    BY <1>3, <1>4, <1>5, <1>6 DEF PagesInv

LEMMA PagesStutter == PagesInv /\ UNCHANGED page_vars => PagesInv'
  <1> SUFFICES ASSUME PagesInv, UNCHANGED page_vars PROVE PagesInv'
    OBVIOUS
  <1>0. PagesTypeInv /\ ShelvesInv /\ WalkInv /\ SteadyInv /\ StandInv
    BY DEF PagesInv
  <1>1. UNCHANGED <<catalog, ties, filter, pc, total, groups, fid, featured, ranked, top,
                    random_apps, walk, stood>>
    BY DEF page_vars
  <1>2. PagesTypeInv'
    BY <1>0, <1>1 DEF PagesTypeInv
  <1>3. ShelvesInv'
    <2>1. IdsOf(featured)' = IdsOf(featured) /\ IdsOf(top)' = IdsOf(top)
      BY <1>1 DEF IdsOf
    <2> QED
      BY <1>0, <1>1, <2>1 DEF ShelvesInv
  <1>4. WalkInv'
    BY <1>0, <1>1 DEF WalkInv
  <1>5. SteadyInv'
    <2>1. /\ Matching' = Matching /\ Tags' = Tags
          /\ \A w, page : PageShown(w, page)' <=> PageShown(w, page)
          /\ \A g, page : PageFilled(g, page)' <=> PageFilled(g, page)
      BY <1>1, SameCatalog
    <2>2. (Steady' <=> Steady) /\ PageNo' = PageNo
      BY <1>1 DEF Steady, PageNo
    <2>3. (total' = total /\ pc' = pc /\ walk' = walk)
          /\ (PageFilled(groups, PageNo)' <=> PageFilled(groups, PageNo))
      <3>1. PageFilled(groups, PageNo)' <=> PageFilled(groups, PageNo)
        <4>1. PICK g, k : g = groups' /\ k = PageNo'
          OBVIOUS
        <4>2. PageFilled(g, k)' <=> PageFilled(g, k)
          BY <2>1
        <4> QED
          BY <1>1, <2>2, <4>1, <4>2
      <3> QED
        BY <1>1, <3>1
    <2>4. (\A i \in DOMAIN walk : PageShown(walk[i], i))'
          <=> (\A i \in DOMAIN walk : PageShown(walk[i], i))
      BY <1>1, <2>1
    <2> QED
      BY <1>0, <2>1, <2>2, <2>3, <2>4 DEF SteadyInv
  <1>6. StandInv'
    BY <1>0, <1>1 DEF StandInv, Stands
  <1> QED
    BY <1>2, <1>3, <1>4, <1>5, <1>6 DEF PagesInv

LEMMA PagesInvHolds == PagesSpec => []PagesInv
  <1>1. ASSUME PagesInv, [PagesNext]_page_vars PROVE PagesInv'
    BY <1>1, OpensStep, TurnsStep, CountsStep, ReadsRowsStep, GetsFeaturedStep, RanksStep,
       GetsTopStep, SamplesStep, RendersStep, CrawlsStep, PagesStutter DEF PagesNext
  <1> QED
    BY PagesInvInit, <1>1, PTL DEF PagesSpec

\* A card stands for the copy closest to the author, and names the copies that
\* the app's page names.
THEOREM CardsStand == PagesSpec => []CardsStandForCopies
  <1>1. PagesInv => CardsStandForCopies
    <2> SUFFICES ASSUME PagesInv, NEW i \in DOMAIN groups, filter = Browse, stood, unkeyed = {}
                 PROVE  LET twins == {t \in Twins(groups[i].row, catalog) : ~ Hidden(t)}
                        IN  /\ groups[i].also_in = {t.id : t \in twins}
                            /\ \A t \in twins : Rank[groups[i].row.bacaro] <= Rank[t.bacaro]
      BY DEF CardsStandForCopies
    <2>1. Stands(groups[i])
      BY DEF PagesInv, StandInv
    <2>2. \A r : KeyColumn(r) = r.key
      BY DEF KeyColumn
    <2>3. {t \in Twins(groups[i].row, catalog) : ~ Hidden(t)}
            = {t \in catalog : t.key = groups[i].row.key /\ t.id # groups[i].row.id /\ ~ Hidden(t)}
      BY <2>2 DEF Twins
    <2> QED
      BY <2>1, <2>3 DEF Stands
  <1> QED
    BY <1>1, PagesInvHolds, PTL

-----------------------------------------------------------------------------
(* All pages together.                                                     *)

LEMMA PagesNeeded ==
    ASSUME NEW n \in Nat, NEW k \in Nat, NEW P \in Nat \ {0}
    PROVE  /\ ~ k < (n + P - 1) \div P => n <= k * P
           /\ k < (n + P - 1) \div P => k * P < n
  OBVIOUS

LEMMA NextProduct ==
    ASSUME NEW k \in Nat \ {0}, NEW P \in Nat
    PROVE  (k - 1) * P \in Nat /\ (k - 1) * P + P = k * P
  OBVIOUS

\* A place up to the end of page n is on one of the pages 1 .. n, and on no other.
LEMMA OnSomePage ==
    ASSUME NEW n \in Nat
    PROVE  \A p \in Nat \ {0} : p <= n * PAGE_SIZE => \E k \in 1 .. n : InPage(p, k)
  <1> DEFINE P == PAGE_SIZE
             H == {m \in 0 .. n : \A p \in Nat \ {0} : p <= m * P => \E k \in 1 .. m : InPage(p, k)}
  <1>1. P \in Nat \ {0}
    BY PagesConstants
  <1>2. 0 \in H
    <2>1. 0 * P = 0 /\ 0 \in 0 .. n
      BY <1>1
    <2> QED
      BY <2>1
  <1>3. ASSUME NEW m \in 1 .. n, m - 1 \in H PROVE m \in H
    <2>1. m \in 0 .. n /\ m \in Nat \ {0} /\ m \in 1 .. m
      OBVIOUS
    <2>2. \A k \in 1 .. m - 1 : k \in 1 .. m
      OBVIOUS
    <2>3. Offset(m) = (m - 1) * P /\ Offset(m) \in Nat /\ Offset(m) + P = m * P
      BY <2>1, Offsets DEF Offset
    <2>4. \A p \in Nat \ {0} : p <= Offset(m) => \E k \in 1 .. m - 1 : InPage(p, k)
      BY <1>3, <2>3
    <2>5. ASSUME NEW p \in Nat \ {0}, p <= Offset(m) + P PROVE \E k \in 1 .. m : InPage(p, k)
      <3>1. CASE p <= Offset(m)
        BY <2>2, <2>4, <3>1
      <3>2. CASE Offset(m) < p
        BY <2>1, <2>5, <3>2 DEF InPage
      <3> QED
        BY <2>3, <3>1, <3>2
    <2> QED
      BY <2>1, <2>3, <2>5
  <1>4. n \in H
    <2> HIDE DEF H
    <2>1. \A m \in 0 .. n : m \in H
      BY <1>2, <1>3, UpTo
    <2> QED
      BY <2>1
  <1> QED
    BY <1>4

LEMMA OnOnePage ==
    ASSUME NEW p \in Nat, NEW k \in Nat \ {0}, NEW m \in Nat \ {0}, InPage(p, k), InPage(p, m)
    PROVE  k = m
  <1>1. /\ Offset(k) \in Nat /\ Offset(m) \in Nat /\ PAGE_SIZE \in Nat
        /\ k < m => Offset(k) + PAGE_SIZE <= Offset(m)
        /\ m < k => Offset(m) + PAGE_SIZE <= Offset(k)
    BY Offsets
  <1> QED
    BY <1>1 DEF InPage

\* The walk is at its end.
Ended == pc = "idle" /\ walk # <<>> /\ ~ Last(walk).next

LEMMA EndOfWalk ==
    ASSUME PagesInv, Steady, Ended
    PROVE  /\ Len(walk) \in Nat \ {0} /\ DOMAIN walk = 1 .. Len(walk)
           /\ Last(walk).total = Len(Tags)
           /\ \A p \in DOMAIN Tags : \E k \in DOMAIN walk : InPage(p, k)
  <1> DEFINE n == Len(walk)
             t == Len(Tags)
             P == PAGE_SIZE
  <1>0. PagesTypeInv /\ WalkInv /\ SteadyInv
    BY DEF PagesInv
  <1>1. n \in Nat \ {0} /\ DOMAIN walk = 1 .. n /\ n \in 1 .. n
    BY <1>0 DEF Ended, PagesTypeInv
  <1>2. \A i \in 1 .. n : PageShown(walk[i], i)
    BY <1>0, <1>1 DEF SteadyInv
  <1>3. t \in Nat /\ DOMAIN Tags = 1 .. t
    BY <1>0, MatchingCount
  <1>4. P \in Nat \ {0}
    BY PagesConstants
  <1>5. \A i \in 1 .. n : walk[i].total = t
    BY <1>2 DEF PageShown
  <1>6. /\ Last(walk) = walk[n] /\ ~ walk[n].next
        /\ \A i \in 1 .. n : walk[i].next <=> walk[i].grid # <<>> /\ i < PageCount(t)
        /\ \A i \in 1 .. n : i < n => walk[i].next
    BY <1>0, <1>1, <1>5 DEF Ended, WalkInv, Last
  <1> HIDE DEF n, t
  <1>7. t <= n * P
    <2>1. CASE ~ n < PageCount(t)
      BY <1>1, <1>3, <1>4, <2>1, PagesNeeded DEF PageCount
    <2>2. CASE walk[n].grid = <<>> /\ n = 1
      <3>1. t < P
        BY <1>1, <1>2, <2>2 DEF PageShown, t
      <3>2. 1 * P = P
        BY <1>4
      <3> QED
        BY <1>3, <1>4, <2>2, <3>1, <3>2
    <2>3. CASE walk[n].grid = <<>> /\ n # 1
      <3>1. n - 1 \in 1 .. n /\ n - 1 \in Nat /\ n - 1 < n
        BY <1>1, <2>3
      <3>2. n - 1 < PageCount(t)
        BY <1>6, <3>1
      <3>3. (n - 1) * P < t
        BY <1>3, <1>4, <3>1, <3>2, PagesNeeded DEF PageCount
      <3> DEFINE p == Offset(n) + 1
      <3>4. Offset(n) = (n - 1) * P /\ Offset(n) \in Nat
        BY <1>1, Offsets DEF Offset
      <3>5. p \in 1 .. t /\ InPage(p, n)
        BY <1>3, <1>4, <3>3, <3>4 DEF InPage
      <3> HIDE DEF p
      <3>6. \E j \in DOMAIN walk[n].grid : TagOf(walk[n].grid[j].row) = Tags[p]
        BY <1>1, <1>2, <1>3, <2>3, <3>5 DEF PageShown
      <3> QED
        BY <2>3, <3>6
    <2> QED
      BY <1>1, <1>6, <2>1, <2>2, <2>3
  <1>8. \A p \in 1 .. t : \E k \in 1 .. n : InPage(p, k)
    <2>1. n * P \in Nat
      BY <1>1, <1>4
    <2>2. \A p \in 1 .. t : p \in Nat \ {0} /\ p <= n * P
      BY <1>3, <1>7, <2>1
    <2> QED
      BY <1>1, <2>2, OnSomePage
  <1> QED
    BY <1>1, <1>3, <1>5, <1>6, <1>8 DEF n, t

\* What the pages of a walk that has ended hold.
LEMMA AllShown ==
    ASSUME PagesInv, Steady, Ended
    PROVE  /\ \A q \in CardPlaces : RowAt(q) \in Matching /\ RowAt(q).id \in Shown
           /\ \A p, q \in CardPlaces : TagOf(RowAt(p)) = TagOf(RowAt(q)) => p = q
           /\ \A r \in Matching :
                \/ \E q \in CardPlaces : TagOf(RowAt(q)) = TagOf(r)
                \/ filter = Browse /\ \E s \in Matching : s.id \in Shown /\ s.key = TagOf(r)
           /\ Last(walk).total = Len(Tags)
  <1>0. PagesTypeInv /\ SteadyInv /\ catalog \subseteq Rows
    BY DEF PagesInv, PagesTypeInv
  <1>1. /\ Len(walk) \in Nat \ {0} /\ DOMAIN walk = 1 .. Len(walk)
        /\ Last(walk).total = Len(Tags)
        /\ \A p \in DOMAIN Tags : \E k \in DOMAIN walk : InPage(p, k)
    BY EndOfWalk
  <1>2. \A k \in DOMAIN walk : PageShown(walk[k], k)
    BY <1>0 DEF SteadyInv
  <1>3. /\ \A p, q \in DOMAIN Tags : Tags[p] = Tags[q] => p = q
        /\ \A r \in Matching : \E p \in DOMAIN Tags : Tags[p] = TagOf(r)
    BY <1>0, TagsFacts
  <1>4. DOMAIN Tags \subseteq Nat
    BY <1>0, MatchingCount
  <1>5. \A q : q \in CardPlaces <=> \E k \in DOMAIN walk : \E j \in DOMAIN walk[k].grid : q = <<k, j>>
    BY DEF CardPlaces
  <1>6. \A k \in DOMAIN walk : \A j \in DOMAIN walk[k].grid :
           <<k, j>> \in CardPlaces /\ RowAt(<<k, j>>) = walk[k].grid[j].row
    BY <1>5 DEF RowAt
  <1>7. ASSUME NEW q \in CardPlaces PROVE RowAt(q) \in Matching /\ RowAt(q).id \in Shown
    <2>1. PICK k \in DOMAIN walk : \E j \in DOMAIN walk[k].grid : q = <<k, j>>
      BY <1>5
    <2>2. PICK j \in DOMAIN walk[k].grid : q = <<k, j>>
      BY <2>1
    <2>3. RowAt(q) = walk[k].grid[j].row
      BY <2>2 DEF RowAt
    <2>4. OfPage(walk[k].grid[j], k)
      BY <1>2 DEF PageShown
    <2> QED
      BY <2>3, <2>4 DEF OfPage, Shown
  <1>8. ASSUME NEW q \in CardPlaces, NEW q2 \in CardPlaces, TagOf(RowAt(q)) = TagOf(RowAt(q2))
        PROVE  q = q2
    <2>1. PICK k \in DOMAIN walk : \E j \in DOMAIN walk[k].grid : q = <<k, j>>
      BY <1>5
    <2>2. PICK j \in DOMAIN walk[k].grid : q = <<k, j>>
      BY <2>1
    <2>3. PICK k2 \in DOMAIN walk : \E j2 \in DOMAIN walk[k2].grid : q2 = <<k2, j2>>
      BY <1>5
    <2>4. PICK j2 \in DOMAIN walk[k2].grid : q2 = <<k2, j2>>
      BY <2>3
    <2>5. RowAt(q) = walk[k].grid[j].row /\ RowAt(q2) = walk[k2].grid[j2].row
      BY <2>2, <2>4 DEF RowAt
    <2>6. OfPage(walk[k].grid[j], k) /\ OfPage(walk[k2].grid[j2], k2)
      BY <1>2 DEF PageShown
    <2>7. PICK p \in DOMAIN Tags : InPage(p, k) /\ TagOf(RowAt(q)) = Tags[p]
      BY <2>5, <2>6 DEF OfPage
    <2>8. PICK p2 \in DOMAIN Tags : InPage(p2, k2) /\ TagOf(RowAt(q2)) = Tags[p2]
      BY <2>5, <2>6 DEF OfPage
    <2>9. p = p2
      BY <1>3, <1>8, <2>7, <2>8
    <2>10. k = k2
      BY <1>1, <1>4, <2>7, <2>8, <2>9, OnOnePage
    <2>11. j = j2
      BY <1>2, <1>8, <2>5, <2>10 DEF PageShown
    <2> QED
      BY <2>2, <2>4, <2>10, <2>11
  <1>9. ASSUME NEW r \in Matching
        PROVE  \/ \E q \in CardPlaces : TagOf(RowAt(q)) = TagOf(r)
               \/ filter = Browse /\ \E s \in Matching : s.id \in Shown /\ s.key = TagOf(r)
    <2>1. PICK p \in DOMAIN Tags : Tags[p] = TagOf(r)
      BY <1>3
    <2>2. PICK k \in DOMAIN walk : InPage(p, k)
      BY <1>1
    <2>3. \/ \E j \in DOMAIN walk[k].grid : TagOf(walk[k].grid[j].row) = Tags[p]
          \/ OnShelf(walk[k].shelves, Tags[p])
      BY <1>2, <2>2 DEF PageShown
    <2>4. CASE \E j \in DOMAIN walk[k].grid : TagOf(walk[k].grid[j].row) = Tags[p]
      BY <1>6, <2>1, <2>4
    <2>5. CASE OnShelf(walk[k].shelves, Tags[p])
      <3>1. \A i \in walk[k].shelves : i \in Shown
        BY DEF Shown
      <3> QED
        BY <2>1, <2>5, <3>1 DEF OnShelf
    <2> QED
      BY <2>3, <2>4, <2>5
  <1> QED
    BY <1>1, <1>7, <1>8, <1>9

\* Whoever follows the pages to their end has seen every app, each on one card.
THEOREM PagesShowAll == PagesSpec => []EachAppOnce
  <1>1. PagesInv => EachAppOnce
    <2> SUFFICES ASSUME PagesInv, Ended, stood
                 PROVE  EachAppOnce
      BY DEF EachAppOnce, Ended
    <2>0. catalog \subseteq Rows
      BY DEF PagesInv, PagesTypeInv
    <2>1. CASE filter = Browse
      <3>1. Steady
        BY <2>1 DEF Steady
      <3>2. \A r : TagOf(r) = r.key
        BY <2>1 DEF TagOf
      <3>3. /\ \A q \in CardPlaces : RowAt(q) \in Matching /\ RowAt(q).id \in Shown
            /\ \A p, q \in CardPlaces : RowAt(p).key = RowAt(q).key => p = q
            /\ \A r \in Matching :
                 \/ \E q \in CardPlaces : RowAt(q).key = r.key
                 \/ \E s \in Matching : s.id \in Shown /\ s.key = r.key
            /\ Last(walk).total = Len(Tags)
        BY <3>1, <3>2, AllShown
      <3>4. Len(Tags) = Cardinality({r.key : r \in Matching})
        BY <2>0, <2>1, TagsFacts
      <3>5. ASSUME NEW r \in Matching
            PROVE  \E i \in Shown : \E s \in catalog : s.id = i /\ s.key = r.key
        <4>1. PICK s \in Matching : s.id \in Shown /\ s.key = r.key
          BY <3>3
        <4>2. s \in catalog
          BY DEF Matching
        <4> QED
          BY <4>1, <4>2
      <3> QED
        BY <2>1, <3>3, <3>4, <3>5 DEF EachAppOnce
    <2>2. CASE filter # Browse /\ ties # "any"
      <3>1. Steady
        BY <2>2 DEF Steady
      <3>2. \A r : TagOf(r) = r
        BY <2>2 DEF TagOf
      <3>3. /\ \A q \in CardPlaces : RowAt(q) \in Matching
            /\ \A p, q \in CardPlaces : RowAt(p) = RowAt(q) => p = q
            /\ \A r \in Matching : \E q \in CardPlaces : RowAt(q) = r
            /\ Last(walk).total = Len(Tags)
        BY <2>2, <3>1, <3>2, AllShown
      <3>4. Len(Tags) = Cardinality(Matching)
        BY <2>0, <2>2, TagsFacts
      <3>5. {RowAt(q) : q \in CardPlaces} = Matching
        BY <3>3
      <3> QED
        BY <2>2, <3>3, <3>4, <3>5 DEF EachAppOnce
    <2>3. CASE filter # Browse /\ ties = "any"
      BY <2>3 DEF EachAppOnce
    <2> QED
      BY <2>1, <2>2, <2>3
  <1> QED
    BY <1>1, PagesInvHolds, PTL

-----------------------------------------------------------------------------
(* The lists in the browser.                                               *)
Id       == Apps \cup {""}
Given    == [who : People, ver : Nat]
Tab      == [page : Pages, app : Id, view : {"", "need_login", "list"}, items : SUBSET Id,
             disabled : BOOLEAN, calm : BOOLEAN]
Flight   == [no : Nat, tab : Tabs, op : {"login", "logout", "load", "add", "remove"},
             token : Given, app : Id, heard : BOOLEAN,
             status : {"sent", "200", "401", "lost"}, items : SUBSET Id]

BrowserTypeInv ==
    /\ token \in Given \cup {NoToken}
    /\ version \in [People -> Nat]
    /\ lib \in [People -> SUBSET Id]
    /\ tabs \in [Tabs -> Tab]
    /\ flights \subseteq Flight
    /\ xhrs \in Nat

\* An answer is heard on the page that asks such a thing.
PageOfOp == [login |-> "login", load |-> "library", remove |-> "library", add |-> "app",
             logout |-> ""]
HeardInv == \A f \in flights : f.heard => tabs[f.tab].page = PageOfOp[f.op]

\* On a library page where nothing came between, one answer at most is due: to a
\* request of the one who is logged in; the list it brings is theirs, and so is the
\* one that is shown when none is due.
Calm(page, due, tok, libs) ==
    page.page = "library" /\ page.calm =>
      /\ \A f, g \in due : f = g
      /\ \A f \in due : /\ f.token = tok /\ tok # NoToken
                        /\ f.op = "load" /\ f.status = "200" => f.items = libs[tok.who]
      /\ page.view = "list" /\ due = {} => tok # NoToken /\ page.items = libs[tok.who]

Hear(fs, t) == {f \in fs : f.tab = t /\ f.heard}

BrowserInv ==
    /\ BrowserTypeInv
    /\ HeardInv
    /\ \A t \in Tabs : Calm(tabs[t], Hear(flights, t), token, lib)

LEMMA HeardNow == \A t \in Tabs : Of(t) = Hear(flights, t)
  BY DEF Of, Hear

\* A step is of one tab: it is enough to look at that one, if the others are as they
\* were or are calm no more.
LEMMA TabStep ==
    ASSUME BrowserInv, BrowserTypeInv', NEW t \in Tabs,
           \A u \in Tabs \ {t} :
              /\ Hear(flights', u) = Hear(flights, u)
              /\ tabs'[u].page = tabs[u].page
              /\ (tabs'[u] = tabs[u] /\ token' = token /\ lib' = lib) \/ ~ tabs'[u].calm,
           \A f \in Hear(flights', t) : tabs'[t].page = PageOfOp[f.op],
           Calm(tabs'[t], Hear(flights', t), token', lib')
    PROVE  BrowserInv'
  <1>1. HeardInv'
    <2> SUFFICES ASSUME NEW f \in flights', f.heard
                 PROVE  tabs'[f.tab].page = PageOfOp[f.op]
      BY DEF HeardInv
    <2>1. f \in Hear(flights', f.tab) /\ f.tab \in Tabs
      BY DEF Hear, BrowserTypeInv, Flight
    <2>2. CASE f.tab # t
      <3>1. f \in Hear(flights, f.tab) /\ tabs'[f.tab].page = tabs[f.tab].page
        BY <2>1, <2>2
      <3>2. f \in flights
        BY <3>1 DEF Hear
      <3> QED
        BY <3>1, <3>2 DEF BrowserInv, HeardInv
    <2> QED
      BY <2>1, <2>2
  <1>2. ASSUME NEW u \in Tabs PROVE Calm(tabs'[u], Hear(flights', u), token', lib')
    <2>1. CASE u # t /\ tabs'[u].calm
      <3>1. /\ Hear(flights', u) = Hear(flights, u)
            /\ tabs'[u] = tabs[u] /\ token' = token /\ lib' = lib
        BY <2>1
      <3>2. Calm(tabs[u], Hear(flights, u), token, lib)
        BY DEF BrowserInv
      <3> QED
        BY <3>1, <3>2
    <2>2. CASE u # t /\ ~ tabs'[u].calm
      BY <2>2 DEF Calm
    <2> QED
      BY <2>1, <2>2
  <1> QED
    BY <1>1, <1>2 DEF BrowserInv

LEMMA HearDeaf ==
    ASSUME BrowserTypeInv, NEW t \in Tabs
    PROVE  /\ Deaf(t) \subseteq Flight
           /\ Hear(Deaf(t), t) = {}
           /\ \A u \in Tabs \ {t} : Hear(Deaf(t), u) = Hear(flights, u)
  <1>1. \A f \in flights : f \in Flight
    BY DEF BrowserTypeInv
  <1>2. ASSUME NEW f \in Flight
        PROVE  [f EXCEPT !.heard = FALSE] \in Flight /\ ~ [f EXCEPT !.heard = FALSE].heard
               /\ [f EXCEPT !.heard = FALSE].tab = f.tab
    BY DEF Flight
  <1>3. \A g \in Deaf(t) : \/ g \in flights /\ g.tab # t
                           \/ g \in Flight /\ g.tab = t /\ ~ g.heard
    BY <1>1, <1>2 DEF Deaf
  <1>4. \A f \in flights : f.tab # t => f \in Deaf(t)
    BY DEF Deaf
  <1> QED
    BY <1>1, <1>3, <1>4 DEF Hear

LEMMA HearNew ==
    ASSUME NEW fs, NEW f \in Flight
    PROVE  /\ f.heard => Hear(fs \cup {f}, f.tab) = Hear(fs, f.tab) \cup {f}
           /\ ~ f.heard => Hear(fs \cup {f}, f.tab) = Hear(fs, f.tab)
           /\ \A u \in Tabs \ {f.tab} : Hear(fs \cup {f}, u) = Hear(fs, u)
  BY DEF Hear

LEMMA HearRest ==
    ASSUME NEW f \in flights
    PROVE  /\ Hear(Rest(f), f.tab) = Hear(flights, f.tab) \ {f}
           /\ \A u \in Tabs \ {f.tab} : Hear(Rest(f), u) = Hear(flights, u)
  BY DEF Hear, Rest

LEMMA NewFlight ==
    ASSUME BrowserTypeInv, NEW t \in Tabs, NEW op \in {"login", "logout", "load", "add", "remove"},
           NEW tok \in Given, NEW app \in Id, NEW heard \in BOOLEAN
    PROVE  New(t, op, tok, app, heard) \in Flight
  BY DEF New, Flight, BrowserTypeInv

LEMMA BlankTab ==
    ASSUME NEW page \in Pages, NEW app \in Id
    PROVE  /\ Blank(page, app) \in Tab /\ Blank(page, app).page = page
           /\ Blank(page, app).view = ""
  BY DEF Blank, Tab

\* A page that opens, or reloads its list, is due the answer to its request alone.
LEMMA LoadsStep ==
    ASSUME BrowserInv, NEW t \in Tabs, NEW tok \in Given \cup {NoToken},
           NEW fs, fs \subseteq Flight,
           NEW all \in [Tabs -> Tab], all[t].page = "library", Hear(fs, t) = {} \/ ~ all[t].calm,
           Loads(t, tok, fs, all)
    PROVE  /\ tabs' \in [Tabs -> Tab] /\ flights' \subseteq Flight /\ xhrs' \in Nat
           /\ \A u \in Tabs \ {t} : tabs'[u] = all[u] /\ Hear(flights', u) = Hear(fs, u)
           /\ tabs'[t].page = "library"
           /\ \A f \in Hear(flights', t) : f \in Hear(fs, t) \/ PageOfOp[f.op] = "library"
           /\ \A libs : Calm(tabs'[t], Hear(flights', t), tok, libs)
  <1>0. BrowserTypeInv /\ xhrs \in Nat
    BY DEF BrowserInv, BrowserTypeInv
  <1>1. CASE tok = NoToken
    <2> DEFINE r == [all[t] EXCEPT !.view = "need_login"]
    <2>1. tabs' = [all EXCEPT ![t] = r] /\ flights' = fs /\ xhrs' = xhrs
      BY <1>1 DEF Loads
    <2>2. r \in Tab /\ r.page = "library" /\ r.view = "need_login"
          /\ (Hear(fs, t) = {} \/ ~ r.calm)
      <3>1. all[t] \in Tab
        OBVIOUS
      <3> QED
        BY <3>1 DEF Tab
    <2> HIDE DEF r
    <2>3. tabs' \in [Tabs -> Tab] /\ tabs'[t] = r /\ \A u \in Tabs \ {t} : tabs'[u] = all[u]
      BY <2>1, <2>2
    <2>4. \A libs : Calm(r, Hear(fs, t), tok, libs)
      BY <2>2 DEF Calm
    <2> QED
      BY <1>0, <2>1, <2>2, <2>3, <2>4
  <1>2. CASE tok # NoToken
    <2> DEFINE f == New(t, "load", tok, "", TRUE)
    <2>1. tabs' = all /\ flights' = fs \cup {f} /\ xhrs' = xhrs + 1
      BY <1>2 DEF Loads, Fires
    <2>2. f \in Flight /\ f.tab = t /\ f.op = "load" /\ f.token = tok /\ f.heard = TRUE
          /\ f.status = "sent"
      <3>1. tok \in Given /\ "" \in Id
        BY <1>2 DEF Id
      <3>2. f \in Flight
        BY <1>0, <3>1, NewFlight
      <3>3. f.tab = t /\ f.op = "load" /\ f.token = tok /\ f.heard = TRUE /\ f.status = "sent"
        BY DEF New
      <3> QED
        BY <3>2, <3>3
    <2> HIDE DEF f
    <2>3. /\ Hear(flights', t) = Hear(fs, t) \cup {f}
          /\ \A u \in Tabs \ {t} : Hear(flights', u) = Hear(fs, u)
      BY <2>1, <2>2 DEF Hear
    <2>4. \A libs : Calm(all[t], Hear(fs, t) \cup {f}, tok, libs)
      BY <1>2, <2>2 DEF Calm
    <2>5. PageOfOp["load"] = "library"
      BY DEF PageOfOp
    <2> QED
      BY <1>0, <2>1, <2>2, <2>3, <2>4, <2>5
  <1> QED
    BY <1>1, <1>2

\* A page that is not the library opens.
LEMMA LeavesStep ==
    ASSUME BrowserInv, NEW t \in Tabs, NEW page \in Pages \ {"library"}, NEW app \in Id,
           tabs' = Opened(t, page, app), flights' = Deaf(t),
           UNCHANGED <<token, version, lib, xhrs>>
    PROVE  BrowserInv'
  <1>0. BrowserTypeInv
    BY DEF BrowserInv
  <1>1. /\ flights' \subseteq Flight /\ Hear(flights', t) = {}
        /\ \A u \in Tabs \ {t} : Hear(flights', u) = Hear(flights, u)
    BY <1>0, HearDeaf
  <1>2. Blank(page, app) \in Tab /\ Blank(page, app).page = page
    BY BlankTab
  <1>3. tabs' \in [Tabs -> Tab] /\ tabs'[t] = Blank(page, app)
        /\ \A u \in Tabs \ {t} : tabs'[u] = tabs[u]
    BY <1>0, <1>2 DEF Opened, BrowserTypeInv
  <1>4. BrowserTypeInv'
    BY <1>0, <1>1, <1>3 DEF BrowserTypeInv
  <1>5. Calm(tabs'[t], Hear(flights', t), token', lib')
    BY <1>2, <1>3 DEF Calm
  <1> QED
    BY <1>1, <1>3, <1>4, <1>5, TabStep

\* A page whose handlers find a request answered, or that sends one, keeps the rest.
LEMMA ClickStep ==
    ASSUME BrowserInv, NEW t \in Tabs, NEW f \in Flight, f.tab = t, f.heard,
           f.status = "sent", tabs[t].page = PageOfOp[f.op],
           tabs[t].page = "library" => f.token = token /\ token # NoToken,
           NEW fields \in Tab, fields.page = tabs[t].page,
           tabs' = Clicked(t, fields), flights' = flights \cup {f}, xhrs' = xhrs + 1,
           UNCHANGED <<token, version, lib>>
    PROVE  BrowserInv'
  <1>0. BrowserTypeInv
    BY DEF BrowserInv
  <1> DEFINE r == [fields EXCEPT !.calm = @ /\ Of(t) = {}]
  <1>1. r \in Tab /\ r.page = fields.page
    BY DEF Tab
  <1>2. r.calm => Of(t) = {}
    BY DEF Tab
  <1> HIDE DEF r
  <1>3. tabs' \in [Tabs -> Tab] /\ tabs'[t] = r /\ \A u \in Tabs \ {t} : tabs'[u] = tabs[u]
    <2>1. tabs' = [tabs EXCEPT ![t] = r]
      BY DEF Clicked, r
    <2> QED
      BY <1>0, <1>1, <2>1 DEF BrowserTypeInv
  <1>4. /\ Hear(flights', t) = Hear(flights, t) \cup {f}
        /\ \A u \in Tabs \ {t} : Hear(flights', u) = Hear(flights, u)
    BY DEF Hear
  <1>5. BrowserTypeInv'
    BY <1>0, <1>3 DEF BrowserTypeInv
  <1>6. Calm(tabs'[t], Hear(flights', t), token', lib')
    BY <1>1, <1>2, <1>3, <1>4, HeardNow DEF Calm
  <1>7. \A g \in Hear(flights', t) : tabs'[t].page = PageOfOp[g.op]
    BY <1>1, <1>3, <1>4 DEF Hear, BrowserInv, HeardInv
  <1> QED
    BY <1>3, <1>4, <1>5, <1>6, <1>7, TabStep

\* The answer to f is due to its page, if that is still there.
AnswerOf(f, tok, status, items) ==
    /\ flights' \subseteq Flight
    /\ \A u \in Tabs \ {f.tab} : Hear(flights', u) = Hear(flights, u)
    /\ ~ f.heard => Hear(flights', f.tab) = Hear(flights, f.tab)
    /\ f.heard => \E g \in Flight :
          /\ Hear(flights', f.tab) = (Hear(flights, f.tab) \ {f}) \cup {g}
          /\ g.op = f.op /\ g.token = tok /\ g.status = status /\ g.items = items

LEMMA AnswerDue ==
    ASSUME BrowserTypeInv, NEW f \in flights, NEW tok \in Given,
           NEW status \in {"200", "401", "lost"}, NEW items \in SUBSET Id,
           Answered(f, status, items, tok)
    PROVE  AnswerOf(f, tok, status, items)
  <1> DEFINE g == [f EXCEPT !.status = status, !.items = items, !.token = tok]
  <1>0. f \in Flight /\ flights \subseteq Flight
    BY DEF BrowserTypeInv
  <1>1. g \in Flight
    BY <1>0 DEF Flight
  <1>2. /\ g.tab = f.tab /\ g.heard = f.heard /\ g.op = f.op
        /\ g.token = tok /\ g.status = status /\ g.items = items
    BY <1>0 DEF Flight
  <1>3. flights' = (flights \ {f}) \cup IF f.heard THEN {g} ELSE {}
    BY DEF Answered
  <1> HIDE DEF g
  <1>4. CASE f.heard
    <2>1. flights' = (flights \ {f}) \cup {g}
      BY <1>3, <1>4
    <2>2. \A u \in Tabs \ {f.tab} : Hear(flights', u) = Hear(flights, u)
      BY <1>2, <2>1 DEF Hear
    <2>3. Hear(flights', f.tab) = (Hear(flights, f.tab) \ {f}) \cup {g}
      BY <1>2, <1>4, <2>1 DEF Hear
    <2> QED
      BY <1>0, <1>1, <1>2, <1>4, <2>1, <2>2, <2>3 DEF AnswerOf
  <1>5. CASE ~ f.heard
    <2>1. flights' = flights \ {f}
      BY <1>3, <1>5
    <2> QED
      BY <1>0, <1>5, <2>1 DEF Hear, AnswerOf
  <1> QED
    BY <1>4, <1>5

LEMMA ServedStep ==
    ASSUME BrowserInv, NEW f \in flights, NEW tok \in Given,
           NEW status \in {"200", "401", "lost"}, NEW items \in SUBSET Id,
           Answered(f, status, items, tok),
           f.op # "login" => tok = f.token,
           f.op = "load" /\ status = "200" => items = lib[f.token.who],
           token' = token, xhrs' = xhrs, version' \in [People -> Nat],
           lib' \in [People -> SUBSET Id],
           (tabs' = tabs /\ lib' = lib) \/ (tabs' = Disturbs(f) /\ f.op # "load")
    PROVE  BrowserInv'
  <1> DEFINE t == f.tab
  <1>0. BrowserTypeInv /\ t \in Tabs
    BY DEF BrowserInv, BrowserTypeInv, Flight
  <1>1. /\ flights' \subseteq Flight
        /\ \A u \in Tabs \ {t} : Hear(flights', u) = Hear(flights, u)
        /\ ~ f.heard => Hear(flights', t) = Hear(flights, t)
        /\ f.heard => \E g \in Flight :
              /\ Hear(flights', t) = (Hear(flights, t) \ {f}) \cup {g}
              /\ g.op = f.op /\ g.token = tok /\ g.status = status /\ g.items = items
    <2>1. AnswerOf(f, tok, status, items)
      BY <1>0, AnswerDue
    <2> QED
      BY <2>1 DEF AnswerOf
  <1>2. /\ tabs' \in [Tabs -> Tab]
        /\ \A u \in Tabs : tabs'[u].page = tabs[u].page
        /\ \A u \in Tabs : (tabs'[u] = tabs[u] /\ lib' = lib) \/ ~ tabs'[u].calm
                           \/ (u = t /\ f.heard /\ tabs'[u] = tabs[u] /\ f.op # "load")
    <2>1. CASE tabs' = tabs /\ lib' = lib
      BY <1>0, <2>1 DEF BrowserTypeInv
    <2>2. CASE tabs' = Disturbs(f) /\ f.op # "load"
      <3>1. ASSUME NEW u \in Tabs
            PROVE  /\ [tabs[u] EXCEPT !.calm = FALSE] \in Tab
                   /\ [tabs[u] EXCEPT !.calm = FALSE].page = tabs[u].page
                   /\ ~ [tabs[u] EXCEPT !.calm = FALSE].calm
        <4>1. tabs[u] \in Tab
          BY <1>0 DEF BrowserTypeInv
        <4> QED
          BY <4>1 DEF Tab
      <3>2. \A u \in Tabs : tabs'[u] = IF u = f.tab /\ f.heard THEN tabs[u]
                                       ELSE [tabs[u] EXCEPT !.calm = FALSE]
        BY <2>2 DEF Disturbs
      <3>3. \A u \in Tabs : tabs[u] \in Tab
        BY <1>0 DEF BrowserTypeInv
      <3>4. tabs' = [u \in Tabs |-> IF u = f.tab /\ f.heard THEN tabs[u]
                                    ELSE [tabs[u] EXCEPT !.calm = FALSE]]
        BY <2>2 DEF Disturbs
      <3>5. tabs' \in [Tabs -> Tab]
        BY <3>1, <3>3, <3>4
      <3> QED
        BY <2>2, <3>1, <3>2, <3>5
    <2> QED
      BY <2>1, <2>2
  <1>3. BrowserTypeInv'
    BY <1>0, <1>1, <1>2 DEF BrowserTypeInv
  <1>4. \A g \in Hear(flights, t) : tabs[t].page = PageOfOp[g.op]
    BY DEF Hear, BrowserInv, HeardInv
  <1>5. Calm(tabs[t], Hear(flights, t), token, lib)
    BY <1>0 DEF BrowserInv
  <1>6. CASE ~ f.heard
    <2>1. Hear(flights', t) = Hear(flights, t)
      BY <1>1, <1>6
    <2>2. Calm(tabs'[t], Hear(flights', t), token', lib')
      <3>1. CASE tabs'[t] = tabs[t] /\ lib' = lib
        BY <1>5, <2>1, <3>1
      <3>2. CASE ~ tabs'[t].calm
        BY <3>2 DEF Calm
      <3> QED
        BY <1>0, <1>2, <1>6, <3>1, <3>2
    <2>3. \A g \in Hear(flights', t) : tabs'[t].page = PageOfOp[g.op]
      BY <1>0, <1>2, <1>4, <2>1
    <2> HIDE DEF t
    <2> QED
      BY <1>0, <1>1, <1>2, <1>3, <1>6, <2>2, <2>3, TabStep
  <1>7. CASE f.heard
    <2>1. PICK g \in Flight :
              /\ Hear(flights', t) = (Hear(flights, t) \ {f}) \cup {g}
              /\ g.op = f.op /\ g.token = tok /\ g.status = status /\ g.items = items
      BY <1>1, <1>7
    <2>2. f \in Hear(flights, t)
      BY <1>7 DEF Hear
    <2>3. \A h \in Hear(flights', t) : tabs'[t].page = PageOfOp[h.op]
      <3>1. tabs'[t].page = tabs[t].page
        BY <1>0, <1>2
      <3>2. \A h \in Hear(flights, t) \ {f} : tabs[t].page = PageOfOp[h.op]
        BY <1>4
      <3>3. tabs[t].page = PageOfOp[g.op]
        BY <1>4, <2>1, <2>2
      <3> QED
        BY <2>1, <3>1, <3>2, <3>3
    <2>4. Calm(tabs'[t], Hear(flights', t), token', lib')
      <3> SUFFICES ASSUME tabs'[t].page = "library", tabs'[t].calm
                   PROVE  Calm(tabs'[t], Hear(flights', t), token', lib')
        BY DEF Calm
      <3>1. tabs'[t] = tabs[t] /\ (lib' = lib \/ f.op # "load")
        BY <1>0, <1>2
      <3>2. /\ \A h, k \in Hear(flights, t) : h = k
            /\ f.token = token /\ token # NoToken
        BY <1>5, <2>2, <3>1 DEF Calm
      <3>3. Hear(flights', t) = {g}
        BY <2>1, <2>2, <3>2
      <3>4. f.op # "login"
        <4>1. PageOfOp[f.op] = "library"
          BY <1>4, <2>2, <3>1
        <4>2. PageOfOp["login"] # "library"
          BY DEF PageOfOp
        <4> QED
          BY <4>1, <4>2
      <3>5. /\ g.token = token /\ token # NoToken
            /\ g.op = "load" /\ g.status = "200" => g.items = lib'[token.who]
        BY <2>1, <3>1, <3>2, <3>4
      <3> QED
        BY <3>3, <3>5 DEF Calm
    <2> HIDE DEF t
    <2> QED
      BY <1>0, <1>1, <1>2, <1>3, <2>3, <2>4, TabStep
  <1> QED
    BY <1>6, <1>7

LEMMA OpensTabStep ==
    ASSUME BrowserInv, NEW t \in Tabs, OpensLibrary(t)
    PROVE  BrowserInv'
  <1> DEFINE all == Opened(t, "library", "")
  <1>0. BrowserTypeInv /\ token \in Given \cup {NoToken} /\ tabs \in [Tabs -> Tab]
    BY DEF BrowserInv, BrowserTypeInv
  <1>1. /\ Deaf(t) \subseteq Flight /\ Hear(Deaf(t), t) = {}
        /\ \A u \in Tabs \ {t} : Hear(Deaf(t), u) = Hear(flights, u)
    BY <1>0, HearDeaf
  <1>2. all \in [Tabs -> Tab] /\ all[t].page = "library"
        /\ \A u \in Tabs \ {t} : all[u] = tabs[u]
    <2>1. "library" \in Pages /\ "" \in Id
      BY DEF Pages, Id
    <2>2. Blank("library", "") \in Tab /\ Blank("library", "").page = "library"
      BY <2>1, BlankTab
    <2> QED
      BY <1>0, <2>2 DEF Opened
  <1>3. Loads(t, token, Deaf(t), all) /\ UNCHANGED <<token, version, lib>>
    BY DEF OpensLibrary
  <1> HIDE DEF all
  <1>4. /\ tabs' \in [Tabs -> Tab] /\ flights' \subseteq Flight /\ xhrs' \in Nat
        /\ \A u \in Tabs \ {t} : tabs'[u] = all[u] /\ Hear(flights', u) = Hear(Deaf(t), u)
        /\ tabs'[t].page = "library"
        /\ \A f \in Hear(flights', t) : f \in Hear(Deaf(t), t) \/ PageOfOp[f.op] = "library"
        /\ \A libs : Calm(tabs'[t], Hear(flights', t), token, libs)
    BY <1>0, <1>1, <1>2, <1>3, LoadsStep
  <1>5. BrowserTypeInv'
    BY <1>0, <1>3, <1>4 DEF BrowserTypeInv
  <1>6. Calm(tabs'[t], Hear(flights', t), token', lib')
    BY <1>3, <1>4
  <1> QED
    BY <1>1, <1>2, <1>3, <1>4, <1>5, <1>6, TabStep

LEMMA LoginClickStep ==
    ASSUME BrowserInv, NEW t \in Tabs, NEW p \in People, ClicksLogin(t, p)
    PROVE  BrowserInv'
  <1> DEFINE f == New(t, "login", [who |-> p, ver |-> 0], "", TRUE)
  <1>0. BrowserTypeInv /\ tabs[t] \in Tab
    BY DEF BrowserInv, BrowserTypeInv
  <1>1. f \in Flight
    <2>1. [who |-> p, ver |-> 0] \in Given /\ "" \in Id
      BY DEF Given, Id
    <2> QED
      BY <1>0, <2>1, NewFlight
  <1>2. f.tab = t /\ f.heard /\ f.status = "sent" /\ PageOfOp[f.op] = "login"
    BY DEF New, PageOfOp
  <1>3. /\ flights' = flights \cup {f} /\ xhrs' = xhrs + 1 /\ tabs' = Clicked(t, tabs[t])
        /\ UNCHANGED <<token, version, lib>> /\ tabs[t].page = "login"
    BY DEF ClicksLogin, Fires
  <1> HIDE DEF f
  <1> QED
    BY <1>0, <1>1, <1>2, <1>3, ClickStep

LEMMA RemoveClickStep ==
    ASSUME BrowserInv, NEW t \in Tabs, NEW a \in Apps, ClicksRemove(t, a)
    PROVE  BrowserInv'
  <1> DEFINE f == New(t, "remove", token, a, TRUE)
  <1>0. BrowserTypeInv /\ tabs[t] \in Tab /\ token # NoToken
    BY DEF BrowserInv, BrowserTypeInv, ClicksRemove
  <1>1. f \in Flight
    <2>1. token \in Given /\ a \in Id
      BY <1>0 DEF BrowserTypeInv, Id
    <2> QED
      BY <1>0, <2>1, NewFlight
  <1>2. /\ f.tab = t /\ f.heard /\ f.status = "sent" /\ PageOfOp[f.op] = "library"
        /\ f.token = token
    BY DEF New, PageOfOp
  <1>3. /\ flights' = flights \cup {f} /\ xhrs' = xhrs + 1 /\ tabs' = Clicked(t, tabs[t])
        /\ UNCHANGED <<token, version, lib>> /\ tabs[t].page = "library"
    BY DEF ClicksRemove, Fires
  <1> HIDE DEF f
  <1> QED
    BY <1>0, <1>1, <1>2, <1>3, ClickStep

LEMMA AddClickStep ==
    ASSUME BrowserInv, NEW t \in Tabs, ClicksAdd(t)
    PROVE  BrowserInv'
  <1>0. BrowserTypeInv /\ tabs[t] \in Tab /\ tabs[t].page = "app"
        /\ UNCHANGED <<token, version, lib>>
    BY DEF BrowserInv, BrowserTypeInv, ClicksAdd
  <1>1. CASE token = NoToken
    <2>1. /\ tabs' = Opened(t, "login", "") /\ flights' = Deaf(t) /\ xhrs' = xhrs
      BY <1>1 DEF ClicksAdd
    <2>2. "login" \in Pages \ {"library"} /\ "" \in Id
      BY DEF Pages, Id
    <2> QED
      BY <1>0, <2>1, <2>2, LeavesStep
  <1>2. CASE token # NoToken
    <2> DEFINE f == New(t, "add", token, tabs[t].app, TRUE)
               r == [tabs[t] EXCEPT !.disabled = TRUE]
    <2>1. f \in Flight
      <3>1. token \in Given /\ tabs[t].app \in Id
        BY <1>0, <1>2 DEF BrowserTypeInv, Tab
      <3> QED
        BY <1>0, <3>1, NewFlight
    <2>2. f.tab = t /\ f.heard /\ f.status = "sent" /\ PageOfOp[f.op] = "app"
      BY DEF New, PageOfOp
    <2>3. flights' = flights \cup {f} /\ xhrs' = xhrs + 1 /\ tabs' = Clicked(t, r)
      BY <1>2 DEF ClicksAdd, Fires
    <2>4. r \in Tab /\ r.page = tabs[t].page
      BY <1>0 DEF Tab
    <2> HIDE DEF f, r
    <2> QED
      BY <1>0, <2>1, <2>2, <2>3, <2>4, ClickStep
  <1> QED
    BY <1>1, <1>2

\* The lists of the other tabs stand for a token that is no longer there.
LEMMA OthersUnsettled ==
    ASSUME BrowserTypeInv, NEW t \in Tabs, NEW r \in Tab
    PROVE  /\ [Unsettled(t) EXCEPT ![t] = r] \in [Tabs -> Tab]
           /\ [Unsettled(t) EXCEPT ![t] = r][t] = r
           /\ \A u \in Tabs \ {t} : /\ [Unsettled(t) EXCEPT ![t] = r][u].page = tabs[u].page
                                    /\ ~ [Unsettled(t) EXCEPT ![t] = r][u].calm
  <1>1. ASSUME NEW u \in Tabs
        PROVE  /\ tabs[u] \in Tab /\ [tabs[u] EXCEPT !.calm = FALSE] \in Tab
               /\ [tabs[u] EXCEPT !.calm = FALSE].page = tabs[u].page
               /\ ~ [tabs[u] EXCEPT !.calm = FALSE].calm
    <2>1. tabs[u] \in Tab
      BY DEF BrowserTypeInv
    <2> QED
      BY <2>1 DEF Tab
  <1> DEFINE q == [u \in Tabs |-> IF u = t THEN r ELSE [tabs[u] EXCEPT !.calm = FALSE]]
  <1>2. [Unsettled(t) EXCEPT ![t] = r] = q
    BY DEF Unsettled
  <1>3. q \in [Tabs -> Tab] /\ q[t] = r
    BY <1>1
  <1>4. \A u \in Tabs \ {t} : q[u] = [tabs[u] EXCEPT !.calm = FALSE]
    OBVIOUS
  <1> HIDE DEF q
  <1>5. \A u \in Tabs \ {t} : q[u].page = tabs[u].page /\ ~ q[u].calm
    BY <1>1, <1>4
  <1> QED
    BY <1>2, <1>3, <1>5

LEMMA LogoutStep ==
    ASSUME BrowserInv, NEW t \in Tabs, ClicksLogout(t)
    PROVE  BrowserInv'
  <1> DEFINE f == New(t, "logout", token, "", FALSE)
             r == Blank("home", "")
  <1>0. BrowserTypeInv
    BY DEF BrowserInv
  <1>1. f \in Flight
    <2>1. token \in Given /\ "" \in Id
      BY <1>0 DEF BrowserTypeInv, Id, ClicksLogout
    <2> QED
      BY <1>0, <2>1, NewFlight
  <1>2. f.tab = t /\ ~ f.heard
    BY DEF New
  <1>3. r \in Tab /\ r.page = "home"
    <2>1. "home" \in Pages /\ "" \in Id
      BY DEF Pages, Id
    <2> QED
      BY <2>1, BlankTab
  <1>4. /\ flights' = Deaf(t) \cup {f} /\ xhrs' = xhrs + 1 /\ token' = NoToken
        /\ tabs' = [Unsettled(t) EXCEPT ![t] = r] /\ UNCHANGED <<version, lib>>
    BY DEF ClicksLogout, Fires
  <1> HIDE DEF f, r
  <1>5. /\ Deaf(t) \subseteq Flight /\ Hear(Deaf(t), t) = {}
        /\ \A u \in Tabs \ {t} : Hear(Deaf(t), u) = Hear(flights, u)
    BY <1>0, HearDeaf
  <1>6. /\ flights' \subseteq Flight /\ Hear(flights', t) = {}
        /\ \A u \in Tabs \ {t} : Hear(flights', u) = Hear(flights, u)
    <2>1. Hear(flights', t) = Hear(Deaf(t), t)
      BY <1>2, <1>4 DEF Hear
    <2>2. \A u \in Tabs \ {t} : Hear(flights', u) = Hear(Deaf(t), u)
      BY <1>2, <1>4 DEF Hear
    <2> QED
      BY <1>1, <1>4, <1>5, <2>1, <2>2
  <1>7. /\ tabs' \in [Tabs -> Tab] /\ tabs'[t] = r
        /\ \A u \in Tabs \ {t} : tabs'[u].page = tabs[u].page /\ ~ tabs'[u].calm
    BY <1>0, <1>3, <1>4, OthersUnsettled
  <1>8. BrowserTypeInv'
    BY <1>0, <1>4, <1>6, <1>7 DEF BrowserTypeInv
  <1>9. Calm(tabs'[t], Hear(flights', t), token', lib')
    BY <1>3, <1>7 DEF Calm
  <1> QED
    BY <1>6, <1>7, <1>8, <1>9, TabStep

LEMMA ServerStep ==
    ASSUME BrowserInv, NEW f \in flights,
           ServesLogin(f) \/ Serves(f) \/ Denies(f) \/ Loses(f)
    PROVE  BrowserInv'
  <1>0. /\ BrowserTypeInv /\ f \in Flight /\ f.token \in Given /\ f.token.who \in People
        /\ {} \in SUBSET Id
    BY DEF BrowserInv, BrowserTypeInv, Flight, Given
  <1>1. CASE ServesLogin(f)
    <2> DEFINE tok == [f.token EXCEPT !.ver = version[f.token.who]]
    <2>1. tok \in Given
      <3>1. version[f.token.who] \in Nat
        BY <1>0 DEF BrowserTypeInv
      <3> QED
        BY <1>0, <3>1 DEF Given
    <2>2. /\ f.op = "login" /\ Answered(f, "200", {}, tok)
          /\ UNCHANGED <<token, version, lib, tabs, xhrs>>
      BY <1>1 DEF ServesLogin
    <2> HIDE DEF tok
    <2>3. version' \in [People -> Nat] /\ lib' \in [People -> SUBSET Id]
      BY <1>0, <2>2 DEF BrowserTypeInv
    <2> QED
      BY <1>0, <2>1, <2>2, <2>3, ServedStep
  <1>2. CASE Serves(f)
    <2> DEFINE items == IF f.op = "load" THEN lib[f.token.who] ELSE {}
    <2>1. items \in SUBSET Id
      BY <1>0 DEF BrowserTypeInv
    <2>2. Answered(f, "200", items, f.token) /\ token' = token /\ xhrs' = xhrs
      BY <1>2 DEF Serves
    <2>3. f.op = "load" => items = lib[f.token.who]
      OBVIOUS
    <2>4. version' \in [People -> Nat] /\ lib' \in [People -> SUBSET Id]
      <3>1. /\ version' = [version EXCEPT ![f.token.who] = IF f.op = "logout" THEN @ + 1 ELSE @]
            /\ lib' = [lib EXCEPT ![f.token.who] = CASE f.op = "add"    -> @ \cup {f.app}
                                                     [] f.op = "remove" -> @ \ {f.app}
                                                     [] OTHER           -> @]
        BY <1>2 DEF Serves
      <3>2. version[f.token.who] \in Nat /\ lib[f.token.who] \in SUBSET Id /\ f.app \in Id
        BY <1>0 DEF BrowserTypeInv, Flight
      <3> QED
        BY <1>0, <3>1, <3>2 DEF BrowserTypeInv
    <2>5. (tabs' = tabs /\ lib' = lib) \/ (tabs' = Disturbs(f) /\ f.op # "load")
      <3>1. CASE f.op = "load"
        <4>1. tabs' = tabs /\ lib' = [lib EXCEPT ![f.token.who] = @]
          BY <1>2, <3>1 DEF Serves
        <4> QED
          BY <1>0, <4>1 DEF BrowserTypeInv
      <3>2. CASE f.op # "load"
        BY <1>2, <3>2 DEF Serves
      <3> QED
        BY <3>1, <3>2
    <2> HIDE DEF items
    <2> QED
      BY <1>0, <2>1, <2>2, <2>3, <2>4, <2>5, ServedStep
  <1>3. CASE Denies(f)
    <2>1. /\ Answered(f, "401", {}, f.token) /\ UNCHANGED <<token, version, lib, tabs, xhrs>>
      BY <1>3 DEF Denies
    <2>2. version' \in [People -> Nat] /\ lib' \in [People -> SUBSET Id]
      BY <1>0, <2>1 DEF BrowserTypeInv
    <2> QED
      BY <1>0, <2>1, <2>2, ServedStep
  <1>4. CASE Loses(f)
    <2>1. /\ Answered(f, "lost", {}, f.token) /\ UNCHANGED <<token, version, lib, tabs, xhrs>>
      BY <1>4 DEF Loses
    <2>2. version' \in [People -> Nat] /\ lib' \in [People -> SUBSET Id]
      BY <1>0, <2>1 DEF BrowserTypeInv
    <2> QED
      BY <1>0, <2>1, <2>2, ServedStep
  <1> QED
    BY <1>1, <1>2, <1>3, <1>4

\* A handler that leaves the other tabs, the token and the server alone.
LEMMA HandlerStep ==
    ASSUME BrowserInv, NEW f \in flights, f.heard, NEW r \in Tab,
           r.page = tabs[f.tab].page, tabs' = [tabs EXCEPT ![f.tab] = r],
           flights' = Rest(f), UNCHANGED <<token, version, lib, xhrs>>,
           Calm(r, Hear(flights, f.tab) \ {f}, token, lib)
    PROVE  BrowserInv'
  <1>0. BrowserTypeInv /\ f.tab \in Tabs
    BY DEF BrowserInv, BrowserTypeInv, Flight
  <1>1. /\ Hear(flights', f.tab) = Hear(flights, f.tab) \ {f}
        /\ \A u \in Tabs \ {f.tab} : Hear(flights', u) = Hear(flights, u)
    BY HearRest
  <1>2. tabs' \in [Tabs -> Tab] /\ tabs'[f.tab] = r
        /\ \A u \in Tabs \ {f.tab} : tabs'[u] = tabs[u]
    BY <1>0 DEF BrowserTypeInv
  <1>3. BrowserTypeInv'
    BY <1>0, <1>2 DEF BrowserTypeInv, Rest
  <1>4. \A g \in Hear(flights', f.tab) : tabs'[f.tab].page = PageOfOp[g.op]
    BY <1>1, <1>2 DEF Hear, BrowserInv, HeardInv
  <1> QED
    BY <1>0, <1>1, <1>2, <1>3, <1>4, TabStep

LEMMA HeardOn ==
    ASSUME BrowserInv, NEW f \in flights, f.heard
    PROVE  tabs[f.tab].page = PageOfOp[f.op]
  BY DEF BrowserInv, HeardInv

LEMMA HearsLoginStep ==
    ASSUME BrowserInv, NEW f \in flights, HearsLogin(f)
    PROVE  BrowserInv'
  <1> DEFINE t == f.tab
  <1>0. /\ BrowserTypeInv /\ t \in Tabs /\ f.token \in Given \cup {NoToken}
        /\ f.heard /\ f.op = "login" /\ tabs[t] \in Tab
    BY DEF BrowserInv, BrowserTypeInv, Flight, HearsLogin, Ready
  <1>1. tabs[t].page = "login"
    <2>1. tabs[t].page = PageOfOp[f.op]
      BY <1>0, HeardOn
    <2>2. PageOfOp["login"] = "login"
      BY DEF PageOfOp
    <2> QED
      BY <1>0, <2>1, <2>2
  <1>2. CASE f.status = "200"
    <2> DEFINE r   == Blank("library", "")
               all == [Unsettled(t) EXCEPT ![t] = r]
    <2>1. /\ token' = f.token /\ Loads(t, f.token, Deaf(t), all) /\ UNCHANGED <<version, lib>>
      BY <1>2 DEF HearsLogin
    <2>2. r \in Tab /\ r.page = "library"
      <3>1. "library" \in Pages /\ "" \in Id
        BY DEF Pages, Id
      <3> QED
        BY <3>1, BlankTab
    <2> HIDE DEF r
    <2>3. /\ all \in [Tabs -> Tab] /\ all[t] = r
          /\ \A u \in Tabs \ {t} : all[u].page = tabs[u].page /\ ~ all[u].calm
      BY <1>0, <2>2, OthersUnsettled
    <2>4. /\ Deaf(t) \subseteq Flight /\ Hear(Deaf(t), t) = {}
          /\ \A u \in Tabs \ {t} : Hear(Deaf(t), u) = Hear(flights, u)
      BY <1>0, HearDeaf
    <2> HIDE DEF all, t
    <2>5. /\ tabs' \in [Tabs -> Tab] /\ flights' \subseteq Flight /\ xhrs' \in Nat
          /\ \A u \in Tabs \ {t} : tabs'[u] = all[u] /\ Hear(flights', u) = Hear(Deaf(t), u)
          /\ tabs'[t].page = "library"
          /\ \A g \in Hear(flights', t) : g \in Hear(Deaf(t), t) \/ PageOfOp[g.op] = "library"
          /\ \A libs : Calm(tabs'[t], Hear(flights', t), f.token, libs)
      BY <1>0, <2>1, <2>2, <2>3, <2>4, LoadsStep
    <2>6. BrowserTypeInv'
      BY <1>0, <2>1, <2>5 DEF BrowserTypeInv
    <2>7. Calm(tabs'[t], Hear(flights', t), token', lib')
      BY <2>1, <2>5
    <2> QED
      BY <1>0, <2>3, <2>4, <2>5, <2>6, <2>7, TabStep
  <1>3. CASE f.status # "200"
    <2>1. flights' = Rest(f) /\ UNCHANGED <<token, version, lib, tabs, xhrs>>
      BY <1>3 DEF HearsLogin
    <2>2. tabs' = [tabs EXCEPT ![t] = tabs[t]]
      BY <1>0, <2>1 DEF BrowserTypeInv
    <2>3. Calm(tabs[t], Hear(flights, t) \ {f}, token, lib)
      BY <1>1 DEF Calm
    <2> QED
      BY <1>0, <2>1, <2>2, <2>3, HandlerStep
  <1> QED
    BY <1>2, <1>3

LEMMA HearsLoadStep ==
    ASSUME BrowserInv, NEW f \in flights, HearsLoad(f)
    PROVE  BrowserInv'
  <1> DEFINE t == f.tab
  <1>0. /\ BrowserTypeInv /\ t \in Tabs /\ f \in Flight
        /\ f.heard /\ f.op = "load" /\ f.status # "sent" /\ tabs[t] \in Tab
    BY DEF BrowserInv, BrowserTypeInv, Flight, HearsLoad, Ready
  <1>1. Calm(tabs[t], Hear(flights, t), token, lib) /\ f \in Hear(flights, t)
    BY <1>0 DEF BrowserInv, Hear
  <1>2. PICK r \in Tab : /\ tabs' = [tabs EXCEPT ![t] = r] /\ r.page = tabs[t].page
                         /\ r.calm => tabs[t].calm
                         /\ r.calm /\ r.view = "list" =>
                              f.status = "200" /\ r.items = f.items
    <2>1. f.status \in {"200", "401", "lost"} /\ f.items \in SUBSET Id
      BY <1>0 DEF Flight
    <2>2. CASE f.status = "200"
      <3> DEFINE r == [tabs[t] EXCEPT !.view = "list", !.items = f.items]
      <3>1. tabs' = [tabs EXCEPT ![t] = r]
        BY <2>2 DEF HearsLoad
      <3>2. r \in Tab /\ r.page = tabs[t].page /\ r.items = f.items
        BY <1>0, <2>1 DEF Tab
      <3>3. r.calm => tabs[t].calm
        BY <1>0 DEF Tab
      <3> HIDE DEF r
      <3> QED
        BY <2>2, <3>1, <3>2, <3>3
    <2>3. CASE f.status = "401"
      <3> DEFINE r == [tabs[t] EXCEPT !.view = "need_login"]
      <3>1. tabs' = [tabs EXCEPT ![t] = r]
        BY <2>3 DEF HearsLoad
      <3>2. r \in Tab /\ r.page = tabs[t].page /\ r.view = "need_login"
        BY <1>0 DEF Tab
      <3>3. r.calm => tabs[t].calm
        BY <1>0 DEF Tab
      <3> HIDE DEF r
      <3> QED
        BY <3>1, <3>2, <3>3
    <2>4. CASE f.status = "lost"
      <3> DEFINE r == [tabs[t] EXCEPT !.calm = FALSE]
      <3>1. tabs' = [tabs EXCEPT ![t] = r]
        BY <2>4 DEF HearsLoad
      <3>2. r \in Tab /\ r.page = tabs[t].page /\ ~ r.calm
        BY <1>0 DEF Tab
      <3> HIDE DEF r
      <3> QED
        BY <3>1, <3>2
    <2> QED
      BY <2>1, <2>2, <2>3, <2>4
  <1>3. Calm(r, Hear(flights, t) \ {f}, token, lib)
    <2> SUFFICES ASSUME r.page = "library", r.calm
                 PROVE  Calm(r, Hear(flights, t) \ {f}, token, lib)
      BY DEF Calm
    <2>1. /\ \A g, h \in Hear(flights, t) : g = h
          /\ f.token = token /\ token # NoToken
          /\ f.status = "200" => f.items = lib[token.who]
      BY <1>0, <1>1, <1>2 DEF Calm
    <2>2. Hear(flights, t) \ {f} = {}
      BY <1>1, <2>1
    <2> QED
      BY <1>2, <2>1, <2>2 DEF Calm
  <1>4. flights' = Rest(f) /\ UNCHANGED <<token, version, lib, xhrs>>
    BY DEF HearsLoad
  <1> QED
    BY <1>0, <1>2, <1>3, <1>4, HandlerStep

LEMMA HearsRemoveStep ==
    ASSUME BrowserInv, NEW f \in flights, HearsRemove(f)
    PROVE  BrowserInv'
  <1> DEFINE t == f.tab
  <1>0. /\ BrowserTypeInv /\ t \in Tabs /\ f \in Flight /\ tabs \in [Tabs -> Tab]
        /\ f.heard /\ f.op = "remove" /\ tabs[t] \in Tab /\ token \in Given \cup {NoToken}
        /\ UNCHANGED <<token, version, lib>>
    BY DEF BrowserInv, BrowserTypeInv, Flight, HearsRemove, Ready
  <1>1. Calm(tabs[t], Hear(flights, t), token, lib) /\ f \in Hear(flights, t)
    BY <1>0 DEF BrowserInv, Hear
  <1>2. tabs[t].page = "library"
    <2>1. tabs[t].page = PageOfOp[f.op]
      BY <1>0, HeardOn
    <2>2. PageOfOp["remove"] = "library"
      BY DEF PageOfOp
    <2> QED
      BY <1>0, <2>1, <2>2
  <1>3. CASE f.status = "200"
    <2>1. Loads(t, token, Rest(f), tabs)
      BY <1>3 DEF HearsRemove, Reload
    <2>2. /\ Hear(Rest(f), t) = Hear(flights, t) \ {f}
          /\ \A u \in Tabs \ {t} : Hear(Rest(f), u) = Hear(flights, u)
      BY HearRest
    <2>3. Hear(Rest(f), t) = {} \/ ~ tabs[t].calm
      <3> SUFFICES ASSUME tabs[t].calm PROVE Hear(Rest(f), t) = {}
        OBVIOUS
      <3>1. \A g, h \in Hear(flights, t) : g = h
        BY <1>1, <1>2 DEF Calm
      <3> QED
        BY <1>1, <2>2, <3>1
    <2>4. Rest(f) \subseteq Flight
      BY <1>0 DEF Rest, BrowserTypeInv
    <2> HIDE DEF t
    <2>5. /\ tabs' \in [Tabs -> Tab] /\ flights' \subseteq Flight /\ xhrs' \in Nat
          /\ \A u \in Tabs \ {t} : tabs'[u] = tabs[u] /\ Hear(flights', u) = Hear(Rest(f), u)
          /\ tabs'[t].page = "library"
          /\ \A g \in Hear(flights', t) : g \in Hear(Rest(f), t) \/ PageOfOp[g.op] = "library"
          /\ \A libs : Calm(tabs'[t], Hear(flights', t), token, libs)
      BY <1>0, <1>2, <2>1, <2>3, <2>4, LoadsStep
    <2>6. BrowserTypeInv'
      BY <1>0, <2>5 DEF BrowserTypeInv
    <2>7. \A g \in Hear(flights', t) : tabs'[t].page = PageOfOp[g.op]
      <3>1. \A g \in Hear(flights, t) : tabs[t].page = PageOfOp[g.op]
        BY DEF Hear, BrowserInv, HeardInv
      <3> QED
        BY <1>2, <2>2, <2>5, <3>1 DEF t
    <2>8. Calm(tabs'[t], Hear(flights', t), token', lib')
      BY <1>0, <2>5
    <2> QED
      BY <1>0, <2>2, <2>5, <2>6, <2>7, <2>8, TabStep DEF t
  <1>4. CASE f.status # "200"
    <2> DEFINE r == [tabs[t] EXCEPT !.calm = FALSE]
    <2>1. tabs' = [tabs EXCEPT ![t] = r] /\ flights' = Rest(f) /\ xhrs' = xhrs
      BY <1>4 DEF HearsRemove
    <2>2. r \in Tab /\ r.page = tabs[t].page /\ ~ r.calm
      BY <1>0 DEF Tab
    <2> HIDE DEF r
    <2>3. Calm(r, Hear(flights, t) \ {f}, token, lib)
      BY <2>2 DEF Calm
    <2> QED
      BY <1>0, <2>1, <2>2, <2>3, HandlerStep
  <1> QED
    BY <1>3, <1>4

LEMMA HearsAddStep ==
    ASSUME BrowserInv, NEW f \in flights, HearsAdd(f)
    PROVE  BrowserInv'
  <1> DEFINE t == f.tab
  <1>0. /\ BrowserTypeInv /\ t \in Tabs /\ f.heard /\ f.op = "add" /\ tabs[t] \in Tab
        /\ UNCHANGED <<token, version, lib, xhrs>>
    BY DEF BrowserInv, BrowserTypeInv, Flight, HearsAdd, Ready
  <1>1. tabs[t].page = "app"
    <2>1. tabs[t].page = PageOfOp[f.op]
      BY <1>0, HeardOn
    <2>2. PageOfOp["add"] = "app"
      BY DEF PageOfOp
    <2> QED
      BY <1>0, <2>1, <2>2
  <1>2. CASE f.status = "401"
    <2>1. tabs' = Opened(t, "login", "") /\ flights' = Deaf(t)
      BY <1>2 DEF HearsAdd
    <2>2. "login" \in Pages \ {"library"} /\ "" \in Id
      BY DEF Pages, Id
    <2> QED
      BY <1>0, <2>1, <2>2, LeavesStep
  <1>3. CASE f.status # "401"
    <2> DEFINE r == [tabs[t] EXCEPT !.disabled = (f.status = "200")]
    <2>1. tabs' = [tabs EXCEPT ![t] = r] /\ flights' = Rest(f)
      BY <1>3 DEF HearsAdd
    <2>2. r \in Tab /\ r.page = tabs[t].page
      BY <1>0 DEF Tab
    <2> HIDE DEF r
    <2>3. Calm(r, Hear(flights, t) \ {f}, token, lib)
      BY <1>1, <2>2 DEF Calm
    <2> QED
      BY <1>0, <2>1, <2>2, <2>3, HandlerStep
  <1> QED
    BY <1>2, <1>3

LEMMA BrowserInitInv == BrowserInit => BrowserInv
  <1> SUFFICES ASSUME BrowserInit PROVE BrowserInv
    OBVIOUS
  <1>1. "home" \in Pages /\ "" \in Id
    BY DEF Pages, Id
  <1>2. Blank("home", "") \in Tab /\ Blank("home", "").page = "home"
    BY <1>1, BlankTab
  <1>3. /\ tabs = [t \in Tabs |-> Blank("home", "")] /\ flights = {} /\ xhrs = 0
        /\ version = [p \in People |-> 0] /\ lib \in [People -> SUBSET Apps]
        /\ token \in [who : People, ver : {0}] \cup {NoToken}
    BY DEF BrowserInit
  <1>4. BrowserTypeInv
    <2>1. token \in Given \cup {NoToken}
      <3>1. ASSUME NEW q \in [who : People, ver : {0}] PROVE q \in Given
        <4>1. q.who \in People /\ q.ver \in Nat /\ q = [who |-> q.who, ver |-> q.ver]
          OBVIOUS
        <4> QED
          BY <4>1 DEF Given
      <3> QED
        BY <1>3, <3>1
    <2>2. tabs \in [Tabs -> Tab] /\ version \in [People -> Nat]
      BY <1>2, <1>3
    <2>3. lib \in [People -> SUBSET Id]
      <3>1. \A p \in People : lib[p] \in SUBSET Id
        BY <1>3 DEF Id
      <3>2. lib = [p \in People |-> lib[p]]
        BY <1>3
      <3> QED
        BY <3>1, <3>2
    <2> QED
      BY <1>3, <2>1, <2>2, <2>3 DEF BrowserTypeInv
  <1>5. \A t \in Tabs : tabs[t].page = "home"
    BY <1>2, <1>3
  <1>6. \A t \in Tabs : Calm(tabs[t], Hear(flights, t), token, lib)
    BY <1>5 DEF Calm
  <1> QED
    BY <1>3, <1>4, <1>6 DEF BrowserInv, HeardInv

LEMMA BrowserStep == BrowserInv /\ [BrowserNext]_browser_vars => BrowserInv'
  <1> SUFFICES ASSUME BrowserInv, [BrowserNext]_browser_vars PROVE BrowserInv'
    OBVIOUS
  <1>1. CASE UNCHANGED browser_vars
    BY <1>1 DEF browser_vars, BrowserInv, BrowserTypeInv, HeardInv
  <1>2. ASSUME NEW t \in Tabs, NEW page \in Pages, NEW app \in Id, Visits(t, page, app)
        PROVE  BrowserInv'
    BY <1>2, LeavesStep DEF Visits
  <1>3. ASSUME NEW t \in Tabs, OpensLibrary(t) PROVE BrowserInv'
    BY <1>3, OpensTabStep
  <1>4. ASSUME NEW t \in Tabs, ClicksLogout(t) PROVE BrowserInv'
    BY <1>4, LogoutStep
  <1>5. ASSUME NEW t \in Tabs, ClicksAdd(t) PROVE BrowserInv'
    BY <1>5, AddClickStep
  <1>6. ASSUME NEW t \in Tabs, NEW p \in People, ClicksLogin(t, p) PROVE BrowserInv'
    BY <1>6, LoginClickStep
  <1>7. ASSUME NEW t \in Tabs, NEW a \in Apps, ClicksRemove(t, a) PROVE BrowserInv'
    BY <1>7, RemoveClickStep
  <1>8. ASSUME NEW f \in flights, ServesLogin(f) \/ Serves(f) \/ Denies(f) \/ Loses(f)
        PROVE  BrowserInv'
    BY <1>8, ServerStep
  <1>9. ASSUME NEW f \in flights, HearsLogin(f) PROVE BrowserInv'
    BY <1>9, HearsLoginStep
  <1>10. ASSUME NEW f \in flights, HearsLoad(f) PROVE BrowserInv'
    BY <1>10, HearsLoadStep
  <1>11. ASSUME NEW f \in flights, HearsRemove(f) PROVE BrowserInv'
    BY <1>11, HearsRemoveStep
  <1>12. ASSUME NEW f \in flights, HearsAdd(f) PROVE BrowserInv'
    BY <1>12, HearsAddStep
  <1> QED
    BY <1>1, <1>2, <1>3, <1>4, <1>5, <1>6, <1>7, <1>8, <1>9, <1>10, <1>11, <1>12
       DEF BrowserNext, Id

\* However many tabs and people there are, however their requests and answers
\* overlap or are lost: a list that has all its answers is the library of the one
\* who is logged in, if each click on its page waited for the one before and nobody
\* else wrote (library.js).
THEOREM ListsSettle == BrowserSpec => []ListSettles
  <1>1. BrowserInv => ListSettles
    <2> SUFFICES ASSUME BrowserInv, NEW t \in Tabs, Listing(t), tabs[t].calm, Of(t) = {}
                 PROVE  token # NoToken /\ tabs[t].items = lib[token.who]
      BY DEF ListSettles
    <2>1. Calm(tabs[t], Hear(flights, t), token, lib) /\ Hear(flights, t) = {}
      BY HeardNow DEF BrowserInv
    <2> QED
      BY <2>1 DEF Calm, Listing
  <1> QED
    BY <1>1, BrowserInitInv, BrowserStep, PTL DEF BrowserSpec

-----------------------------------------------------------------------------
(* The publish form.                                                       *)

Optional == {"homepage", "license", "icon", "version", "author_name", "author_contact",
          "haikuports", "hpkg_url", "sha256"}
Spoken == {"summary", "description", "categories", "screenshots"}

LEMMA ObjectKeys ==
    /\ Objects = {"author", "packager", "bridge", "channels", "stable", "artifacts", "arch"}
    /\ DOMAIN Default = Spoken \cup {"kind", "artifacts", "requires", "prerelease"}
    /\ \A k \in Spoken : Default[k] = ""
  <1>1. \A k \in Spoken : k \in {"summary", "description", "categories", "screenshots"}
    BY DEF Spoken
  <1>2. /\ Default["summary"] = "" /\ Default["description"] = ""
        /\ Default["categories"] = "" /\ Default["screenshots"] = ""
    BY DEF Default
  <1>3. \A k \in Spoken : Default[k] = ""
    BY <1>1, <1>2
  <1> QED
    BY <1>3 DEF Objects, Children, Default, Spoken

\* Every key of a manifest the form builds is of one of these kinds.
LEMMA KindsOfKeys ==
    /\ Keys \subseteq Optional \cup Spoken \cup {"id", "name", "packager_name", "bacaro", "kind"}
                        \cup Objects
    /\ {"id", "name", "packager", "packager_name", "channels", "stable", "kind", "artifacts",
        "bacaro"} \cup Spoken \subseteq Keys
    /\ \A k \in Optional \cap Keys : Filled(k)
    /\ "author" \in Keys => "author_name" \in Keys
    /\ "bridge" \in Keys => "haikuports" \in Keys
    /\ "arch" \in Keys => "hpkg_url" \in Keys
    /\ "requires" \notin Keys /\ "prerelease" \notin Keys
  <1>1. \A k : k \in Keys <=>
          \/ k \in {"id", "name", "summary", "description", "screenshots", "categories",
                    "packager", "packager_name", "bacaro", "channels", "stable", "kind",
                    "artifacts"}
          \/ k \in {"homepage", "license", "icon", "version"} /\ Filled(k)
          \/ k \in {"author", "author_name"} /\ Filled("author_name")
          \/ k = "author_contact" /\ Filled("author_name") /\ Filled("author_contact")
          \/ k \in {"bridge", "haikuports"} /\ Filled("haikuports")
          \/ k \in {"arch", "hpkg_url"} /\ Filled("arch") /\ Filled("hpkg_url")
          \/ k = "sha256" /\ Filled("arch") /\ Filled("hpkg_url") /\ Filled("sha256")
    BY DEF Keys
  <1>2. Keys \subseteq Optional \cup Spoken \cup {"id", "name", "packager_name", "bacaro",
                                                 "kind"} \cup Objects
    BY <1>1, ObjectKeys DEF Optional, Spoken
  <1>3. {"id", "name", "packager", "packager_name", "channels", "stable", "kind",
         "artifacts", "bacaro"} \cup Spoken \subseteq Keys
    BY <1>1 DEF Spoken
  <1>4. \A k \in Optional \cap Keys : Filled(k)
    BY <1>1 DEF Optional
  <1> QED
    BY <1>1, <1>2, <1>3, <1>4

\* An object that is there has a child that is there, and what is asked of it.
LEMMA ObjectFields ==
    ASSUME NEW o \in Objects, o \in Keys
    PROVE  /\ o # "artifacts" => Children[o] \cap Keys # {}
           /\ Required[o] \subseteq Keys \ DOMAIN Default
  <1>1. CASE o = "author"
    <2>1. "author_name" \in Children["author"] /\ Required["author"] = {"author_name"}
      BY DEF Children, Required
    <2> QED
      BY <1>1, <2>1, KindsOfKeys, ObjectKeys DEF Spoken
  <1>2. CASE o = "packager"
    <2>1. /\ "packager_name" \in Children["packager"]
          /\ Required["packager"] = {"packager_name", "bacaro"}
      BY DEF Children, Required
    <2> QED
      BY <1>2, <2>1, KindsOfKeys, ObjectKeys DEF Spoken
  <1>3. CASE o = "bridge"
    <2>1. "haikuports" \in Children["bridge"] /\ Required["bridge"] = {}
      BY DEF Children, Required
    <2> QED
      BY <1>3, <2>1, KindsOfKeys
  <1>4. CASE o = "channels"
    <2>1. "stable" \in Children["channels"] /\ Required["channels"] = {"stable"}
      BY DEF Children, Required
    <2> QED
      BY <1>4, <2>1, KindsOfKeys, ObjectKeys DEF Spoken
  <1>5. CASE o = "stable"
    <2>1. "kind" \in Children["stable"] /\ Required["stable"] = {}
      BY DEF Children, Required
    <2> QED
      BY <1>5, <2>1, KindsOfKeys
  <1>6. CASE o = "artifacts"
    <2>1. Required["artifacts"] = {}
      BY DEF Required
    <2> QED
      BY <1>6, <2>1
  <1>7. CASE o = "arch"
    <2>1. "hpkg_url" \in Children["arch"] /\ Required["arch"] = {"hpkg_url"}
      BY DEF Children, Required
    <2> QED
      BY <1>7, <2>1, KindsOfKeys, ObjectKeys DEF Spoken
  <1> QED
    BY <1>1, <1>2, <1>3, <1>4, <1>5, <1>6, <1>7, ObjectKeys

LEMMA BuiltValues ==
    /\ DOMAIN Built = Keys
    /\ \A k \in Keys \cap (Objects \ {"arch"}) : Built[k] = "object"
    /\ Built["kind"] = "right"
    /\ Built["packager_name"] = Packager /\ Packager # ""
    /\ \A k \in Keys \ (Objects \cup {"kind", "packager_name"}) : Built[k] = form[k]
  <1>1. Packager # ""
    BY DEF Packager, Filled
  <1>2. \A k \in Keys : Built[k] = CASE k \in Objects \ {"arch"} -> "object"
                                     [] k = "kind"            -> "right"
                                     [] k = "packager_name"   -> Packager
                                     [] OTHER                 -> form[k]
    BY DEF Built
  <1>3. "kind" \in Keys /\ "packager_name" \in Keys
    BY KindsOfKeys
  <1>4. "kind" \notin Objects /\ "packager_name" \notin Objects
    BY ObjectKeys
  <1>5. DOMAIN Built = Keys
    BY DEF Built
  <1> QED
    BY <1>1, <1>2, <1>3, <1>4, <1>5

\* The manifest of the form: what was built, and the defaults of what was not.
LEMMA MadeValues ==
    /\ DOMAIN Model(Built) = Keys \cup DOMAIN Default
    /\ \A k \in Keys : Model(Built)[k] = Built[k]
    /\ \A k \in DOMAIN Default \ Keys : Model(Built)[k] = Default[k]
  <1>1. Has(Built, "stable")
    BY KindsOfKeys, BuiltValues DEF Has
  <1>2. {k \in DOMAIN Default : k \notin Hanging \/ Has(Built, "stable")} = DOMAIN Default
    BY <1>1
  <1>3. Model(Built) = [k \in Keys \cup DOMAIN Default |->
                          IF k \in Keys THEN Built[k] ELSE Default[k]]
    BY <1>2, BuiltValues DEF Model, Has
  <1> QED
    BY <1>3

\* What the dump leaves out of it is what the schema puts back, and a blank tap.
LEMMA LeftOut ==
    ASSUME Valid(Built), NEW k \in DOMAIN Model(Built), Blanked(Model(Built), k)
    PROVE  \/ k \in DOMAIN Default /\ Model(Built)[k] = Default[k]
           \/ k = "bacaro" /\ ~ Filled("bacaro")
  <1> DEFINE d == Model(Built)
  <1>1. k \in Optional \cup Spoken \cup {"id", "name", "packager_name", "bacaro", "kind",
                                      "requires", "prerelease"} \cup Objects
    BY MadeValues, KindsOfKeys, ObjectKeys
  <1>2. CASE k \in Optional
    <2>1. k \in Keys /\ k \notin Objects \cup {"kind", "packager_name", "prerelease"}
      BY <1>2, MadeValues, ObjectKeys DEF Optional, Spoken
    <2>2. d[k] = form[k] /\ Filled(k)
      BY <1>2, <2>1, MadeValues, BuiltValues, KindsOfKeys
    <2> QED
      BY <2>1, <2>2 DEF Blanked, Filled
  <1>3. CASE k \in Spoken
    <2>1. k \in DOMAIN Default /\ Default[k] = "" /\ k \notin Objects \cup {"prerelease"}
      BY <1>3, ObjectKeys DEF Spoken
    <2> QED
      BY <2>1 DEF Blanked
  <1>4. CASE k \in {"id", "name"}
    <2>1. k \in Keys /\ k \notin Objects \cup {"prerelease"}
      BY <1>4, KindsOfKeys, ObjectKeys
    <2>2. d[k] = Built[k] /\ Built[k] # ""
      BY <1>4, <2>1, MadeValues, BuiltValues DEF Valid, Fine
    <2> QED
      BY <2>1, <2>2 DEF Blanked
  <1>5. CASE k \in {"packager_name", "kind"}
    <2>1. k \in Keys /\ k \notin Objects \cup {"prerelease"}
      BY <1>5, KindsOfKeys, ObjectKeys
    <2>2. d[k] # ""
      BY <1>5, <2>1, MadeValues, BuiltValues
    <2> QED
      BY <2>1, <2>2 DEF Blanked
  <1>6. CASE k = "bacaro"
    <2>1. k \in Keys /\ k \notin Objects \cup {"prerelease", "kind", "packager_name"}
      BY <1>6, KindsOfKeys, ObjectKeys
    <2>2. d[k] = form[k]
      BY <2>1, MadeValues, BuiltValues
    <2> QED
      BY <1>6, <2>1, <2>2 DEF Blanked, Filled
  <1>7. CASE k \in {"requires", "prerelease"}
    <2>1. k \in DOMAIN Default /\ k \notin Keys
      BY <1>7, ObjectKeys, KindsOfKeys
    <2> QED
      BY <2>1, MadeValues
  <1>8. CASE k = "artifacts"
    <2>1. /\ k \in Keys /\ k \in Objects \ {"arch"}
          /\ k \in DOMAIN Default /\ Default[k] = "object"
      BY <1>8, ObjectKeys, KindsOfKeys DEF Default
    <2> QED
      BY <2>1, MadeValues, BuiltValues
  <1>9. CASE k \in Objects \ {"artifacts"}
    <2>1. Children[k] \cap DOMAIN d = {}
      BY <1>9, ObjectKeys DEF Blanked
    <2>2. k \in Keys
      BY <1>9, ObjectKeys, MadeValues DEF Spoken
    <2>3. Children[k] \cap Keys # {}
      BY <1>9, <2>2, ObjectFields
    <2> QED
      BY <2>1, <2>3, MadeValues
  <1> QED
    BY <1>1, <1>2, <1>3, <1>4, <1>5, <1>6, <1>7, <1>8, <1>9

\* So the file still has what the schema asks for, when its tap is named.
LEMMA FilePasses ==
    ASSUME Valid(Built), Filled("bacaro")
    PROVE  Valid(Pruned(Model(Built)))
  <1> DEFINE d == Model(Built)
             f == Pruned(d)
  <1>1. DOMAIN f \subseteq DOMAIN d /\ \A k \in DOMAIN f : f[k] = d[k]
    BY DEF Pruned
  <1>2. \A k \in Keys \ DOMAIN Default : k \in DOMAIN f
    BY LeftOut, MadeValues DEF Pruned
  <1>3. {"id", "name", "channels"} \subseteq DOMAIN f
    BY <1>2, KindsOfKeys, ObjectKeys DEF Spoken
  <1>4. ASSUME NEW o \in Objects, o \in DOMAIN f PROVE Required[o] \subseteq DOMAIN f
    <2>1. o \in Keys
      BY <1>1, <1>4, MadeValues, ObjectKeys, KindsOfKeys DEF Spoken
    <2>2. Required[o] \subseteq Keys \ DOMAIN Default
      BY <2>1, ObjectFields
    <2> QED
      BY <1>2, <2>2
  <1>5. ASSUME NEW k \in DOMAIN f PROVE Fine(f, k)
    <2>1. CASE k \in Keys
      <3>1. Fine(Built, k) /\ f[k] = Built[k]
        BY <1>1, <2>1, MadeValues, BuiltValues DEF Valid
      <3> QED
        BY <3>1 DEF Fine
    <2>2. CASE k \notin Keys
      <3>1. k \in DOMAIN Default /\ f[k] = Default[k]
        BY <1>1, <2>2, MadeValues
      <3>2. k \in {"requires", "prerelease"}
        BY <2>2, <3>1, ObjectKeys, KindsOfKeys
      <3> QED
        BY <3>1, <3>2 DEF Fine, Default, Checked, Capped
    <2> QED
      BY <2>1, <2>2
  <1> HIDE DEF f
  <1>6. Valid(f)
    BY <1>3, <1>4, <1>5 DEF Valid, Has
  <1> QED
    BY <1>6 DEF f

\* What a crawl reads of a file that passes is the manifest the form has made.
LEMMA ReadAsMade ==
    ASSUME Valid(Built), Valid(Pruned(Model(Built)))
    PROVE  Model(Pruned(Model(Built))) = Model(Built)
  <1> DEFINE d == Model(Built)
             f == Pruned(d)
  <1>1. /\ DOMAIN f = {k \in DOMAIN d : ~ Blanked(d, k)}
        /\ \A k \in DOMAIN f : f[k] = d[k]
    BY DEF Pruned
  <1>2. {"packager", "stable"} \subseteq DOMAIN f
    BY <1>1, LeftOut, MadeValues, KindsOfKeys, ObjectKeys DEF Spoken
  <1>3. "bacaro" \in DOMAIN f
    <2>1. Required["packager"] \subseteq DOMAIN f
      BY <1>2, ObjectKeys DEF Valid, Has
    <2> QED
      BY <2>1 DEF Required
  <1>4. \A k \in DOMAIN d \ DOMAIN f : k \in DOMAIN Default /\ d[k] = Default[k]
    BY <1>1, <1>3, LeftOut
  <1>5. DOMAIN f \cup DOMAIN Default = DOMAIN d
    BY <1>1, <1>4, MadeValues
  <1>6. {k \in DOMAIN Default : k \notin Hanging \/ Has(f, "stable")} = DOMAIN Default
    BY <1>2 DEF Has
  <1>7. Model(f) = [k \in DOMAIN d |-> IF k \in DOMAIN f THEN f[k] ELSE Default[k]]
    BY <1>5, <1>6 DEF Model, Has
  <1>8. d = [k \in DOMAIN d |-> d[k]]
    BY DEF Model
  <1> HIDE DEF d, f
  <1>9. \A k \in DOMAIN d : (IF k \in DOMAIN f THEN f[k] ELSE Default[k]) = d[k]
    BY <1>1, <1>4
  <1>10. Model(f) = d
    BY <1>7, <1>8, <1>9
  <1> QED
    BY <1>10 DEF d, f

\* The form does not change; what was handed out was made of it, and is valid.
FormInv ==
    /\ stage \in {"form", "downloaded", "422", "ingested", "failed"}
    /\ stage = "downloaded" => /\ Valid(Built) /\ doc = Model(Built)
                               /\ file = Pruned(Model(Built))
    /\ PassesIngest

LEMMA FormStep == FormInv /\ [PublishNext]_publish_vars => FormInv'
  <1> SUFFICES ASSUME FormInv, [PublishNext]_publish_vars PROVE FormInv'
    OBVIOUS
  <1>1. form' = form
    BY DEF PublishNext, Generates, Refuses, Ingests, Fails, publish_vars
  <1>2. Built' = Built /\ (Filled("bacaro") <=> Filled("bacaro")')
    BY <1>1 DEF Built, Keys, Packager, Filled
  <1>m. /\ Valid(Built)' <=> Valid(Built)
        /\ Model(Built)' = Model(Built)
        /\ Pruned(Model(Built))' = Pruned(Model(Built))
    BY <1>2
  <1>3. CASE Generates
    BY <1>m, <1>3 DEF Generates, FormInv, PassesIngest
  <1>4. CASE Refuses
    BY <1>4 DEF Refuses, FormInv, PassesIngest
  <1>5. CASE Ingests
    <2>1. Valid(Built) /\ doc = Model(Built) /\ file = Pruned(Model(Built)) /\ Valid(file)
      BY <1>5 DEF Ingests, FormInv
    <2>2. file' = doc'
      BY <1>5, <2>1, ReadAsMade DEF Ingests
    <2> QED
      BY <1>5, <2>2 DEF Ingests, FormInv, PassesIngest
  <1>6. CASE Fails
    <2>1. /\ Valid(Built) /\ doc = Model(Built) /\ file = Pruned(doc)
          /\ TooLong(file) \/ ~ Valid(file)
      BY <1>6 DEF Fails, FormInv
    <2>2. TooLong(file) => TooLong(doc)
      BY <2>1 DEF TooLong, Pruned
    <2>3. ~ Filled("bacaro") \/ TooLong(doc)
      BY <2>1, <2>2, FilePasses
    <2>4. TooLong(doc) => TooLong(doc)'
      BY <1>6 DEF Fails, TooLong
    <2> QED
      BY <1>2, <1>6, <2>3, <2>4 DEF Fails, FormInv, PassesIngest
  <1>7. CASE UNCHANGED publish_vars
    <2>1. stage' = stage /\ doc' = doc /\ file' = file
      BY <1>7 DEF publish_vars
    <2>2. TooLong(doc)' <=> TooLong(doc)
      BY <2>1 DEF TooLong
    <2> QED
      BY <1>2, <1>m, <2>1, <2>2 DEF FormInv, PassesIngest
  <1> QED
    BY <1>3, <1>4, <1>5, <1>6, <1>7 DEF PublishNext

\* Whatever is in the form: a file it hands out passes the crawl and is read as the
\* manifest it was made of, but for a blank tap and texts without a limit
\* (publish_generate, prune, Cicheto.model_validate).
THEOREM FormPasses == PublishSpec => []PassesIngest
  <1>1. PublishInit => FormInv
    BY DEF PublishInit, FormInv, PassesIngest
  <1>2. FormInv => PassesIngest
    BY DEF FormInv
  <1> QED
    BY <1>1, <1>2, FormStep, PTL DEF PublishSpec

-----------------------------------------------------------------------------
(* Netguard.                                                               *)

\* What a request must show when it leaves (one entry of DialsChecked).
DialAllowed(url, addr, answer) ==
    /\ \E j \in DOMAIN answer : answer[j] = addr
    /\ \A j \in DOMAIN answer : ~ Forbidden(answer[j])
    /\ url.host \in Addrs => addr = url.host
    /\ IS_PROD => url.scheme = "https"

\* Between the guard and the request nothing of what was checked is lost.
DialReady ==
    fetch = "dial" => safe_ip \in Addrs /\ DialAllowed(current, safe_ip, asked)

\* The URL of this hop is the Location of the request before it.
Led(i, url) == sent[i].reply.is_redirect /\ url = Join(sent[i].url, sent[i].reply.location)

\* Where the loop is, there are so many requests and open responses.
ChainReady ==
    /\ fetch = "idle" => sent = <<>> /\ hops = 0
    /\ fetch \in {"idle", "guard", "dial", "refused", "failed", "done"} => open = 0
    /\ fetch \in {"guard", "dial"} => Len(sent) = hops /\ (hops > 0 => Led(hops, current))
    /\ fetch = "answered" =>
          /\ Len(sent) = hops + 1 /\ open = 1
          /\ sent[hops + 1].url = current /\ sent[hops + 1].reply = resp
    /\ fetch = "handed" => ~ resp.is_redirect /\ open = 1
    /\ Len(sent) <= MAX_REDIRECTS + 1
    /\ \A i \in 1 .. Len(sent) - 1 : Led(i, sent[i + 1].url)

GuardInv == GuardTypeOK /\ DialReady /\ DialsChecked /\ ChainReady

\* The answer judged by is made of addresses, and its first is one of them.
LEMMA ResolvedAddrs ==
    ASSUME NEW url \in Urls, NEW answer \in Answers
    PROVE  /\ Resolved(url, answer) \in Seq(Addrs)
           /\ Resolved(url, answer) # <<>> =>
                /\ Head(Resolved(url, answer)) \in Addrs
                /\ 1 \in DOMAIN Resolved(url, answer)
                /\ Head(Resolved(url, answer)) = Resolved(url, answer)[1]
  <1> DEFINE res == Resolved(url, answer)
  <1>1. res \in Seq(Addrs)
    <2>1. CASE url.host \in Addrs
      BY <2>1 DEF Resolved
    <2>2. CASE url.host \notin Addrs
      BY <2>2, NetguardConstants DEF Resolved
    <2> QED
      BY <2>1, <2>2
  <1>2. ASSUME res # <<>>
        PROVE  Head(res) \in Addrs /\ 1 \in DOMAIN res /\ Head(res) = res[1]
    <2> HIDE DEF res
    <2> QED
      BY <1>1, <1>2
  <1> QED
    BY <1>1, <1>2

\* guard_url lets pass only what DialAllowed asks for.
LEMMA GuardChecks ==
    ASSUME NEW url \in Urls, NEW answer \in Answers, ~ Refused(url, answer),
           IS_PROD \in BOOLEAN
    PROVE  LET res == Resolved(url, answer)
           IN  res \in Seq(Addrs) /\ Head(res) \in Addrs /\ DialAllowed(url, Head(res), res)
  <1> DEFINE res == Resolved(url, answer)
  <1>1. res \in Seq(Addrs) /\ Head(res) \in Addrs /\ 1 \in DOMAIN res /\ Head(res) = res[1]
    BY ResolvedAddrs DEF Refused
  <1>2. \A j \in DOMAIN res : ~ Forbidden(res[j])
    BY DEF Refused
  <1>3. url.host \in Addrs => Head(res) = url.host
    BY DEF Resolved
  <1>4. IS_PROD => url.scheme = "https"
    BY DEF Refused
  <1> HIDE DEF res
  <1>5. DialAllowed(url, Head(res), res)
    BY <1>1, <1>2, <1>3, <1>4 DEF DialAllowed
  <1> QED
    BY <1>1, <1>5 DEF res

LEMMA JoinUrls ==
    ASSUME NEW url \in Urls, NEW location \in Locations
    PROVE  Join(url, location) \in Urls
  BY DEF Join, Locations

LEMMA GuardInvInit == GuardInit => GuardInv
  <1> SUFFICES ASSUME GuardInit PROVE GuardInv
    OBVIOUS
  <1>1. GuardTypeOK
    BY NetguardConstants DEF GuardInit, GuardTypeOK, NoUrl, NoResp, Responses, Locations
  <1>2. DialReady /\ DialsChecked
    BY DEF GuardInit, DialReady, DialsChecked
  <1>3. ChainReady
    BY NetguardConstants DEF GuardInit, ChainReady
  <1> QED
    BY <1>1, <1>2, <1>3 DEF GuardInv

\* The steps that send nothing keep what was said of the requests before.
LEMMA SentKept ==
    ASSUME DialsChecked, UNCHANGED <<IS_PROD, sent>>
    PROVE  DialsChecked'
  BY DEF DialsChecked, Forbidden

LEMMA GuardInvSend ==
    ASSUME GuardInv, NEW r \in Responses, Send(r)
    PROVE  GuardInv'
  <1> DEFINE q == [url |-> current, addr |-> safe_ip, asked |-> asked, reply |-> r]
  <1> USE DEF GuardInv
  <1>1. q \in Request
    BY DEF Send, GuardTypeOK, DialReady, Request
  <1>2. sent' = Append(sent, q) /\ sent \in Seq(Request)
    BY DEF Send, Dialled, GuardTypeOK
  <1>3. /\ sent' \in Seq(Request) /\ Len(sent') = Len(sent) + 1
        /\ \A i \in 1 .. Len(sent) : sent'[i] = sent[i]
        /\ sent'[Len(sent) + 1] = q
    BY <1>1, <1>2, AppendProperties
  <1>4. GuardTypeOK'
    BY <1>3, NetguardConstants DEF Send, GuardTypeOK, ChainReady
  <1>5. DialReady'
    BY DEF Send, DialReady
  <1>6. DialsChecked'
    <2> SUFFICES ASSUME NEW i \in DOMAIN sent'
                 PROVE  DialAllowed(sent'[i].url, sent'[i].addr, sent'[i].asked)
      BY DEF DialsChecked, DialAllowed, Forbidden, Send
    <2>1. i \in 1 .. Len(sent) + 1
      BY <1>3
    <2>2. CASE i = Len(sent) + 1
      BY <1>3, <2>2 DEF Send, DialReady
    <2>3. CASE i # Len(sent) + 1
      <3>1. i \in DOMAIN sent /\ sent'[i] = sent[i]
        BY <1>2, <1>3, <2>1, <2>3
      <3> QED
        BY <3>1 DEF DialsChecked, DialAllowed
    <2> QED
      BY <2>2, <2>3
  <1>7. ChainReady'
    <2>1. Len(sent) = hops /\ hops \in Nat /\ (hops > 0 => Led(hops, current))
      BY DEF Send, ChainReady, GuardTypeOK
    <2>2. /\ Len(sent') = hops' + 1 /\ open' = 1 /\ fetch' = "answered"
          /\ sent'[hops' + 1].url = current' /\ sent'[hops' + 1].reply = resp'
      BY <1>3, <2>1 DEF Send, ChainReady
    <2>3. Len(sent') <= MAX_REDIRECTS + 1
      BY <1>3, <2>1, NetguardConstants DEF GuardTypeOK
    <2>4. ASSUME NEW i \in 1 .. Len(sent') - 1
          PROVE  /\ sent'[i].reply.is_redirect
                 /\ sent'[i + 1].url = Join(sent'[i].url, sent'[i].reply.location)
      <3>1. i \in 1 .. Len(sent) /\ sent'[i] = sent[i]
        BY <1>3, <2>1
      <3>2. CASE i = Len(sent)
        <4>1. Led(i, current) /\ sent'[i + 1].url = current
          BY <1>3, <2>1, <3>1, <3>2
        <4> QED
          BY <3>1, <4>1 DEF Led
      <3>3. CASE i # Len(sent)
        <4>1. i \in 1 .. Len(sent) - 1 /\ sent'[i + 1] = sent[i + 1]
          BY <1>3, <2>1, <3>1, <3>3
        <4> QED
          BY <3>1, <4>1 DEF ChainReady, Led
      <3> QED
        BY <3>2, <3>3
    <2> QED
      BY <2>2, <2>3, <2>4 DEF ChainReady, Led
  <1> QED
    BY <1>4, <1>5, <1>6, <1>7

LEMMA GuardInvFollow ==
    ASSUME GuardInv, Follow
    PROVE  GuardInv'
  <1> USE DEF GuardInv
  <1>1. GuardTypeOK'
    <2>1. resp.location \in Locations /\ current \in Urls
      <3>1. resp \in Responses /\ resp.is_redirect /\ current \in Urls
        BY DEF Follow, GuardTypeOK
      <3>2. resp \in [is_redirect : {TRUE}, location : Locations]
        BY <3>1 DEF Responses
      <3> QED
        BY <3>1, <3>2
    <2>2. current' \in Urls
      BY <2>1, JoinUrls DEF Follow
    <2>3. hops' \in 0 .. MAX_REDIRECTS /\ open' \in 0 .. 1
      BY NetguardConstants DEF Follow, GuardTypeOK, ChainReady
    <2> QED
      BY <2>2, <2>3 DEF Follow, GuardTypeOK
  <1>2. DialReady' /\ DialsChecked'
    BY SentKept DEF Follow, DialReady
  <1>3. ChainReady'
    <2>1. hops \in Nat /\ Len(sent) = hops + 1 /\ open = 1
      BY NetguardConstants DEF Follow, ChainReady, GuardTypeOK
    <2>2. Led(hops + 1, current')
      BY DEF Follow, ChainReady, Led
    <2>3. hops' = hops + 1 /\ open' = 0 /\ fetch' = "guard" /\ sent' = sent
      BY <2>1 DEF Follow
    <2>4. \A i, url : Led(i, url) = Led(i, url)'
      BY <2>3 DEF Led
    <2> QED
      BY <2>1, <2>2, <2>3, <2>4 DEF ChainReady
  <1> QED
    BY <1>1, <1>2, <1>3

\* The steps at which a fetch ends.
LEMMA GuardInvEnds ==
    ASSUME GuardInv,
           SendFails \/ NoLocation \/ TooMany \/ HandOver \/ Finish
    PROVE  GuardInv'
  <1> USE DEF GuardInv
  <1>1. GuardTypeOK'
    BY DEF SendFails, NoLocation, TooMany, HandOver, Finish, GuardTypeOK, ChainReady
  <1>2. DialReady'
    BY DEF SendFails, NoLocation, TooMany, HandOver, Finish, DialReady
  <1>3. DialsChecked'
    BY SentKept DEF SendFails, NoLocation, TooMany, HandOver, Finish
  <1>4. ChainReady'
    BY DEF SendFails, NoLocation, TooMany, HandOver, Finish, ChainReady, Led, GuardTypeOK
  <1> QED
    BY <1>1, <1>2, <1>3, <1>4

LEMMA GuardInvNext == GuardInv /\ [GuardNext]_gvars => GuardInv'
  <1> SUFFICES ASSUME GuardInv, [GuardNext]_gvars PROVE GuardInv'
    OBVIOUS
  <1> USE DEF GuardInv
  <1>1. ASSUME NEW url \in Urls, Begin(url) PROVE GuardInv'
    <2>1. GuardTypeOK'
      BY <1>1, NetguardConstants DEF Begin, GuardTypeOK
    <2>2. DialReady' /\ DialsChecked'
      BY <1>1, SentKept DEF Begin, DialReady
    <2>3. ChainReady'
      BY <1>1, NetguardConstants DEF Begin, ChainReady, Led
    <2> QED
      BY <2>1, <2>2, <2>3
  <1>2. ASSUME NEW answer \in Answers, GuardRefuses(answer) PROVE GuardInv'
    <2>1. GuardTypeOK' /\ DialReady' /\ DialsChecked'
      BY <1>2, SentKept DEF GuardRefuses, GuardTypeOK, DialReady
    <2>2. ChainReady'
      BY <1>2 DEF GuardRefuses, ChainReady, Led
    <2> QED
      BY <2>1, <2>2
  <1>3. ASSUME NEW answer \in Answers, GuardPasses(answer) PROVE GuardInv'
    <2>1. /\ safe_ip' \in Addrs /\ asked' \in Seq(Addrs)
          /\ DialAllowed(current, safe_ip', asked')
      BY <1>3, GuardChecks DEF GuardPasses, GuardTypeOK
    <2>2. GuardTypeOK'
      BY <1>3, <2>1 DEF GuardPasses, GuardTypeOK
    <2>3. DialReady'
      BY <1>3, <2>1 DEF GuardPasses, DialReady, DialAllowed, Forbidden
    <2>4. DialsChecked'
      BY <1>3, SentKept DEF GuardPasses
    <2>5. ChainReady'
      BY <1>3 DEF GuardPasses, ChainReady, Led
    <2> QED
      BY <2>2, <2>3, <2>4, <2>5
  <1>4. CASE UNCHANGED gvars
    <2>1. GuardTypeOK' /\ DialReady' /\ DialsChecked'
      BY <1>4, SentKept DEF gvars, GuardTypeOK, DialReady, DialAllowed, Forbidden
    <2>2. ChainReady'
      BY <1>4 DEF gvars, ChainReady, Led
    <2> QED
      BY <2>1, <2>2
  <1> QED
    BY <1>1, <1>2, <1>3, <1>4, GuardInvSend, GuardInvFollow, GuardInvEnds DEF GuardNext

LEMMA GuardInvHolds == GuardSpec => []GuardInv
  BY GuardInvInit, GuardInvNext, PTL DEF GuardSpec

\* Every request goes to an address that the guard of that hop was given and
\* allowed, whatever a second lookup would answer (_pinned_request).
THEOREM FetchesDialChecked == GuardSpec => []DialsChecked
  <1>1. GuardInv => DialsChecked
    BY DEF GuardInv
  <1> QED
    BY <1>1, GuardInvHolds, PTL

\* Redirects are followed by their Locations, a bounded number of times, and no
\* response is left open (_guarded_redirects).
THEOREM FetchesFollowTheChain == GuardSpec => []FollowsTheChain
  <1>1. GuardInv => FollowsTheChain
    BY DEF GuardInv, ChainReady, FollowsTheChain, Led
  <1> QED
    BY <1>1, GuardInvHolds, PTL
=============================================================================
