---------------------------- MODULE PackagesProofs ----------------------------
(* Theorems about Newest, Imports, Heap and Hpkr, for any copies with any      *)
(* versions, any catalogs and importers, heaps and chunks of any size, and     *)
(* repository files of any bytes.                                              *)
EXTENDS Newest, Imports, Heap, Hpkr, TLAPS, SequenceTheorems, FiniteSetTheorems,
        WellFoundedInduction

-----------------------------------------------------------------------------
(* First and last places.                                                  *)

\* A set of naturals that is not empty has a least element.
LEMMA LeastNat ==
    ASSUME NEW S, S \subseteq Nat, S # {}
    PROVE  \E x \in S : \A y \in S : x <= y
  <1>1. PICK x \in S : \A y \in S : ~ (<<y, x>> \in OpToRel(<, Nat))
    BY NatLessThanWellFounded, WFMin
  <1>2. \A y \in S : ~ (y < x)
    BY <1>1 DEF OpToRel
  <1> QED
    BY <1>2

\* A set of places of a sequence that is not empty has a last one.
LEMMA LastPlace ==
    ASSUME NEW n \in Nat, NEW S, S \subseteq 1 .. n, S # {}
    PROVE  Max(S) \in S /\ \A y \in S : y <= Max(S)
  <1> DEFINE T == {m \in Nat : \E x \in S : m = n - x}
  <1>0. \A x \in S : x \in Int /\ n - x \in Nat
    OBVIOUS
  <1>1. T \subseteq Nat /\ T # {}
    BY <1>0
  <1>2. PICK m \in T : \A k \in T : m <= k
    BY <1>1, LeastNat
  <1>3. PICK x \in S : m = n - x
    OBVIOUS
  <1>4. \A y \in S : n - y \in T
    BY <1>0
  <1>5. \A y \in S : x >= y
    BY <1>0, <1>2, <1>3, <1>4
  <1>6. Max(S) \in S /\ \A y \in S : Max(S) >= y
    BY <1>5 DEF Max
  <1> QED
    BY <1>6

LEMMA EmptyDomain == DOMAIN << >> = {}
  <1>1. << >> \in Seq(Nat) /\ Len(<< >>) = 0
    OBVIOUS
  <1>2. DOMAIN << >> = 1 .. Len(<< >>)
    BY <1>1, LenProperties
  <1> QED
    BY <1>1, <1>2

-----------------------------------------------------------------------------
(* Imports.                                                                *)

\* What is known of the answer of a request to /resolve.
AnswerInv ==
    /\ resolving.status = "404" => ~ resolving.due
    /\ resolving.status = "fetch" =>
         /\ resolving.source \in Listings
         /\ resolving.name \in DOMAIN Written(resolving.source)
         /\ resolving.version = Written(resolving.source)[resolving.name]
    /\ resolving.status = "502" /\ resolving.arch = "" /\ resolving.listed # <<>> =>
          resolving.name \notin steady
    /\ resolving.status = "200" /\ resolving.arch = "" /\ resolving.calm =>
          \E a \in DOMAIN resolving.artifacts : resolving.artifacts[a] = resolving.version

\* Whatever catalog is the repository's, is being imported or was imported, the
\* names that are steady are in it; the rows are those of the catalog imported.
ImportsInv ==
    /\ listing \in Listings
    /\ importing \in [Importers -> Listings \cup {<<>>}]
    /\ source \in Listings \cup {<<>>}
    /\ imported = Written(source)
    /\ steady \subseteq NamesOf(listing)
    /\ \A i \in Importers : importing[i] # <<>> => steady \subseteq NamesOf(importing[i])
    /\ once \subseteq Legal /\ steady \cap once \subseteq DOMAIN imported
    /\ AnswerInv

\* The last package of a name, and the last of it for an architecture.
LEMMA LastOfName ==
    ASSUME NEW ps \in Seq(Package), NEW n \in NamesOf(ps)
    PROVE  \E a \in DOMAIN Found(ps, n, "") :
              Found(ps, n, "")[a]
                = ps[SelectLastInSeq(ps, LAMBDA p : p.name = n)].version
  <1> DEFINE len == Len(ps)
             I == {i \in 1 .. len : ps[i].name = n}
             k == Max(I)
             a == ps[k].architecture
             J == {i \in 1 .. len : ps[i].name = n /\ ps[i].architecture = a}
             hits == {p \in ToSet(ps) : p.name = n /\ "" \in {"", p.architecture}}
  <1>0. len \in Nat /\ \A i \in 1 .. len : ps[i] \in ToSet(ps)
    BY DEF ToSet
  <1>1. I # {} /\ I \subseteq 1 .. len
    BY DEF NamesOf, ToSet
  <1>2. k \in I /\ \A i \in I : i <= k
    BY <1>0, <1>1, LastPlace
  <1>3. SelectLastInSeq(ps, LAMBDA p : p.name = n) = k
    BY <1>1 DEF SelectLastInSeq
  <1>4. J # {} /\ J \subseteq 1 .. len /\ k \in J
    BY <1>2
  <1>5. Max(J) \in J /\ \A i \in J : i <= Max(J)
    BY <1>0, <1>4, LastPlace
  <1>6. Max(J) = k
    <2>1. J \subseteq I /\ I \subseteq Nat
      OBVIOUS
    <2> HIDE DEF I, J, k
    <2>2. Max(J) \in I /\ k \in J /\ Max(J) \in Nat /\ k \in Nat
      BY <1>2, <1>4, <1>5, <2>1
    <2>3. Max(J) <= k /\ k <= Max(J)
      BY <1>2, <1>5, <2>2
    <2> QED
      BY <2>2, <2>3
  <1>7. SelectLastInSeq(ps, LAMBDA p : p.name = n /\ p.architecture = a) = k
    BY <1>4, <1>6 DEF SelectLastInSeq
  <1>8. ps[k] \in hits
    BY <1>0, <1>2
  <1>9. /\ a \in DOMAIN Found(ps, n, "")
        /\ Found(ps, n, "")[a] =
             ps[SelectLastInSeq(ps, LAMBDA p : p.name = n /\ p.architecture = a)].version
    BY <1>8 DEF Found
  <1> QED
    BY <1>3, <1>7, <1>9

\* A name that is not found for any architecture is not listed.
LEMMA NotFound ==
    ASSUME NEW ps \in Seq(Package), NEW n, Found(ps, n, "") = <<>>
    PROVE  n \notin NamesOf(ps)
  <1> SUFFICES ASSUME n \in NamesOf(ps) PROVE FALSE
    OBVIOUS
  <1>1. PICK a \in DOMAIN Found(ps, n, "") : TRUE
    BY LastOfName
  <1> QED
    BY <1>1, EmptyDomain

LEMMA ListingsAreSeqs == \A l \in Listings : l \in Seq(Package)
  BY ImportsConstants

LEMMA EmptyWritten == Written(<<>>) = <<>> /\ NamesOf(<<>>) = {}
  <1>1. ToSet(<<>>) = {}
    BY EmptyDomain DEF ToSet
  <1>2. NamesOf(<<>>) = {}
    BY <1>1 DEF NamesOf
  <1>3. DOMAIN Written(<<>>) = {} /\ Written(<<>>) = [n \in {} |-> Written(<<>>)[n]]
    BY <1>2 DEF Written
  <1>4. << >> = [n \in {} |-> Written(<<>>)[n]]
    BY EmptyDomain
  <1> QED
    BY <1>2, <1>3, <1>4

\* An answer stays as good as it was when fewer names are steady.
LEMMA AnswerKept ==
    ASSUME AnswerInv, resolving' = resolving, steady' \subseteq steady
    PROVE  AnswerInv'
  BY DEF AnswerInv

LEMMA ImportsStep == ImportsInv /\ [ImportsNext]_imports_vars => ImportsInv'
  <1> SUFFICES ASSUME ImportsInv, [ImportsNext]_imports_vars PROVE ImportsInv'
    OBVIOUS
  <1> USE DEF ImportsInv
  <1>1. ASSUME NEW ps \in Listings, Relists(ps) PROVE ImportsInv'
    BY <1>1, AnswerKept DEF Relists
  <1>2. ASSUME NEW i \in Importers, Commits(i) PROVE ImportsInv'
    <2>1. /\ imported' = Written(importing[i]) /\ source' = importing[i]
          /\ once' = once \cup DOMAIN imported'
          /\ importing' = [importing EXCEPT ![i] = <<>>]
          /\ importing[i] # <<>> /\ importing[i] \in Listings
          /\ UNCHANGED <<listing, listings, resolving, steady>>
      BY <1>2 DEF Commits
    <2>2. DOMAIN imported' = NamesOf(importing[i]) \cap Legal
      BY <2>1 DEF Written
    <2>3. steady \subseteq NamesOf(importing[i])
      BY <2>1
    <2>4. once' \subseteq Legal /\ steady' \cap once' \subseteq DOMAIN imported'
      BY <2>1, <2>2, <2>3
    <2>5. AnswerInv'
      BY <2>1, AnswerKept
    <2>6. \A j \in Importers : importing'[j] # <<>> => steady' \subseteq NamesOf(importing'[j])
      BY <2>1
    <2> QED
      BY <2>1, <2>4, <2>5, <2>6
  <1>3. ASSUME NEW i \in Importers, CommitFails(i) PROVE ImportsInv'
    BY <1>3, AnswerKept DEF CommitFails
  <1>4. ASSUME NEW i \in Importers, NEW whole \in BOOLEAN, ReadsCatalog(i, whole)
        PROVE  ImportsInv'
    <2>1. Parsed(whole) \in {listing, <<>>}
      BY DEF Parsed
    <2> QED
      BY <1>4, <2>1, AnswerKept DEF ReadsCatalog
  <1>5. ASSUME NEW n, NEW arch, Asks(n, arch) PROVE ImportsInv'
    <2>1. UNCHANGED <<listing, listings, imported, source, importing, steady, once>>
      BY <1>5 DEF Asks
    <2>2. CASE n \in DOMAIN imported
      <3>1. resolving' = [status |-> "fetch", name |-> n, arch |-> arch,
                          version |-> imported[n], source |-> source]
        BY <1>5, <2>2 DEF Asks
      <3>2. source # <<>>
        BY <2>2, EmptyWritten, EmptyDomain
      <3> QED
        BY <2>1, <2>2, <3>1, <3>2 DEF AnswerInv
    <2>3. CASE n \notin DOMAIN imported
      <3>1. resolving' = [status |-> "404", name |-> n, due |-> n \in steady \cap once]
        BY <1>5, <2>3 DEF Asks
      <3>2. n \notin steady \cap once
        BY <2>3
      <3> QED
        BY <2>1, <3>1, <3>2 DEF AnswerInv
    <2> QED
      BY <2>2, <2>3
  <1>6. ASSUME NEW whole \in BOOLEAN, Answers502(whole) PROVE ImportsInv'
    <2>1. /\ resolving' = [status |-> "502", name |-> resolving.name, arch |-> resolving.arch,
                           listed |-> Parsed(whole)]
          /\ Found(Parsed(whole), resolving.name, resolving.arch) = <<>>
          /\ UNCHANGED <<listing, listings, imported, source, importing, steady, once>>
      BY <1>6 DEF Answers502
    <2>2. Parsed(whole) # <<>> => Parsed(whole) = listing
      BY DEF Parsed
    <2>3. listing \in Seq(Package)
      BY ListingsAreSeqs
    <2>4. resolving.arch = "" /\ Parsed(whole) # <<>> => resolving.name \notin steady
      BY <2>1, <2>2, <2>3, NotFound
    <2> QED
      BY <2>1, <2>4 DEF AnswerInv
  <1>7. ASSUME Answers200 PROVE ImportsInv'
    <2> DEFINE F == Found(listing, resolving.name, resolving.arch)
    <2>1. /\ resolving' = [status |-> "200", name |-> resolving.name, arch |-> resolving.arch,
                           version |-> resolving.version, listed |-> listing,
                           calm |-> resolving.source = listing, artifacts |-> F]
          /\ resolving.status = "fetch"
          /\ UNCHANGED <<listing, listings, imported, source, importing, steady, once>>
      BY <1>7 DEF Answers200
    <2>2. listing \in Seq(Package)
      BY ListingsAreSeqs
    <2>3. resolving.arch = "" /\ resolving.source = listing =>
            \E a \in DOMAIN F : F[a] = resolving.version
      <3> SUFFICES ASSUME resolving.arch = "", resolving.source = listing
                   PROVE  \E a \in DOMAIN F : F[a] = resolving.version
        OBVIOUS
      <3>1. /\ resolving.name \in DOMAIN Written(listing)
            /\ resolving.version = Written(listing)[resolving.name]
        BY <2>1 DEF AnswerInv
      <3>2. /\ resolving.name \in NamesOf(listing)
            /\ resolving.version = listing[SelectLastInSeq(listing,
                                             LAMBDA p : p.name = resolving.name)].version
        BY <3>1 DEF Written
      <3> QED
        BY <2>2, <3>2, LastOfName
    <2> HIDE DEF F
    <2> QED
      BY <2>1, <2>3 DEF AnswerInv
  <1>8. CASE UNCHANGED imports_vars
    BY <1>8 DEF imports_vars, AnswerInv
  <1> QED
    BY <1>1, <1>2, <1>3, <1>4, <1>5, <1>6, <1>7, <1>8 DEF ImportsNext

\* An app that the repository has listed all along and that was imported once is
\* resolved, whatever catalogs it publishes, however imports overlap and whichever
\* fetches fail; and while the catalog is the one of its row, the version told for
\* all architectures is that of one of the packages handed out.
THEOREM ImportsResolve == ImportsSpec => []ImportedResolves
  <1>1. ImportsInit => ImportsInv
    BY EmptyWritten DEF ImportsInit, ImportsInv, AnswerInv, NoAnswer
  <1>2. ImportsInv => ImportedResolves
    BY DEF ImportsInv, AnswerInv, ImportedResolves
  <1> QED
    BY <1>1, <1>2, ImportsStep, PTL DEF ImportsSpec

-----------------------------------------------------------------------------
(* The order of versions.                                                  *)
Three == {-1, 0, 1}

\* f compares the members of S as an order does, up to members that are equal.
Preorder(f, S) ==
    /\ f \in [S \X S -> Three]
    /\ \A x, y \in S : f[<<x, y>>] = - f[<<y, x>>]
    /\ \A x, y, z \in S : f[<<x, y>>] <= 0 /\ f[<<y, z>>] <= 0 => f[<<x, z>>] <= 0

\* Its values, and what transitivity says of equal and strictly smaller members.
LEMMA PreorderValues ==
    ASSUME NEW f, NEW S, Preorder(f, S), NEW x \in S, NEW y \in S
    PROVE  f[<<x, y>>] \in Three
  BY DEF Preorder

LEMMA PreorderTurns ==
    ASSUME NEW f, NEW S, Preorder(f, S), NEW x \in S, NEW y \in S
    PROVE  f[<<x, y>>] = - f[<<y, x>>]
  BY DEF Preorder

LEMMA PreorderFacts ==
    ASSUME NEW f, NEW S, Preorder(f, S), NEW x \in S, NEW y \in S, NEW z \in S
    PROVE  /\ f[<<x, y>>] = 0 => f[<<x, z>>] = f[<<y, z>>]
           /\ f[<<y, z>>] = 0 => f[<<x, z>>] = f[<<x, y>>]
           /\ f[<<x, y>>] < 0 /\ f[<<y, z>>] < 0 => f[<<x, z>>] < 0
  <1>1. \A a, b \in S : f[<<a, b>>] \in Three /\ f[<<a, b>>] = - f[<<b, a>>]
    BY DEF Preorder
  <1>2. \A a, b, c \in S : f[<<a, b>>] <= 0 /\ f[<<b, c>>] <= 0 => f[<<a, c>>] <= 0
    BY DEF Preorder
  <1>3. ASSUME NEW a \in S, NEW b \in S
        PROVE  f[<<a, b>>] \in Int /\ (f[<<a, b>>] <= 0 <=> f[<<b, a>>] >= 0)
    <2>1. f[<<a, b>>] \in Three /\ f[<<b, a>>] \in Three /\ f[<<a, b>>] = - f[<<b, a>>]
      BY <1>1
    <2> QED
      BY <2>1 DEF Three
  <1>5. f[<<x, y>>] = 0 => f[<<x, z>>] = f[<<y, z>>]
    <2> SUFFICES ASSUME f[<<x, y>>] = 0 PROVE f[<<x, z>>] = f[<<y, z>>]
      OBVIOUS
    <2>1. f[<<y, x>>] = 0
      BY <1>1, <1>3
    <2>2. f[<<y, z>>] <= 0 <=> f[<<x, z>>] <= 0
      BY <1>2, <2>1
    <2>3. f[<<z, y>>] <= 0 <=> f[<<z, x>>] <= 0
      BY <1>2, <2>1
    <2> QED
      BY <1>1, <1>3, <2>2, <2>3 DEF Three
  <1>6. f[<<y, z>>] = 0 => f[<<x, z>>] = f[<<x, y>>]
    <2> SUFFICES ASSUME f[<<y, z>>] = 0 PROVE f[<<x, z>>] = f[<<x, y>>]
      OBVIOUS
    <2>1. f[<<z, y>>] = 0
      BY <1>1, <1>3
    <2>2. f[<<x, y>>] <= 0 <=> f[<<x, z>>] <= 0
      BY <1>2, <2>1
    <2>3. f[<<y, x>>] <= 0 <=> f[<<z, x>>] <= 0
      BY <1>2, <2>1
    <2> QED
      BY <1>1, <1>3, <2>2, <2>3 DEF Three
  <1>7. f[<<x, y>>] < 0 /\ f[<<y, z>>] < 0 => f[<<x, z>>] < 0
    <2> SUFFICES ASSUME f[<<x, y>>] < 0, f[<<y, z>>] < 0, ~ (f[<<x, z>>] < 0) PROVE FALSE
      BY <1>1
    <2>0. f[<<x, z>>] \in Three /\ f[<<z, x>>] \in Three /\ f[<<x, y>>] \in Three
          /\ f[<<z, x>>] = - f[<<x, z>>]
      BY <1>1
    <2>1. f[<<z, x>>] <= 0 /\ f[<<x, y>>] <= 0
      BY <2>0 DEF Three
    <2>2. f[<<z, y>>] <= 0
      BY <1>2, <2>1
    <2> QED
      BY <1>1, <1>3, <2>2 DEF Three
  <1> QED
    BY <1>5, <1>6, <1>7

\* v is what the first of the comparisons E[1], E[2], ... tells that tells x and y
\* apart; 0 if none does.
Tells(E, x, y, v) ==
    \/ v = 0 /\ \A k \in Nat : E[k][<<x, y>>] = 0
    \/ \E k \in Nat : /\ v = E[k][<<x, y>>] /\ v # 0
                      /\ \A j \in Nat : j < k => E[j][<<x, y>>] = 0

\* Comparing by one order after the other is an order.
LEMMA ChainPreorder ==
    ASSUME NEW S, NEW E, \A k \in Nat : Preorder(E[k], S),
           NEW g \in [S \X S -> Three], \A x, y \in S : Tells(E, x, y, g[<<x, y>>])
    PROVE  Preorder(g, S)
  <1>1. ASSUME NEW k \in Nat, NEW x \in S, NEW y \in S
        PROVE  E[k][<<x, y>>] \in Three /\ E[k][<<y, x>>] = - E[k][<<x, y>>]
    <2> DEFINE f == E[k]
    <2>1. Preorder(f, S)
      OBVIOUS
    <2> HIDE DEF f
    <2>2. f[<<x, y>>] \in Three /\ f[<<y, x>>] = - f[<<x, y>>]
      BY ONLY <2>1, x \in S, y \in S, PreorderValues, PreorderTurns
    <2> QED
      BY <2>2 DEF f
  <1>2. ASSUME NEW x \in S, NEW y \in S PROVE g[<<x, y>>] = - g[<<y, x>>]
    <2>1. CASE \A k \in Nat : E[k][<<x, y>>] = 0
      <3>1. \A k \in Nat : E[k][<<y, x>>] = 0
        BY <1>1, <2>1
      <3>2. Tells(E, x, y, g[<<x, y>>]) /\ Tells(E, y, x, g[<<y, x>>])
        OBVIOUS
      <3>3. g[<<x, y>>] = 0
        BY ONLY <2>1, <3>2 DEF Tells
      <3>4. g[<<y, x>>] = 0
        BY ONLY <3>1, <3>2 DEF Tells
      <3>5. 0 \in Int /\ \A n \in Int : n = 0 => n = - n
        OBVIOUS
      <3> QED
        BY ONLY <3>3, <3>4, <3>5
    <2>2. ASSUME NEW k \in Nat, g[<<x, y>>] = E[k][<<x, y>>], g[<<x, y>>] # 0,
                 \A j \in Nat : j < k => E[j][<<x, y>>] = 0
          PROVE  g[<<x, y>>] = - g[<<y, x>>]
      <3>1. /\ E[k][<<y, x>>] = - g[<<x, y>>] /\ E[k][<<y, x>>] # 0
            /\ \A j \in Nat : j < k => E[j][<<y, x>>] = 0
        BY <1>1, <2>2 DEF Three
      <3>2. PICK m \in Nat : /\ g[<<y, x>>] = E[m][<<y, x>>] /\ g[<<y, x>>] # 0
                             /\ \A j \in Nat : j < m => E[j][<<y, x>>] = 0
        BY <3>1 DEF Tells
      <3>3. m = k
        BY <3>1, <3>2
      <3>4. g[<<x, y>>] \in Three
        OBVIOUS
      <3> QED
        BY <3>1, <3>2, <3>3, <3>4 DEF Three
    <2> QED
      BY <2>1, <2>2 DEF Tells
  <1>3. ASSUME NEW x \in S, NEW y \in S, NEW z \in S, g[<<x, y>>] <= 0, g[<<y, z>>] <= 0
        PROVE  g[<<x, z>>] <= 0
    <2>0. /\ \A k \in Nat : E[k][<<x, y>>] = 0 => E[k][<<x, z>>] = E[k][<<y, z>>]
          /\ \A k \in Nat : E[k][<<y, z>>] = 0 => E[k][<<x, z>>] = E[k][<<x, y>>]
          /\ \A k \in Nat : E[k][<<x, y>>] < 0 /\ E[k][<<y, z>>] < 0 => E[k][<<x, z>>] < 0
      <3>1. ASSUME NEW k \in Nat
            PROVE  /\ E[k][<<x, y>>] = 0 => E[k][<<x, z>>] = E[k][<<y, z>>]
                   /\ E[k][<<y, z>>] = 0 => E[k][<<x, z>>] = E[k][<<x, y>>]
                   /\ E[k][<<x, y>>] < 0 /\ E[k][<<y, z>>] < 0 => E[k][<<x, z>>] < 0
        <4> DEFINE f == E[k]
        <4>1. Preorder(f, S)
          OBVIOUS
        <4> HIDE DEF f
        <4>2. /\ f[<<x, y>>] = 0 => f[<<x, z>>] = f[<<y, z>>]
              /\ f[<<y, z>>] = 0 => f[<<x, z>>] = f[<<x, y>>]
              /\ f[<<x, y>>] < 0 /\ f[<<y, z>>] < 0 => f[<<x, z>>] < 0
          BY ONLY <4>1, x \in S, y \in S, z \in S, PreorderFacts
        <4> QED
          BY <4>2 DEF f
      <3> QED
        BY <3>1
    <2>1. /\ Tells(E, x, y, g[<<x, y>>]) /\ Tells(E, y, z, g[<<y, z>>])
          /\ Tells(E, x, z, g[<<x, z>>])
          /\ g[<<x, y>>] \in Three /\ g[<<y, z>>] \in Three /\ g[<<x, z>>] \in Three
      OBVIOUS
    <2>2. CASE \A k \in Nat : E[k][<<x, y>>] = 0
      <3>1. \A k \in Nat : E[k][<<x, z>>] = E[k][<<y, z>>]
        BY <2>0, <2>2
      <3>2. g[<<x, z>>] = g[<<y, z>>]
        <4>1. CASE \A k \in Nat : E[k][<<y, z>>] = 0
          BY <2>1, <3>1, <4>1 DEF Tells
        <4>2. ASSUME NEW m \in Nat, g[<<y, z>>] = E[m][<<y, z>>], g[<<y, z>>] # 0,
                     \A j \in Nat : j < m => E[j][<<y, z>>] = 0
              PROVE  g[<<x, z>>] = g[<<y, z>>]
          <5>1. PICK k \in Nat : /\ g[<<x, z>>] = E[k][<<x, z>>] /\ g[<<x, z>>] # 0
                                 /\ \A j \in Nat : j < k => E[j][<<x, z>>] = 0
            BY <2>1, <3>1, <4>2 DEF Tells
          <5>2. k = m
            BY <3>1, <4>2, <5>1
          <5> QED
            BY <3>1, <4>2, <5>1, <5>2
        <4> QED
          BY <2>1, <4>1, <4>2 DEF Tells
      <3> QED
        BY <1>3, <3>2
    <2>3. CASE \A k \in Nat : E[k][<<y, z>>] = 0
      <3>1. \A k \in Nat : E[k][<<x, z>>] = E[k][<<x, y>>]
        BY <2>0, <2>3
      <3>2. g[<<x, z>>] = g[<<x, y>>]
        <4>1. CASE \A k \in Nat : E[k][<<x, y>>] = 0
          BY <2>1, <3>1, <4>1 DEF Tells
        <4>2. ASSUME NEW m \in Nat, g[<<x, y>>] = E[m][<<x, y>>], g[<<x, y>>] # 0,
                     \A j \in Nat : j < m => E[j][<<x, y>>] = 0
              PROVE  g[<<x, z>>] = g[<<x, y>>]
          <5>1. PICK k \in Nat : /\ g[<<x, z>>] = E[k][<<x, z>>] /\ g[<<x, z>>] # 0
                                 /\ \A j \in Nat : j < k => E[j][<<x, z>>] = 0
            BY <2>1, <3>1, <4>2 DEF Tells
          <5>2. k = m
            BY <3>1, <4>2, <5>1
          <5> QED
            BY <3>1, <4>2, <5>1, <5>2
        <4> QED
          BY <2>1, <4>1, <4>2 DEF Tells
      <3> QED
        BY <1>3, <3>2
    <2>4. ASSUME NEW k \in Nat, E[k][<<x, y>>] < 0,
                 \A j \in Nat : j < k => E[j][<<x, y>>] = 0,
                 NEW m \in Nat, E[m][<<y, z>>] < 0,
                 \A j \in Nat : j < m => E[j][<<y, z>>] = 0
          PROVE  g[<<x, z>>] <= 0
      <3>1. PICK l \in Nat : /\ E[l][<<x, z>>] < 0
                             /\ \A j \in Nat : j < l => E[j][<<x, z>>] = 0
        <4>1. CASE k < m
          <5>1. E[k][<<y, z>>] = 0 /\ E[k][<<x, z>>] < 0
            BY <2>0, <2>4, <4>1
          <5>2. \A j \in Nat : j < k => j < m
            BY <4>1
          <5>3. \A j \in Nat : j < k => E[j][<<x, z>>] = 0
            BY <2>0, <2>4, <5>2
          <5> QED
            BY <5>1, <5>3
        <4>2. CASE m < k
          <5>1. E[m][<<x, y>>] = 0 /\ E[m][<<x, z>>] < 0
            BY <2>0, <2>4, <4>2
          <5>2. \A j \in Nat : j < m => j < k
            BY <4>2
          <5>3. \A j \in Nat : j < m => E[j][<<x, z>>] = 0
            BY <2>0, <2>4, <5>2
          <5> QED
            BY <5>1, <5>3
        <4>3. CASE m = k
          <5>1. E[k][<<x, z>>] < 0
            BY <2>0, <2>4, <4>3
          <5>2. \A j \in Nat : j < k => E[j][<<x, z>>] = 0
            BY <2>0, <2>4, <4>3
          <5> QED
            BY <5>1, <5>2
        <4> QED
          BY <4>1, <4>2, <4>3
      <3>2. E[l][<<x, z>>] # 0
        BY <3>1, <1>1 DEF Three
      <3>3. PICK n \in Nat : /\ g[<<x, z>>] = E[n][<<x, z>>] /\ g[<<x, z>>] # 0
                             /\ \A j \in Nat : j < n => E[j][<<x, z>>] = 0
        BY <2>1, <3>2 DEF Tells
      <3>4. n = l
        BY <3>1, <3>2, <3>3
      <3> QED
        BY <1>1, <3>1, <3>3, <3>4 DEF Three
    <2>5. CASE /\ \E k \in Nat : E[k][<<x, y>>] # 0
               /\ \E k \in Nat : E[k][<<y, z>>] # 0
      <3>1. PICK k \in Nat : /\ g[<<x, y>>] = E[k][<<x, y>>] /\ g[<<x, y>>] # 0
                             /\ \A j \in Nat : j < k => E[j][<<x, y>>] = 0
        BY <2>1, <2>5 DEF Tells
      <3>2. PICK m \in Nat : /\ g[<<y, z>>] = E[m][<<y, z>>] /\ g[<<y, z>>] # 0
                             /\ \A j \in Nat : j < m => E[j][<<y, z>>] = 0
        BY <2>1, <2>5 DEF Tells
      <3>3. E[k][<<x, y>>] < 0 /\ E[m][<<y, z>>] < 0
        BY <1>3, <2>1, <3>1, <3>2 DEF Three
      <3> QED
        BY <2>4, <3>1, <3>2, <3>3
    <2> QED
      BY <2>2, <2>3, <2>5
  <1> QED
    BY <1>2, <1>3 DEF Preorder

\* Places in a set of naturals: the first one.
LEMMA FirstPlaceOf ==
    ASSUME NEW S, S \subseteq Nat, S # {}
    PROVE  /\ First(S) \in S /\ First(S) \in Nat
           /\ \A y \in S : First(S) <= y
  <1>1. PICK x \in S : \A y \in S : x <= y
    BY LeastNat
  <1> QED
    BY <1>1 DEF First

\* Integers are in order.
IntOrder == [p \in Int \X Int |-> Sign(p[1], p[2])]

LEMMA IntPreorder == Preorder(IntOrder, Int)
  <1>1. IntOrder \in [Int \X Int -> Three]
    BY DEF IntOrder, Sign, Three
  <1>2. \A x, y \in Int : IntOrder[<<x, y>>] = Sign(x, y)
    BY DEF IntOrder
  <1>3. \A x, y \in Int : Sign(x, y) = - Sign(y, x)
    BY DEF Sign
  <1>4. \A x, y, z \in Int : Sign(x, y) <= 0 /\ Sign(y, z) <= 0 => Sign(x, z) <= 0
    BY DEF Sign
  <1> QED
    BY <1>1, <1>2, <1>3, <1>4 DEF Preorder

\* The members of S compared by what h makes of them.
By(f, h, S) == [p \in S \X S |-> f[<<h[p[1]], h[p[2]]>>]]

LEMMA PullBack ==
    ASSUME NEW f, NEW T, Preorder(f, T), NEW S, NEW h \in [S -> T]
    PROVE  Preorder(By(f, h, S), S)
  <1>1. \A x, y \in S : By(f, h, S)[<<x, y>>] = f[<<h[x], h[y]>>]
    BY DEF By
  <1>2. By(f, h, S) \in [S \X S -> Three]
    <2>1. \A x, y \in T : f[<<x, y>>] \in Three
      BY PreorderValues
    <2> QED
      BY <2>1 DEF By
  <1>3. \A x, y \in T : f[<<x, y>>] = - f[<<y, x>>]
    BY PreorderTurns
  <1>4. \A x, y, z \in T : f[<<x, y>>] <= 0 /\ f[<<y, z>>] <= 0 => f[<<x, z>>] <= 0
    BY DEF Preorder
  <1>5. \A x \in S : h[x] \in T
    OBVIOUS
  <1> DEFINE g == By(f, h, S)
  <1> HIDE DEF g
  <1>6. ASSUME NEW x \in S, NEW y \in S PROVE g[<<x, y>>] = - g[<<y, x>>]
    <2>1. g[<<x, y>>] = f[<<h[x], h[y]>>] /\ g[<<y, x>>] = f[<<h[y], h[x]>>]
      BY <1>1 DEF g
    <2> QED
      BY <1>3, <1>5, <2>1
  <1>7. ASSUME NEW x \in S, NEW y \in S, NEW z \in S, g[<<x, y>>] <= 0, g[<<y, z>>] <= 0
        PROVE  g[<<x, z>>] <= 0
    <2>1. /\ g[<<x, y>>] = f[<<h[x], h[y]>>] /\ g[<<y, z>>] = f[<<h[y], h[z]>>]
          /\ g[<<x, z>>] = f[<<h[x], h[z]>>]
      BY <1>1 DEF g
    <2> QED
      BY <1>4, <1>5, <1>7, <2>1
  <1>8. g \in [S \X S -> Three]
    BY <1>2 DEF g
  <1>9. Preorder(g, S)
    BY <1>6, <1>7, <1>8 DEF Preorder
  <1> QED
    BY <1>9 DEF g

-----------------------------------------------------------------------------
(* Sequences compared place by place.                                      *)

\* Lexicographic, of a comparison that is a function.
LexF(f, a, b) ==
    LET n       == IF Len(a) < Len(b) THEN Len(a) ELSE Len(b)
        differs == {i \in 1 .. n : f[<<a[i], b[i]>>] # 0}
    IN  IF differs = {} THEN Sign(Len(a), Len(b))
        ELSE f[<<a[First(differs)], b[First(differs)]>>]

\* At place k the sequence that has ended ranks below.
AtPlace(f, k, a, b) ==
    IF k = 0 THEN 0
    ELSE IF k <= Len(a) /\ k <= Len(b) THEN f[<<a[k], b[k]>>]
    ELSE IF k <= Len(a) THEN 1
    ELSE IF k <= Len(b) THEN -1 ELSE 0

PlaceOrder(f, k, S) == [p \in S \X S |-> AtPlace(f, k, p[1], p[2])]
LexOrder(f, S)      == [p \in S \X S |-> LexF(f, p[1], p[2])]

LEMMA PlacePreorder ==
    ASSUME NEW f, NEW T, Preorder(f, T), NEW k \in Nat
    PROVE  Preorder(PlaceOrder(f, k, Seq(T)), Seq(T))
  <1> DEFINE S == Seq(T)
  <1>1. \A a, b \in S : PlaceOrder(f, k, S)[<<a, b>>] = AtPlace(f, k, a, b)
    BY DEF PlaceOrder
  <1>2. \A a \in S : Len(a) \in Nat /\ (k # 0 /\ k <= Len(a) => a[k] \in T)
    OBVIOUS
  <1>3. \A x, y \in T : f[<<x, y>>] \in Three
    BY PreorderValues
  <1>4. \A x, y \in T : f[<<x, y>>] = - f[<<y, x>>]
    BY PreorderTurns
  <1>5. \A x, y, z \in T : f[<<x, y>>] <= 0 /\ f[<<y, z>>] <= 0 => f[<<x, z>>] <= 0
    BY DEF Preorder
  <1> HIDE DEF S
  <1>6. \A a, b \in S : AtPlace(f, k, a, b) \in Three
    BY <1>2, <1>3 DEF AtPlace, Three
  <1>7. \A a, b \in S : AtPlace(f, k, a, b) = - AtPlace(f, k, b, a)
    BY <1>2, <1>3, <1>4 DEF AtPlace, Three
  <1>8. ASSUME NEW a \in S, NEW b \in S, NEW c \in S,
               AtPlace(f, k, a, b) <= 0, AtPlace(f, k, b, c) <= 0
        PROVE  AtPlace(f, k, a, c) <= 0
    BY <1>2, <1>3, <1>5, <1>8 DEF AtPlace
  <1>9. PlaceOrder(f, k, S) \in [S \X S -> Three]
    BY <1>6 DEF PlaceOrder
  <1>10. Preorder(PlaceOrder(f, k, S), S)
    BY <1>1, <1>7, <1>8, <1>9 DEF Preorder
  <1> QED
    BY <1>10 DEF S

\* Place by place is an order if what is compared at each is one.
LEMMA LexPreorder ==
    ASSUME NEW f, NEW T, Preorder(f, T)
    PROVE  Preorder(LexOrder(f, Seq(T)), Seq(T))
  <1> DEFINE S == Seq(T)
             E == [k \in Nat |-> PlaceOrder(f, k, S)]
             g == LexOrder(f, S)
  <1>1. \A k \in Nat : Preorder(E[k], S)
    BY PlacePreorder
  <1>2. \A k \in Nat, a, b \in S : E[k][<<a, b>>] = AtPlace(f, k, a, b)
    BY DEF PlaceOrder
  <1>3. \A a, b \in S : g[<<a, b>>] = LexF(f, a, b)
    BY DEF LexOrder
  <1>4. \A a \in S : Len(a) \in Nat /\ \A k \in 1 .. Len(a) : a[k] \in T
    OBVIOUS
  <1>5. \A x, y \in T : f[<<x, y>>] \in Three
    BY PreorderValues
  <1> HIDE DEF S, E
  <1>6. ASSUME NEW a \in S, NEW b \in S
        PROVE  LexF(f, a, b) \in Three /\ Tells(E, a, b, LexF(f, a, b))
    <2> DEFINE n       == IF Len(a) < Len(b) THEN Len(a) ELSE Len(b)
               differs == {i \in 1 .. n : f[<<a[i], b[i]>>] # 0}
    <2>1. n \in Nat /\ n <= Len(a) /\ n <= Len(b) /\ (n = Len(a) \/ n = Len(b))
          /\ Len(a) \in Nat /\ Len(b) \in Nat
      BY <1>4
    <2>2. \A k \in Nat : E[k][<<a, b>>] = AtPlace(f, k, a, b)
      BY <1>2
    <2>3. LexF(f, a, b) = IF differs = {} THEN Sign(Len(a), Len(b))
                          ELSE f[<<a[First(differs)], b[First(differs)]>>]
      BY DEF LexF
    <2> HIDE DEF n
    <2>4. CASE differs = {}
      <3>1. \A i \in 1 .. n : f[<<a[i], b[i]>>] = 0
        BY <2>4
      <3>2. \A k \in Nat : k <= n => AtPlace(f, k, a, b) = 0
        BY <2>1, <3>1 DEF AtPlace
      <3>3. LexF(f, a, b) = Sign(Len(a), Len(b))
        BY <2>3, <2>4
      <3>4. CASE Len(a) = Len(b)
        <4>1. \A k \in Nat : AtPlace(f, k, a, b) = 0
          BY <2>1, <3>2, <3>4 DEF AtPlace
        <4>2. LexF(f, a, b) = 0
          BY <2>1, <3>3, <3>4 DEF Sign
        <4> QED
          BY <2>2, <4>1, <4>2 DEF Tells, Three
      <3>5. CASE Len(a) # Len(b)
        <4>1. /\ LexF(f, a, b) = AtPlace(f, n + 1, a, b)
              /\ LexF(f, a, b) # 0 /\ LexF(f, a, b) \in Three
          BY <2>1, <3>3, <3>5 DEF Sign, AtPlace, Three
        <4>2. \A k \in Nat : k < n + 1 => AtPlace(f, k, a, b) = 0
          BY <2>1, <3>2
        <4>3. n + 1 \in Nat
          BY <2>1
        <4> QED
          BY <2>2, <4>1, <4>2, <4>3 DEF Tells
      <3> QED
        BY <3>4, <3>5
    <2>5. CASE differs # {}
      <3> DEFINE k == First(differs)
      <3>1. differs \subseteq Nat
        BY <2>1
      <3>2. k \in differs /\ k \in Nat /\ \A i \in differs : k <= i
        BY <2>5, <3>1, FirstPlaceOf
      <3>3. k \in 1 .. n /\ f[<<a[k], b[k]>>] # 0
        BY <3>2
      <3>4. \A i \in 1 .. n : i < k => f[<<a[i], b[i]>>] = 0
        <4> SUFFICES ASSUME NEW i \in 1 .. n, i < k, f[<<a[i], b[i]>>] # 0 PROVE FALSE
          OBVIOUS
        <4>1. i \in differs
          OBVIOUS
        <4> HIDE DEF k, differs
        <4>2. k <= i /\ k \in Nat /\ i \in Nat
          BY <2>1, <3>2, <4>1
        <4> QED
          BY <4>2
      <3>5. LexF(f, a, b) = f[<<a[k], b[k]>>]
        BY <2>3, <2>5
      <3> HIDE DEF k, differs
      <3>6. AtPlace(f, k, a, b) = LexF(f, a, b) /\ LexF(f, a, b) \in Three
        BY <2>1, <1>4, <1>5, <3>3, <3>5 DEF AtPlace
      <3>7. \A j \in Nat : j < k => AtPlace(f, j, a, b) = 0
        BY <2>1, <3>2, <3>3, <3>4 DEF AtPlace
      <3> QED
        BY <2>2, <3>2, <3>3, <3>5, <3>6, <3>7 DEF Tells
    <2> QED
      BY <2>4, <2>5
  <1>7. g \in [S \X S -> Three]
    BY <1>6 DEF LexOrder
  <1>8. \A a, b \in S : Tells(E, a, b, g[<<a, b>>])
    BY <1>3, <1>6
  <1> HIDE DEF g
  <1>9. Preorder(g, S)
    BY <1>1, <1>7, <1>8, ChainPreorder
  <1> QED
    BY <1>9 DEF g, S

-----------------------------------------------------------------------------
(* What the parts of a version are.                                        *)
Words == Seq(VersionLexeme)
Run   == {s \in Words : s # <<>>}

LEMMA PartOf ==
    ASSUME NEW s \in Words, NEW m \in Nat \ {0}, NEW n \in Nat, n <= Len(s)
    PROVE  SubSeq(s, m, n) \in Words /\ (m <= n => SubSeq(s, m, n) # <<>>)
  <1>1. \A i \in m .. n : s[i] \in VersionLexeme
    BY DEF Words
  <1>2. /\ SubSeq(s, m, n) \in Seq(VersionLexeme)
        /\ Len(SubSeq(s, m, n)) = IF m <= n THEN n - m + 1 ELSE 0
    BY <1>1, SubSeqProperties
  <1>3. Len(<<>>) = 0
    OBVIOUS
  <1> QED
    BY <1>2, <1>3 DEF Words

LEMMA PlacesOf ==
    ASSUME NEW s \in Words, NEW x
    PROVE  Places(s, x) # {} => First(Places(s, x)) \in 1 .. Len(s)
  <1>1. Places(s, x) \subseteq Nat /\ Places(s, x) \subseteq 1 .. Len(s)
    BY DEF Places, Words
  <1> QED
    BY <1>1, FirstPlaceOf

LEMMA UntilType == \A s \in Words : \A x : Until(s, x) \in Words
  <1> SUFFICES ASSUME NEW s \in Words, NEW x, Places(s, x) # {}
               PROVE  Until(s, x) \in Words
    BY DEF Until
  <1> DEFINE i == First(Places(s, x))
  <1>1. i \in 1 .. Len(s)
    BY PlacesOf
  <1> HIDE DEF i
  <1>2. Len(s) \in Nat
    BY DEF Words
  <1>3. 1 \in Nat \ {0} /\ i - 1 \in Nat /\ i - 1 <= Len(s)
    BY <1>1, <1>2
  <1>4. SubSeq(s, 1, i - 1) \in Words
    BY <1>3, PartOf
  <1> QED
    BY <1>4 DEF Until, i

LEMMA AfterType == \A s \in Words : \A x : After(s, x) \in Words
  <1>0. <<>> \in Words
    BY DEF Words
  <1> SUFFICES ASSUME NEW s \in Words, NEW x, Places(s, x) # {}
               PROVE  After(s, x) \in Words
    BY <1>0 DEF After
  <1> DEFINE i == First(Places(s, x))
  <1>1. i \in 1 .. Len(s)
    BY PlacesOf
  <1> HIDE DEF i
  <1>2. Len(s) \in Nat
    BY DEF Words
  <1>3. i + 1 \in Nat \ {0} /\ Len(s) <= Len(s)
    BY <1>1, <1>2
  <1>4. SubSeq(s, i + 1, Len(s)) \in Words
    BY <1>2, <1>3, PartOf
  <1> QED
    BY <1>4 DEF After, i

LEMMA PartsType ==
    ASSUME NEW s \in Words
    PROVE  /\ parse_version(s).major \in Words /\ parse_version(s).minor \in Words
           /\ parse_version(s).micro \in Words /\ parse_version(s).pre_release \in Words
           /\ parse_version(s).revision \in Int
  <1>1. Len(s) \in Nat
    BY DEF Words
  <1>2. Unrevised(s) \in Words
    <2>1. CASE HasRevision(s)
      <3>1. 1 \in Nat \ {0} /\ Len(s) - 2 \in Nat /\ Len(s) - 2 <= Len(s)
        BY <1>1, <2>1 DEF HasRevision
      <3>2. SubSeq(s, 1, Len(s) - 2) \in Words
        BY <3>1, PartOf
      <3> QED
        BY <2>1, <3>2 DEF Unrevised
    <2> QED
      BY <2>1 DEF Unrevised
  <1>3. Core(s) \in Words
    BY <1>2, UntilType DEF Core
  <1>4. After(Core(s), Dot) \in Words
    BY <1>3, AfterType
  <1>5. HasRevision(s) => s[Len(s)][2] \in Int
    <2>1. HasRevision(s) => s[Len(s)] \in VersionLexeme
      BY <1>1 DEF HasRevision, Words
    <2>2. \A x \in VersionLexeme : x[2] \in Int
      BY DEF VersionLexeme
    <2> QED
      BY <2>1, <2>2
  <1>6. Until(Core(s), Dot) \in Words /\ Until(After(Core(s), Dot), Dot) \in Words
    BY <1>3, <1>4, UntilType
  <1>7. After(After(Core(s), Dot), Dot) \in Words /\ After(Unrevised(s), Tilde) \in Words
    BY <1>2, <1>4, AfterType
  <1> QED
    BY <1>5, <1>6, <1>7 DEF parse_version

\* Every run has a place: the number of runs started grows by one at a time.
LEMMA RunHasPlace ==
    ASSUME NEW s \in Words, NEW k \in 1 .. Cardinality(RunStarts(s))
    PROVE  RunPlaces(s, k) # {}
  <1> DEFINE n     == Len(s)
             S(i)  == {j \in RunStarts(s) : j <= i}
             Enough == {i \in Nat : i <= n /\ RunOf(s, i) >= k}
  <1>0. n \in Nat /\ DOMAIN s = 1 .. n
    BY DEF Words
  <1>1. RunStarts(s) \subseteq 1 .. n
    BY <1>0 DEF RunStarts
  <1>2. IsFiniteSet(1 .. n)
    BY <1>0, FS_Interval
  <1>3. IsFiniteSet(RunStarts(s)) /\ \A i : IsFiniteSet(S(i))
    <2>1. \A T \in SUBSET (1 .. n) : IsFiniteSet(T)
      BY <1>2, FS_Subset
    <2>2. \A i : S(i) \in SUBSET (1 .. n)
      BY <1>1
    <2> QED
      BY <1>1, <2>1, <2>2
  <1>4. \A i : RunOf(s, i) = Cardinality(S(i)) /\ RunOf(s, i) \in Nat
    BY <1>3, FS_CardinalityType DEF RunOf
  <1>5. n \in Enough
    <2>1. S(n) = RunStarts(s)
      BY <1>0, <1>1
    <2>2. RunOf(s, n) >= k
      BY <1>3, <1>4, <2>1, FS_CardinalityType
    <2> QED
      BY <1>0, <2>2
  <1>6. PICK i \in Enough : \A j \in Enough : i <= j
    <2>1. Enough \subseteq Nat /\ Enough # {}
      BY <1>5
    <2> QED
      BY <2>1, LeastNat
  <1>7. i \in Nat /\ i <= n /\ RunOf(s, i) >= k /\ k \in Nat /\ k >= 1
    BY <1>3, <1>6, FS_CardinalityType
  <1>8. i # 0
    <2> SUFFICES ASSUME i = 0 PROVE FALSE
      OBVIOUS
    <2>1. S(i) = {}
      BY <1>0, <1>1
    <2>2. RunOf(s, i) = 0
      BY <1>4, <2>1, FS_EmptySet
    <2> QED
      BY <1>7, <2>2
  <1>9. RunOf(s, i - 1) < k
    <2> SUFFICES ASSUME RunOf(s, i - 1) >= k PROVE FALSE
      BY <1>4, <1>7
    <2>1. i - 1 \in Enough
      BY <1>0, <1>7, <1>8
    <2> QED
      BY <1>6, <1>7, <2>1
  <1>10. RunOf(s, i) <= RunOf(s, i - 1) + 1
    <2> DEFINE U == S(i - 1) \cup {i}
    <2>1. IsFiniteSet(U) /\ Cardinality(U) <= Cardinality(S(i - 1)) + 1
          /\ Cardinality(U) \in Nat
      <3> DEFINE V == S(i - 1)
      <3>1. IsFiniteSet(V) /\ Cardinality(V) \in Nat
        BY <1>3, FS_CardinalityType
      <3> HIDE DEF V
      <3>2. /\ IsFiniteSet(V \cup {i})
            /\ Cardinality(V \cup {i}) = IF i \in V THEN Cardinality(V) ELSE Cardinality(V) + 1
        BY <3>1, FS_AddElement
      <3>3. /\ IsFiniteSet(V \cup {i}) /\ Cardinality(V \cup {i}) <= Cardinality(V) + 1
            /\ Cardinality(V \cup {i}) \in Nat
        BY <3>1, <3>2
      <3> QED
        BY <3>3 DEF V
    <2>2. S(i) \in SUBSET U
      BY <1>0, <1>1, <1>7
    <2>3. Cardinality(S(i)) <= Cardinality(U)
      BY <2>1, <2>2, FS_Subset
    <2> HIDE DEF U, S
    <2> QED
      BY <1>4, <2>1, <2>3
  <1>11. RunOf(s, i) = k
    BY <1>4, <1>7, <1>9, <1>10
  <1>12. i \in RunPlaces(s, k)
    BY <1>0, <1>7, <1>8, <1>11 DEF RunPlaces
  <1> QED
    BY <1>12

LEMMA RunsType == \A s \in Words : Runs(s) \in Seq(Run)
  <1> SUFFICES ASSUME NEW s \in Words PROVE Runs(s) \in Seq(Run)
    OBVIOUS
  <1> DEFINE c == Cardinality(RunStarts(s))
  <1>0. Len(s) \in Nat /\ DOMAIN s = 1 .. Len(s)
    BY DEF Words
  <1>1. c \in Nat
    <2>1. RunStarts(s) \in SUBSET (1 .. Len(s))
      BY <1>0 DEF RunStarts
    <2>2. IsFiniteSet(1 .. Len(s))
      BY <1>0, FS_Interval
    <2>3. IsFiniteSet(RunStarts(s))
      BY <2>1, <2>2, FS_Subset
    <2> QED
      BY <2>3, FS_CardinalityType
  <1>2. ASSUME NEW k \in 1 .. c
        PROVE  SubSeq(s, First(RunPlaces(s, k)), Max(RunPlaces(s, k))) \in Run
    <2> DEFINE P == RunPlaces(s, k)
    <2>1. P # {}
      BY RunHasPlace
    <2>2. P \subseteq 1 .. Len(s) /\ P \subseteq Nat
      BY <1>0 DEF RunPlaces
    <2> HIDE DEF P
    <2>3. First(P) \in P /\ \A y \in P : First(P) <= y
      BY <2>1, <2>2, FirstPlaceOf
    <2>4. Max(P) \in P
      BY <1>0, <2>1, <2>2, LastPlace
    <2>5. First(P) \in Nat \ {0} /\ Max(P) \in Nat /\ Max(P) <= Len(s) /\ First(P) <= Max(P)
      <3>1. First(P) <= Max(P)
        BY <2>3, <2>4
      <3>2. First(P) \in 1 .. Len(s) /\ Max(P) \in 1 .. Len(s)
        BY <2>2, <2>3, <2>4
      <3>3. \A j \in 1 .. Len(s) : j \in Nat \ {0} /\ j <= Len(s)
        BY <1>0
      <3> QED
        BY <3>1, <3>2, <3>3
    <2>6. SubSeq(s, First(P), Max(P)) \in Words /\ SubSeq(s, First(P), Max(P)) # <<>>
      BY <2>5, PartOf
    <2>7. SubSeq(s, First(P), Max(P)) \in Run
      BY <2>6 DEF Run
    <2> QED
      BY <2>7 DEF P
  <1> HIDE DEF c
  <1>3. Runs(s) = [k \in 1 .. c |-> SubSeq(s, First(RunPlaces(s, k)), Max(RunPlaces(s, k)))]
    BY DEF Runs, c
  <1>4. Runs(s) \in [1 .. c -> Run]
    BY <1>2, <1>3
  <1> QED
    BY <1>1, <1>4

-----------------------------------------------------------------------------
(* The comparisons are orders.                                             *)
Codes      == By(IntOrder, [x \in VersionLexeme |-> x[2]], VersionLexeme)
CharsOrder == LexOrder(Codes, Words)

LEMMA CharsPreorder == Preorder(CharsOrder, Words)
  <1>1. [x \in VersionLexeme |-> x[2]] \in [VersionLexeme -> Int]
    BY DEF VersionLexeme
  <1>2. Preorder(Codes, VersionLexeme)
    BY <1>1, IntPreorder, PullBack DEF Codes
  <1> QED
    BY <1>2, LexPreorder DEF CharsOrder, Words

LEMMA CharsCompared ==
    ASSUME NEW a \in Words, NEW b \in Words
    PROVE  Lexicographic(CompareChar, a, b) = CharsOrder[<<a, b>>]
  <1>1. \A x, y \in VersionLexeme : Codes[<<x, y>>] = CompareChar(x, y)
    BY DEF Codes, By, IntOrder, CompareChar, VersionLexeme
  <1> DEFINE n == IF Len(a) < Len(b) THEN Len(a) ELSE Len(b)
             D == {i \in 1 .. n : Codes[<<a[i], b[i]>>] # 0}
             H == {i \in 1 .. n : CompareChar(a[i], b[i]) # 0}
  <1>2. \A i \in 1 .. n : a[i] \in VersionLexeme /\ b[i] \in VersionLexeme
    BY DEF Words
  <1>3. D = H
    BY <1>1, <1>2
  <1>4. D # {} => First(D) \in 1 .. n
    <2>1. D \subseteq Nat
      OBVIOUS
    <2>2. D # {} => First(D) \in D
      BY <2>1, FirstPlaceOf
    <2> QED
      BY <2>2
  <1>5. LexF(Codes, a, b) = IF D = {} THEN Sign(Len(a), Len(b))
                            ELSE Codes[<<a[First(D)], b[First(D)]>>]
    BY DEF LexF
  <1>6. Lexicographic(CompareChar, a, b)
            = IF H = {} THEN Sign(Len(a), Len(b)) ELSE CompareChar(a[First(H)], b[First(H)])
    BY DEF Lexicographic
  <1>7. CharsOrder[<<a, b>>] = LexF(Codes, a, b)
    BY DEF CharsOrder, LexOrder
  <1> HIDE DEF n, D, H
  <1> QED
    BY <1>1, <1>2, <1>3, <1>4, <1>5, <1>6, <1>7

RunOrder == [p \in Run \X Run |-> CompareRun(p[1], p[2])]

\* Runs compare by their kind, then by their value, then by their characters.
LEMMA RunPreorder == Preorder(RunOrder, Run)
  <1> DEFINE kind  == [x \in Run |-> IF IsDigits(x[1]) THEN 1 ELSE 0]
             value == [x \in Run |-> IF IsDigits(x[1]) THEN x[1][2] ELSE 0]
             chars == [x \in Run |-> IF IsDigits(x[1]) THEN <<>> ELSE x]
             E0    == By(IntOrder, kind, Run)
             E1    == By(IntOrder, value, Run)
             E2    == By(CharsOrder, chars, Run)
             E     == [k \in Nat |-> IF k = 0 THEN E0 ELSE IF k = 1 THEN E1 ELSE E2]
  <1>0. \A x \in Run : x[1] \in VersionLexeme /\ x \in Words /\ <<>> \in Words /\ x[1][2] \in Int
    <2>1. \A x \in VersionLexeme : x[2] \in Int
      BY DEF VersionLexeme
    <2>2. \A x \in Run : x[1] \in VersionLexeme
      BY DEF Run, Words
    <2> QED
      BY <2>1, <2>2 DEF Run, Words
  <1>1. Preorder(E0, Run) /\ Preorder(E1, Run) /\ Preorder(E2, Run)
    <2>1. kind \in [Run -> Int] /\ value \in [Run -> Int] /\ chars \in [Run -> Words]
      BY <1>0
    <2> HIDE DEF kind, value, chars
    <2>2. Preorder(E0, Run)
      BY <2>1, IntPreorder, PullBack
    <2>3. Preorder(E1, Run)
      BY <2>1, IntPreorder, PullBack
    <2>4. Preorder(E2, Run)
      BY <2>1, CharsPreorder, PullBack
    <2> QED
      BY <2>2, <2>3, <2>4
  <1>2. ASSUME NEW x \in Run, NEW y \in Run
        PROVE  /\ E0[<<x, y>>] = Sign(kind[x], kind[y])
               /\ E1[<<x, y>>] = Sign(value[x], value[y])
               /\ E2[<<x, y>>] = CharsOrder[<<chars[x], chars[y]>>]
    <2>1. \A i, j \in Int : IntOrder[<<i, j>>] = Sign(i, j)
      BY DEF IntOrder
    <2>2. kind[x] \in Int /\ kind[y] \in Int /\ value[x] \in Int /\ value[y] \in Int
      BY <1>0
    <2>3. /\ E0[<<x, y>>] = IntOrder[<<kind[x], kind[y]>>]
          /\ E1[<<x, y>>] = IntOrder[<<value[x], value[y]>>]
          /\ E2[<<x, y>>] = CharsOrder[<<chars[x], chars[y]>>]
      BY DEF By
    <2> HIDE DEF kind, value, chars, E0, E1, E2
    <2> QED
      BY <2>1, <2>2, <2>3
  <1> HIDE DEF E0, E1, E2
  <1>3. \A k \in Nat : Preorder(E[k], Run)
    BY <1>1
  <1>4. /\ E[0] = E0 /\ E[1] = E1 /\ E[2] = E2
        /\ \A k \in Nat : E[k] = E0 \/ E[k] = E1 \/ E[k] = E2
    OBVIOUS
  <1> HIDE DEF E
  <1>5. ASSUME NEW x \in Run, NEW y \in Run
        PROVE  CompareRun(x, y) \in Three /\ Tells(E, x, y, CompareRun(x, y))
    <2>0. /\ E0[<<x, y>>] = Sign(kind[x], kind[y])
          /\ E1[<<x, y>>] = Sign(value[x], value[y])
          /\ E2[<<x, y>>] = CharsOrder[<<chars[x], chars[y]>>]
          /\ E2[<<x, y>>] \in Three
      BY <1>1, <1>2, PreorderValues
    <2>1. CharsOrder[<<<<>>, <<>>>>] = 0
      <3>1. <<>> \in Words
        BY <1>0
      <3>2. /\ CharsOrder[<<<<>>, <<>>>>] \in Three
            /\ CharsOrder[<<<<>>, <<>>>>] = - CharsOrder[<<<<>>, <<>>>>]
        BY <3>1, CharsPreorder, PreorderValues, PreorderTurns
      <3> QED
        BY <3>2 DEF Three
    <2>2. CASE IsDigits(x[1]) # IsDigits(y[1])
      <3>1. CompareRun(x, y) = E[0][<<x, y>>] /\ CompareRun(x, y) # 0
            /\ CompareRun(x, y) \in Three
        <4>1. CASE IsDigits(x[1]) /\ ~ IsDigits(y[1])
          BY <1>4, <2>0, <4>1 DEF CompareRun, Sign, Three
        <4>2. CASE ~ IsDigits(x[1]) /\ IsDigits(y[1])
          BY <1>4, <2>0, <4>2 DEF CompareRun, Sign, Three
        <4> QED
          BY <2>2, <4>1, <4>2 DEF IsDigits
      <3> QED
        BY <3>1 DEF Tells
    <2>3. CASE IsDigits(x[1]) /\ IsDigits(y[1])
      <3>1. E[0][<<x, y>>] = 0
        BY <1>4, <2>0, <2>3 DEF Sign
      <3>2. E[1][<<x, y>>] = CompareRun(x, y) /\ CompareRun(x, y) \in Three
        <4>1. CompareRun(x, y) = Sign(x[1][2], y[1][2])
          BY <2>3 DEF CompareRun
        <4>2. value[x] = x[1][2] /\ value[y] = y[1][2]
          BY <2>3
        <4>3. Sign(x[1][2], y[1][2]) \in Three
          BY <1>0 DEF Sign, Three
        <4> QED
          BY <1>4, <2>0, <4>1, <4>2, <4>3
      <3>3. E2[<<x, y>>] = 0
        <4>1. chars[x] = <<>> /\ chars[y] = <<>>
          BY <2>3
        <4> QED
          BY <2>0, <2>1, <4>1
      <3>4. CASE CompareRun(x, y) = 0
        BY <1>4, <3>1, <3>2, <3>3, <3>4 DEF Tells
      <3>5. CASE CompareRun(x, y) # 0
        BY <3>1, <3>2, <3>5 DEF Tells
      <3> QED
        BY <3>2, <3>4, <3>5
    <2>4. CASE ~ IsDigits(x[1]) /\ ~ IsDigits(y[1])
      <3>1. E[0][<<x, y>>] = 0 /\ E[1][<<x, y>>] = 0
        BY <1>4, <2>0, <2>4 DEF Sign
      <3>2. CompareRun(x, y) = Lexicographic(CompareChar, x, y)
        BY <2>4 DEF CompareRun
      <3>3. E[2][<<x, y>>] = CompareRun(x, y) /\ CompareRun(x, y) \in Three
        <4>1. chars[x] = x /\ chars[y] = y
          BY <2>4
        <4>2. Lexicographic(CompareChar, x, y) = CharsOrder[<<x, y>>]
          BY <1>0, CharsCompared
        <4> QED
          BY <1>4, <2>0, <3>2, <4>1, <4>2
      <3>4. CASE CompareRun(x, y) = 0
        BY <1>4, <3>1, <3>3, <3>4 DEF Tells
      <3>5. CASE CompareRun(x, y) # 0
        <4>1. \A j \in Nat : j < 2 => j = 0 \/ j = 1
          OBVIOUS
        <4> QED
          BY <3>1, <3>3, <3>5, <4>1 DEF Tells
      <3> QED
        BY <3>3, <3>4, <3>5
    <2> QED
      BY <2>2, <2>3, <2>4 DEF IsDigits
  <1>6. RunOrder \in [Run \X Run -> Three]
    BY <1>5 DEF RunOrder
  <1>7. \A x, y \in Run : Tells(E, x, y, RunOrder[<<x, y>>])
    BY <1>5 DEF RunOrder
  <1> QED
    BY <1>3, <1>6, <1>7, ChainPreorder

RunsOrder    == LexOrder(RunOrder, Seq(Run))
NaturalOrder == By(RunsOrder, [s \in Words |-> Runs(s)], Words)

LEMMA RunsCompared ==
    ASSUME NEW a \in Seq(Run), NEW b \in Seq(Run)
    PROVE  Lexicographic(CompareRun, a, b) = RunsOrder[<<a, b>>]
  <1>1. \A x, y \in Run : RunOrder[<<x, y>>] = CompareRun(x, y)
    BY DEF RunOrder
  <1> DEFINE n == IF Len(a) < Len(b) THEN Len(a) ELSE Len(b)
             D == {i \in 1 .. n : RunOrder[<<a[i], b[i]>>] # 0}
             H == {i \in 1 .. n : CompareRun(a[i], b[i]) # 0}
  <1>2. \A i \in 1 .. n : a[i] \in Run /\ b[i] \in Run
    OBVIOUS
  <1>3. D = H
    BY <1>1, <1>2
  <1>4. D # {} => First(D) \in 1 .. n
    <2>1. D \subseteq Nat
      OBVIOUS
    <2>2. D # {} => First(D) \in D
      BY <2>1, FirstPlaceOf
    <2> QED
      BY <2>2
  <1>5. LexF(RunOrder, a, b) = IF D = {} THEN Sign(Len(a), Len(b))
                               ELSE RunOrder[<<a[First(D)], b[First(D)]>>]
    BY DEF LexF
  <1>6. Lexicographic(CompareRun, a, b)
            = IF H = {} THEN Sign(Len(a), Len(b)) ELSE CompareRun(a[First(H)], b[First(H)])
    BY DEF Lexicographic
  <1>7. RunsOrder[<<a, b>>] = LexF(RunOrder, a, b)
    BY DEF RunsOrder, LexOrder
  <1> HIDE DEF n, D, H
  <1> QED
    BY <1>1, <1>2, <1>3, <1>4, <1>5, <1>6, <1>7

LEMMA NaturalPreorder ==
    /\ Preorder(NaturalOrder, Words)
    /\ \A a, b \in Words : NaturalCompare(a, b) = NaturalOrder[<<a, b>>]
  <1>1. Preorder(RunsOrder, Seq(Run))
    BY RunPreorder, LexPreorder DEF RunsOrder
  <1>2. [s \in Words |-> Runs(s)] \in [Words -> Seq(Run)]
    BY RunsType
  <1>3. Preorder(NaturalOrder, Words)
    BY <1>1, <1>2, PullBack DEF NaturalOrder
  <1>4. ASSUME NEW a \in Words, NEW b \in Words
        PROVE  NaturalCompare(a, b) = NaturalOrder[<<a, b>>]
    <2>1. NaturalOrder[<<a, b>>] = RunsOrder[<<Runs(a), Runs(b)>>]
      BY DEF NaturalOrder, By
    <2>2. Lexicographic(CompareRun, Runs(a), Runs(b)) = RunsOrder[<<Runs(a), Runs(b)>>]
      BY RunsType, RunsCompared
    <2>3. NaturalCompare(a, b) = Lexicographic(CompareRun, Runs(a), Runs(b))
      BY DEF NaturalCompare
    <2> QED
      BY <2>1, <2>2, <2>3
  <1> QED
    BY <1>3, <1>4

\* A release above its pre-releases, else by the pre-releases.
PreOrder == [p \in Words \X Words |-> ComparePre(p[1], p[2])]

LEMMA PrePreorder == Preorder(PreOrder, Words)
  <1> DEFINE release == [s \in Words |-> IF s = <<>> THEN 1 ELSE 0]
             E0      == By(IntOrder, release, Words)
             E       == [k \in Nat |-> IF k = 0 THEN E0 ELSE NaturalOrder]
  <1>1. Preorder(E0, Words)
    <2>1. release \in [Words -> Int]
      OBVIOUS
    <2> HIDE DEF release
    <2> QED
      BY <2>1, IntPreorder, PullBack
  <1>2. ASSUME NEW p \in Words, NEW q \in Words
        PROVE  E0[<<p, q>>] = Sign(release[p], release[q])
    <2>1. E0[<<p, q>>] = IntOrder[<<release[p], release[q]>>]
      BY DEF By
    <2>2. release[p] \in Int /\ release[q] \in Int
      OBVIOUS
    <2> HIDE DEF release, E0
    <2> QED
      BY <2>1, <2>2 DEF IntOrder
  <1> HIDE DEF E0
  <1>3. \A k \in Nat : Preorder(E[k], Words)
    BY <1>1, NaturalPreorder
  <1>4. E[0] = E0 /\ E[1] = NaturalOrder /\ \A k \in Nat : k = 0 \/ E[k] = NaturalOrder
    OBVIOUS
  <1> HIDE DEF E
  <1>5. ASSUME NEW p \in Words, NEW q \in Words
        PROVE  ComparePre(p, q) \in Three /\ Tells(E, p, q, ComparePre(p, q))
    <2>0. /\ E[0][<<p, q>>] = Sign(release[p], release[q])
          /\ NaturalOrder[<<p, q>>] = NaturalCompare(p, q)
          /\ NaturalOrder[<<p, q>>] \in Three
      BY <1>2, <1>4, NaturalPreorder, PreorderValues
    <2>1. CASE p # <<>> /\ q = <<>>
      <3>1. ComparePre(p, q) = -1
        BY <2>1 DEF ComparePre
      <3>2. E[0][<<p, q>>] = -1
        BY <2>0, <2>1 DEF Sign
      <3>3. \A j \in Nat : ~ (j < 0)
        OBVIOUS
      <3> QED
        BY <3>1, <3>2, <3>3 DEF Tells, Three
    <2>2. CASE p = <<>> /\ q # <<>>
      <3>1. ComparePre(p, q) = 1
        BY <2>2 DEF ComparePre
      <3>2. E[0][<<p, q>>] = 1
        BY <2>0, <2>2 DEF Sign
      <3>3. \A j \in Nat : ~ (j < 0)
        OBVIOUS
      <3> QED
        BY <3>1, <3>2, <3>3 DEF Tells, Three
    <2>3. CASE p = <<>> <=> q = <<>>
      <3>1. E[0][<<p, q>>] = 0
        BY <2>0, <2>3 DEF Sign
      <3>2. ComparePre(p, q) = NaturalOrder[<<p, q>>]
        <4>1. CASE p = q
          <5>1. NaturalOrder[<<p, p>>] = 0
            <6>1. NaturalOrder[<<p, p>>] \in Three
                  /\ NaturalOrder[<<p, p>>] = - NaturalOrder[<<p, p>>]
              BY NaturalPreorder, PreorderValues, PreorderTurns
            <6> QED
              BY <6>1 DEF Three
          <5> QED
            BY <4>1, <5>1 DEF ComparePre
        <4>2. CASE p # q
          BY <2>0, <2>3, <4>2 DEF ComparePre
        <4> QED
          BY <4>1, <4>2
      <3>3. CASE ComparePre(p, q) = 0
        <4>1. \A k \in Nat : E[k][<<p, q>>] = 0
          BY <1>4, <3>1, <3>2, <3>3
        <4> QED
          BY <3>3, <4>1 DEF Tells, Three
      <3>4. CASE ComparePre(p, q) # 0
        <4>1. \A j \in Nat : j < 1 => j = 0
          OBVIOUS
        <4> QED
          BY <1>4, <2>0, <3>1, <3>2, <3>4, <4>1 DEF Tells
      <3> QED
        BY <2>0, <3>2, <3>3, <3>4
    <2> QED
      BY <2>1, <2>2, <2>3
  <1>6. PreOrder \in [Words \X Words -> Three]
    BY <1>5 DEF PreOrder
  <1>7. \A x, y \in Words : Tells(E, x, y, PreOrder[<<x, y>>])
    BY <1>5 DEF PreOrder
  <1> QED
    BY <1>3, <1>6, <1>7, ChainPreorder

\* Versions by their parts, the most important first.
VersionOrder == [p \in Words \X Words |-> compare_versions(p[1], p[2])]

LEMMA VersionPreorder == Preorder(VersionOrder, Words)
  <1> DEFINE major    == [s \in Words |-> parse_version(s).major]
             minor    == [s \in Words |-> parse_version(s).minor]
             micro    == [s \in Words |-> parse_version(s).micro]
             pre      == [s \in Words |-> parse_version(s).pre_release]
             revision == [s \in Words |-> parse_version(s).revision]
             E1 == By(NaturalOrder, major, Words)
             E2 == By(NaturalOrder, minor, Words)
             E3 == By(NaturalOrder, micro, Words)
             E4 == By(PreOrder, pre, Words)
             E5 == By(IntOrder, revision, Words)
             E  == [k \in Nat |-> IF k = 0 THEN E1 ELSE IF k = 1 THEN E2 ELSE IF k = 2 THEN E3
                                  ELSE IF k = 3 THEN E4 ELSE E5]
  <1>1. /\ major \in [Words -> Words] /\ minor \in [Words -> Words]
        /\ micro \in [Words -> Words] /\ pre \in [Words -> Words]
        /\ revision \in [Words -> Int]
    BY PartsType
  <1>2. ASSUME NEW s \in Words
        PROVE  /\ major[s] = parse_version(s).major /\ minor[s] = parse_version(s).minor
               /\ micro[s] = parse_version(s).micro /\ pre[s] = parse_version(s).pre_release
               /\ revision[s] = parse_version(s).revision
    OBVIOUS
  <1> HIDE DEF major, minor, micro, pre, revision
  <1>3. /\ Preorder(E1, Words) /\ Preorder(E2, Words) /\ Preorder(E3, Words)
        /\ Preorder(E4, Words) /\ Preorder(E5, Words)
    <2>1. Preorder(E1, Words)
      BY <1>1, NaturalPreorder, PullBack
    <2>2. Preorder(E2, Words)
      BY <1>1, NaturalPreorder, PullBack
    <2>3. Preorder(E3, Words)
      BY <1>1, NaturalPreorder, PullBack
    <2>4. Preorder(E4, Words)
      BY <1>1, PrePreorder, PullBack
    <2>5. Preorder(E5, Words)
      BY <1>1, IntPreorder, PullBack
    <2> QED
      BY <2>1, <2>2, <2>3, <2>4, <2>5
  <1>4. ASSUME NEW a \in Words, NEW b \in Words
        PROVE  /\ E1[<<a, b>>] = NaturalCompare(major[a], major[b])
               /\ E2[<<a, b>>] = NaturalCompare(minor[a], minor[b])
               /\ E3[<<a, b>>] = NaturalCompare(micro[a], micro[b])
               /\ E4[<<a, b>>] = ComparePre(pre[a], pre[b])
               /\ E5[<<a, b>>] = Sign(revision[a], revision[b])
    <2>1. \A p, q \in Words : NaturalCompare(p, q) = NaturalOrder[<<p, q>>]
      BY NaturalPreorder
    <2>2. \A p, q \in Words : PreOrder[<<p, q>>] = ComparePre(p, q)
      BY DEF PreOrder
    <2>3. \A i, j \in Int : IntOrder[<<i, j>>] = Sign(i, j)
      BY DEF IntOrder
    <2>4. /\ E1[<<a, b>>] = NaturalOrder[<<major[a], major[b]>>]
          /\ E2[<<a, b>>] = NaturalOrder[<<minor[a], minor[b]>>]
          /\ E3[<<a, b>>] = NaturalOrder[<<micro[a], micro[b]>>]
          /\ E4[<<a, b>>] = PreOrder[<<pre[a], pre[b]>>]
          /\ E5[<<a, b>>] = IntOrder[<<revision[a], revision[b]>>]
      BY DEF By
    <2>5. /\ major[a] \in Words /\ minor[a] \in Words /\ micro[a] \in Words /\ pre[a] \in Words
          /\ major[b] \in Words /\ minor[b] \in Words /\ micro[b] \in Words /\ pre[b] \in Words
          /\ revision[a] \in Int /\ revision[b] \in Int
      BY <1>1
    <2> HIDE DEF E1, E2, E3, E4, E5
    <2> QED
      BY <2>1, <2>2, <2>3, <2>4, <2>5
  <1> HIDE DEF E1, E2, E3, E4, E5
  <1>5. \A k \in Nat : Preorder(E[k], Words)
    BY <1>3
  <1>6. /\ E[0] = E1 /\ E[1] = E2 /\ E[2] = E3 /\ E[3] = E4 /\ E[4] = E5
        /\ \A k \in Nat : k > 3 => E[k] = E5
    OBVIOUS
  <1> HIDE DEF E
  <1>7. ASSUME NEW a \in Words, NEW b \in Words
        PROVE  /\ compare_versions(a, b) \in Three
               /\ Tells(E, a, b, compare_versions(a, b))
    <2> DEFINE by    == <<E1[<<a, b>>], E2[<<a, b>>], E3[<<a, b>>], E4[<<a, b>>], E5[<<a, b>>]>>
               tells == {i \in DOMAIN by : by[i] # 0}
    <2>1. compare_versions(a, b) = IF tells = {} THEN 0 ELSE by[First(tells)]
      <3> DEFINE va == parse_version(a)
                 vb == parse_version(b)
                 compared ==
                    <<NaturalCompare(va.major, vb.major), NaturalCompare(va.minor, vb.minor),
                      NaturalCompare(va.micro, vb.micro),
                      ComparePre(va.pre_release, vb.pre_release), Sign(va.revision, vb.revision)>>
      <3>1. compared = by
        BY <1>2, <1>4
      <3>2. compare_versions(a, b)
                = IF {i \in DOMAIN compared : compared[i] # 0} = {} THEN 0
                  ELSE compared[First({i \in DOMAIN compared : compared[i] # 0})]
        BY DEF compare_versions
      <3> HIDE DEF compared, by
      <3> QED
        BY <3>1, <3>2
    <2>2. /\ DOMAIN by = 1 .. 5
          /\ by[1] = E[0][<<a, b>>] /\ by[2] = E[1][<<a, b>>] /\ by[3] = E[2][<<a, b>>]
          /\ by[4] = E[3][<<a, b>>] /\ by[5] = E[4][<<a, b>>]
      BY <1>6
    <2> HIDE DEF by
    <2>3. \A j \in Nat : j < 5 => by[j + 1] = E[j][<<a, b>>]
      <3> SUFFICES ASSUME NEW j \in Nat, j < 5 PROVE by[j + 1] = E[j][<<a, b>>]
        OBVIOUS
      <3>1. j = 0 \/ j = 1 \/ j = 2 \/ j = 3 \/ j = 4
        OBVIOUS
      <3> QED
        BY <2>2, <3>1
    <2>4. \A k \in Nat : E[k][<<a, b>>] \in Three
      BY <1>5, PreorderValues
    <2>5. CASE tells = {}
      <3>1. \A i \in 1 .. 5 : by[i] = 0
        BY <2>2, <2>5
      <3>2. \A j \in Nat : j < 5 => E[j][<<a, b>>] = 0
        BY <2>3, <3>1
      <3>3. \A j \in Nat : E[j][<<a, b>>] = 0
        BY <1>6, <3>2
      <3>4. compare_versions(a, b) = 0
        BY <2>1, <2>5
      <3> QED
        BY <3>3, <3>4 DEF Tells, Three
    <2>6. CASE tells # {}
      <3> DEFINE k == First(tells)
      <3>1. tells \subseteq Nat
        BY <2>2
      <3>2. k \in tells /\ \A i \in tells : k <= i
        BY <2>6, <3>1, FirstPlaceOf
      <3>3. compare_versions(a, b) = by[k]
        BY <2>1, <2>6
      <3>4. k \in 1 .. 5 /\ by[k] # 0
        BY <2>2, <3>2
      <3>5. \A i \in 1 .. 5 : i < k => by[i] = 0
        <4> SUFFICES ASSUME NEW i \in 1 .. 5, i < k, by[i] # 0 PROVE FALSE
          OBVIOUS
        <4>1. i \in tells
          BY <2>2
        <4>2. k <= i
          BY <3>2, <4>1
        <4> HIDE DEF k, tells
        <4> QED
          BY <3>4, <4>2
      <3> HIDE DEF k, tells
      <3>6. PICK m \in Nat : k = m + 1 /\ m < 5
        <4>1. k - 1 \in Nat /\ k = (k - 1) + 1 /\ k - 1 < 5
          BY <3>4
        <4> QED
          BY <4>1
      <3>7. \A j \in Nat : j < m => E[j][<<a, b>>] = 0
        <4> SUFFICES ASSUME NEW j \in Nat, j < m PROVE E[j][<<a, b>>] = 0
          OBVIOUS
        <4>1. j + 1 \in 1 .. 5 /\ j + 1 < k /\ j < 5
          BY <3>6
        <4> QED
          BY <2>3, <3>5, <4>1
      <3>8. compare_versions(a, b) = E[m][<<a, b>>] /\ compare_versions(a, b) # 0
        BY <2>3, <3>3, <3>4, <3>6
      <3> QED
        BY <2>4, <3>7, <3>8 DEF Tells
    <2> QED
      BY <2>5, <2>6
  <1>8. VersionOrder \in [Words \X Words -> Three]
    BY <1>7 DEF VersionOrder
  <1>9. \A x, y \in Words : Tells(E, x, y, VersionOrder[<<x, y>>])
    BY <1>7 DEF VersionOrder
  <1> QED
    BY <1>5, <1>8, <1>9, ChainPreorder

OrderOfPairs == [p \in Readable \X Readable |-> Order[p[1]][p[2]]]

LEMMA ReadablePreorder == Preorder(OrderOfPairs, Readable)
  <1> DEFINE same == [s \in Readable |-> s]
  <1>1. same \in [Readable -> Words]
    BY CopiesAssumption DEF Readable, Words
  <1>2. OrderOfPairs = By(VersionOrder, same, Readable)
    <2>1. \A s \in Readable : s \in Words /\ same[s] = s
      BY CopiesAssumption DEF Readable, Words
    <2>2. \A s, t \in Readable : Order[s][t] = compare_versions(s, t)
      BY DEF Order
    <2>3. \A p \in Readable \X Readable : OrderOfPairs[p] = compare_versions(p[1], p[2])
      BY <2>2 DEF OrderOfPairs
    <2>4. \A s, t \in Readable : VersionOrder[<<same[s], same[t]>>] = compare_versions(s, t)
      BY <2>1 DEF VersionOrder
    <2> HIDE DEF same
    <2> QED
      BY <2>3, <2>4 DEF OrderOfPairs, By
  <1> HIDE DEF same
  <1>3. Preorder(By(VersionOrder, same, Readable), Readable)
    BY <1>1, VersionPreorder, PullBack
  <1> QED
    BY <1>2, <1>3

-----------------------------------------------------------------------------
(* The latest copy.                                                        *)

\* Of copies cs: those with a version, those whose version parses, their order.
KnownOf(cs)     == {k \in DOMAIN cs : cs[k] # Unknown}
ReadOf(cs, k)   == Parses(cs[k])
CmpOf(cs, j, k) == Order[cs[j]][cs[k]]
Beats(cs, k)    == \A j \in KnownOf(cs) \ {k} :
                      ReadOf(cs, j) /\ ReadOf(cs, k) /\ CmpOf(cs, k, j) > 0

\* b is as new as any copy of D, all of which parse; t tells if another is as new.
BestOf(cs, D, b, t) ==
    /\ b \in D
    /\ \A k \in D \ {b} : ReadOf(cs, k) /\ ReadOf(cs, b) /\ CmpOf(cs, k, b) <= 0
    /\ t <=> \E k \in D \ {b} : CmpOf(cs, k, b) = 0

Answer(cs, w) == IF \E k \in KnownOf(cs) : Beats(cs, k)
                 THEN w \in KnownOf(cs) /\ Beats(cs, w) ELSE w = 0

Done(cs, n) == {k \in KnownOf(cs) : k < n}

\* The copies looked at so far have their best; when the loop has ended the answer
\* is the one meant.
NewestInv ==
    /\ copies \in Seq(Strings \cup {Unknown})
    /\ tie \in BOOLEAN
    /\ next # 0 =>
         /\ newest = 0
         /\ next \in KnownOf(copies)
         /\ next = best => Done(copies, next) = {} /\ tie = FALSE
         /\ next # best => BestOf(copies, Done(copies, next), best, tie)
    /\ next = 0 => Answer(copies, newest)

LEMMA KnownCopies ==
    ASSUME NEW cs, cs \in Seq(Strings \cup {Unknown})
    PROVE  /\ KnownOf(cs) \subseteq Nat \ {0}
           /\ \A k \in KnownOf(cs) : ReadOf(cs, k) => cs[k] \in Readable
  BY DEF KnownOf, ReadOf, Readable

LEMMA CmpOfPair ==
    ASSUME NEW cs, NEW j, NEW k, cs[j] \in Readable, cs[k] \in Readable
    PROVE  CmpOf(cs, j, k) = OrderOfPairs[<<cs[j], cs[k]>>]
  BY DEF CmpOf, OrderOfPairs

LEMMA CmpTurns ==
    ASSUME NEW cs, cs \in Seq(Strings \cup {Unknown}),
           NEW j \in KnownOf(cs), NEW k \in KnownOf(cs), ReadOf(cs, j), ReadOf(cs, k)
    PROVE  CmpOf(cs, j, k) \in Three /\ CmpOf(cs, j, k) = - CmpOf(cs, k, j)
  <1>1. cs[j] \in Readable /\ cs[k] \in Readable
    BY KnownCopies
  <1>2. /\ CmpOf(cs, j, k) = OrderOfPairs[<<cs[j], cs[k]>>]
        /\ CmpOf(cs, k, j) = OrderOfPairs[<<cs[k], cs[j]>>]
    BY <1>1, CmpOfPair
  <1> QED
    BY <1>1, <1>2, ReadablePreorder, PreorderValues, PreorderTurns

LEMMA CmpFacts ==
    ASSUME NEW cs, cs \in Seq(Strings \cup {Unknown}),
           NEW i \in KnownOf(cs), NEW j \in KnownOf(cs), NEW k \in KnownOf(cs),
           ReadOf(cs, i), ReadOf(cs, j), ReadOf(cs, k)
    PROVE  /\ CmpOf(cs, i, j) = 0 => CmpOf(cs, i, k) = CmpOf(cs, j, k)
           /\ CmpOf(cs, j, k) = 0 => CmpOf(cs, i, k) = CmpOf(cs, i, j)
           /\ CmpOf(cs, i, j) < 0 /\ CmpOf(cs, j, k) < 0 => CmpOf(cs, i, k) < 0
  <1>1. cs[i] \in Readable /\ cs[j] \in Readable /\ cs[k] \in Readable
    BY KnownCopies
  <1>2. /\ CmpOf(cs, i, j) = OrderOfPairs[<<cs[i], cs[j]>>]
        /\ CmpOf(cs, j, k) = OrderOfPairs[<<cs[j], cs[k]>>]
        /\ CmpOf(cs, i, k) = OrderOfPairs[<<cs[i], cs[k]>>]
    BY <1>1, CmpOfPair
  <1> QED
    BY <1>1, <1>2, ReadablePreorder, PreorderFacts

LEMMA CmpLeq ==
    ASSUME NEW cs, cs \in Seq(Strings \cup {Unknown}),
           NEW i \in KnownOf(cs), NEW j \in KnownOf(cs), NEW k \in KnownOf(cs),
           ReadOf(cs, i), ReadOf(cs, j), ReadOf(cs, k),
           CmpOf(cs, i, j) <= 0, CmpOf(cs, j, k) <= 0
    PROVE  CmpOf(cs, i, k) <= 0
  <1>1. cs[i] \in Readable /\ cs[j] \in Readable /\ cs[k] \in Readable
    BY KnownCopies
  <1>2. \A x, y, z \in Readable :
           OrderOfPairs[<<x, y>>] <= 0 /\ OrderOfPairs[<<y, z>>] <= 0
             => OrderOfPairs[<<x, z>>] <= 0
    BY ReadablePreorder DEF Preorder
  <1>3. /\ CmpOf(cs, i, j) = OrderOfPairs[<<cs[i], cs[j]>>]
        /\ CmpOf(cs, j, k) = OrderOfPairs[<<cs[j], cs[k]>>]
        /\ CmpOf(cs, i, k) = OrderOfPairs[<<cs[i], cs[k]>>]
    BY <1>1, CmpOfPair
  <1> QED
    BY <1>1, <1>2, <1>3

\* A round keeps the best one.
LEMMA Round ==
    ASSUME NEW cs, cs \in Seq(Strings \cup {Unknown}),
           NEW D, D \subseteq KnownOf(cs), NEW b, NEW t \in BOOLEAN, BestOf(cs, D, b, t),
           NEW n \in KnownOf(cs), n \notin D, ReadOf(cs, n), ReadOf(cs, b)
    PROVE  BestOf(cs, D \cup {n}, IF CmpOf(cs, n, b) > 0 THEN n ELSE b, 
                  IF CmpOf(cs, n, b) > 0 THEN FALSE ELSE t \/ CmpOf(cs, n, b) = 0)
  <1>1. /\ b \in D /\ b \in KnownOf(cs) /\ b # n
        /\ \A k \in D : ReadOf(cs, k) /\ k \in KnownOf(cs)
        /\ \A k \in D \ {b} : CmpOf(cs, k, b) <= 0
        /\ t <=> \E k \in D \ {b} : CmpOf(cs, k, b) = 0
    BY DEF BestOf
  <1>2. CmpOf(cs, n, b) \in Three /\ CmpOf(cs, n, b) = - CmpOf(cs, b, n)
    BY <1>1, CmpTurns
  <1>3. CASE CmpOf(cs, n, b) > 0
    <2>1. CmpOf(cs, b, n) < 0
      BY <1>1, <1>2, <1>3, CmpTurns DEF Three
    <2>2. ASSUME NEW k \in D PROVE CmpOf(cs, k, n) < 0
      <3>1. CASE k = b
        BY <2>1, <3>1
      <3>2. CASE k # b /\ CmpOf(cs, k, b) = 0
        BY <1>1, <2>1, <3>2, CmpFacts
      <3>3. CASE k # b /\ CmpOf(cs, k, b) # 0
        <4>1. CmpOf(cs, k, b) < 0
          BY <1>1, <3>3, CmpTurns DEF Three
        <4> QED
          BY <1>1, <2>1, <4>1, CmpFacts
      <3> QED
        BY <3>1, <3>2, <3>3
    <2>3. \A k \in (D \cup {n}) \ {n} : k \in D
      OBVIOUS
    <2>4. \A k \in D : CmpOf(cs, k, n) <= 0 /\ CmpOf(cs, k, n) # 0
      <3> SUFFICES ASSUME NEW k \in D PROVE CmpOf(cs, k, n) <= 0 /\ CmpOf(cs, k, n) # 0
        OBVIOUS
      <3>1. CmpOf(cs, k, n) \in Three
        BY <1>1, CmpTurns
      <3> QED
        BY <2>2, <3>1 DEF Three
    <2>5. BestOf(cs, D \cup {n}, n, FALSE)
      BY <1>1, <2>3, <2>4 DEF BestOf
    <2> QED
      BY <1>3, <2>5
  <1>4. CASE ~ (CmpOf(cs, n, b) > 0)
    <2>1. CmpOf(cs, n, b) <= 0
      BY <1>2, <1>4 DEF Three
    <2>2. \A k \in (D \cup {n}) \ {b} : k = n \/ k \in D \ {b}
      OBVIOUS
    <2>3. /\ \A k \in (D \cup {n}) \ {b} :
                ReadOf(cs, k) /\ ReadOf(cs, b) /\ CmpOf(cs, k, b) <= 0
      BY <1>1, <2>1, <2>2
    <2>4. (t \/ CmpOf(cs, n, b) = 0) <=> \E k \in (D \cup {n}) \ {b} : CmpOf(cs, k, b) = 0
      BY <1>1, <2>2
    <2>5. BestOf(cs, D \cup {n}, b, t \/ CmpOf(cs, n, b) = 0)
      BY <1>1, <2>3, <2>4 DEF BestOf
    <2> QED
      BY <1>4, <2>5
  <1> QED
    BY <1>3, <1>4

\* When all copies have been looked at, the best without a tie is the latest.
LEMMA BestAnswers ==
    ASSUME NEW cs, cs \in Seq(Strings \cup {Unknown}),
           NEW b, NEW t \in BOOLEAN, BestOf(cs, KnownOf(cs), b, t)
    PROVE  Answer(cs, IF t THEN 0 ELSE b)
  <1> DEFINE K == KnownOf(cs)
  <1>1. /\ b \in K
        /\ \A k \in K \ {b} : ReadOf(cs, k) /\ ReadOf(cs, b) /\ CmpOf(cs, k, b) <= 0
        /\ t <=> \E k \in K \ {b} : CmpOf(cs, k, b) = 0
    BY DEF BestOf
  <1>2. \A k \in K \ {b} : CmpOf(cs, k, b) \in Three /\ CmpOf(cs, b, k) \in Three
                           /\ CmpOf(cs, k, b) = - CmpOf(cs, b, k)
    BY <1>1, CmpTurns
  <1>3. CASE t
    <2>1. PICK e \in K \ {b} : CmpOf(cs, e, b) = 0
      BY <1>1, <1>3
    <2>2. ASSUME NEW k \in K, Beats(cs, k) PROVE FALSE
      <3>1. CASE k = b
        <4>1. CmpOf(cs, b, e) > 0
          BY <2>1, <2>2, <3>1 DEF Beats
        <4>2. CmpOf(cs, b, e) = 0
          BY <1>2, <2>1 DEF Three
        <4> QED
          BY <4>1, <4>2
      <3>2. CASE k # b
        <4>1. CmpOf(cs, k, b) > 0
          BY <1>1, <2>2, <3>2 DEF Beats
        <4>2. CmpOf(cs, k, b) <= 0 /\ CmpOf(cs, k, b) \in Three
          BY <1>1, <1>2, <3>2
        <4> QED
          BY <4>1, <4>2 DEF Three
      <3> QED
        BY <3>1, <3>2
    <2> QED
      BY <1>3, <2>2 DEF Answer
  <1>4. CASE ~ t
    <2>1. ASSUME NEW j \in K \ {b} PROVE CmpOf(cs, b, j) > 0
      <3>1. CmpOf(cs, j, b) <= 0 /\ CmpOf(cs, j, b) # 0
        BY <1>1, <1>4
      <3> QED
        BY <1>2, <3>1 DEF Three
    <2>2. Beats(cs, b)
      BY <1>1, <2>1 DEF Beats
    <2> QED
      BY <1>1, <1>4, <2>2 DEF Answer
  <1> QED
    BY <1>3, <1>4

\* Two copies that cannot be compared leave no latest one.
LEMMA NoneAnswers ==
    ASSUME NEW cs, NEW j \in KnownOf(cs), NEW k \in KnownOf(cs), j # k,
           ~ (ReadOf(cs, j) /\ ReadOf(cs, k))
    PROVE  Answer(cs, 0)
  <1>1. ASSUME NEW m \in KnownOf(cs), Beats(cs, m) PROVE FALSE
    BY <1>1 DEF Beats
  <1> QED
    BY <1>1 DEF Answer

\* Where the loop goes: to the next copy with a version, if there is one.
LEMMA GoesTo ==
    ASSUME copies \in Seq(Strings \cup {Unknown}), NEW n \in KnownOf(copies)
    PROVE  /\ Goes(n) = 0 => Done(copies, n) \cup {n} = KnownOf(copies)
           /\ Goes(n) # 0 => /\ Goes(n) \in KnownOf(copies) /\ Goes(n) # n
                             /\ Done(copies, Goes(n)) = Done(copies, n) \cup {n}
  <1>1. KnownOf(copies) = Known /\ Known \subseteq Nat \ {0} /\ n \in Nat
    BY KnownCopies DEF KnownOf, Known
  <1> DEFINE L == {j \in Known : j > n}
  <1>2. L \subseteq Nat
    BY <1>1
  <1>3. CASE L = {}
    <2>1. Goes(n) = 0
      BY <1>3 DEF Goes
    <2>2. \A j \in Known : j = n \/ j < n
      BY <1>1, <1>3
    <2> QED
      BY <1>1, <2>1, <2>2 DEF Done
  <1>4. CASE L # {}
    <2>1. Goes(n) = First(L)
      BY <1>4 DEF Goes
    <2>2. First(L) \in L /\ \A y \in L : First(L) <= y
      BY <1>2, <1>4, FirstPlaceOf
    <2>3. Goes(n) \in Known /\ Goes(n) > n /\ \A y \in Known : y > n => Goes(n) <= y
      BY <2>1, <2>2
    <2>4. ASSUME NEW y \in Known PROVE y < Goes(n) <=> y = n \/ y < n
      <3>1. y \in Nat /\ n \in Nat /\ Goes(n) \in Nat /\ Goes(n) > n
        BY <1>1, <2>3
      <3>2. y > n => Goes(n) <= y
        BY <2>3
      <3> QED
        BY <3>1, <3>2
    <2>5. Done(copies, Goes(n)) = Done(copies, n) \cup {n}
      BY <1>1, <2>4 DEF Done
    <2>6. Goes(n) # 0 /\ Goes(n) # n
      BY <1>1, <2>3
    <2> QED
      BY <1>1, <2>3, <2>5, <2>6
  <1> QED
    BY <1>3, <1>4

LEMMA NewestInitInv == NewestInit => NewestInv
  <1> SUFFICES ASSUME NewestInit PROVE NewestInv
    OBVIOUS
  <1>1. copies \in Seq(Strings \cup {Unknown})
    BY CopiesAssumption DEF NewestInit
  <1>2. KnownOf(copies) = Known /\ Known \subseteq Nat
    BY <1>1, KnownCopies DEF KnownOf, Known
  <1>3. CASE Known = {}
    <2>1. next = 0 /\ newest = 0 /\ tie = FALSE
      BY <1>3 DEF NewestInit, NoLoop
    <2>2. Answer(copies, newest)
      BY <1>2, <1>3, <2>1 DEF Answer
    <2> QED
      BY <1>1, <2>1, <2>2 DEF NewestInv
  <1>4. CASE Known # {}
    <2>1. best = First(Known) /\ next = First(Known) /\ tie = FALSE /\ newest = 0
      BY <1>4 DEF NewestInit
    <2>2. First(Known) \in Known /\ \A k \in Known : First(Known) <= k
      BY <1>2, <1>4, FirstPlaceOf
    <2>3. Done(copies, next) = {}
      <3>1. ASSUME NEW k \in Known PROVE ~ (k < First(Known))
        <4>1. k \in Nat /\ First(Known) \in Nat /\ First(Known) <= k
          BY <1>2, <2>2
        <4> QED
          BY <4>1
      <3> QED
        BY <1>2, <2>1, <3>1 DEF Done
    <2>4. next # 0
      BY <1>1, <1>2, <2>1, <2>2, KnownCopies
    <2> QED
      BY <1>1, <1>2, <2>1, <2>2, <2>3, <2>4 DEF NewestInv
  <1> QED
    BY <1>3, <1>4

LEMMA NewestStep == NewestInv /\ [NewestNext]_nvars => NewestInv'
  <1> SUFFICES ASSUME NewestInv, [NewestNext]_nvars PROVE NewestInv'
    OBVIOUS
  <1>0. copies \in Seq(Strings \cup {Unknown}) /\ tie \in BOOLEAN
    BY DEF NewestInv
  <1>1. CASE UNCHANGED nvars
    BY <1>1 DEF nvars, NewestInv
  <1>2. CASE next # 0 /\ next = best
    <2>1. /\ next \in KnownOf(copies) /\ newest = 0
          /\ Done(copies, next) = {} /\ tie = FALSE
      BY <1>2 DEF NewestInv
    <2>2. BestOf(copies, {next}, next, FALSE)
      BY DEF BestOf
    <2>3. CASE Alone
      <3>1. next' = 0 /\ newest' = next /\ copies' = copies /\ tie' = tie
        BY <1>2, <2>3 DEF Alone
      <3>2. {next} = KnownOf(copies)
        BY <1>0, <2>1, <2>3, GoesTo DEF Alone
      <3>3. Answer(copies, next)
        BY <1>0, <2>2, <3>2, BestAnswers
      <3> QED
        BY <1>0, <3>1, <3>3 DEF NewestInv
    <2>4. CASE Enters
      <3>1. /\ next' = Goes(next) /\ Goes(next) # 0
            /\ copies' = copies /\ tie' = tie /\ best' = next /\ newest' = newest
        BY <1>2, <2>4 DEF Enters
      <3>2. /\ Goes(next) \in KnownOf(copies) /\ Goes(next) # next
            /\ Done(copies, Goes(next)) = {next}
        BY <1>0, <2>1, <3>1, GoesTo
      <3> QED
        BY <1>0, <2>1, <2>2, <3>1, <3>2 DEF NewestInv
    <2> QED
      BY <1>1, <1>2, <2>3, <2>4 DEF NewestNext, Declines, Compares
  <1>3. CASE next # 0 /\ next # best
    <2>1. /\ next \in KnownOf(copies) /\ newest = 0
          /\ BestOf(copies, Done(copies, next), best, tie)
      BY <1>3 DEF NewestInv
    <2>2. best \in KnownOf(copies) /\ Done(copies, next) \subseteq KnownOf(copies)
          /\ next \notin Done(copies, next)
      <3>1. next \in Nat
        BY <1>0, <2>1, KnownCopies
      <3> QED
        BY <2>1, <3>1 DEF BestOf, Done
    <2>3. CASE Declines
      <3>1. /\ next' = 0 /\ newest' = 0 /\ copies' = copies /\ tie' = tie
            /\ ~ (ReadOf(copies, next) /\ ReadOf(copies, best))
        BY <2>1, <2>3 DEF Declines, ReadOf
      <3>2. Answer(copies, 0)
        BY <1>3, <2>1, <2>2, <3>1, NoneAnswers
      <3> QED
        BY <1>0, <3>1, <3>2 DEF NewestInv
    <2>4. CASE Compares
      <3> DEFINE c == CmpOf(copies, next, best)
                 b == IF c > 0 THEN next ELSE best
                 t == IF c > 0 THEN FALSE ELSE tie \/ c = 0
                 D == Done(copies, next) \cup {next}
      <3>1. /\ ReadOf(copies, next) /\ ReadOf(copies, best)
            /\ copies' = copies /\ best' = b /\ tie' = t /\ next' = Goes(next)
            /\ newest' = IF next' = 0 /\ ~ tie' THEN best' ELSE 0
        BY <2>4 DEF Compares, Cmp, CmpOf, ReadOf, TieOf
      <3>2. BestOf(copies, D, b, t)
        BY <1>0, <2>1, <2>2, <3>1, Round
      <3>3. t \in BOOLEAN /\ b \in D
        BY <1>0, <3>2 DEF BestOf
      <3> HIDE DEF t, b, c
      <3>4. CASE Goes(next) = 0
        <4>1. D = KnownOf(copies)
          BY <1>0, <2>1, <3>4, GoesTo
        <4>2. Answer(copies, IF t THEN 0 ELSE b)
          BY <1>0, <3>2, <3>3, <4>1, BestAnswers
        <4>3. newest' = IF t THEN 0 ELSE b
          BY <3>1, <3>3, <3>4
        <4>4. Answer(copies', newest')
          BY <3>1, <4>2, <4>3
        <4> QED
          BY <1>0, <3>1, <3>3, <3>4, <4>4 DEF NewestInv
      <3>5. CASE Goes(next) # 0
        <4>1. /\ Goes(next) \in KnownOf(copies) /\ Goes(next) # next
              /\ Done(copies, Goes(next)) = D
          BY <1>0, <2>1, <3>5, GoesTo
        <4>2. Goes(next) # b
          <5>1. Goes(next) \notin Done(copies, Goes(next))
            <6>1. Goes(next) \in Nat
              BY <1>0, <4>1, KnownCopies
            <6> QED
              BY <6>1 DEF Done
          <5> QED
            BY <3>3, <4>1, <5>1
        <4> QED
          BY <1>0, <3>1, <3>2, <3>3, <3>5, <4>1, <4>2 DEF NewestInv
      <3> QED
        BY <3>4, <3>5
    <2> QED
      BY <1>1, <1>3, <2>3, <2>4 DEF NewestNext, Alone, Enters
  <1> QED
    BY <1>1, <1>2, <1>3 DEF NewestNext, Alone, Enters, Declines, Compares

\* However many copies an app has, in whatever order they come and whatever their
\* versions are: when _pick_newest has ended, the copy it names is newer than every
\* other with a version, and it names none only if there is no such copy.
THEOREM PicksTheLatestCopy == NewestSpec => []PicksTheLatest
  <1>1. NewestInv => PicksTheLatest
    <2> SUFFICES ASSUME NewestInv, next = 0 PROVE PicksTheLatest
      BY DEF PicksTheLatest
    <2>1. Answer(copies, newest)
      BY DEF NewestInv
    <2>2. KnownOf(copies) = Known
      BY DEF KnownOf, Known
    <2>3. \A k : Beats(copies, k) <=> NewerThanAll(k)
      BY <2>2 DEF Beats, NewerThanAll, ReadOf, CmpOf, Cmp
    <2> QED
      BY <2>1, <2>2, <2>3 DEF Answer, PicksTheLatest
  <1> QED
    BY <1>1, NewestInitInv, NewestStep, PTL DEF NewestSpec

\* compare_versions orders the versions of any copies that parse: older is newer
\* seen from the other side, and older and equal are transitive.
THEOREM VersionsOrdered == NewestSpec => []Ordered
  <1>1. NewestInv => Ordered
    <2> SUFFICES ASSUME NewestInv, NEW i \in Known, NEW j \in Known, NEW k \in Known,
                        Parses(copies[i]), Parses(copies[j]), Parses(copies[k])
                 PROVE  /\ Cmp(i, j) = - Cmp(j, i)
                        /\ Cmp(i, j) <= 0 /\ Cmp(j, k) <= 0 => Cmp(i, k) <= 0
                        /\ Cmp(i, j) = 0 /\ Cmp(j, k) = 0 => Cmp(i, k) = 0
      BY DEF Ordered
    <2>1. copies \in Seq(Strings \cup {Unknown})
      BY DEF NewestInv
    <2>2. /\ i \in KnownOf(copies) /\ j \in KnownOf(copies) /\ k \in KnownOf(copies)
          /\ ReadOf(copies, i) /\ ReadOf(copies, j) /\ ReadOf(copies, k)
      BY DEF KnownOf, Known, ReadOf
    <2>3. /\ Cmp(i, j) = CmpOf(copies, i, j) /\ Cmp(j, i) = CmpOf(copies, j, i)
          /\ Cmp(j, k) = CmpOf(copies, j, k) /\ Cmp(i, k) = CmpOf(copies, i, k)
      BY DEF Cmp, CmpOf
    <2>4. CmpOf(copies, i, j) = - CmpOf(copies, j, i)
      BY <2>1, <2>2, CmpTurns
    <2>5. CmpOf(copies, i, j) <= 0 /\ CmpOf(copies, j, k) <= 0 => CmpOf(copies, i, k) <= 0
      BY <2>1, <2>2, CmpLeq
    <2>6. CmpOf(copies, i, j) = 0 /\ CmpOf(copies, j, k) = 0 => CmpOf(copies, i, k) = 0
      BY <2>1, <2>2, CmpFacts
    <2> QED
      BY <2>3, <2>4, <2>5, <2>6
  <1> QED
    BY <1>1, NewestInitInv, NewestStep, PTL DEF NewestSpec

-----------------------------------------------------------------------------
(* Heap. Recursive functions: that they exist is said here with functions,  *)
(* where the library's theorems take operators.                             *)

\* What starts at 0 and passes from each number to the next holds up to n.
LEMMA UpTo ==
    ASSUME NEW n \in Nat, NEW H, 0 \in H, \A k \in 1 .. n : k - 1 \in H => k \in H
    PROVE  \A k \in 0 .. n : k \in H
  <1> DEFINE Missing == {k \in 0 .. n : k \notin H}
  <1> SUFFICES ASSUME Missing # {} PROVE FALSE
    OBVIOUS
  <1>1. Missing \subseteq Nat
    OBVIOUS
  <1>2. PICK k \in Missing : \A j \in Missing : k <= j
    BY <1>1, LeastNat
  <1>3. k \in 1 .. n /\ k - 1 \in 0 .. n /\ ~ k <= k - 1
    <2>1. k # 0 /\ k \in 0 .. n
      BY <1>2
    <2> QED
      BY <2>1
  <1>4. k - 1 \in H
    BY <1>2, <1>3
  <1> QED
    BY <1>2, <1>3, <1>4

\* f starts at a and takes n steps of G.
Recurs(f, S, n, a, G) ==
    /\ f \in [0 .. n -> S]
    /\ f[0] = a /\ \A k \in 1 .. n : f[k] = G[<<k, f[k - 1]>>]

\* A function that is defined by recursion from 0 to n exists.
LEMMA RecursiveFunction ==
    ASSUME NEW S, NEW n \in Nat, NEW a \in S, NEW G \in [(1 .. n) \X S -> S]
    PROVE  \E f : Recurs(f, S, n, a, G)
  <1> DEFINE Upto(m, f) == f[0] = a /\ \A k \in 1 .. m : f[k] = G[<<k, f[k - 1]>>]
             H == {m \in 0 .. n : \E f \in [0 .. m -> S] : Upto(m, f)}
  <1>1. 0 \in H
    <2> DEFINE g == [k \in 0 .. 0 |-> a]
    <2>1. g \in [0 .. 0 -> S] /\ Upto(0, g)
      OBVIOUS
    <2>2. 0 \in 0 .. n
      OBVIOUS
    <2> HIDE DEF g, Upto
    <2> QED
      BY <2>1, <2>2
  <1>2. ASSUME NEW m \in 1 .. n, m - 1 \in H
        PROVE  m \in H
    <2>1. PICK f \in [0 .. m - 1 -> S] : Upto(m - 1, f)
      BY <1>2
    <2> DEFINE g == [k \in 0 .. m |-> IF k = m THEN G[<<m, f[m - 1]>>] ELSE f[k]]
    <2>2. m \in Nat /\ m \in 0 .. m /\ m - 1 \in 0 .. m - 1 /\ 0 \in 0 .. m - 1 /\ m - 1 # m
      OBVIOUS
    <2>3. f[m - 1] \in S /\ G[<<m, f[m - 1]>>] \in S
      BY <2>2
    <2>4. \A k \in 0 .. m : k = m \/ k \in 0 .. m - 1
      OBVIOUS
    <2>5. g \in [0 .. m -> S]
      BY <2>3, <2>4
    <2>6. /\ \A k \in 0 .. m - 1 : g[k] = f[k]
          /\ g[m] = G[<<m, f[m - 1]>>]
      BY <2>2
    <2>7. g[m] = G[<<m, g[m - 1]>>]
      BY <2>2, <2>6
    <2>8. \A k \in 1 .. m - 1 : g[k] = G[<<k, g[k - 1]>>]
      <3> TAKE k \in 1 .. m - 1
      <3>1. k \in 0 .. m - 1 /\ k - 1 \in 0 .. m - 1
        OBVIOUS
      <3> QED
        BY <2>1, <2>6, <3>1
    <2>9. g[0] = a
      BY <2>1, <2>2, <2>6
    <2> HIDE DEF g
    <2>10. \A k \in 1 .. m : k = m \/ k \in 1 .. m - 1
      OBVIOUS
    <2>11. \A k \in 1 .. m : g[k] = G[<<k, g[k - 1]>>]
      BY <2>7, <2>8, <2>10
    <2> QED
      BY <2>5, <2>9, <2>11
  <1>3. \A m \in 0 .. n : m \in H
    <2> HIDE DEF H
    <2> QED
      BY <1>1, <1>2, UpTo
  <1>4. \E f \in [0 .. n -> S] : Upto(n, f)
    BY <1>3
  <1> QED
    BY <1>4 DEF Recurs


-----------------------------------------------------------------------------
(* Sizes. *)

LEMMA Division ==
    ASSUME NEW a \in Nat, NEW b \in Nat, b > 0
    PROVE  /\ a \div b \in Nat /\ a % b \in 0 .. b - 1
           /\ a = b * (a \div b) + (a % b)
  <1>1. a % b \in 0 .. b - 1
    OBVIOUS
  <1>2. a \div b \in Int
    OBVIOUS
  <1>3. a = b * (a \div b) + (a % b)
    OBVIOUS
  <1>4. a \div b >= 0
    OBVIOUS
  <1> QED
    BY <1>1, <1>2, <1>3, <1>4

LEMMA BasePositive == Base \in Nat /\ Base > 0
  <1>1. Base = 0 => Base * Base = 0
    OBVIOUS
  <1> QED
    BY <1>1, ChunkAssumption

LEMMA TimesGrows ==
    ASSUME NEW a \in Nat, NEW b \in Nat, a <= b, NEW k \in Nat
    PROVE  a * k <= b * k /\ a * k \in Nat /\ (a + 1) * k = a * k + k
  <1>1. PICK d \in Nat : b = a + d
    <2>1. b - a \in Nat /\ b = a + (b - a)
      OBVIOUS
    <2> QED
      BY <2>1
  <1>2. b * k = a * k + d * k /\ d * k \in Nat /\ a * k \in Nat
    BY <1>1
  <1>3. (a + 1) * k = a * k + k
    OBVIOUS
  <1> QED
    BY <1>2, <1>3

LEMMA ChunkFacts ==
    ASSUME NEW n \in Nat
    PROVE  /\ Chunks(n) \in Nat
           /\ n = 0 => Chunks(n) = 0
           /\ n # 0 => Chunks(n) # 0
           /\ \A c \in 1 .. Chunks(n) :
                /\ (c - 1) * ChunkSize \in Nat
                /\ ChunkLen(n, c) \in 1 .. ChunkSize
                /\ (c - 1) * ChunkSize + ChunkLen(n, c) <= n
                /\ c = Chunks(n) => (c - 1) * ChunkSize + ChunkLen(n, c) = n
                /\ c # Chunks(n) => /\ ChunkLen(n, c) = ChunkSize
                                    /\ (c - 1) * ChunkSize + ChunkSize = c * ChunkSize
  <1> DEFINE N == Chunks(n)
             S == ChunkSize
             r == (n + S - 1) % S
             top == N * S
             last == (N - 1) * S
  <1>1. S \in Nat /\ S > 0
    BY ChunkAssumption
  <1>2. n + S - 1 \in Nat
    BY <1>1
  <1>3. N \in Nat /\ r \in 0 .. S - 1 /\ n + S - 1 = top + r
    <2>1. /\ (n + S - 1) \div S \in Nat /\ (n + S - 1) % S \in 0 .. S - 1
          /\ n + S - 1 = S * ((n + S - 1) \div S) + ((n + S - 1) % S)
      BY <1>1, <1>2, Division
    <2> QED
      BY <1>1, <2>1 DEF Chunks
  <1> HIDE DEF r, N, S
  <1>4. top \in Nat /\ (N # 0 => N - 1 \in Nat /\ last \in Nat /\ top = last + S)
    <2>1. top \in Nat
      BY <1>1, <1>3
    <2>2. ASSUME N # 0 PROVE N - 1 \in Nat /\ last \in Nat /\ top = last + S
      <3>1. N - 1 \in Nat
        BY <1>3, <2>2
      <3>2. last \in Nat /\ ((N - 1) + 1) * S = last + S
        BY <1>1, <3>1, TimesGrows
      <3>3. (N - 1) + 1 = N
        BY <1>3
      <3> QED
        BY <3>1, <3>2, <3>3
    <2> QED
      BY <2>1, <2>2
  <1>5. N = 0 => top = 0
    BY <1>1
  <1> HIDE DEF top, last
  <1>6. /\ n = 0 => N = 0
        /\ n # 0 => N # 0
        /\ n <= top
        /\ N # 0 => last < n
    BY <1>1, <1>3, <1>4, <1>5
  <1>7. ASSUME NEW c \in 1 .. N
        PROVE  /\ (c - 1) * S \in Nat
               /\ ChunkLen(n, c) \in 1 .. S
               /\ (c - 1) * S + ChunkLen(n, c) <= n
               /\ c = N => (c - 1) * S + ChunkLen(n, c) = n
               /\ c # N => ChunkLen(n, c) = S /\ (c - 1) * S + S = c * S
    <2>1. c - 1 \in Nat /\ N # 0 /\ c \in Nat
      BY <1>3
    <2> DEFINE a == (c - 1) * S
    <2>2. a \in Nat
      BY <1>1, <2>1
    <2>3. CASE c = N
      <3>1. a = last
        BY <2>3 DEF last
      <3>2. ChunkLen(n, c) = n - a
        BY <2>3 DEF ChunkLen, N, S
      <3> HIDE DEF a
      <3>3. n - a \in 1 .. S /\ a + (n - a) = n
        BY <1>1, <1>4, <1>6, <2>1, <2>2, <3>1
      <3> QED
        BY <2>2, <2>3, <3>2, <3>3 DEF a
    <2>4. CASE c # N
      <3>1. ChunkLen(n, c) = S
        BY <2>4 DEF ChunkLen, N, S
      <3>2. c <= N - 1 /\ N - 1 \in Nat
        BY <1>3, <2>1, <2>4
      <3>3. c * S <= last
        BY <1>1, <2>1, <3>2, TimesGrows DEF last
      <3>4. ((c - 1) + 1) * S = a + S /\ (c - 1) + 1 = c
        BY <1>1, <2>1, TimesGrows
      <3>5. c * S = a + S
        BY <3>4
      <3> DEFINE b == c * S
      <3>6. a + S = b /\ b <= last
        BY <3>3, <3>5
      <3> HIDE DEF a, b
      <3>7. a + S <= n
        BY <1>1, <1>4, <1>6, <2>1, <2>2, <3>6
      <3>8. S \in 1 .. S
        BY <1>1
      <3> QED
        BY <2>2, <2>4, <3>1, <3>6, <3>7, <3>8 DEF a, b
    <2> QED
      BY <2>3, <2>4
  <1> QED
    BY <1>3, <1>6, <1>7 DEF N, S

-----------------------------------------------------------------------------
(* What is on disk. *)

Plain  == {<<"plain", k>> : k \in Nat}
Coded  == {<<"packed", c, k>> : c \in Nat, k \in Nat}
Tabled == {<<"table", b>> : b \in Nat}
Byte   == Plain \cup Coded \cup Tabled

LEMMA DataIs ==
    ASSUME NEW n \in Nat
    PROVE  /\ Data(n) \in Seq(Byte) /\ Len(Data(n)) = n
           /\ \A k \in 1 .. n : Data(n)[k] = <<"plain", k>>
  <1>1. \A k \in 1 .. n : <<"plain", k>> \in Byte
    BY DEF Byte, Plain
  <1>2. Data(n) = [k \in 1 .. n |-> <<"plain", k>>]
    BY DEF Data
  <1>3. Data(n) \in [1 .. n -> Byte]
    BY <1>1, <1>2
  <1>4. Data(n) \in Seq(Byte) /\ Len(Data(n)) = n
    BY <1>3
  <1> QED
    BY <1>2, <1>4

LEMMA ChunkIs ==
    ASSUME NEW n \in Nat, NEW c \in 1 .. Chunks(n)
    PROVE  /\ Chunk(n, c) \in Seq(Byte) /\ Len(Chunk(n, c)) = ChunkLen(n, c)
           /\ \A k \in 1 .. ChunkLen(n, c) : Chunk(n, c)[k] = <<"plain", (c - 1) * ChunkSize + k>>
  <1> DEFINE a == (c - 1) * ChunkSize
             z == ChunkLen(n, c)
  <1>1. a \in Nat /\ z \in Nat /\ z >= 1 /\ a + z <= n
    BY ChunkFacts, ChunkAssumption
  <1>2. Chunk(n, c) = SubSeq(Data(n), a + 1, a + z)
    BY DEF Chunk
  <1> HIDE DEF a, z
  <1>3. \A i \in a + 1 .. a + z : i \in 1 .. n
    BY <1>1
  <1>4. \A i \in a + 1 .. a + z : Data(n)[i] \in Byte
    BY <1>3, DataIs
  <1>5. a + 1 \in Int /\ a + z \in Int
    BY <1>1
  <1>6. /\ Chunk(n, c) \in Seq(Byte)
        /\ Len(Chunk(n, c)) = IF a + 1 <= a + z THEN (a + z) - (a + 1) + 1 ELSE 0
        /\ \A i \in 1 .. (a + z) - (a + 1) + 1 : Chunk(n, c)[i] = Data(n)[(a + 1) + i - 1]
    BY <1>2, <1>4, <1>5, SubSeqProperties
  <1>7. (a + z) - (a + 1) + 1 = z /\ a + 1 <= a + z
    BY <1>1
  <1>8. \A k \in 1 .. z : (a + 1) + k - 1 = a + k /\ a + k \in 1 .. n
    BY <1>1
  <1>9. \A k \in 1 .. z : Chunk(n, c)[k] = <<"plain", a + k>>
    <2> TAKE k \in 1 .. z
    <2>1. Chunk(n, c)[k] = Data(n)[a + k]
      BY <1>6, <1>7, <1>8
    <2> QED
      BY <1>8, <2>1, DataIs
  <1> QED
    BY <1>6, <1>7, <1>9 DEF a, z

LEMMA OnDiskIs ==
    ASSUME NEW n \in Nat, NEW l \in Lens(n), NEW c \in 1 .. Chunks(n)
    PROVE  /\ l[c] \in 1 .. ChunkLen(n, c)
           /\ OnDisk(n, l, c) \in Seq(Byte) /\ Len(OnDisk(n, l, c)) = l[c]
           /\ l[c] = ChunkLen(n, c) => OnDisk(n, l, c) = Chunk(n, c)
           /\ l[c] # ChunkLen(n, c) => /\ OnDisk(n, l, c) # Chunk(n, c)
                                       /\ \A k \in 1 .. l[c] : OnDisk(n, l, c)[k] = <<"packed", c, k>>
  <1>1. l[c] \in 1 .. ChunkLen(n, c) /\ l[c] \in Nat
    <2>1. l[c] \in 1 .. ChunkSize /\ l[c] <= ChunkLen(n, c)
      BY DEF Lens
    <2>2. ChunkLen(n, c) \in 1 .. ChunkSize
      BY ChunkFacts
    <2> QED
      BY <2>1, <2>2, ChunkAssumption
  <1>2. CASE l[c] = ChunkLen(n, c)
    BY <1>1, <1>2, ChunkIs DEF OnDisk
  <1>3. CASE l[c] # ChunkLen(n, c)
    <2> DEFINE o == [k \in 1 .. l[c] |-> <<"packed", c, k>>]
    <2>1. OnDisk(n, l, c) = o
      BY <1>3 DEF OnDisk
    <2>2. c \in Nat
      BY ChunkFacts
    <2>3. \A k \in 1 .. l[c] : <<"packed", c, k>> \in Byte
      BY <2>2 DEF Byte, Coded
    <2>4. o \in [1 .. l[c] -> Byte] /\ \A k \in 1 .. l[c] : o[k] = <<"packed", c, k>>
      BY <2>3
    <2> HIDE DEF o
    <2>5. o \in Seq(Byte) /\ Len(o) = l[c]
      BY <1>1, <2>4
    <2>6. o # Chunk(n, c)
      BY <1>3, <2>5, ChunkIs
    <2> QED
      BY <1>1, <1>3, <2>1, <2>4, <2>5, <2>6
  <1> QED
    BY <1>2, <1>3

LEMMA LensAre ==
    ASSUME NEW n \in Nat, NEW l \in Lens(n), NEW c \in 1 .. Chunks(n)
    PROVE  /\ ChunkLen(n, c) \in Nat /\ ChunkLen(n, c) <= ChunkSize
           /\ l[c] \in Nat /\ l[c] > 0 /\ l[c] <= ChunkLen(n, c)
  <1>1. ChunkLen(n, c) \in 1 .. ChunkSize /\ ChunkSize \in Nat
    BY ChunkFacts, ChunkAssumption
  <1>2. l[c] \in 1 .. ChunkLen(n, c)
    BY OnDiskIs
  <1> QED
    BY <1>1, <1>2

LEMMA Joined ==
    ASSUME NEW s \in Seq(Byte), NEW t \in Seq(Byte), NEW z, Len(s) = z, NEW w, Len(t) = w
    PROVE  /\ s \o t \in Seq(Byte) /\ Len(s \o t) = z + w
           /\ \A i \in 1 .. z : (s \o t)[i] = s[i]
           /\ \A k \in 1 .. w : (s \o t)[z + k] = t[k]
  <1> QED
    OBVIOUS

LEMMA JoinedRight ==
    ASSUME NEW s \in Seq(Byte), NEW t \in Seq(Byte)
    PROVE  \A k \in 1 .. Len(t) : (s \o t)[Len(s) + k] = t[k]
  <1> QED
    OBVIOUS

\* Sequences with the same bytes.
LEMMA SameBytes ==
    ASSUME NEW z, NEW s \in Seq(Byte), NEW t \in Seq(Byte), Len(s) = z, Len(t) = z,
           \A i \in 1 .. z : s[i] = t[i]
    PROVE  s = t
  <1> QED
    OBVIOUS

LEMMA LaidSteps ==
    ASSUME NEW n \in Nat, NEW l \in Lens(n)
    PROVE  /\ Laid(n, l) \in [0 .. Chunks(n) -> Seq(Byte)]
           /\ Laid(n, l)[0] = <<>>
           /\ \A c \in 1 .. Chunks(n) : Laid(n, l)[c] = Laid(n, l)[c - 1] \o OnDisk(n, l, c)
  <1> DEFINE N == Chunks(n)
             S == Seq(Byte)
             G == [x \in (1 .. N) \X S |-> x[2] \o OnDisk(n, l, x[1])]
             Lays(f) == f = [c \in 0 .. N |-> IF c = 0 THEN <<>> ELSE f[c - 1] \o OnDisk(n, l, c)]
  <1>0. N \in Nat /\ <<>> \in S
    BY ChunkFacts
  <1>1. \A s \in S, c \in 1 .. N : s \o OnDisk(n, l, c) \in S
    <2> TAKE s \in S, c \in 1 .. N
    <2>1. OnDisk(n, l, c) \in S
      BY OnDiskIs
    <2> QED
      BY <2>1
  <1>2. G \in [(1 .. N) \X S -> S] /\ \A c \in 1 .. N, s \in S : G[<<c, s>>] = s \o OnDisk(n, l, c)
    BY <1>1
  <1> HIDE DEF G, N, S
  <1>3. \E g : Recurs(g, S, N, <<>>, G)
    BY <1>0, <1>2, RecursiveFunction, Zenon
  <1>4. PICK g \in [0 .. N -> S] : g[0] = <<>> /\ \A c \in 1 .. N : g[c] = G[<<c, g[c - 1]>>]
    BY <1>3 DEF Recurs
  <1>5. \A c \in 0 .. N : g[c] = IF c = 0 THEN <<>> ELSE g[c - 1] \o OnDisk(n, l, c)
    <2> TAKE c \in 0 .. N
    <2>1. CASE c # 0
      <3>1. c \in 1 .. N /\ c - 1 \in 0 .. N
        BY <1>0, <2>1
      <3> QED
        BY <1>2, <1>4, <2>1, <3>1
    <2> QED
      BY <1>4, <2>1
  <1>6. Lays(g)
    BY <1>4, <1>5
  <1> DEFINE h == CHOOSE f : Lays(f)
  <1>7. Lays(h) /\ Laid(n, l) = h
    BY <1>6 DEF Laid, N
  <1> HIDE DEF h
  <1>8. \A c \in 0 .. N : h[c] = IF c = 0 THEN <<>> ELSE h[c - 1] \o OnDisk(n, l, c)
    BY <1>7
  <1>9. 0 \in 0 .. N /\ \A c \in 1 .. N : c \in 0 .. N /\ c # 0
    BY <1>0
  <1>10. h[0] = <<>> /\ \A c \in 1 .. N : h[c] = h[c - 1] \o OnDisk(n, l, c)
    BY <1>8, <1>9
  <1> DEFINE H == {c \in 0 .. N : h[c] \in S}
  <1>11. 0 \in H
    BY <1>0, <1>9, <1>10
  <1>12. ASSUME NEW c \in 1 .. N, c - 1 \in H PROVE c \in H
    BY <1>0, <1>1, <1>9, <1>10, <1>12
  <1>13. \A c \in 0 .. N : c \in H
    <2> HIDE DEF H
    <2> QED
      BY <1>0, <1>11, <1>12, UpTo
  <1>14. h \in [0 .. N -> S]
    BY <1>7, <1>13
  <1> QED
    BY <1>7, <1>10, <1>14 DEF N, S

\* How many bytes the chunks up to c take.
Off(n, l, c) == Len(Laid(n, l)[c])

LEMMA Offsets ==
    ASSUME NEW n \in Nat, NEW l \in Lens(n)
    PROVE  /\ Off(n, l, 0) = 0
           /\ \A c \in 0 .. Chunks(n) : Off(n, l, c) \in Nat
           /\ \A c \in 1 .. Chunks(n) : Off(n, l, c) = Off(n, l, c - 1) + l[c]
           /\ \A c, d \in 0 .. Chunks(n) : c <= d => Off(n, l, c) <= Off(n, l, d)
  <1> DEFINE N == Chunks(n)
             L == Laid(n, l)
             f == [c \in 0 .. N |-> Off(n, l, c)]
  <1>0. N \in Nat
    BY ChunkFacts
  <1>1. /\ L \in [0 .. N -> Seq(Byte)] /\ L[0] = <<>>
        /\ \A c \in 1 .. N : L[c] = L[c - 1] \o OnDisk(n, l, c)
    BY LaidSteps
  <1>2. \A c \in 1 .. N : l[c] \in Nat /\ OnDisk(n, l, c) \in Seq(Byte) /\ Len(OnDisk(n, l, c)) = l[c]
    <2> TAKE c \in 1 .. N
    <2>1. ChunkLen(n, c) \in Nat
      BY ChunkFacts, ChunkAssumption
    <2> QED
      BY <2>1, OnDiskIs
  <1>3. \A c \in 0 .. N : f[c] = Len(L[c])
    BY DEF Off
  <1>4. \A c \in 0 .. N : Off(n, l, c) = f[c]
    OBVIOUS
  <1> HIDE DEF N, L, f
  <1>5. \A c \in 1 .. N : c \in 0 .. N /\ c - 1 \in 0 .. N
    BY <1>0
  <1>6. 0 \in 0 .. N
    BY <1>0
  <1>7. f[0] = 0
    BY <1>1, <1>3, <1>6
  <1>8. \A c \in 0 .. N : f[c] \in Nat
    BY <1>1, <1>3
  <1>9. \A c \in 1 .. N : f[c] = f[c - 1] + l[c]
    <2> TAKE c \in 1 .. N
    <2>1. L[c - 1] \in Seq(Byte) /\ L[c] = L[c - 1] \o OnDisk(n, l, c)
      BY <1>1, <1>5
    <2>2. Len(L[c]) = Len(L[c - 1]) + l[c]
      <3> DEFINE o == OnDisk(n, l, c)
                 s == L[c - 1]
      <3>1. o \in Seq(Byte) /\ Len(o) = l[c] /\ s \in Seq(Byte) /\ L[c] = s \o o
        BY <1>2, <2>1
      <3> HIDE DEF o, s
      <3>2. PICK z : z = Len(s)
        OBVIOUS
      <3>3. Len(s \o o) = z + l[c]
        BY ONLY <3>1, <3>2, Joined
      <3> QED
        BY <3>1, <3>2, <3>3 DEF s
    <2> QED
      BY <1>3, <1>5, <2>2
  <1>10. ASSUME NEW c \in 0 .. N
         PROVE  \A d \in 0 .. N : c <= d => f[c] <= f[d]
    <2> DEFINE H == {d \in 0 .. N : c <= d => f[c] <= f[d]}
    <2>1. 0 \in H
      <3>1. c <= 0 => c = 0
        BY <1>0
      <3> QED
        BY <1>6, <1>7, <3>1
    <2>2. ASSUME NEW d \in 1 .. N, d - 1 \in H
          PROVE  d \in H
      <3>1. f[d] = f[d - 1] + l[d] /\ f[d - 1] \in Nat /\ f[d] \in Nat /\ f[c] \in Nat /\ l[d] \in Nat
        BY <1>2, <1>5, <1>8, <1>9
      <3>2. c <= d => c = d \/ c <= d - 1
        BY <1>0
      <3>3. c <= d - 1 => f[c] <= f[d - 1]
        BY <2>2
      <3>4. c <= d => f[c] <= f[d]
        BY <3>1, <3>2, <3>3
      <3> QED
        BY <1>5, <3>4
    <2> HIDE DEF H
    <2>3. \A d \in 0 .. N : d \in H
      BY <1>0, <2>1, <2>2, UpTo
    <2> QED
      BY <2>3 DEF H
  <1> QED
    BY <1>4, <1>5, <1>6, <1>7, <1>8, <1>9, <1>10 DEF N

\* Where the bytes of each chunk lie, and that there are no others.
LEMMA LaidPlaces ==
    ASSUME NEW n \in Nat, NEW l \in Lens(n)
    PROVE  /\ \A c \in 1 .. Chunks(n) : \A k \in 1 .. l[c] :
                /\ Off(n, l, c - 1) + k \in 1 .. Off(n, l, Chunks(n))
                /\ Laid(n, l)[Chunks(n)][Off(n, l, c - 1) + k] = OnDisk(n, l, c)[k]
           /\ \A i \in 1 .. Off(n, l, Chunks(n)) :
                \E c \in 1 .. Chunks(n) : \E k \in 1 .. l[c] : i = Off(n, l, c - 1) + k
  <1> DEFINE N == Chunks(n)
             L == Laid(n, l)
             f == [c \in 0 .. N |-> Off(n, l, c)]
             H == {m \in 0 .. N :
                     /\ \A c \in 1 .. m : \A k \in 1 .. l[c] :
                          /\ f[c - 1] + k \in 1 .. f[m]
                          /\ L[m][f[c - 1] + k] = OnDisk(n, l, c)[k]
                     /\ \A i \in 1 .. f[m] :
                          \E c \in 1 .. m : \E k \in 1 .. l[c] : i = f[c - 1] + k}
  <1>0. N \in Nat
    BY ChunkFacts
  <1>1. /\ L \in [0 .. N -> Seq(Byte)]
        /\ \A c \in 1 .. N : L[c] = L[c - 1] \o OnDisk(n, l, c)
    BY LaidSteps
  <1>2. \A c \in 1 .. N : l[c] \in Nat /\ OnDisk(n, l, c) \in Seq(Byte) /\ Len(OnDisk(n, l, c)) = l[c]
    <2> TAKE c \in 1 .. N
    <2>1. ChunkLen(n, c) \in Nat
      BY ChunkFacts, ChunkAssumption
    <2> QED
      BY <2>1, OnDiskIs
  <1>3. \A c \in 1 .. N : c \in 0 .. N /\ c - 1 \in 0 .. N
    BY <1>0
  <1>4. \A c \in 0 .. N : f[c] = Off(n, l, c) /\ f[c] = Len(L[c])
    BY DEF Off
  <1>5. /\ f[0] = 0 /\ \A c \in 0 .. N : f[c] \in Nat
        /\ \A c \in 1 .. N : f[c] = f[c - 1] + l[c]
    <2>1. 0 \in 0 .. N
      BY <1>0
    <2> HIDE DEF f
    <2> QED
      BY <1>3, <1>4, <2>1, Offsets DEF N
  <1> HIDE DEF N, L, f
  <1>6. 0 \in H
    <2>1. 0 \in 0 .. N /\ 1 .. 0 = {} /\ f[0] = 0
      BY <1>0, <1>5
    <2> QED
      BY <2>1
  <1>7. ASSUME NEW m \in 1 .. N, m - 1 \in H
        PROVE  m \in H
    <2>0. m \in 0 .. N /\ m - 1 \in 0 .. N /\ m \in Nat
      BY <1>0, <1>3
    <2> DEFINE s == L[m - 1]
               z == L[m]
               o == OnDisk(n, l, m)
               a == f[m - 1]
    <2>1. s \in Seq(Byte) /\ o \in Seq(Byte) /\ Len(o) = l[m] /\ z = s \o o /\ Len(s) = a /\ l[m] \in Nat
      BY <1>1, <1>2, <1>4, <2>0
    <2>2. a \in Nat /\ f[m] = a + l[m]
      BY <1>5, <2>0
    <2>3. /\ \A c \in 1 .. m - 1 : \A k \in 1 .. l[c] :
               f[c - 1] + k \in 1 .. a /\ s[f[c - 1] + k] = OnDisk(n, l, c)[k]
          /\ \A i \in 1 .. a : \E c \in 1 .. m - 1 : \E k \in 1 .. l[c] : i = f[c - 1] + k
      BY <1>7
    <2> HIDE DEF s, z, o, a
    <2>4. /\ \A i \in 1 .. a : z[i] = s[i]
          /\ \A k \in 1 .. l[m] : z[a + k] = o[k]
      <3>1. PICK w : w = l[m]
        OBVIOUS
      <3>2. s \in Seq(Byte) /\ o \in Seq(Byte) /\ Len(o) = w /\ Len(s) = a
        BY <2>1, <3>1
      <3>3. \A i \in 1 .. a : (s \o o)[i] = s[i]
        BY ONLY <3>2, Joined
      <3>4. \A k \in 1 .. w : (s \o o)[a + k] = o[k]
        <4>1. \A k \in 1 .. Len(o) : (s \o o)[Len(s) + k] = o[k]
          BY ONLY <3>2, JoinedRight
        <4> QED
          BY ONLY <3>2, <4>1
      <3> QED
        BY <2>1, <3>1, <3>3, <3>4
    <2>5. \A c \in 1 .. m : c \in 1 .. m - 1 \/ c = m
      BY <2>0
    <2>6. ASSUME NEW c \in 1 .. m, NEW k \in 1 .. l[c]
          PROVE  f[c - 1] + k \in 1 .. f[m] /\ z[f[c - 1] + k] = OnDisk(n, l, c)[k]
      <3>1. CASE c \in 1 .. m - 1
        <4>1. f[c - 1] + k \in 1 .. a /\ s[f[c - 1] + k] = OnDisk(n, l, c)[k]
          BY <2>3, <3>1
        <4>2. \A i \in 1 .. a : i \in 1 .. f[m]
          BY <2>1, <2>2
        <4> QED
          BY <2>4, <4>1, <4>2
      <3>2. CASE c = m
        <4>1. f[c - 1] = a
          BY <3>2 DEF a
        <4>2. k \in 1 .. l[m] /\ a + k \in 1 .. f[m]
          BY <2>1, <2>2, <3>2
        <4> QED
          BY <2>4, <3>2, <4>1, <4>2 DEF o
      <3> QED
        BY <2>5, <3>1, <3>2
    <2>7. ASSUME NEW i \in 1 .. f[m]
          PROVE  \E c \in 1 .. m : \E k \in 1 .. l[c] : i = f[c - 1] + k
      <3>1. CASE i \in 1 .. a
        <4>1. PICK c \in 1 .. m - 1 : \E k \in 1 .. l[c] : i = f[c - 1] + k
          BY <2>3, <3>1
        <4>2. c \in 1 .. m
          BY <2>0
        <4> QED
          BY <4>1, <4>2
      <3>2. CASE i \notin 1 .. a
        <4>1. i - a \in 1 .. l[m] /\ i = a + (i - a) /\ m \in 1 .. m
          BY <2>0, <2>1, <2>2, <3>2
        <4> QED
          BY <4>1 DEF a
      <3> QED
        BY <3>1, <3>2
    <2> QED
      BY <2>0, <2>6, <2>7 DEF z
  <1>8. N \in H
    <2> HIDE DEF H
    <2>1. \A m \in 0 .. N : m \in H
      BY <1>0, <1>6, <1>7, UpTo
    <2>2. N \in 0 .. N
      BY <1>0
    <2> QED
      BY <2>1, <2>2
  <1>9. f[N] = Off(n, l, N) /\ \A c \in 1 .. N : f[c - 1] = Off(n, l, c - 1)
    <2>1. N \in 0 .. N
      BY <1>0
    <2> QED
      BY <1>3, <1>4, <2>1
  <1>10. /\ \A c \in 1 .. N : \A k \in 1 .. l[c] :
              /\ f[c - 1] + k \in 1 .. f[N]
              /\ L[N][f[c - 1] + k] = OnDisk(n, l, c)[k]
         /\ \A i \in 1 .. f[N] :
              \E c \in 1 .. N : \E k \in 1 .. l[c] : i = f[c - 1] + k
    BY <1>8
  <1> QED
    BY <1>9, <1>10 DEF N, L

LEMMA TableIs ==
    ASSUME NEW n \in Nat, NEW l \in Lens(n), n # 0
    PROVE  /\ Table(n, l) \in Seq(Byte) /\ Len(Table(n, l)) = 2 * (Chunks(n) - 1)
           /\ \A c \in 1 .. Chunks(n) - 1 :
                /\ Table(n, l)[2 * c - 1] = <<"table", (l[c] - 1) \div Base>>
                /\ Table(n, l)[2 * c] = <<"table", (l[c] - 1) % Base>>
  <1> DEFINE N == Chunks(n)
             T == Table(n, l)
  <1>0. N \in Nat /\ N # 0
    BY ChunkFacts
  <1>1. T = [k \in 1 .. 2 * (N - 1) |-> Entry(l[(k + 1) \div 2])[2 - (k % 2)]]
    BY DEF Table
  <1>2. \A c \in 1 .. N : l[c] - 1 \in Nat /\ (l[c] - 1) \div Base \in Nat /\ (l[c] - 1) % Base \in Nat
    <2> TAKE c \in 1 .. N
    <2>1. l[c] \in Nat /\ l[c] > 0
      BY LensAre
    <2>2. l[c] - 1 \in Nat
      BY <2>1
    <2>3. (l[c] - 1) % Base \in 0 .. Base - 1
      BY <2>2, BasePositive, Division
    <2> QED
      BY <2>2, <2>3, BasePositive, Division
  <1>3. \A s : Entry(s)[1] = <<"table", (s - 1) \div Base>> /\ Entry(s)[2] = <<"table", (s - 1) % Base>>
    BY DEF Entry
  <1> HIDE DEF N, T
  <1>4. ASSUME NEW k \in 1 .. 2 * (N - 1)
        PROVE  /\ (k + 1) \div 2 \in 1 .. N /\ 2 - (k % 2) \in {1, 2}
    BY <1>0
  <1>5. \A k \in 1 .. 2 * (N - 1) : Entry(l[(k + 1) \div 2])[2 - (k % 2)] \in Byte
    <2> TAKE k \in 1 .. 2 * (N - 1)
    <2>1. PICK c \in 1 .. N : c = (k + 1) \div 2
      BY <1>4
    <2>2. PICK j \in {1, 2} : j = 2 - (k % 2)
      BY <1>4
    <2>3. Entry(l[c])[1] \in Tabled /\ Entry(l[c])[2] \in Tabled
      BY <1>2, <1>3 DEF Tabled
    <2> QED
      BY <2>1, <2>2, <2>3 DEF Byte
  <1>6. T \in [1 .. 2 * (N - 1) -> Byte] /\ 2 * (N - 1) \in Nat
    BY <1>0, <1>1, <1>5
  <1>7. T \in Seq(Byte) /\ Len(T) = 2 * (N - 1)
    BY <1>6
  <1>8. ASSUME NEW c \in 1 .. N - 1
        PROVE  T[2 * c - 1] = Entry(l[c])[1] /\ T[2 * c] = Entry(l[c])[2]
    <2>1. /\ 2 * c - 1 \in 1 .. 2 * (N - 1) /\ 2 * c \in 1 .. 2 * (N - 1)
          /\ ((2 * c - 1) + 1) \div 2 = c /\ (2 * c + 1) \div 2 = c
          /\ 2 - ((2 * c - 1) % 2) = 1 /\ 2 - ((2 * c) % 2) = 2
      BY <1>0
    <2> QED
      BY <1>1, <2>1
  <1> QED
    BY <1>3, <1>7, <1>8 DEF N, T

LEMMA PackedIs ==
    ASSUME NEW n \in Nat, NEW l \in Lens(n), n # 0
    PROVE  LET N == Chunks(n)
               z == Off(n, l, N)
           IN  /\ Packed(n, l) \in Seq(Byte)
               /\ z \in Nat /\ z > 0 /\ N \in Nat /\ N # 0
               /\ Len(Packed(n, l)) = z + 2 * (N - 1)
               /\ \A i \in 1 .. z : Packed(n, l)[i] = Laid(n, l)[N][i]
               /\ \A k \in 1 .. 2 * (N - 1) : Packed(n, l)[z + k] = Table(n, l)[k]
  <1> DEFINE N == Chunks(n)
             z == Off(n, l, N)
             s == Laid(n, l)[N]
             T == Table(n, l)
             P == Packed(n, l)
  <1>0. N \in Nat /\ N # 0 /\ N \in 0 .. N /\ N \in 1 .. N /\ N - 1 \in 0 .. N
    BY ChunkFacts
  <1>1. T \in Seq(Byte) /\ Len(T) = 2 * (N - 1)
    BY TableIs
  <1>2. s \in Seq(Byte) /\ Len(s) = z
    BY <1>0, LaidSteps DEF Off
  <1>3. P = s \o T
    BY DEF Packed
  <1>4. z \in Nat /\ z > 0
    <2>1. z = Off(n, l, N - 1) + l[N] /\ Off(n, l, N - 1) \in Nat
      BY <1>0, Offsets
    <2>2. l[N] \in Nat /\ l[N] > 0
      BY <1>0, LensAre
    <2> QED
      BY <2>1, <2>2
  <1> HIDE DEF N, z, s, T, P
  <1>5. /\ P \in Seq(Byte) /\ Len(P) = z + 2 * (N - 1)
        /\ \A i \in 1 .. z : P[i] = s[i]
        /\ \A k \in 1 .. 2 * (N - 1) : P[z + k] = T[k]
    <2>1. 2 * (N - 1) \in Nat
      BY <1>0
    <2> DEFINE w == 2 * (N - 1)
    <2> HIDE DEF w
    <2>2. Len(T) = w
      BY <1>1 DEF w
    <2>3. /\ P \in Seq(Byte) /\ Len(P) = z + w
          /\ \A i \in 1 .. z : P[i] = s[i]
          /\ \A k \in 1 .. w : P[z + k] = T[k]
      <3>1. s \in Seq(Byte) /\ T \in Seq(Byte) /\ Len(s) = z
        BY <1>1, <1>2
      <3>2. s \o T \in Seq(Byte) /\ Len(s \o T) = z + w
        BY ONLY <3>1, <2>2, Joined
      <3>3. \A i \in 1 .. z : (s \o T)[i] = s[i]
        BY ONLY <3>1, <2>2, Joined
      <3>4. \A k \in 1 .. w : (s \o T)[z + k] = T[k]
        BY ONLY <3>1, <2>2, Joined
      <3> QED
        BY ONLY <3>2, <3>3, <3>4, <1>3
    <2> QED
      BY <2>3 DEF w
  <1> QED
    BY <1>0, <1>4, <1>5 DEF N, z, s, T, P

\* The sizes of the table are those of the chunks.
LEMMA SizesAre ==
    ASSUME NEW s \in Nat, s > 0
    PROVE  Sizes(<<"table", (s - 1) \div Base>>, <<"table", (s - 1) % Base>>) = {s}
  <1> DEFINE h == (s - 1) \div Base
             l == (s - 1) % Base
  <1>1. h \in Nat /\ l \in 0 .. Base - 1 /\ s - 1 = Base * h + l /\ Base \in Nat /\ s - 1 \in Nat
    BY BasePositive, Division
  <1> HIDE DEF h, l
  <1>2. Values(<<"table", h>>) = {h} /\ Values(<<"table", l>>) = {l}
    BY DEF Values
  <1>3. h * Base + l + 1 = s
    BY <1>1
  <1>4. Sizes(<<"table", h>>, <<"table", l>>) = {h * Base + l + 1}
    BY <1>2 DEF Sizes
  <1> QED
    BY <1>3, <1>4 DEF h, l

-----------------------------------------------------------------------------
(* What arrived of it. *)

CutOff(raw0, n, l, cut) ==
    /\ cut \in Nat /\ cut <= Len(Packed(n, l))
    /\ raw0 = SubSeq(Packed(n, l), 1, Len(Packed(n, l)) - cut)

\* The first bytes of a sequence.
LEMMA FirstBytes ==
    ASSUME NEW s \in Seq(Byte), NEW m \in 0 .. Len(s)
    PROVE  /\ SubSeq(s, 1, m) \in Seq(Byte) /\ Len(SubSeq(s, 1, m)) = m
           /\ \A i \in 1 .. m : SubSeq(s, 1, m)[i] = s[i]
           /\ m = Len(s) => SubSeq(s, 1, m) = s
  <1>1. \A i \in 1 .. m : s[i] \in Byte
    OBVIOUS
  <1>2. /\ SubSeq(s, 1, m) \in Seq(Byte)
        /\ Len(SubSeq(s, 1, m)) = IF 1 <= m THEN m - 1 + 1 ELSE 0
        /\ \A i \in 1 .. m - 1 + 1 : SubSeq(s, 1, m)[i] = s[1 + i - 1]
    BY <1>1, SubSeqProperties
  <1>3. m - 1 + 1 = m /\ \A i \in 1 .. m : 1 + i - 1 = i
    OBVIOUS
  <1>4. (1 <= m \/ m = 0) /\ m \in Nat
    OBVIOUS
  <1>5. m = Len(s) => SubSeq(s, 1, m) = s
    BY SubSeqFull
  <1> QED
    BY <1>2, <1>3, <1>4, <1>5

LEMMA DataPartIs ==
    ASSUME NEW n \in Nat, NEW l \in Lens(n), n # 0, NEW r, NEW cut, CutOff(r, n, l, cut),
           Chunks(n) > 1 => Len(r) > (Chunks(n) - 1) * 2
    PROVE  LET D == SubSeq(r, 1, Len(r) - (Chunks(n) - 1) * 2)
               z == Off(n, l, Chunks(n))
           IN  /\ z - cut \in Nat /\ z \in Nat /\ cut \in Nat
               /\ D \in Seq(Byte) /\ Len(D) = z - cut
               /\ \A i \in 1 .. z - cut : D[i] = Laid(n, l)[Chunks(n)][i]
  <1> DEFINE N == Chunks(n)
             z == Off(n, l, N)
             P == Packed(n, l)
             w == 2 * (N - 1)
             D == SubSeq(r, 1, Len(r) - (N - 1) * 2)
  <1>1. /\ P \in Seq(Byte) /\ z \in Nat /\ N \in Nat /\ N # 0
        /\ Len(P) = z + w
        /\ \A i \in 1 .. z : P[i] = Laid(n, l)[N][i]
    BY PackedIs
  <1>2. cut \in Nat /\ cut <= Len(P) /\ r = SubSeq(P, 1, Len(P) - cut)
    BY DEF CutOff
  <1>3. N > 1 => Len(r) > (N - 1) * 2
    OBVIOUS
  <1> HIDE DEF N, P, z
  <1>a. w = (N - 1) * 2 /\ w \in Nat /\ (N = 1 => w = 0) /\ (N > 1 \/ N = 1)
    BY <1>1
  <1> HIDE DEF w
  <1>4. Len(P) - cut \in 0 .. Len(P)
    BY <1>1, <1>2, <1>a
  <1>5. r \in Seq(Byte) /\ Len(r) = Len(P) - cut /\ \A i \in 1 .. Len(P) - cut : r[i] = P[i]
    BY <1>1, <1>2, <1>4, FirstBytes
  <1>6. Len(r) = z + w - cut
    BY <1>1, <1>2, <1>5, <1>a
  <1>7. z - cut \in Nat /\ Len(r) - w = z - cut /\ z - cut \in 0 .. Len(r)
    BY <1>1, <1>2, <1>3, <1>6, <1>a
  <1>8. D = SubSeq(r, 1, z - cut)
    BY <1>7, <1>a
  <1> HIDE DEF D
  <1>9. D \in Seq(Byte) /\ Len(D) = z - cut /\ \A i \in 1 .. z - cut : D[i] = r[i]
    BY <1>5, <1>7, <1>8, FirstBytes
  <1>10. \A i \in 1 .. z - cut : i \in 1 .. z /\ i \in 1 .. Len(P) - cut
    BY <1>1, <1>2, <1>5, <1>6, <1>7, <1>a
  <1>11. \A i \in 1 .. z - cut : D[i] = Laid(n, l)[N][i]
    BY <1>1, <1>5, <1>9, <1>10
  <1> QED
    BY <1>1, <1>2, <1>7, <1>9, <1>11 DEF N, z, D

\* comp are the bytes from place p on.
Piece(comp, n, l, p) ==
    /\ comp \in Seq(Byte)
    /\ Len(comp) # 0 => p + Len(comp) <= Off(n, l, Chunks(n))
    /\ \A j \in 1 .. Len(comp) : comp[j] = Laid(n, l)[Chunks(n)][p + j]

LEMMA SlicePiece ==
    ASSUME NEW n, NEW l, NEW D \in Seq(Byte), Len(D) <= Off(n, l, Chunks(n)),
           Off(n, l, Chunks(n)) \in Nat,
           \A i \in 1 .. Len(D) : D[i] = Laid(n, l)[Chunks(n)][i],
           NEW p \in Nat, NEW q \in Nat, q <= Len(D)
    PROVE  /\ Piece(SubSeq(D, p + 1, q), n, l, p)
           /\ Len(SubSeq(D, p + 1, q)) = IF p < q THEN q - p ELSE 0
  <1> DEFINE s == SubSeq(D, p + 1, q)
             L == Laid(n, l)[Chunks(n)]
             z == Off(n, l, Chunks(n))
  <1>0. /\ z \in Nat /\ Len(D) <= z /\ Len(D) \in Nat
        /\ \A i \in 1 .. Len(D) : D[i] = L[i]
    OBVIOUS
  <1>1. \A i \in p + 1 .. q : i \in 1 .. Len(D)
    OBVIOUS
  <1>2. \A i \in p + 1 .. q : D[i] \in Byte
    BY <1>1
  <1>3. p + 1 \in Int /\ q \in Int
    OBVIOUS
  <1> HIDE DEF L, z
  <1>4. /\ s \in Seq(Byte)
        /\ Len(s) = IF p + 1 <= q THEN q - (p + 1) + 1 ELSE 0
        /\ \A i \in 1 .. q - (p + 1) + 1 : s[i] = D[(p + 1) + i - 1]
    BY <1>2, <1>3, SubSeqProperties
  <1> HIDE DEF s
  <1>5. Len(s) = IF p < q THEN q - p ELSE 0
    BY <1>4
  <1>6. \A j \in 1 .. Len(s) : j \in 1 .. q - (p + 1) + 1 /\ (p + 1) + j - 1 = p + j /\ p + j \in 1 .. Len(D)
    BY <1>0, <1>5
  <1>7. \A j \in 1 .. Len(s) : s[j] = L[p + j]
    <2> TAKE j \in 1 .. Len(s)
    <2>1. s[j] = D[p + j]
      BY <1>4, <1>6
    <2> QED
      BY <1>0, <1>6, <2>1
  <1>8. Len(s) # 0 => p + Len(s) <= z
    BY <1>0, <1>5
  <1> QED
    BY <1>4, <1>5, <1>7, <1>8 DEF Piece, s, L, z

\* Bytes that start as what the codec made of a chunk start where the chunk does.
LEMMA InflatesWhere ==
    ASSUME NEW n \in Nat, NEW l \in Lens(n), NEW p \in Nat, NEW comp, Piece(comp, n, l, p),
           NEW c \in 1 .. Chunks(n), Len(comp) # 0, comp[1] = <<"packed", c, 1>>
    PROVE  p = Off(n, l, c - 1)
  <1> DEFINE N == Chunks(n)
             L == Laid(n, l)[N]
             z == Off(n, l, N)
  <1>0. \A d \in 1 .. N : d \in Nat /\ ChunkLen(n, d) \in Nat
    <2> TAKE d \in 1 .. N
    <2>1. ChunkLen(n, d) \in Nat
      BY LensAre
    <2> QED
      BY <2>1, ChunkFacts
  <1>1. comp \in Seq(Byte) /\ Len(comp) \in Nat /\ 1 \in 1 .. Len(comp)
    BY DEF Piece
  <1>2. PICK w \in Nat : w = Len(comp) /\ w > 0
    BY <1>1
  <1>3. comp[1] = <<"packed", c, 1>> /\ comp[1] = L[p + 1] /\ p + w <= z
    BY <1>1, <1>2 DEF Piece
  <1>4. z \in Nat
    <2>1. N \in 0 .. N
      BY ChunkFacts
    <2> QED
      BY <2>1, Offsets
  <1>5. p + 1 \in 1 .. z
    BY <1>2, <1>3, <1>4
  <1>6. PICK d \in 1 .. N : \E k \in 1 .. l[d] : p + 1 = Off(n, l, d - 1) + k
    BY <1>5, LaidPlaces
  <1>7. PICK k \in 1 .. l[d] : p + 1 = Off(n, l, d - 1) + k
    BY <1>6
  <1>8. L[p + 1] = OnDisk(n, l, d)[k]
    BY <1>7, LaidPlaces
  <1>9. k \in Nat /\ Off(n, l, d - 1) \in Nat /\ k \in 1 .. ChunkLen(n, d)
    <2>1. l[d] \in 1 .. ChunkLen(n, d) /\ ChunkLen(n, d) \in Nat
      BY <1>0, OnDiskIs
    <2>2. d - 1 \in 0 .. N
      BY ChunkFacts
    <2> QED
      BY <2>1, <2>2, Offsets
  <1>10. l[d] # ChunkLen(n, d)
    <2> SUFFICES ASSUME l[d] = ChunkLen(n, d)
                 PROVE  FALSE
      OBVIOUS
    <2>1. OnDisk(n, l, d)[k] = <<"plain", (d - 1) * ChunkSize + k>>
      BY <1>9, OnDiskIs, ChunkIs
    <2>2. <<"packed", c, 1>>[1] = <<"plain", (d - 1) * ChunkSize + k>>[1]
      BY <1>3, <1>8, <2>1
    <2> QED
      BY <2>2
  <1>11. OnDisk(n, l, d)[k] = <<"packed", d, k>>
    BY <1>10, OnDiskIs
  <1>12. <<"packed", c, 1>> = <<"packed", d, k>>
    BY <1>3, <1>8, <1>11
  <1>13. c = d /\ k = 1
    BY <1>12
  <1> QED
    BY <1>7, <1>9, <1>13

\* A part of what the codec made of a chunk, or more than all of it.
LEMMA FirstPacked ==
    ASSUME NEW n \in Nat, NEW l \in Lens(n), NEW c \in 1 .. Chunks(n), l[c] # ChunkLen(n, c),
           NEW comp \in Seq(Byte), comp # <<>>,
           IsPrefix(comp, OnDisk(n, l, c)) \/ IsPrefix(OnDisk(n, l, c), comp)
    PROVE  Len(comp) # 0 /\ comp[1] = <<"packed", c, 1>>
  <1> DEFINE o == OnDisk(n, l, c)
  <1>1. o \in Seq(Byte) /\ Len(o) = l[c] /\ o[1] = <<"packed", c, 1>> /\ l[c] \in Nat /\ l[c] > 0
    <2>1. l[c] \in Nat /\ l[c] > 0
      BY LensAre
    <2>2. 1 \in 1 .. l[c]
      BY <2>1
    <2> QED
      BY <2>1, <2>2, OnDiskIs
  <1>2. IsPrefix(comp, o) \/ IsPrefix(o, comp)
    OBVIOUS
  <1> HIDE DEF o
  <1>3. Len(comp) \in Nat /\ Len(comp) # 0
    OBVIOUS
  <1>4. CASE IsPrefix(comp, o)
    <2>1. Len(comp) <= Len(o) /\ SubSeq(comp, 1, Len(comp)) = SubSeq(o, 1, Len(comp))
      BY <1>4 DEF IsPrefix
    <2>2. 1 \in 1 .. Len(comp) /\ Len(comp) \in 0 .. Len(o) /\ Len(comp) \in 0 .. Len(comp)
      BY <1>1, <1>3, <2>1
    <2>3. SubSeq(comp, 1, Len(comp))[1] = comp[1] /\ SubSeq(o, 1, Len(comp))[1] = o[1]
      BY <1>1, <2>2, FirstBytes
    <2> QED
      BY <1>1, <1>3, <2>1, <2>3
  <1>5. CASE IsPrefix(o, comp)
    <2>1. Len(o) <= Len(comp) /\ SubSeq(o, 1, Len(o)) = SubSeq(comp, 1, Len(o))
      BY <1>5 DEF IsPrefix
    <2>2. 1 \in 1 .. Len(o) /\ Len(o) \in 0 .. Len(comp) /\ Len(o) \in 0 .. Len(o)
      <3>1. Len(o) \in Nat /\ Len(o) > 0 /\ Len(o) <= Len(comp) /\ Len(comp) \in Nat
        BY <1>1, <1>3, <2>1
      <3> QED
        BY ONLY <3>1
    <2>3. SubSeq(comp, 1, Len(o))[1] = comp[1] /\ SubSeq(o, 1, Len(o))[1] = o[1]
      BY <1>1, <2>2, FirstBytes
    <2> QED
      BY <1>1, <1>3, <2>1, <2>3
  <1> QED
    BY <1>2, <1>4, <1>5

\* All bytes of chunk c, from its first on.
LEMMA WholeChunk ==
    ASSUME NEW n \in Nat, NEW l \in Lens(n), NEW c \in 1 .. Chunks(n), NEW comp,
           Piece(comp, n, l, Off(n, l, c - 1)), Len(comp) = l[c]
    PROVE  comp = OnDisk(n, l, c)
  <1> DEFINE o == OnDisk(n, l, c)
             L == Laid(n, l)[Chunks(n)]
  <1>1. o \in Seq(Byte) /\ Len(o) = l[c]
    BY OnDiskIs
  <1>2. \A k \in 1 .. l[c] : L[Off(n, l, c - 1) + k] = o[k]
    BY LaidPlaces
  <1>3. comp \in Seq(Byte) /\ \A k \in 1 .. l[c] : comp[k] = L[Off(n, l, c - 1) + k]
    BY DEF Piece
  <1> HIDE DEF o, L
  <1>4. \A k \in 1 .. l[c] : comp[k] = o[k]
    BY <1>2, <1>3
  <1>5. comp = o
    BY <1>1, <1>3, <1>4
  <1> QED
    BY <1>5 DEF o

-----------------------------------------------------------------------------
(* The loop. *)

\* Where the reader of the whole region stands.
Exact ==
    /\ \A c \in 1 .. Chunks(size) - 1 : comp_sizes[c] = lens[c]
    /\ pos = Off(size, lens, at - 1)
    /\ out = Data((at - 1) * ChunkSize)

Looping ==
    /\ ~ TooLarge /\ compressed /\ declared # 0
    /\ Chunks(declared) > 1 => Len(raw) > TableSize
    /\ comp_sizes \in [1 .. Chunks(declared) - 1 -> 1 .. Base * Base]

Arrived == \E cut \in Nat : cut <= Len(Region) /\ raw = SubSeq(Region, 1, Len(Region) - cut)

\* A region of zstd that lost its end is never behind the chunks it has passed.
Behind == IF raw = Region THEN Exact ELSE codec = "zstd" => pos >= Off(size, lens, at - 1)

HeapInv ==
    /\ size \in 0 .. MaxHeap /\ lens \in Lens(size) /\ codec \in {"none", "zlib", "zstd"} /\ declared \in Nat
    /\ outcome \in {"runs", "done", "error"}
    /\ Arrived
    /\ at \in 0 .. Chunks(declared) /\ pos \in Nat
    /\ out \in Seq(Byte) /\ Len(out) <= MaxUncompressed
    /\ outcome = "runs" /\ at = 0 => pos = 0 /\ out = <<>>
    /\ IF at = 0 THEN comp_sizes = <<>> ELSE Looping
    /\ outcome = "runs" /\ at # 0 => Len(out) = (at - 1) * ChunkSize
    /\ outcome = "runs" /\ at # 0 /\ declared = size => Behind
    /\ ReadsBack

LEMMA RegionIs ==
    ASSUME size \in Nat, lens \in Lens(size), compressed \in BOOLEAN
    PROVE  /\ Region \in Seq(Byte)
           /\ ~ compressed \/ size = 0 => Region = Data(size)
  <1>1. CASE ~ compressed
    BY <1>1, DataIs DEF Region
  <1>2. CASE compressed /\ size # 0
    BY <1>2, PackedIs DEF Region
  <1>3. CASE compressed /\ size = 0
    <2>1. Chunks(size) = 0
      BY <1>3, ChunkFacts
    <2>2. Laid(size, lens)[0] = <<>>
      BY LaidSteps
    <2>3. 1 .. 2 * (0 - 1) = {}
      OBVIOUS
    <2>4. Table(size, lens) = <<>>
      BY <2>1, <2>3 DEF Table
    <2>5. Packed(size, lens) = <<>>
      BY <2>1, <2>2, <2>4 DEF Packed
    <2>6. Data(size) \in Seq(Byte) /\ Len(Data(size)) = 0
      BY <1>3, DataIs
    <2>7. Data(size) = <<>>
      BY <2>6
    <2> QED
      BY <1>3, <2>5, <2>6, <2>7 DEF Region
  <1> QED
    BY <1>1, <1>2, <1>3

LEMMA ArrivedCut ==
    ASSUME size \in Nat, lens \in Lens(size), size # 0, compressed, Arrived
    PROVE  \E cut \in Nat : CutOff(raw, size, lens, cut) /\ (raw = Region <=> cut = 0)
  <1>1. PICK cut \in Nat : cut <= Len(Region) /\ raw = SubSeq(Region, 1, Len(Region) - cut)
    BY DEF Arrived
  <1>2. Region = Packed(size, lens)
    BY DEF Region
  <1>3. Region \in Seq(Byte)
    BY <1>2, PackedIs
  <1>4. Len(Region) - cut \in 0 .. Len(Region)
    BY <1>1, <1>3
  <1>5. Len(raw) = Len(Region) - cut /\ (cut = 0 => raw = Region)
    BY <1>1, <1>3, <1>4, FirstBytes
  <1>6. cut # 0 => raw # Region
    BY <1>1, <1>3, <1>5
  <1> QED
    BY <1>1, <1>2, <1>5, <1>6 DEF CutOff

LEMMA CompFacts ==
    ASSUME HeapInv, outcome = "runs", at # 0, declared = size
    PROVE  /\ size \in Nat /\ lens \in Lens(size) /\ at \in 1 .. Chunks(size) /\ pos \in Nat
           /\ Piece(Comp, size, lens, pos)
           /\ Unc = ChunkLen(size, at)
           /\ at # Chunks(size) => Len(Comp) <= comp_sizes[at] /\ comp_sizes[at] \in Nat
           /\ raw = Region => Comp = OnDisk(size, lens, at)
           /\ Guarded /\ raw # Region /\ at = Chunks(size) => Len(Comp) < lens[at]
  <1> DEFINE N == Chunks(size)
             z == Off(size, lens, N)
             D == DataPart
             sz == comp_sizes[at]
             q == IF at = N THEN Len(D) ELSE IF pos + sz < Len(D) THEN pos + sz ELSE Len(D)
             a == Off(size, lens, at - 1)
  <1>1. /\ size \in Nat /\ lens \in Lens(size) /\ size # 0 /\ compressed /\ Arrived
        /\ pos \in Nat /\ at \in 0 .. N /\ Looping /\ Behind
    BY ChunkAssumption DEF HeapInv, Looping
  <1>2. N \in Nat /\ at \in 1 .. N /\ at - 1 \in 0 .. N /\ at \in 0 .. N /\ N \in 0 .. N
    BY <1>1, ChunkFacts
  <1>3. PICK cut \in Nat : CutOff(raw, size, lens, cut) /\ (raw = Region <=> cut = 0)
    BY <1>1, ArrivedCut
  <1>4. D = SubSeq(raw, 1, Len(raw) - (N - 1) * 2)
    BY DEF DataPart, TableSize
  <1>5. N > 1 => Len(raw) > (N - 1) * 2
    BY <1>1 DEF Looping, TableSize
  <1>6. /\ z - cut \in Nat /\ z \in Nat
        /\ D \in Seq(Byte) /\ Len(D) = z - cut
        /\ \A i \in 1 .. z - cut : D[i] = Laid(size, lens)[N][i]
    BY <1>1, <1>3, <1>4, <1>5, DataPartIs
  <1>7. at # N => sz \in Nat
    <2>1. at # N => at \in 1 .. N - 1
      BY <1>2
    <2>2. at # N => sz \in 1 .. Base * Base
      BY <1>1, <2>1 DEF Looping
    <2> QED
      BY <2>2, BasePositive
  <1>8. Comp = SubSeq(D, pos + 1, q)
    BY DEF Comp, Slice
  <1>9. Unc = ChunkLen(size, at)
    <2>1. CASE at = N
      BY <2>1 DEF Unc, ChunkLen
    <2>2. CASE at # N
      BY <2>2 DEF Unc, ChunkLen
    <2> QED
      BY <2>1, <2>2
  <1>10. a \in Nat /\ Off(size, lens, at) = a + lens[at] /\ Off(size, lens, at) <= z
    BY <1>1, <1>2, Offsets
  <1>11. lens[at] \in Nat /\ lens[at] > 0
    BY <1>1, <1>2, LensAre
  <1>12. q \in Nat /\ q <= Len(D) /\ (at # N => q <= pos + sz)
    <2> HIDE DEF D, sz
    <2> QED
      BY <1>1, <1>6, <1>7
  <1> HIDE DEF N, D, q, z, a, sz
  <1>13. /\ Piece(Comp, size, lens, pos)
         /\ Len(Comp) = IF pos < q THEN q - pos ELSE 0
    <2>1. Len(D) <= z /\ \A i \in 1 .. Len(D) : D[i] = Laid(size, lens)[N][i]
      BY <1>6
    <2>2. /\ Piece(SubSeq(D, pos + 1, q), size, lens, pos)
          /\ Len(SubSeq(D, pos + 1, q)) = IF pos < q THEN q - pos ELSE 0
      BY <1>1, <1>6, <1>12, <2>1, SlicePiece DEF N, z
    <2> QED
      BY <1>8, <2>2
  <1>14. at # N => Len(Comp) <= sz
    BY <1>1, <1>7, <1>12, <1>13
  <1>15. ASSUME raw = Region
         PROVE  Comp = OnDisk(size, lens, at)
    <2>1. cut = 0 /\ Len(D) = z
      BY <1>3, <1>6, <1>15
    <2>2. pos = a /\ (at # N => sz = lens[at])
      <3>1. at # N => at \in 1 .. N - 1
        BY <1>2
      <3> QED
        BY <1>1, <1>15, <3>1 DEF Behind, Exact, a, N, sz
    <2>3. q = a + lens[at]
      <3>1. CASE at = N
        BY <1>10, <2>1, <3>1 DEF q, z
      <3>2. CASE at # N
        <4>1. q = IF a + lens[at] < z THEN a + lens[at] ELSE z
          BY <2>1, <2>2, <3>2 DEF q
        <4>2. a + lens[at] <= z
          BY <1>10
        <4> QED
          BY <1>6, <1>10, <1>11, <4>1, <4>2
      <3> QED
        BY <3>1, <3>2
    <2>4. Len(Comp) = lens[at]
      BY <1>10, <1>11, <1>13, <2>2, <2>3
    <2> QED
      BY <1>1, <1>2, <1>13, <2>2, <2>4, WholeChunk DEF N, a
  <1>16. ASSUME Guarded, raw # Region, at = N
         PROVE  Len(Comp) < lens[at]
    <2>1. cut # 0 /\ cut \in Nat
      BY <1>3, <1>16
    <2>2. pos >= a
      <3>1. CASE codec = "zstd"
        BY <1>1, <1>16, <3>1 DEF Behind, a
      <3>2. CASE Chunks(size) <= 1
        <4>1. at - 1 = 0
          BY <1>2, <3>2 DEF N
        <4>2. a = 0
          BY <1>1, <4>1, Offsets DEF a
        <4> QED
          BY <1>1, <4>2
      <3> QED
        BY <1>16, <3>1, <3>2 DEF Guarded
    <2>3. q = z - cut /\ z = a + lens[at]
      BY <1>6, <1>10, <1>16 DEF q, z
    <2> QED
      BY <1>1, <1>10, <1>11, <1>13, <2>1, <2>2, <2>3
  <1> QED
    BY <1>1, <1>2, <1>7, <1>9, <1>13, <1>14, <1>15, <1>16 DEF N, sz

-----------------------------------------------------------------------------
(* Every step keeps the invariant. *)

LEMMA GivenKeeps ==
    ASSUME Given
    PROVE  /\ size' = size /\ lens' = lens /\ codec' = codec /\ compressed' = compressed
           /\ declared' = declared /\ raw' = raw
           /\ Region' = Region /\ (Arrived' <=> Arrived) /\ (Guarded' <=> Guarded)
           /\ (TooLarge' <=> TooLarge) /\ TableSize' = TableSize /\ (Whole' <=> Whole)
  <1>1. /\ size' = size /\ lens' = lens /\ codec' = codec /\ compressed' = compressed
        /\ declared' = declared /\ raw' = raw /\ (Guarded' <=> Guarded)
    BY DEF Given, Guarded, compressed
  <1>2. Region' = Region
    BY <1>1 DEF Region
  <1>3. (TooLarge' <=> TooLarge) /\ TableSize' = TableSize
    BY <1>1 DEF TooLarge, TableSize
  <1>4. Arrived' <=> Arrived
    BY <1>1, <1>2 DEF Arrived
  <1>5. Whole' <=> Whole
    BY <1>1, <1>2, <1>3 DEF Whole
  <1> QED
    BY <1>1, <1>2, <1>3, <1>4, <1>5

LEMMA RawIs ==
    ASSUME size \in Nat, lens \in Lens(size), compressed \in BOOLEAN, Arrived
    PROVE  raw \in Seq(Byte)
  <1>1. PICK cut \in Nat : cut <= Len(Region) /\ raw = SubSeq(Region, 1, Len(Region) - cut)
    BY DEF Arrived
  <1>2. Region \in Seq(Byte)
    BY RegionIs
  <1>3. Len(Region) - cut \in 0 .. Len(Region)
    BY <1>1, <1>2
  <1> QED
    BY <1>1, <1>2, <1>3, FirstBytes

\* A part of a sequence is a sequence.
LEMMA PartIs ==
    ASSUME NEW s \in Seq(Byte), NEW p \in Nat, NEW q \in Nat, q <= Len(s)
    PROVE  SubSeq(s, p + 1, q) \in Seq(Byte)
  <1>1. \A i \in p + 1 .. q : i \in 1 .. Len(s)
    OBVIOUS
  <1>2. \A i \in p + 1 .. q : s[i] \in Byte
    BY <1>1
  <1>3. p + 1 \in Int /\ q \in Int
    OBVIOUS
  <1> QED
    BY <1>2, <1>3, SubSeqProperties

LEMMA CompBytes ==
    ASSUME HeapInv, outcome = "runs", at # 0
    PROVE  Comp \in Seq(Byte)
  <1> DEFINE D == DataPart
             N == Chunks(declared)
             sz == comp_sizes[at]
             q == IF at = N THEN Len(D) ELSE IF pos + sz < Len(D) THEN pos + sz ELSE Len(D)
  <1>1. /\ size \in Nat /\ lens \in Lens(size) /\ compressed \in BOOLEAN /\ Arrived
        /\ pos \in Nat /\ at \in 0 .. N /\ Looping /\ declared \in Nat
    BY ChunkAssumption DEF HeapInv, compressed
  <1>2. raw \in Seq(Byte)
    BY <1>1, RawIs
  <1>3. N \in Nat /\ N # 0 /\ at \in 1 .. N
    BY <1>1, ChunkFacts
  <1>4. Len(raw) - TableSize \in 0 .. Len(raw)
    <2>1. TableSize = (N - 1) * 2
      BY DEF TableSize
    <2>2. N > 1 => Len(raw) > TableSize
      BY <1>1 DEF Looping
    <2>3. TableSize \in Nat /\ (N = 1 => TableSize = 0) /\ (N > 1 \/ N = 1)
      BY <1>3, <2>1
    <2> QED
      BY <1>2, <2>2, <2>3
  <1>5. D \in Seq(Byte)
    BY <1>2, <1>4, FirstBytes DEF DataPart
  <1>6. at # N => sz \in Nat
    <2>1. at # N => at \in 1 .. N - 1
      BY <1>3
    <2>2. at # N => sz \in 1 .. Base * Base
      BY <1>1, <2>1 DEF Looping
    <2> QED
      BY <2>2, BasePositive
  <1>7. Comp = SubSeq(D, pos + 1, q)
    BY DEF Comp, Slice
  <1>8. q \in Nat /\ q <= Len(D)
    <2> HIDE DEF D, sz
    <2> QED
      BY <1>1, <1>5, <1>6
  <1> QED
    BY <1>1, <1>5, <1>7, <1>8, PartIs

\* The data up to a chunk, and the chunk.
LEMMA ChunkFollows ==
    ASSUME NEW n \in Nat, NEW c \in 1 .. Chunks(n)
    PROVE  /\ Data((c - 1) * ChunkSize) \o Chunk(n, c) = Data((c - 1) * ChunkSize + ChunkLen(n, c))
  <1> DEFINE a == (c - 1) * ChunkSize
             z == ChunkLen(n, c)
             s == Data(a)
             t == Chunk(n, c)
             d == Data(a + z)
  <1>1. a \in Nat /\ z \in Nat
    BY ChunkFacts, ChunkAssumption
  <1>2. s \in Seq(Byte) /\ Len(s) = a /\ \A k \in 1 .. a : s[k] = <<"plain", k>>
    BY <1>1, DataIs
  <1>3. t \in Seq(Byte) /\ Len(t) = z /\ \A k \in 1 .. z : t[k] = <<"plain", a + k>>
    BY ChunkIs
  <1>4. a + z \in Nat
    BY <1>1
  <1>5. d \in Seq(Byte) /\ Len(d) = a + z /\ \A k \in 1 .. a + z : d[k] = <<"plain", k>>
    BY <1>4, DataIs
  <1> HIDE DEF a, z, s, t, d
  <1>6. /\ s \o t \in Seq(Byte) /\ Len(s \o t) = a + z
        /\ \A i \in 1 .. a : (s \o t)[i] = s[i]
        /\ \A k \in 1 .. z : (s \o t)[a + k] = t[k]
    <2>1. s \in Seq(Byte) /\ Len(s) = a /\ t \in Seq(Byte) /\ Len(t) = z
      BY <1>2, <1>3
    <2>2. s \o t \in Seq(Byte) /\ Len(s \o t) = a + z
      BY ONLY <2>1, Joined
    <2>3. \A i \in 1 .. a : (s \o t)[i] = s[i]
      BY ONLY <2>1, Joined
    <2>4. \A k \in 1 .. z : (s \o t)[a + k] = t[k]
      BY ONLY <2>1, Joined
    <2> QED
      BY <2>2, <2>3, <2>4
  <1>7. \A i \in 1 .. a + z : (s \o t)[i] = d[i]
    <2> TAKE i \in 1 .. a + z
    <2>1. d[i] = <<"plain", i>>
      BY <1>5
    <2>2. CASE i <= a
      <3>1. i \in 1 .. a
        BY <1>1, <2>2
      <3> QED
        BY <1>2, <1>6, <2>1, <3>1
    <2>3. CASE i > a
      <3>1. i - a \in 1 .. z /\ a + (i - a) = i
        BY <1>1, <2>3
      <3>2. (s \o t)[a + (i - a)] = <<"plain", a + (i - a)>>
        BY <1>3, <1>6, <3>1
      <3> QED
        BY <2>1, <3>1, <3>2
    <2>4. i <= a \/ i > a
      BY <1>1
    <2> QED
      BY <2>2, <2>3, <2>4
  <1>8. s \o t = d
    <2> DEFINE st == s \o t
               z0 == a + z
    <2>1. st \in Seq(Byte) /\ d \in Seq(Byte) /\ Len(st) = z0 /\ Len(d) = z0
      BY <1>5, <1>6
    <2>2. \A i \in 1 .. z0 : st[i] = d[i]
      BY <1>7
    <2> HIDE DEF st, z0
    <2>3. st = d
      BY ONLY <2>1, <2>2, SameBytes
    <2> QED
      BY <2>3 DEF st
  <1> QED
    BY <1>8 DEF a, z, s, t, d

LEMMA HeapStarts == HeapInit => HeapInv
  <1> SUFFICES ASSUME HeapInit
               PROVE  HeapInv
    OBVIOUS
  <1>1. /\ size \in 0 .. MaxHeap /\ lens \in Lens(size) /\ codec \in {"none", "zlib", "zstd"}
        /\ comp_sizes = <<>> /\ at = 0 /\ pos = 0 /\ out = <<>> /\ outcome = "runs"
    BY DEF HeapInit
  <1>2. declared \in Nat /\ MaxUncompressed \in Nat /\ size \in Nat
    BY ChunkAssumption DEF HeapInit
  <1>3. Arrived
    <2>1. PICK cut \in 0 .. MaxCut : cut <= Len(Region) /\ raw = SubSeq(Region, 1, Len(Region) - cut)
      BY DEF HeapInit
    <2>2. cut \in Nat
      BY ChunkAssumption
    <2> QED
      BY <2>1, <2>2 DEF Arrived
  <1>4. at \in 0 .. Chunks(declared)
    BY <1>1, <1>2, ChunkFacts
  <1>5. ReadsBack
    BY <1>1 DEF ReadsBack
  <1>6. out \in Seq(Byte) /\ Len(out) <= MaxUncompressed
    BY <1>1, <1>2
  <1> QED
    BY <1>1, <1>2, <1>3, <1>4, <1>5, <1>6 DEF HeapInv

LEMMA RefusesSizeKeeps ==
    ASSUME HeapInv, RefusesSize
    PROVE  HeapInv'
  <1>1. /\ Start /\ Given /\ outcome' = "error"
        /\ comp_sizes' = comp_sizes /\ at' = at /\ pos' = pos /\ out' = out
        /\ TooLarge \/ (compressed /\ Chunks(declared) > 1 /\ Len(raw) <= TableSize)
    BY DEF RefusesSize, Ends
  <1>2. /\ size' = size /\ lens' = lens /\ codec' = codec /\ compressed' = compressed
        /\ declared' = declared /\ raw' = raw
        /\ Region' = Region /\ (Arrived' <=> Arrived) /\ (Guarded' <=> Guarded)
        /\ (TooLarge' <=> TooLarge) /\ TableSize' = TableSize /\ (Whole' <=> Whole)
    BY <1>1, GivenKeeps
  <1>3. ~ Whole
    <2> SUFFICES ASSUME Whole
                 PROVE  FALSE
      OBVIOUS
    <2>1. /\ raw = Region /\ declared = size /\ compressed /\ Chunks(size) > 1
          /\ Len(raw) <= (Chunks(size) - 1) * 2
      BY <1>1 DEF Whole, TableSize
    <2>2. size \in Nat /\ lens \in Lens(size)
      BY ChunkAssumption DEF HeapInv
    <2>3. size # 0 /\ Chunks(size) \in Nat
      BY <2>1, <2>2, ChunkFacts
    <2> DEFINE N == Chunks(size)
               z == Off(size, lens, N)
               b == Off(size, lens, N - 1)
    <2>4. z \in Nat /\ Len(raw) = z + 2 * (N - 1)
      BY <2>1, <2>2, <2>3, PackedIs DEF Region
    <2>5. N \in 1 .. N /\ N - 1 \in 0 .. N
      BY <2>1, <2>3
    <2>6. b \in Nat /\ z = b + lens[N]
      BY <2>2, <2>5, Offsets
    <2>7. lens[N] \in Nat /\ lens[N] > 0
      BY <2>2, <2>5, LensAre
    <2> HIDE DEF z, b, N
    <2> QED
      BY <2>1, <2>4, <2>6, <2>7, <2>3 DEF N
  <1>4. ReadsBack'
    BY <1>1, <1>2, <1>3 DEF ReadsBack
  <1>5. at = 0
    BY <1>1 DEF Start
  <1> QED
    BY <1>1, <1>2, <1>4, <1>5 DEF HeapInv

LEMMA PassesKeeps ==
    ASSUME HeapInv, Passes
    PROVE  HeapInv'
  <1> DEFINE m == IF declared < Len(raw) THEN declared ELSE Len(raw)
  <1>1. /\ Start /\ Given /\ outcome' = "done"
        /\ comp_sizes' = comp_sizes /\ at' = at /\ pos' = pos
        /\ out' = SubSeq(raw, 1, m)
        /\ ~ TooLarge /\ (declared = 0 \/ ~ compressed)
    BY DEF Passes, Ends
  <1>2. /\ size' = size /\ lens' = lens /\ codec' = codec /\ compressed' = compressed
        /\ declared' = declared /\ raw' = raw
        /\ Region' = Region /\ (Arrived' <=> Arrived) /\ (Guarded' <=> Guarded)
        /\ (TooLarge' <=> TooLarge) /\ TableSize' = TableSize /\ (Whole' <=> Whole)
    BY <1>1, GivenKeeps
  <1>3. size \in Nat /\ lens \in Lens(size) /\ compressed \in BOOLEAN /\ Arrived /\ declared \in Nat
    BY ChunkAssumption DEF HeapInv, compressed
  <1>4. raw \in Seq(Byte)
    BY <1>3, RawIs
  <1>5. m \in 0 .. Len(raw) /\ m <= declared
    BY <1>3, <1>4
  <1> HIDE DEF m
  <1>6. out' \in Seq(Byte) /\ Len(out') = m /\ (m = Len(raw) => out' = raw)
    BY <1>1, <1>4, <1>5, FirstBytes
  <1>7. Len(out') <= MaxUncompressed
    BY <1>1, <1>3, <1>5, <1>6, ChunkAssumption DEF TooLarge
  <1>8. ASSUME Whole \/ (Guarded /\ declared = size)
        PROVE  out' = Data(size)
    <2>1. declared = size /\ (declared = 0 \/ ~ compressed)
      BY <1>1, <1>8 DEF Whole, Guarded
    <2>2. Region = Data(size) /\ Len(Data(size)) = size /\ Data(size) \in Seq(Byte)
      BY <1>3, <2>1, RegionIs, DataIs
    <2>3. CASE size = 0
      <3>1. Len(out') = 0 /\ Len(Data(size)) = 0
        BY <1>4, <1>5, <1>6, <2>1, <2>2, <2>3
      <3> QED
        BY <1>6, <2>2, <3>1
    <2>4. CASE size # 0
      <3>1. raw = Region /\ Len(raw) = size
        BY <1>3, <1>8, <2>1, <2>2, <2>4 DEF Whole, Guarded
      <3>2. m = Len(raw)
        BY <1>3, <2>1, <3>1 DEF m
      <3> QED
        BY <1>6, <2>2, <3>1, <3>2
    <2> QED
      BY <2>3, <2>4
  <1>11. compressed => Len(out') = declared
    BY <1>1, <1>4, <1>5, <1>6
  <1>9. ReadsBack'
    BY <1>1, <1>2, <1>8, <1>11 DEF ReadsBack
  <1>10. at = 0
    BY <1>1 DEF Start
  <1> QED
    BY <1>1, <1>2, <1>6, <1>7, <1>9, <1>10 DEF HeapInv

LEMMA ReadsTableKeeps ==
    ASSUME HeapInv, ReadsTable
    PROVE  HeapInv'
  <1> DEFINE N == Chunks(declared)
  <1>1. /\ outcome = "runs" /\ at = 0 /\ Given /\ outcome' = outcome
        /\ at' = 1 /\ pos' = pos /\ out' = out
        /\ ~ TooLarge /\ compressed /\ declared > 0
        /\ N > 1 => Len(raw) > TableSize
        /\ comp_sizes' \in [1 .. N - 1 -> 1 .. Base * Base]
        /\ \A k \in DOMAIN comp_sizes' : comp_sizes'[k] \in Sizes(TableByte(2 * k - 1), TableByte(2 * k))
    BY DEF ReadsTable, Start
  <1>2. /\ size' = size /\ lens' = lens /\ codec' = codec /\ compressed' = compressed
        /\ declared' = declared /\ raw' = raw
        /\ Region' = Region /\ (Arrived' <=> Arrived) /\ (Guarded' <=> Guarded)
        /\ (TooLarge' <=> TooLarge) /\ TableSize' = TableSize /\ (Whole' <=> Whole)
    BY <1>1, GivenKeeps
  <1>3. /\ size \in Nat /\ lens \in Lens(size) /\ declared \in Nat
        /\ pos = 0 /\ out = <<>>
    BY <1>1, ChunkAssumption DEF HeapInv
  <1>4. N \in Nat /\ N # 0
    BY <1>1, <1>3, ChunkFacts
  <1>5. at' \in 0 .. Chunks(declared')
    BY <1>1, <1>2, <1>4
  <1>6. Looping'
    BY <1>1, <1>2, <1>3 DEF Looping
  <1>7. (at' - 1) * ChunkSize = 0 /\ Len(out') = 0
    BY <1>1, <1>3, ChunkAssumption
  <1>8. ASSUME declared = size
        PROVE  Behind'
    <2>1. Off(size, lens, 0) = 0
      BY <1>3, Offsets
    <2>2. at' - 1 = 0
      BY <1>1
    <2>3. pos' = Off(size', lens', at' - 1)
      BY <1>1, <1>2, <1>3, <2>1, <2>2
    <2>4. ASSUME raw = Region
          PROVE  \A k \in 1 .. N - 1 : comp_sizes'[k] = lens[k]
      <3> TAKE k \in 1 .. N - 1
      <3> DEFINE z == Off(size, lens, N)
                 T == Table(size, lens)
                 P == Packed(size, lens)
      <3>1. size # 0 /\ raw = P /\ N = Chunks(size)
        BY <1>1, <1>3, <1>8, <2>4 DEF Region
      <3>2. /\ P \in Seq(Byte) /\ z \in Nat /\ Len(P) = z + 2 * (N - 1)
            /\ \A j \in 1 .. 2 * (N - 1) : P[z + j] = T[j]
        BY <1>3, <3>1, PackedIs
      <3>3. /\ T[2 * k - 1] = <<"table", (lens[k] - 1) \div Base>>
            /\ T[2 * k] = <<"table", (lens[k] - 1) % Base>>
        BY <1>3, <3>1, TableIs
      <3> HIDE DEF z, T, P, N
      <3>4. TableSize = 2 * (N - 1)
        BY <1>4 DEF TableSize, N
      <3>5. k \in 1 .. N /\ 2 * k - 1 \in 1 .. 2 * (N - 1) /\ 2 * k \in 1 .. 2 * (N - 1)
        BY <1>4
      <3>6. Len(raw) - TableSize = z
        BY <1>4, <3>1, <3>2, <3>4
      <3>7. TableByte(2 * k - 1) = T[2 * k - 1] /\ TableByte(2 * k) = T[2 * k]
        BY <3>1, <3>2, <3>5, <3>6 DEF TableByte
      <3>8. lens[k] \in Nat /\ lens[k] > 0
        BY <1>3, <3>1, <3>5, LensAre
      <3>9. comp_sizes'[k] \in Sizes(TableByte(2 * k - 1), TableByte(2 * k))
        BY <1>1 DEF N
      <3>10. comp_sizes'[k] \in {lens[k]}
        BY <3>3, <3>7, <3>8, <3>9, SizesAre
      <3> QED
        BY <3>10
    <2>5. Data(0) = <<>>
      <3>1. Data(0) \in Seq(Byte) /\ Len(Data(0)) = 0
        BY DataIs
      <3> QED
        BY <3>1
    <2>6. out' = Data((at' - 1) * ChunkSize)
      BY <1>1, <1>3, <1>7, <2>5
    <2>7. raw = Region => Exact'
      BY <1>2, <1>8, <2>3, <2>4, <2>6 DEF Exact
    <2>8. pos' >= Off(size', lens', at' - 1)
      BY <1>1, <1>3, <2>3
    <2> QED
      BY <1>2, <2>7, <2>8 DEF Behind
  <1>9. ReadsBack'
    BY <1>1, <1>2 DEF ReadsBack
  <1>10. out' \in Seq(Byte) /\ Len(out') <= MaxUncompressed
    BY <1>1, <1>3, ChunkAssumption
  <1> QED
    BY <1>1, <1>2, <1>3, <1>5, <1>6, <1>7, <1>8, <1>9, <1>10 DEF HeapInv

\* Where the text of chunk at goes.
LEMMA InflatedIs ==
    ASSUME HeapInv, outcome = "runs", at # 0, NEW text \in Seq(Byte), Len(text) = Unc
    PROVE  /\ out \o text \in Seq(Byte)
           /\ Len(out \o text) = (at - 1) * ChunkSize + ChunkLen(declared, at)
           /\ Len(out \o text) <= MaxUncompressed
           /\ at = Chunks(declared) => Len(out \o text) = declared
           /\ at # Chunks(declared) => Len(out \o text) = at * ChunkSize
  <1> DEFINE N == Chunks(declared)
             a == (at - 1) * ChunkSize
             z == ChunkLen(declared, at)
             d == at * ChunkSize
  <1>1. /\ declared \in Nat /\ out \in Seq(Byte) /\ at \in 0 .. N /\ Looping
        /\ Len(out) = a
    BY DEF HeapInv
  <1>2. N \in Nat /\ at \in 1 .. N
    BY <1>1, ChunkFacts
  <1>3. /\ a \in Nat /\ z \in Nat /\ a + z <= declared
        /\ at = N => a + z = declared
        /\ at # N => a + z = d
    <2>1. a \in Nat /\ z \in 1 .. ChunkSize /\ a + z <= declared
      BY <1>1, <1>2, ChunkFacts
    <2>2. at = N => a + z = declared
      BY <1>1, <1>2, ChunkFacts
    <2>3. at # N => z = ChunkSize /\ a + ChunkSize = d
      BY <1>1, <1>2, ChunkFacts
    <2> HIDE DEF a, d, z, N
    <2> QED
      BY <2>1, <2>2, <2>3, ChunkAssumption
  <1>4. Unc = z
    BY <1>2 DEF Unc, ChunkLen
  <1>5. declared <= MaxUncompressed /\ MaxUncompressed \in Nat
    BY <1>1, ChunkAssumption DEF Looping, TooLarge
  <1> HIDE DEF N, a, z, d
  <1>6. out \o text \in Seq(Byte) /\ Len(out \o text) = a + z
    BY <1>1, <1>4, Joined
  <1>7. Len(out \o text) <= MaxUncompressed
    BY <1>1, <1>3, <1>5, <1>6
  <1> QED
    BY <1>3, <1>6, <1>7 DEF N, a, z, d

LEMMA InflatedKeeps ==
    ASSUME HeapInv, outcome = "runs", at # 0,
           NEW text \in Seq(Byte), Len(text) = Unc, Inflated(text),
           declared = size /\ raw = Region => text = Chunk(size, at),
           declared = size /\ raw # Region /\ codec = "zstd" =>
               at # Chunks(size) /\ pos + comp_sizes[at] >= Off(size, lens, at),
           declared = size /\ raw # Region /\ Chunks(size) <= 1 => text = Chunk(size, at)
    PROVE  HeapInv'
  <1> DEFINE N == Chunks(declared)
             h == out \o text
  <1>1. /\ Given /\ comp_sizes' = comp_sizes /\ out' = h
        /\ at = N => outcome' = Ending(out') /\ at' = at /\ pos' = pos
        /\ at # N => at' = at + 1 /\ pos' = pos + comp_sizes[at] /\ outcome' = outcome
    BY DEF Inflated, Ends
  <1>2. /\ size' = size /\ lens' = lens /\ codec' = codec /\ compressed' = compressed
        /\ declared' = declared /\ raw' = raw
        /\ Region' = Region /\ (Arrived' <=> Arrived) /\ (Guarded' <=> Guarded)
        /\ (TooLarge' <=> TooLarge) /\ TableSize' = TableSize /\ (Whole' <=> Whole)
    BY <1>1, GivenKeeps
  <1>3. /\ size \in Nat /\ lens \in Lens(size) /\ declared \in Nat /\ pos \in Nat
        /\ at \in 0 .. N /\ Looping /\ (declared = size => Behind)
        /\ Len(out) = (at - 1) * ChunkSize
    BY ChunkAssumption DEF HeapInv
  <1>4. N \in Nat /\ at \in 1 .. N
    BY <1>3, ChunkFacts
  <1>5. /\ h \in Seq(Byte) /\ Len(h) <= MaxUncompressed
        /\ at = N => Len(h) = declared
        /\ at # N => Len(h) = at * ChunkSize
    BY InflatedIs
  <1>6. Looping'
    BY <1>1, <1>2, <1>3 DEF Looping
  <1>7. declared = size /\ (raw = Region \/ Chunks(size) <= 1)
            => h = Data((at - 1) * ChunkSize + ChunkLen(size, at))
    <2> SUFFICES ASSUME declared = size, raw = Region \/ Chunks(size) <= 1
                 PROVE  h = Data((at - 1) * ChunkSize + ChunkLen(size, at))
      OBVIOUS
    <2>1. out = Data((at - 1) * ChunkSize) /\ text = Chunk(size, at)
      <3>1. CASE raw = Region
        BY <1>3, <3>1 DEF Behind, Exact
      <3>2. CASE raw # Region
        <4>1. (at - 1) * ChunkSize = 0
          <5>1. at - 1 = 0 /\ ChunkSize \in Nat
            BY <1>4, <3>2, ChunkAssumption
          <5> QED
            BY <5>1
        <4>2. Data(0) \in Seq(Byte) /\ Len(Data(0)) = 0
          BY DataIs
        <4>3. out \in Seq(Byte) /\ Len(out) = 0
          BY <1>3, <4>1 DEF HeapInv
        <4>4. out = Data(0)
          BY <4>2, <4>3
        <4> QED
          BY <3>2, <4>1, <4>4
      <3> QED
        BY <3>1, <3>2
    <2>2. at \in 1 .. Chunks(size)
      BY <1>4
    <2> QED
      BY <1>3, <2>1, <2>2, ChunkFollows
  <1> HIDE DEF h
  <1>8. CASE at = N
    <2>1. at' = at /\ pos' = pos /\ outcome' = "done" /\ out' = h
      BY <1>1, <1>5, <1>8 DEF Ending
    <2>2. declared = size /\ (Whole \/ Guarded) => h = Data(size)
      <3> SUFFICES ASSUME declared = size, Whole \/ Guarded
                   PROVE  h = Data(size)
        OBVIOUS
      <3>1. (raw = Region \/ Chunks(size) <= 1) /\ at \in 1 .. Chunks(size) /\ at = Chunks(size)
        BY <1>4, <1>8 DEF Whole, Guarded
      <3>2. (at - 1) * ChunkSize + ChunkLen(size, at) = size
        BY <1>3, <3>1, ChunkFacts
      <3> QED
        BY <1>7, <3>1, <3>2
    <2>4. Whole => declared = size
      BY DEF Whole
    <2>3. ReadsBack'
      BY <1>2, <1>5, <1>8, <2>1, <2>2, <2>4 DEF ReadsBack
    <2> QED
      BY <1>1, <1>2, <1>3, <1>4, <1>5, <1>6, <2>1, <2>3 DEF HeapInv
  <1>9. CASE at # N
    <2>1. at' = at + 1 /\ pos' = pos + comp_sizes[at] /\ outcome' = "runs" /\ out' = h
      BY <1>1, <1>9
    <2>2. at \in 1 .. N - 1 /\ at' \in 0 .. N /\ at' # 0 /\ at' - 1 = at
      BY <1>4, <1>9, <2>1
    <2>3. comp_sizes[at] \in Nat
      <3>1. comp_sizes[at] \in 1 .. Base * Base
        BY <1>3, <2>2 DEF Looping
      <3> QED
        BY <3>1, BasePositive
    <2>4. pos' \in Nat
      BY <1>3, <2>1, <2>3
    <2>5. ReadsBack'
      BY <1>2, <2>1 DEF ReadsBack
    <2>6. Len(out') = (at' - 1) * ChunkSize
      BY <1>5, <1>9, <2>1, <2>2
    <2>7. ASSUME declared = size
          PROVE  Behind'
      <3>1. at \in 1 .. Chunks(size) /\ at # Chunks(size)
        BY <1>4, <1>9, <2>7
      <3>2. Off(size, lens, at) = Off(size, lens, at - 1) + lens[at]
        BY <1>3, <3>1, Offsets
      <3>3. CASE raw = Region
        <4>1. /\ \A c \in 1 .. Chunks(size) - 1 : comp_sizes[c] = lens[c]
              /\ pos = Off(size, lens, at - 1)
          BY <1>3, <2>7, <3>3 DEF Behind, Exact
        <4>2. comp_sizes[at] = lens[at]
          BY <2>2, <2>7, <4>1
        <4>3. pos' = Off(size', lens', at' - 1)
          BY <1>2, <2>1, <2>2, <3>2, <4>1, <4>2
        <4>4. (at - 1) * ChunkSize + ChunkLen(size, at) = at * ChunkSize
          BY <1>3, <3>1, ChunkFacts
        <4>5. out' = Data((at' - 1) * ChunkSize)
          BY <1>7, <2>1, <2>2, <2>7, <3>3, <4>4
        <4>6. Exact'
          BY <1>1, <1>2, <4>1, <4>3, <4>5 DEF Exact
        <4> QED
          BY <1>2, <3>3, <4>6 DEF Behind
      <3>4. CASE raw # Region
        <4>1. codec = "zstd" => pos' >= Off(size, lens, at)
          BY <2>1, <2>7, <3>4
        <4>2. codec = "zstd" => pos' >= Off(size', lens', at' - 1)
          BY <1>2, <2>2, <4>1
        <4> QED
          BY <1>2, <3>4, <4>2 DEF Behind
      <3> QED
        BY <3>3, <3>4
    <2> QED
      BY <1>1, <1>2, <1>5, <1>6, <2>1, <2>2, <2>4, <2>5, <2>6, <2>7 DEF HeapInv
  <1> QED
    BY <1>8, <1>9

\* A chunk begins where it ended before, or after: the offsets grow.
LEMMA NoEarlier ==
    ASSUME NEW n \in Nat, NEW l \in Lens(n), NEW a \in 1 .. Chunks(n), NEW c \in 1 .. Chunks(n),
           Off(n, l, c - 1) >= Off(n, l, a - 1)
    PROVE  c >= a
  <1>0. Chunks(n) \in Nat
    BY ChunkFacts
  <1> SUFFICES ASSUME c < a
               PROVE  FALSE
    BY <1>0
  <1>1. c \in 0 .. Chunks(n) /\ a - 1 \in 0 .. Chunks(n) /\ c - 1 \in 0 .. Chunks(n) /\ c <= a - 1
    BY <1>0
  <1>2. Off(n, l, c) <= Off(n, l, a - 1)
    BY <1>1, Offsets
  <1>3. Off(n, l, c) = Off(n, l, c - 1) + l[c]
    BY Offsets
  <1>4. l[c] \in Nat /\ l[c] > 0
    BY LensAre
  <1>5. Off(n, l, c) \in Nat /\ Off(n, l, c - 1) \in Nat /\ Off(n, l, a - 1) \in Nat
    BY <1>1, Offsets
  <1> QED
    BY <1>2, <1>3, <1>4, <1>5

LEMMA PassesChunkKeeps ==
    ASSUME HeapInv, PassesChunk
    PROVE  HeapInv'
  <1>1. outcome = "runs" /\ at # 0 /\ Len(Comp) = Unc /\ Inflated(Comp)
    BY DEF PassesChunk, Stored, HeapInv
  <1>2. PICK text : text = Comp
    OBVIOUS
  <1>3. text \in Seq(Byte) /\ Len(text) = Unc /\ Inflated(text)
    BY <1>1, <1>2, CompBytes
  <1>4. ASSUME declared = size
        PROVE  /\ size \in Nat /\ lens \in Lens(size) /\ at \in 1 .. Chunks(size) /\ pos \in Nat
               /\ Len(Comp) = ChunkLen(size, at)
               /\ at # Chunks(size) => Len(Comp) <= comp_sizes[at] /\ comp_sizes[at] \in Nat
               /\ raw = Region => Comp = OnDisk(size, lens, at)
               /\ Guarded /\ raw # Region /\ at = Chunks(size) => Len(Comp) < lens[at]
               /\ Behind /\ compressed
    <2>1. Behind /\ compressed
      BY <1>1, <1>4 DEF HeapInv, Looping
    <2> QED
      BY <1>1, <1>4, <2>1, CompFacts
  <1>5. ASSUME declared = size, raw = Region
        PROVE  text = Chunk(size, at)
    <2>1. Comp = OnDisk(size, lens, at) /\ Len(Comp) = ChunkLen(size, at)
      BY <1>4, <1>5
    <2>2. Len(OnDisk(size, lens, at)) = lens[at]
      BY <1>4, <1>5, OnDiskIs
    <2> QED
      BY <1>2, <1>4, <1>5, <2>1, <2>2, OnDiskIs
  <1>7. ASSUME declared = size, raw # Region, Guarded
        PROVE  at # Chunks(size)
    <2>1. ChunkLen(size, at) \in Nat /\ lens[at] \in Nat /\ lens[at] <= ChunkLen(size, at)
      BY <1>4, <1>7, LensAre
    <2> QED
      BY <1>4, <1>7, <2>1
  <1>8. ASSUME declared = size, raw # Region, Chunks(size) <= 1
        PROVE  FALSE
    <2>1. Guarded /\ at \in 1 .. Chunks(size) /\ Chunks(size) \in Nat
      BY <1>4, <1>8, ChunkFacts DEF Guarded
    <2> QED
      BY <1>7, <1>8, <2>1
  <1>6. ASSUME declared = size, raw # Region, codec = "zstd"
        PROVE  at # Chunks(size) /\ pos + comp_sizes[at] >= Off(size, lens, at)
    <2>1. ChunkLen(size, at) \in Nat /\ lens[at] \in Nat /\ lens[at] <= ChunkLen(size, at)
      BY <1>4, <1>6, LensAre
    <2>2. at # Chunks(size)
      BY <1>4, <1>6, <1>7 DEF Guarded
    <2>3. comp_sizes[at] \in Nat /\ lens[at] <= comp_sizes[at]
      BY <1>4, <1>6, <2>1, <2>2
    <2>4. Off(size, lens, at) = Off(size, lens, at - 1) + lens[at] /\ Off(size, lens, at - 1) \in Nat
      <3>1. at \in 1 .. Chunks(size) /\ Chunks(size) \in Nat
        BY <1>4, <1>6, ChunkFacts
      <3>2. at - 1 \in 0 .. Chunks(size)
        BY <3>1
      <3> QED
        BY <1>4, <1>6, <3>1, <3>2, Offsets
    <2>5. pos >= Off(size, lens, at - 1)
      BY <1>4, <1>6 DEF Behind
    <2>6. pos \in Nat
      BY <1>4, <1>6
    <2> QED
      BY <2>1, <2>2, <2>3, <2>4, <2>5, <2>6
  <1> QED
    BY <1>1, <1>3, <1>5, <1>6, <1>8, InflatedKeeps

LEMMA InflatesChunkKeeps ==
    ASSUME HeapInv, InflatesChunk
    PROVE  HeapInv'
  <1>1. outcome = "runs" /\ at # 0
    BY DEF InflatesChunk, HeapInv
  <1>2. PICK c \in 1 .. Chunks(size) : /\ Inflates(Comp, c) \/ MayInflate(Comp, c)
                                      /\ Inflated(SubSeq(Chunk(size, c), 1, Unc))
    BY DEF InflatesChunk
  <1>3. /\ size \in Nat /\ lens \in Lens(size) /\ declared \in Nat /\ compressed
        /\ codec \in {"none", "zlib", "zstd"} /\ Comp \in Seq(Byte)
        /\ at \in 0 .. Chunks(declared) /\ pos \in Nat
    <2>1. Comp \in Seq(Byte)
      BY <1>1, CompBytes
    <2> QED
      BY <1>1, <2>1, ChunkAssumption DEF HeapInv, Looping
  <1>4. codec = "zlib" \/ codec = "zstd"
    BY <1>3 DEF compressed
  <1>5. /\ lens[c] # ChunkLen(size, c) /\ lens[c] \in Nat /\ lens[c] > 0
        /\ ChunkLen(size, c) \in Nat
        /\ IsPrefix(Comp, OnDisk(size, lens, c)) \/ IsPrefix(OnDisk(size, lens, c), Comp)
        /\ codec = "zstd" => Len(Comp) >= lens[c]
        /\ ChunkLen(size, c) >= Unc /\ Unc \in Nat
        /\ Comp # <<>>
    <2>1. /\ lens[c] \in Nat /\ lens[c] > 0 /\ lens[c] # ChunkLen(size, c)
          /\ ChunkLen(size, c) \in Nat
      BY <1>2, <1>3, LensAre DEF Inflates, MayInflate
    <2>2. Unc \in Nat
      <3>1. at \in 1 .. Chunks(declared)
        BY <1>1, <1>3, ChunkFacts
      <3>2. Unc = ChunkLen(declared, at)
        BY <3>1 DEF Unc, ChunkLen
      <3>3. ChunkLen(declared, at) \in 1 .. ChunkSize
        BY <1>3, <3>1, ChunkFacts
      <3> QED
        BY <3>2, <3>3, ChunkAssumption
    <2>3. CASE MayInflate(Comp, c)
      BY <2>1, <2>2, <2>3 DEF MayInflate
    <2>4. CASE Inflates(Comp, c) /\ codec = "zstd"
      <3>1. IsPrefix(OnDisk(size, lens, c), Comp) /\ ChunkLen(size, c) = Unc
        BY <2>4 DEF Inflates
      <3>2. Len(OnDisk(size, lens, c)) = lens[c] /\ Len(OnDisk(size, lens, c)) <= Len(Comp)
        BY <1>3, <3>1, OnDiskIs DEF IsPrefix
      <3>3. Len(Comp) >= lens[c] /\ Len(Comp) # 0
        BY <1>3, <2>1, <3>2
      <3> QED
        BY <2>1, <2>2, <3>1, <3>3
    <2>5. CASE Inflates(Comp, c) /\ codec # "zstd"
      <3>1. /\ IsPrefix(Comp, OnDisk(size, lens, c)) /\ ChunkLen(size, c) = Unc
            /\ Len(Comp) + Trailer >= lens[c]
        BY <2>5 DEF Inflates
      <3>2. lens[c] > Trailer /\ Trailer \in Nat
        BY <1>3, <2>1, ChunkAssumption DEF Lens
      <3>3. Len(Comp) # 0
        BY <1>3, <2>1, <3>1, <3>2
      <3> QED
        BY <2>1, <2>2, <2>5, <3>1, <3>3
    <2> QED
      BY <1>2, <2>3, <2>4, <2>5
  <1>6. PICK text : text = SubSeq(Chunk(size, c), 1, Unc)
    OBVIOUS
  <1>7. /\ text \in Seq(Byte) /\ Len(text) = Unc /\ Inflated(text)
        /\ ChunkLen(size, c) = Unc => text = Chunk(size, c)
    <2>1. Chunk(size, c) \in Seq(Byte) /\ Len(Chunk(size, c)) = ChunkLen(size, c)
      BY <1>3, ChunkIs
    <2>2. Unc \in 0 .. Len(Chunk(size, c))
      BY <1>5, <2>1
    <2> QED
      BY <1>2, <1>6, <2>1, <2>2, FirstBytes
  <1>8. ASSUME declared = size
        PROVE  /\ at \in 1 .. Chunks(size) /\ Chunks(size) \in Nat
               /\ Unc = ChunkLen(size, at)
               /\ at # Chunks(size) => Len(Comp) <= comp_sizes[at] /\ comp_sizes[at] \in Nat
               /\ Guarded /\ raw # Region /\ at = Chunks(size) => Len(Comp) < lens[at]
               /\ Behind /\ pos = Off(size, lens, c - 1)
    <2>1. Behind
      BY <1>1, <1>8 DEF HeapInv
    <2>2. /\ at \in 1 .. Chunks(size) /\ Unc = ChunkLen(size, at)
          /\ Piece(Comp, size, lens, pos)
          /\ at # Chunks(size) => Len(Comp) <= comp_sizes[at] /\ comp_sizes[at] \in Nat
          /\ Guarded /\ raw # Region /\ at = Chunks(size) => Len(Comp) < lens[at]
      BY <1>1, <1>8, CompFacts
    <2>3. Len(Comp) # 0 /\ Comp[1] = <<"packed", c, 1>>
      BY <1>3, <1>5, FirstPacked
    <2>4. pos = Off(size, lens, c - 1)
      BY <1>3, <2>2, <2>3, InflatesWhere
    <2> QED
      BY <1>3, <2>1, <2>2, <2>4, ChunkFacts
  <1>9. ASSUME declared = size, raw = Region \/ codec = "zstd"
        PROVE  /\ c >= at /\ c \in Nat /\ at \in Nat
               /\ Off(size, lens, c) = Off(size, lens, c - 1) + lens[c]
               /\ Off(size, lens, at) <= Off(size, lens, c)
               /\ Off(size, lens, c - 1) \in Nat /\ Off(size, lens, at) \in Nat
    <2>1. /\ at \in 1 .. Chunks(size) /\ Chunks(size) \in Nat
          /\ at \in 0 .. Chunks(size) /\ c \in 0 .. Chunks(size)
          /\ at - 1 \in 0 .. Chunks(size) /\ c - 1 \in 0 .. Chunks(size)
      BY <1>8, <1>9
    <2>2. Off(size, lens, c - 1) >= Off(size, lens, at - 1)
      <3>1. Off(size, lens, at - 1) \in Nat
        BY <1>3, <2>1, Offsets
      <3>2. pos = Off(size, lens, c - 1) /\ Behind
        BY <1>8, <1>9
      <3>3. pos >= Off(size, lens, at - 1)
        BY <1>9, <3>1, <3>2 DEF Behind, Exact
      <3> QED
        BY <3>2, <3>3
    <2>3. c >= at
      BY <1>3, <2>1, <2>2, NoEarlier
    <2>4. /\ Off(size, lens, c) = Off(size, lens, c - 1) + lens[c]
          /\ Off(size, lens, c - 1) \in Nat /\ Off(size, lens, at) \in Nat
      BY <1>3, <2>1, Offsets
    <2>5. at <= c /\ c \in Nat /\ at \in Nat
      BY <2>1, <2>3
    <2>6. Off(size, lens, at) <= Off(size, lens, c)
      BY <1>3, <2>1, <2>5, Offsets
    <2> QED
      BY <2>3, <2>4, <2>5, <2>6
  <1>10. ASSUME declared = size, raw = Region
         PROVE  text = Chunk(size, at)
    <2>1. pos = Off(size, lens, at - 1) /\ pos = Off(size, lens, c - 1) /\ at \in 1 .. Chunks(size)
      BY <1>8, <1>10 DEF Behind, Exact
    <2>2. at >= c
      <3>1. at - 1 \in 0 .. Chunks(size)
        BY <1>8, <1>10
      <3>2. Off(size, lens, at - 1) \in Nat
        BY <1>3, <3>1, Offsets
      <3> QED
        BY <1>3, <2>1, <3>2, NoEarlier
    <2>3. c = at
      BY <1>9, <1>10, <2>2
    <2> QED
      BY <1>7, <1>8, <1>10, <2>3
  <1>11. ASSUME declared = size, raw # Region, codec = "zstd"
         PROVE  at # Chunks(size) /\ pos + comp_sizes[at] >= Off(size, lens, at)
    <2>1. at # Chunks(size)
      <3> SUFFICES ASSUME at = Chunks(size)
                   PROVE  FALSE
        OBVIOUS
      <3>1. c = at /\ Guarded
        BY <1>3, <1>8, <1>9, <1>11 DEF Guarded
      <3>2. Len(Comp) < lens[c] /\ Len(Comp) >= lens[c] /\ Len(Comp) \in Nat
        BY <1>3, <1>5, <1>8, <1>11, <3>1
      <3> QED
        BY <1>5, <3>2
    <2>2. /\ Len(Comp) <= comp_sizes[at] /\ comp_sizes[at] \in Nat /\ Len(Comp) >= lens[c]
          /\ pos = Off(size, lens, c - 1) /\ Len(Comp) \in Nat
      BY <1>3, <1>5, <1>8, <1>11, <2>1
    <2> QED
      BY <1>5, <1>9, <1>11, <2>1, <2>2
  <1>12. ASSUME declared = size, raw # Region, Chunks(size) <= 1
         PROVE  text = Chunk(size, at)
    <2>1. c = at
      BY <1>8, <1>12
    <2> QED
      BY <1>7, <1>8, <1>12, <2>1
  <1> QED
    BY <1>1, <1>7, <1>10, <1>11, <1>12, InflatedKeeps

LEMMA RefusesChunkKeeps ==
    ASSUME HeapInv, RefusesChunk
    PROVE  HeapInv'
  <1>1. /\ outcome = "runs" /\ at # 0 /\ Len(Comp) # Unc
        /\ \A c \in 1 .. Chunks(size) : ~ Inflates(Comp, c)
        /\ outcome' = "error" /\ Given
        /\ comp_sizes' = comp_sizes /\ at' = at /\ pos' = pos /\ out' = out
    BY DEF RefusesChunk, Stored, Ends, HeapInv
  <1>2. /\ size' = size /\ lens' = lens /\ codec' = codec /\ compressed' = compressed
        /\ declared' = declared /\ raw' = raw
        /\ Region' = Region /\ (Arrived' <=> Arrived) /\ (Guarded' <=> Guarded)
        /\ (TooLarge' <=> TooLarge) /\ TableSize' = TableSize /\ (Whole' <=> Whole)
    BY <1>1, GivenKeeps
  <1>3. ~ Whole
    <2> SUFFICES ASSUME Whole
                 PROVE  FALSE
      OBVIOUS
    <2>1. declared = size /\ raw = Region
      BY DEF Whole
    <2>2. /\ size \in Nat /\ lens \in Lens(size) /\ at \in 1 .. Chunks(size)
          /\ Unc = ChunkLen(size, at) /\ Comp = OnDisk(size, lens, at)
      BY <1>1, <2>1, CompFacts
    <2>3. lens[at] # ChunkLen(size, at) /\ Comp \in Seq(Byte) /\ Len(Comp) = lens[at]
      BY <1>1, <2>2, OnDiskIs
    <2>4. IsPrefix(Comp, OnDisk(size, lens, at)) /\ IsPrefix(OnDisk(size, lens, at), Comp)
      <3>1. Len(Comp) <= Len(Comp)
        BY <2>3
      <3> QED
        BY <2>2, <3>1 DEF IsPrefix
    <2>5. Len(Comp) + Trailer >= lens[at]
      BY <2>3, ChunkAssumption
    <2> QED
      BY <1>1, <2>2, <2>3, <2>4, <2>5 DEF Inflates
  <1>4. ReadsBack'
    BY <1>1, <1>2, <1>3 DEF ReadsBack
  <1>5. Looping'
    <2>1. Looping
      BY <1>1 DEF HeapInv
    <2> QED
      BY <1>1, <1>2, <2>1 DEF Looping
  <1> QED
    BY <1>1, <1>2, <1>4, <1>5 DEF HeapInv

LEMMA HeapStutters ==
    ASSUME HeapInv, UNCHANGED hvars
    PROVE  HeapInv'
  <1>1. /\ Given /\ comp_sizes' = comp_sizes /\ at' = at /\ pos' = pos /\ out' = out
        /\ outcome' = outcome
    BY DEF hvars, Given
  <1>2. /\ size' = size /\ lens' = lens /\ codec' = codec /\ compressed' = compressed
        /\ declared' = declared /\ raw' = raw
        /\ Region' = Region /\ (Arrived' <=> Arrived) /\ (Guarded' <=> Guarded)
        /\ (TooLarge' <=> TooLarge) /\ TableSize' = TableSize /\ (Whole' <=> Whole)
    BY <1>1, GivenKeeps
  <1>3. ReadsBack'
    BY <1>1, <1>2 DEF ReadsBack, HeapInv
  <1>4. at # 0 => Looping'
    <2>1. at # 0 => Looping
      BY DEF HeapInv
    <2> QED
      BY <1>1, <1>2, <2>1 DEF Looping
  <1>5. outcome = "runs" /\ at # 0 /\ declared = size => Behind'
    <2>1. outcome = "runs" /\ at # 0 /\ declared = size => Behind
      BY DEF HeapInv
    <2> QED
      BY <1>1, <1>2, <2>1 DEF Behind, Exact
  <1> QED
    BY <1>1, <1>2, <1>3, <1>4, <1>5 DEF HeapInv

LEMMA HeapInduction == HeapInv /\ [HeapNext]_hvars => HeapInv'
  <1> SUFFICES ASSUME HeapInv, [HeapNext]_hvars
               PROVE  HeapInv'
    OBVIOUS
  <1>1. CASE RefusesSize   BY <1>1, RefusesSizeKeeps
  <1>2. CASE Passes        BY <1>2, PassesKeeps
  <1>3. CASE ReadsTable    BY <1>3, ReadsTableKeeps
  <1>4. CASE PassesChunk   BY <1>4, PassesChunkKeeps
  <1>5. CASE InflatesChunk BY <1>5, InflatesChunkKeeps
  <1>6. CASE RefusesChunk  BY <1>6, RefusesChunkKeeps
  <1>7. CASE UNCHANGED hvars BY <1>7, HeapStutters
  <1> QED
    BY <1>1, <1>2, <1>3, <1>4, <1>5, <1>6, <1>7 DEF HeapNext

\* The values HeapTypeOK names, of every state: a heap never grows past the most a
\* package may have (MAX_HEAP_UNCOMPRESSED), however large its header says it is.
THEOREM HeapTypes == HeapInit /\ [][HeapNext]_hvars => []HeapTypeOK
  <1>1. HeapInv => HeapTypeOK
    <2> SUFFICES ASSUME HeapInv
                 PROVE  HeapTypeOK
      OBVIOUS
    <2>1. size \in Nat /\ lens \in Lens(size) /\ compressed \in BOOLEAN /\ Arrived
      BY ChunkAssumption DEF HeapInv, compressed
    <2>2. IsPrefix(raw, Region)
      <3>1. Region \in Seq(Byte)
        BY <2>1, RegionIs
      <3>2. PICK cut \in Nat : cut <= Len(Region) /\ raw = SubSeq(Region, 1, Len(Region) - cut)
        BY <2>1 DEF Arrived
      <3>3. Len(Region) - cut \in 0 .. Len(Region)
        BY <3>1, <3>2
      <3>4. raw \in Seq(Byte) /\ Len(raw) = Len(Region) - cut
        BY <3>1, <3>2, <3>3, FirstBytes
      <3>5. SubSeq(raw, 1, Len(raw)) = raw /\ SubSeq(Region, 1, Len(raw)) = raw
        BY <3>2, <3>4, SubSeqFull
      <3>6. Len(raw) <= Len(Region)
        BY <3>3, <3>4
      <3> QED
        BY <3>5, <3>6 DEF IsPrefix
    <2>3. \A c \in DOMAIN comp_sizes : comp_sizes[c] \in 1 .. Base * Base
      <3>1. CASE at = 0
        BY <3>1 DEF HeapInv
      <3>2. CASE at # 0
        BY <3>2 DEF HeapInv, Looping
      <3> QED
        BY <3>1, <3>2
    <2> QED
      BY <2>2, <2>3 DEF HeapInv, HeapTypeOK
  <1> QED
    BY <1>1, HeapStarts, HeapInduction, PTL

\* For every size of chunk and of heap, whichever chunks shrank and wherever the
\* region ends: a whole heap is read back, nothing else passes for one that zstd
\* packed or that is a single chunk, and what a codec gives has the declared size
\* (decompress_heap).
THEOREM HeapReadsBack == HeapInit /\ [][HeapNext]_hvars => []ReadsBack
  <1>1. HeapInv => ReadsBack
    BY DEF HeapInv
  <1> QED
    BY <1>1, HeapStarts, HeapInduction, PTL

-----------------------------------------------------------------------------
(* Hpkr.                                                                   *)

LEMMA LexemeFacts ==
    ASSUME NEW x \in Lexeme
    PROVE  /\ x.kids \in BOOLEAN /\ x.void \in BOOLEAN
           /\ x.id = "end" => x = End /\ ~ x.kids
           /\ x \in Lexemes => x.id # "end"
  <1>1. CASE x = End
    <2>1. x \in Lexemes => x.id \in {"package"} \cup Wanted \cup Others
      BY IdsAssumption DEF Attribute
    <2>2. x.id = "end" /\ x.kids = FALSE /\ x.void = FALSE
      BY <1>1 DEF End
    <2>3. "end" \notin {"package"} \cup Wanted \cup Others
      BY IdsAssumption
    <2> QED
      BY <1>1, <2>1, <2>2, <2>3
  <1>2. CASE x \in Lexemes
    <2>1. x \in Attribute
      BY <1>2, IdsAssumption
    <2>2. x.id \in {"package"} \cup Wanted \cup Others /\ x.kids \in BOOLEAN /\ x.void \in BOOLEAN
      BY <2>1 DEF Attribute
    <2>3. x.id # "end"
      BY <2>2, IdsAssumption
    <2> QED
      BY <2>2, <2>3
  <1> QED
    BY <1>1, <1>2 DEF Lexeme

\* One more place to count.
LEMMA CountMore ==
    ASSUME NEW n \in Nat, NEW K \in SUBSET (1 .. n), NEW L, L = K \/ L = K \cup {n + 1}
    PROVE  /\ Cardinality(K) \in Nat
           /\ L = K => Cardinality(L) = Cardinality(K)
           /\ L = K \cup {n + 1} => Cardinality(L) = Cardinality(K) + 1
  <1>1. IsFiniteSet(1 .. n)
    BY FS_Interval
  <1>2. IsFiniteSet(K) /\ Cardinality(K) \in Nat
    BY <1>1, FS_Subset, FS_CardinalityType
  <1>3. n + 1 \notin K
    OBVIOUS
  <1>4. Cardinality(K \cup {n + 1}) = Cardinality(K) + 1
    BY <1>2, <1>3, FS_AddElement
  <1> QED
    BY <1>2, <1>4

\* The places of a stream that is one longer.
LEMMA Longer ==
    ASSUME NEW s \in Seq(Lexeme), NEW x \in Lexeme
    PROVE  LET t == Append(s, x)
               n == Len(s)
           IN  /\ n \in Nat /\ t \in Seq(Lexeme) /\ Len(t) = n + 1
               /\ DOMAIN s = 1 .. n /\ DOMAIN t = 1 .. n + 1
               /\ \A i \in 1 .. n : t[i] = s[i] /\ s[i] \in Lexeme
               /\ t[n + 1] = x
  OBVIOUS

\* The depth at a place counts what stands before it.
LEMMA Depths ==
    ASSUME NEW s \in Seq(Lexeme), NEW x \in Lexeme
    PROVE  LET t == Append(s, x)
               n == Len(s)
           IN  /\ \A i \in 1 .. n + 1 : Depth(t, i) = Depth(s, i) /\ Depth(s, i) \in Int
               /\ x.kids => Depth(t, n + 2) = Depth(s, n + 1) + 1
               /\ x.id = "end" => Depth(t, n + 2) = Depth(s, n + 1) - 1
               /\ ~ x.kids /\ x.id # "end" => Depth(t, n + 2) = Depth(s, n + 1)
  <1> DEFINE t == Append(s, x)
             n == Len(s)
             Kids(q, i) == {j \in 1 .. i - 1 : q[j].kids}
             Closings(q, i) == {j \in 1 .. i - 1 : q[j].id = "end"}
  <1>1. /\ n \in Nat /\ Len(t) = n + 1
        /\ \A i \in 1 .. n : t[i] = s[i]
        /\ t[n + 1] = x
    BY Longer
  <1>2. x.id = "end" => ~ x.kids
    BY LexemeFacts
  <1> HIDE DEF t, n
  <1>3. \A q, i : Depth(q, i) = Cardinality(Kids(q, i)) - Cardinality(Closings(q, i))
    BY DEF Depth
  <1>4. ASSUME NEW i \in 1 .. n + 1
        PROVE  /\ Kids(t, i) = Kids(s, i) /\ Closings(t, i) = Closings(s, i)
               /\ Cardinality(Kids(s, i)) \in Nat /\ Cardinality(Closings(s, i)) \in Nat
    <2>1. i - 1 \in Nat /\ \A j \in 1 .. i - 1 : j \in 1 .. n
      BY <1>1
    <2>2. Kids(t, i) = Kids(s, i) /\ Closings(t, i) = Closings(s, i)
      BY <1>1, <2>1
    <2>3. Kids(s, i) \in SUBSET (1 .. i - 1) /\ Closings(s, i) \in SUBSET (1 .. i - 1)
      OBVIOUS
    <2> HIDE DEF Kids, Closings
    <2>4. Cardinality(Kids(s, i)) \in Nat /\ Cardinality(Closings(s, i)) \in Nat
      BY <2>1, <2>3, CountMore
    <2> QED
      BY <2>2, <2>4
  <1> DEFINE K == Kids(s, n + 1)
             E == Closings(s, n + 1)
  <1>5. K \in SUBSET (1 .. n) /\ E \in SUBSET (1 .. n)
    BY <1>1
  <1>6. /\ x.kids => Kids(t, n + 2) = K \cup {n + 1}
        /\ ~ x.kids => Kids(t, n + 2) = K
        /\ x.id = "end" => Closings(t, n + 2) = E \cup {n + 1}
        /\ x.id # "end" => Closings(t, n + 2) = E
    <2>1. /\ \A j \in 1 .. (n + 2) - 1 : j \in 1 .. n \/ j = n + 1
          /\ \A j \in 1 .. n : j \in 1 .. (n + 2) - 1 /\ j \in 1 .. (n + 1) - 1
          /\ \A j \in 1 .. (n + 1) - 1 : j \in 1 .. n
          /\ n + 1 \in 1 .. (n + 2) - 1
      BY <1>1
    <2> QED
      BY <1>1, <2>1
  <1>7. n + 1 \in 1 .. n + 1
    BY <1>1
  <1>8. /\ Depth(s, n + 1) = Cardinality(K) - Cardinality(E)
        /\ Depth(t, n + 2) = Cardinality(Kids(t, n + 2)) - Cardinality(Closings(t, n + 2))
    BY <1>3
  <1> HIDE DEF Kids, Closings
  <1>9. \A i \in 1 .. n + 1 : Depth(t, i) = Depth(s, i) /\ Depth(s, i) \in Int
    BY <1>3, <1>4
  <1> HIDE DEF K, E
  <1>10. /\ Cardinality(K) \in Nat /\ Cardinality(E) \in Nat
         /\ x.kids => Cardinality(Kids(t, n + 2)) = Cardinality(K) + 1
         /\ ~ x.kids => Cardinality(Kids(t, n + 2)) = Cardinality(K)
         /\ x.id = "end" => Cardinality(Closings(t, n + 2)) = Cardinality(E) + 1
         /\ x.id # "end" => Cardinality(Closings(t, n + 2)) = Cardinality(E)
    <2>1. /\ Cardinality(K) \in Nat /\ Cardinality(E) \in Nat
          /\ Cardinality(K \cup {n + 1}) = Cardinality(K) + 1
          /\ Cardinality(E \cup {n + 1}) = Cardinality(E) + 1
      BY <1>1, <1>5, CountMore
    <2> QED
      BY <1>6, <2>1
  <1>11. /\ x.kids => Depth(t, n + 2) = Depth(s, n + 1) + 1
         /\ x.id = "end" => Depth(t, n + 2) = Depth(s, n + 1) - 1
         /\ ~ x.kids /\ x.id # "end" => Depth(t, n + 2) = Depth(s, n + 1)
    BY <1>2, <1>8, <1>10
  <1> QED
    BY <1>9, <1>11 DEF t, n

\* The containers above a place.
LEMMA Containers ==
    ASSUME NEW s \in Seq(Lexeme), NEW x \in Lexeme
    PROVE  LET t == Append(s, x)
               n == Len(s)
           IN  /\ \A i \in 1 .. n + 1 : Above(t, i) = Above(s, i)
               /\ Above(t, n + 2) = {j \in Above(s, n + 1) : Depth(t, n + 2) > Depth(s, j)}
                                    \cup (IF x.kids THEN {n + 1} ELSE {})
  <1> DEFINE t == Append(s, x)
             n == Len(s)
             d == Depth(t, n + 2)
  <1>1. /\ n \in Nat /\ Len(t) = n + 1
        /\ \A i \in 1 .. n : t[i] = s[i]
        /\ t[n + 1] = x
    BY Longer
  <1>2. /\ \A i \in 1 .. n + 1 : Depth(t, i) = Depth(s, i) /\ Depth(s, i) \in Int
        /\ x.kids => d = Depth(s, n + 1) + 1
    BY Depths
  <1> HIDE DEF t, n
  <1>3. ASSUME NEW i \in 1 .. n + 1
        PROVE  Above(t, i) = Above(s, i)
    <2>1. \A j \in 1 .. i - 1 : j \in 1 .. n /\ j \in 1 .. n + 1
      BY <1>1
    <2>2. \A j \in 1 .. i - 1 : \A k \in j + 1 .. i : k \in 1 .. n + 1
      BY <1>1
    <2>3. \A j \in 1 .. i - 1 : \A k \in j + 1 .. i :
             Depth(t, k) > Depth(t, j) <=> Depth(s, k) > Depth(s, j)
      BY <1>2, <2>1, <2>2
    <2> QED
      BY <1>1, <2>1, <2>3 DEF Above
  <1> DEFINE A == Above(s, n + 1)
             B == Above(t, n + 2)
  <1>4. /\ \A j \in 1 .. (n + 2) - 1 : j \in 1 .. n \/ j = n + 1
        /\ \A j \in 1 .. n : j \in 1 .. (n + 2) - 1 /\ j \in 1 .. (n + 1) - 1 /\ j \in 1 .. n + 1
        /\ \A j \in 1 .. (n + 1) - 1 : j \in 1 .. n
        /\ n + 1 \in 1 .. (n + 2) - 1 /\ n + 1 \in 1 .. n + 1
    BY <1>1
  <1>5. \A j \in 1 .. n : /\ \A k \in j + 1 .. n + 2 : k \in j + 1 .. n + 1 \/ k = n + 2
                          /\ \A k \in j + 1 .. n + 1 : k \in j + 1 .. n + 2 /\ k \in 1 .. n + 1
                          /\ n + 2 \in j + 1 .. n + 2
    BY <1>1
  <1>6. ASSUME NEW j \in 1 .. n
        PROVE  j \in B <=> j \in A /\ d > Depth(s, j)
    <2>1. (\A k \in j + 1 .. n + 2 : Depth(t, k) > Depth(t, j))
          <=> (\A k \in j + 1 .. n + 1 : Depth(s, k) > Depth(s, j)) /\ d > Depth(s, j)
      BY <1>2, <1>4, <1>5
    <2> HIDE DEF d
    <2>2. j \in B <=> t[j].kids /\ \A k \in j + 1 .. n + 2 : Depth(t, k) > Depth(t, j)
      BY <1>4 DEF Above
    <2>3. j \in A <=> s[j].kids /\ \A k \in j + 1 .. n + 1 : Depth(s, k) > Depth(s, j)
      BY <1>4 DEF Above
    <2> QED
      BY <1>1, <2>1, <2>2, <2>3
  <1>7. n + 1 \in B <=> x.kids
    <2>1. \A k \in (n + 1) + 1 .. n + 2 : k = n + 2
      BY <1>1
    <2>2. n + 1 \in B <=> t[n + 1].kids /\ \A k \in (n + 1) + 1 .. n + 2 : Depth(t, k) > Depth(t, n + 1)
      BY <1>4 DEF Above
    <2>3. x.kids => d > Depth(t, n + 1)
      <3>1. n + 1 \in 1 .. n + 1
        BY <1>4
      <3>2. Depth(t, n + 1) = Depth(s, n + 1) /\ Depth(s, n + 1) \in Int
        BY <1>2, <3>1
      <3> HIDE DEF d
      <3> QED
        BY <1>2, <3>2
    <2> QED
      BY <1>1, <2>1, <2>2, <2>3
  <1>8. A \subseteq 1 .. n /\ B \subseteq 1 .. (n + 2) - 1
    BY <1>4 DEF Above
  <1>9. n + 1 \notin 1 .. n
    BY <1>1
  <1> HIDE DEF A, B, d
  <1>10. B = {j \in A : d > Depth(s, j)} \cup (IF x.kids THEN {n + 1} ELSE {})
    BY <1>4, <1>6, <1>7, <1>8, <1>9
  <1> QED
    BY <1>3, <1>10 DEF t, n, d, A, B

-----------------------------------------------------------------------------
(* The lists that are open where the reader stands. *)

\* o[d] is the attribute whose list is open at level d, of m.
Opened(o, s, m) ==
    /\ m \in Nat /\ o \in [1 .. m -> 1 .. Len(s)]
    /\ Depth(s, Len(s) + 1) = m
    /\ Above(s, Len(s) + 1) = {o[d] : d \in 1 .. m}
    /\ \A d \in 1 .. m : Depth(s, o[d]) = d - 1

\* Levels 1 to m or m - 1 of o.
Kept(o, m) == [d \in 1 .. m |-> o[d]]
Pushed(o, m, i) == [d \in 1 .. m + 1 |-> IF d = m + 1 THEN i ELSE o[d]]

LEMMA OpenStep ==
    ASSUME NEW s \in Seq(Lexeme), NEW x \in Lexeme, NEW o, NEW m, Opened(o, s, m)
    PROVE  LET t == Append(s, x)
               n == Len(s)
           IN  /\ m \in Nat /\ n \in Nat
               /\ \A d \in 1 .. m : o[d] \in 1 .. n /\ Depth(t, o[d]) = d - 1
               /\ Depth(s, n + 1) = m
               /\ Above(t, n + 2) = {o[d] : d \in {e \in 1 .. m : Depth(t, n + 2) > e - 1}}
                                    \cup (IF x.kids THEN {n + 1} ELSE {})
  <1> DEFINE t == Append(s, x)
             n == Len(s)
             q == Depth(t, n + 2)
  <1>1. n \in Nat /\ m \in Nat
    BY Longer DEF Opened
  <1>2. \A i \in 1 .. n + 1 : Depth(t, i) = Depth(s, i)
    BY Depths
  <1>3. Above(t, n + 2) = {j \in Above(s, n + 1) : q > Depth(s, j)} \cup (IF x.kids THEN {n + 1} ELSE {})
    BY Containers
  <1>4. /\ o \in [1 .. m -> 1 .. n]
        /\ Depth(s, n + 1) = m
        /\ Above(s, n + 1) = {o[d] : d \in 1 .. m}
        /\ \A d \in 1 .. m : Depth(s, o[d]) = d - 1
    BY DEF Opened
  <1> HIDE DEF t, n, q
  <1>5. \A d \in 1 .. m : o[d] \in 1 .. n /\ o[d] \in 1 .. n + 1
    BY <1>1, <1>4
  <1>6. {j \in Above(s, n + 1) : q > Depth(s, j)} = {o[d] : d \in {e \in 1 .. m : q > e - 1}}
    BY <1>4
  <1> QED
    BY <1>1, <1>2, <1>3, <1>4, <1>5, <1>6 DEF t, n, q

LEMMA OpenPlain ==
    ASSUME NEW s \in Seq(Lexeme), NEW x \in Lexeme, NEW o, NEW m, Opened(o, s, m),
           ~ x.kids, x.id # "end"
    PROVE  Opened(o, Append(s, x), m)
  <1> DEFINE t == Append(s, x)
             n == Len(s)
  <1>1. /\ m \in Nat /\ n \in Nat
        /\ \A d \in 1 .. m : o[d] \in 1 .. n /\ Depth(t, o[d]) = d - 1
        /\ Depth(s, n + 1) = m
        /\ Above(t, n + 2) = {o[d] : d \in {e \in 1 .. m : Depth(t, n + 2) > e - 1}} \cup {}
    BY OpenStep
  <1>2. Depth(t, n + 2) = m
    BY <1>1, Depths
  <1>3. Len(t) = n + 1 /\ Len(t) + 1 = n + 2
    BY <1>1, Longer
  <1>4. o \in [1 .. m -> 1 .. n]
    BY DEF Opened
  <1> HIDE DEF t, n
  <1>5. {e \in 1 .. m : Depth(t, n + 2) > e - 1} = 1 .. m
    BY <1>1, <1>2
  <1>6. o \in [1 .. m -> 1 .. n + 1]
    BY <1>1, <1>4
  <1>7. Opened(o, t, m)
    BY <1>1, <1>2, <1>3, <1>5, <1>6 DEF Opened
  <1> QED
    BY <1>7 DEF t

LEMMA OpenPush ==
    ASSUME NEW s \in Seq(Lexeme), NEW x \in Lexeme, NEW o, NEW m, Opened(o, s, m), x.kids
    PROVE  Opened(Pushed(o, m, Len(s) + 1), Append(s, x), m + 1)
  <1> DEFINE t == Append(s, x)
             n == Len(s)
             w == Pushed(o, m, n + 1)
  <1>1. /\ m \in Nat /\ n \in Nat
        /\ \A d \in 1 .. m : o[d] \in 1 .. n /\ Depth(t, o[d]) = d - 1
        /\ Depth(s, n + 1) = m
        /\ Above(t, n + 2) = {o[d] : d \in {e \in 1 .. m : Depth(t, n + 2) > e - 1}} \cup {n + 1}
    BY OpenStep
  <1>2. Depth(t, n + 2) = m + 1
    BY <1>1, Depths
  <1>3. Len(t) = n + 1 /\ Len(t) + 1 = n + 2
    BY <1>1, Longer
  <1>4. Depth(t, n + 1) = m
    <2>1. n + 1 \in 1 .. n + 1
      BY <1>1
    <2> QED
      BY <1>1, <2>1, Depths
  <1> HIDE DEF t, n
  <1>5. /\ w = [d \in 1 .. m + 1 |-> w[d]] /\ w[m + 1] = n + 1
        /\ \A d \in 1 .. m : d \in 1 .. m + 1 /\ w[d] = o[d]
        /\ \A d \in 1 .. m + 1 : d \in 1 .. m \/ d = m + 1
        /\ m + 1 \in 1 .. m + 1
    BY <1>1 DEF Pushed
  <1> HIDE DEF w
  <1>6. {e \in 1 .. m : Depth(t, n + 2) > e - 1} = 1 .. m
    BY <1>1, <1>2
  <1>7. ASSUME NEW d \in 1 .. m + 1
        PROVE  w[d] \in 1 .. n + 1 /\ Depth(t, w[d]) = d - 1
    <2>1. CASE d \in 1 .. m
      <3>1. o[d] \in 1 .. n /\ Depth(t, o[d]) = d - 1 /\ w[d] = o[d]
        BY <1>1, <1>5, <2>1
      <3> QED
        BY <1>1, <3>1
    <2>2. CASE d = m + 1
      <3>1. n + 1 \in 1 .. n + 1 /\ d - 1 = m
        BY <1>1, <2>2
      <3> QED
        BY <1>4, <1>5, <2>2, <3>1
    <2> QED
      BY <1>5, <2>1, <2>2
  <1>8. w \in [1 .. m + 1 -> 1 .. n + 1]
    BY <1>5, <1>7
  <1>9. Above(t, n + 2) = {w[d] : d \in 1 .. m + 1}
    <2>1. \A d \in 1 .. m + 1 : d \in 1 .. m \/ d = m + 1
      BY <1>1
    <2>2. 1 .. m \subseteq 1 .. m + 1 /\ m + 1 \in 1 .. m + 1
      BY <1>1
    <2>3. {w[d] : d \in 1 .. m + 1} = {w[d] : d \in 1 .. m} \cup {w[m + 1]}
      BY <2>1, <2>2
    <2>4. {w[d] : d \in 1 .. m} = {o[d] : d \in 1 .. m} /\ w[m + 1] = n + 1
      <3>1. \A d \in 1 .. m : w[d] = o[d]
        BY <1>5
      <3>2. w[m + 1] = n + 1
        BY <1>5
      <3> QED
        BY ONLY <3>1, <3>2
    <2>5. Above(t, n + 2) = {o[d] : d \in 1 .. m} \cup {n + 1}
      BY ONLY <1>1, <1>6
    <2> QED
      BY ONLY <2>3, <2>4, <2>5
  <1>10. Opened(w, t, m + 1)
    BY <1>1, <1>2, <1>3, <1>7, <1>8, <1>9 DEF Opened
  <1> QED
    BY <1>10 DEF t, w, n

LEMMA OpenPop ==
    ASSUME NEW s \in Seq(Lexeme), NEW x \in Lexeme, NEW o, NEW m, Opened(o, s, m),
           x.id = "end", m # 0
    PROVE  Opened(Kept(o, m - 1), Append(s, x), m - 1)
  <1> DEFINE t == Append(s, x)
             n == Len(s)
             w == Kept(o, m - 1)
  <1>0. ~ x.kids
    BY LexemeFacts
  <1>1. /\ m \in Nat /\ n \in Nat
        /\ \A d \in 1 .. m : o[d] \in 1 .. n /\ Depth(t, o[d]) = d - 1
        /\ Depth(s, n + 1) = m
        /\ Above(t, n + 2) = {o[d] : d \in {e \in 1 .. m : Depth(t, n + 2) > e - 1}} \cup {}
    BY <1>0, OpenStep
  <1>2. Depth(t, n + 2) = m - 1
    BY <1>1, Depths
  <1>3. Len(t) = n + 1 /\ Len(t) + 1 = n + 2
    BY <1>1, Longer
  <1> HIDE DEF t, n
  <1>5. /\ w = [d \in 1 .. m - 1 |-> w[d]] /\ m - 1 \in Nat
        /\ \A d \in 1 .. m - 1 : d \in 1 .. m /\ w[d] = o[d]
    BY <1>1 DEF Kept
  <1> HIDE DEF w
  <1>6. {e \in 1 .. m : Depth(t, n + 2) > e - 1} = 1 .. m - 1
    BY <1>1, <1>2
  <1>7. \A d \in 1 .. m - 1 : w[d] \in 1 .. n + 1 /\ Depth(t, w[d]) = d - 1
    BY <1>1, <1>5
  <1>8. w \in [1 .. m - 1 -> 1 .. n + 1]
    BY <1>5, <1>7
  <1>9. Above(t, n + 2) = {w[d] : d \in 1 .. m - 1}
    BY <1>1, <1>5, <1>6
  <1>10. Opened(w, t, m - 1)
    BY <1>2, <1>3, <1>5, <1>7, <1>8, <1>9 DEF Opened
  <1> QED
    BY <1>10 DEF t, w, n

-----------------------------------------------------------------------------
(* What a package's own attributes say of it. *)

Descr == UNION {[D -> Nat] : D \in SUBSET Wanted}

LEMMA OwnWithin ==
    ASSUME NEW s \in Seq(Lexeme), NEW p
    PROVE  Own(s, p) \subseteq 1 .. Len(s)
  BY DEF Own, Body

\* A wanted id that an own attribute has, has a first one.
LEMMA FirstStands ==
    ASSUME NEW s \in Seq(Lexeme), NEW p, NEW id, id \in {s[i].id : i \in Own(s, p)}
    PROVE  (CHOOSE i \in FirstOf(s, p, id) : TRUE) \in FirstOf(s, p, id)
  <1> DEFINE S == {i \in Own(s, p) : s[i].id = id}
  <1>1. S \subseteq Nat
    BY OwnWithin
  <1>2. S # {}
    OBVIOUS
  <1> HIDE DEF S
  <1>3. PICK x \in S : \A y \in S : x <= y
    BY <1>1, <1>2, LeastNat
  <1>4. x \in FirstOf(s, p, id)
    BY <1>3 DEF S, FirstOf
  <1> QED
    BY <1>4

LEMMA FirstWithin ==
    ASSUME NEW s \in Seq(Lexeme), NEW p, NEW id
    PROVE  FirstOf(s, p, id) \subseteq 1 .. Len(s)
  BY OwnWithin DEF FirstOf

LEMMA DescribedType ==
    ASSUME NEW s \in Seq(Lexeme), NEW p
    PROVE  /\ Described(s, p) \in Descr
           /\ DOMAIN Described(s, p) = {s[i].id : i \in Own(s, p)} \cap Wanted
           /\ \A id \in DOMAIN Described(s, p) :
                 Described(s, p)[id] = Value(s, CHOOSE i \in FirstOf(s, p, id) : TRUE)
  <1> DEFINE D == {s[i].id : i \in Own(s, p)} \cap Wanted
             E == Described(s, p)
             FirstId(id) == CHOOSE i \in FirstOf(s, p, id) : TRUE
  <1>1. E = [id \in D |-> Value(s, FirstId(id))]
    BY DEF Described
  <1>2. ASSUME NEW id \in D
        PROVE  Value(s, FirstId(id)) \in Nat
    <2>1. FirstId(id) \in FirstOf(s, p, id)
      BY FirstStands
    <2>2. FirstId(id) \in 1 .. Len(s)
      BY <2>1, FirstWithin
    <2> HIDE DEF FirstId
    <2> QED
      BY <2>2 DEF Value
  <1>3. D \in SUBSET Wanted
    OBVIOUS
  <1> HIDE DEF D, E, FirstId
  <1>4. E \in [D -> Nat]
    BY <1>1, <1>2
  <1>5. E \in Descr
    BY <1>3, <1>4 DEF Descr
  <1>6. DOMAIN E = D /\ \A id \in D : E[id] = Value(s, FirstId(id))
    BY <1>1
  <1> QED
    BY <1>5, <1>6 DEF D, E, FirstId

\* The stream goes on and no attribute of the package comes.
LEMMA DescribedSame ==
    ASSUME NEW s \in Seq(Lexeme), NEW x \in Lexeme, NEW p,
           Own(Append(s, x), p) = Own(s, p)
    PROVE  Described(Append(s, x), p) = Described(s, p)
  <1> DEFINE t == Append(s, x)
             W == Own(s, p)
             FirstId(id) == CHOOSE i \in FirstOf(s, p, id) : TRUE
             D == {s[i].id : i \in W} \cap Wanted
  <1>1. /\ \A i \in 1 .. Len(s) : t[i] = s[i]
        /\ t \in Seq(Lexeme)
    BY Longer
  <1>2. W \subseteq 1 .. Len(s)
    BY OwnWithin
  <1>3. Own(t, p) = W
    OBVIOUS
  <1> HIDE DEF t
  <1>4. \A id : FirstOf(t, p, id) = FirstOf(s, p, id)
    <2> SUFFICES ASSUME NEW id
                 PROVE  FirstOf(t, p, id) = FirstOf(s, p, id)
      OBVIOUS
    <2>1. FirstOf(t, p, id) = {i \in W : t[i].id = id /\ \A j \in W : t[j].id = id => i <= j}
      BY <1>3 DEF FirstOf
    <2>2. FirstOf(s, p, id) = {i \in W : s[i].id = id /\ \A j \in W : s[j].id = id => i <= j}
      BY DEF FirstOf
    <2> QED
      BY <1>1, <1>2, <2>1, <2>2
  <1>5. {t[i].id : i \in W} = {s[i].id : i \in W}
    BY <1>1, <1>2
  <1>6. \A id \in D : Value(t, FirstId(id)) = Value(s, FirstId(id))
    <2> SUFFICES ASSUME NEW id \in D
                 PROVE  Value(t, FirstId(id)) = Value(s, FirstId(id))
      OBVIOUS
    <2>1. FirstId(id) \in FirstOf(s, p, id)
      BY FirstStands
    <2>2. FirstId(id) \in 1 .. Len(s)
      BY <2>1, FirstWithin
    <2> HIDE DEF FirstId
    <2> QED
      BY <1>1, <2>2 DEF Value
  <1>7. Described(t, p) = [id \in D |-> Value(t, FirstId(id))]
    <2> DEFINE FirstT(id) == CHOOSE i \in FirstOf(t, p, id) : TRUE
    <2>1. Described(t, p) = [id \in {t[i].id : i \in Own(t, p)} \cap Wanted |-> Value(t, FirstT(id))]
      BY DEF Described
    <2>2. \A id : FirstT(id) = FirstId(id)
      BY <1>4
    <2>3. {t[i].id : i \in Own(t, p)} \cap Wanted = D
      BY <1>3, <1>5
    <2> HIDE DEF FirstT, FirstId, D
    <2> QED
      BY <2>1, <2>2, <2>3
  <1>8. Described(s, p) = [id \in D |-> Value(s, FirstId(id))]
    BY DEF Described
  <1> HIDE DEF D, FirstId
  <1> QED
    BY <1>6, <1>7, <1>8 DEF t

\* One more attribute of the package: its value stands where none stood.
LEMMA DescribedMore ==
    ASSUME NEW s \in Seq(Lexeme), NEW x \in Lexeme, NEW p,
           Own(Append(s, x), p) = Own(s, p) \cup {Len(s) + 1}
    PROVE  Described(Append(s, x), p)
           = With(Described(s, p), x.id, IF x.void THEN 0 ELSE Len(s) + 1)
  <1> DEFINE t == Append(s, x)
             n == Len(s)
             W == Own(s, p)
             v == IF x.void THEN 0 ELSE n + 1
             FirstId(id) == CHOOSE i \in FirstOf(s, p, id) : TRUE
             FirstT(id) == CHOOSE i \in FirstOf(t, p, id) : TRUE
             D == {s[i].id : i \in W} \cap Wanted
             E == {t[i].id : i \in W \cup {n + 1}} \cap Wanted
  <1>1. /\ \A i \in 1 .. n : t[i] = s[i]
        /\ t \in Seq(Lexeme)
        /\ n \in Nat /\ t[n + 1] = x
    BY Longer
  <1>2. W \subseteq 1 .. n
    BY OwnWithin
  <1>3. Own(t, p) = W \cup {n + 1}
    OBVIOUS
  <1> HIDE DEF t
  <1>4. \A id : FirstOf(t, p, id) = {i \in W \cup {n + 1} : t[i].id = id /\ \A j \in W \cup {n + 1} : t[j].id = id => i <= j}
    BY <1>3 DEF FirstOf
  <1>5. \A id : FirstOf(s, p, id) = {i \in W : s[i].id = id /\ \A j \in W : s[j].id = id => i <= j}
    BY DEF FirstOf
  <1>a. \A j \in W : j \in 1 .. n /\ t[j] = s[j]
    BY <1>1, <1>2
  <1>6. ASSUME NEW id \in D
        PROVE  FirstT(id) = FirstId(id) /\ Value(t, FirstId(id)) = Value(s, FirstId(id))
    <2>1. FirstId(id) \in FirstOf(s, p, id)
      BY FirstStands
    <2>2. FirstId(id) \in 1 .. n
      BY <2>1, FirstWithin
    <2>3. PICK k \in W : s[k].id = id
      OBVIOUS
    <2>4. FirstOf(t, p, id) = FirstOf(s, p, id)
      <3> HIDE DEF D, W, FirstId, n
      <3>1. ASSUME NEW i \in FirstOf(t, p, id)
            PROVE  i \in FirstOf(s, p, id)
        <4>1. i \in W \cup {n + 1} /\ t[i].id = id /\ \A j \in W \cup {n + 1} : t[j].id = id => i <= j
          BY <1>4
        <4>2. t[k].id = id /\ k \in W \cup {n + 1} /\ k \in 1 .. n
          BY <1>a, <2>3
        <4>3. i <= k
          BY <4>1, <4>2
        <4>4. i # n + 1
          BY <1>1, <4>2, <4>3
        <4>5. i \in W
          BY <4>1, <4>4
        <4>6. s[i].id = id /\ \A j \in W : s[j].id = id => i <= j
          BY <1>a, <4>1, <4>5
        <4> QED
          BY <1>5, <4>5, <4>6
      <3>2. ASSUME NEW i \in FirstOf(s, p, id)
            PROVE  i \in FirstOf(t, p, id)
        <4>1. i \in W /\ s[i].id = id /\ \A j \in W : s[j].id = id => i <= j
          BY <1>5
        <4>2. i <= n + 1 /\ t[i].id = id
          BY <1>1, <1>a, <4>1
        <4>3. \A j \in W \cup {n + 1} : t[j].id = id => i <= j
          BY <1>a, <4>1, <4>2
        <4> QED
          BY <1>4, <4>1, <4>2, <4>3
      <3> QED
        BY <3>1, <3>2
    <2>5. FirstT(id) = FirstId(id)
      BY <2>4
    <2> HIDE DEF FirstId, FirstT
    <2> QED
      BY <1>1, <2>2, <2>5 DEF Value
  <1>7. ASSUME x.id \in Wanted \ D
        PROVE  Value(t, FirstT(x.id)) = v
    <2>1. \A j \in W : t[j].id # x.id
      BY <1>a, <1>7
    <2>2. FirstOf(t, p, x.id) = {n + 1}
      <3> HIDE DEF n, W
      <3> QED
        BY <1>1, <1>4, <2>1
    <2>3. FirstT(x.id) = n + 1
      BY <2>2
    <2> HIDE DEF FirstT, n
    <2> QED
      BY <1>1, <2>3 DEF Value
  <1>8. E = (IF x.id \in Wanted \ D THEN D \cup {x.id} ELSE D)
    <2>1. {t[i].id : i \in W \cup {n + 1}} = {s[i].id : i \in W} \cup {x.id}
      <3> HIDE DEF W, n
      <3> QED
        BY <1>1, <1>a
    <2> QED
      BY <2>1
  <1>9. Described(t, p) = [id \in E |-> Value(t, FirstT(id))]
    BY <1>3 DEF Described
  <1>10. Described(s, p) = [id \in D |-> Value(s, FirstId(id))]
    BY DEF Described
  <1>11. With(Described(s, p), x.id, v)
         = IF x.id \in Wanted \ D
           THEN [k \in D \cup {x.id} |-> IF k = x.id THEN v ELSE Described(s, p)[k]]
           ELSE Described(s, p)
    BY <1>10 DEF With
  <1> HIDE DEF E, D, FirstId, FirstT, v
  <1>12. Described(t, p) = With(Described(s, p), x.id, v)
    <2>1. CASE x.id \in Wanted \ D
      <3>1. \A k \in D : k # x.id
        BY <2>1
      <3>2. Described(t, p) = [id \in D \cup {x.id} |-> Value(t, FirstT(id))]
        BY <1>8, <1>9, <2>1
      <3>3. \A k \in D : Described(s, p)[k] = Value(s, FirstId(k))
        BY <1>10
      <3>4. \A k \in D \cup {x.id} : Value(t, FirstT(k)) = IF k = x.id THEN v ELSE Described(s, p)[k]
        BY <1>6, <1>7, <2>1, <3>1, <3>3
      <3> QED
        BY <1>11, <2>1, <3>2, <3>4
    <2>2. CASE x.id \notin Wanted \ D
      BY <1>6, <1>8, <1>9, <1>10, <1>11, <2>2
    <2> QED
      BY <2>1, <2>2
  <1> QED
    BY <1>12 DEF t, v

\* Every list that is open within the top one is that of a version.
Majors(o, s, m) == \A d \in 2 .. m : s[o[d]].id = "major"
OpenTop(o, m)   == IF m = 0 THEN {} ELSE {o[1]}

LEMMA OwnStep ==
    ASSUME NEW s \in Seq(Lexeme), NEW x \in Lexeme, NEW o, NEW m, Opened(o, s, m)
    PROVE  LET t == Append(s, x)
               n == Len(s)
           IN  /\ \A p \in Tops(s) :
                     Own(t, p) = Own(s, p) \cup (IF /\ x.id # "end" /\ m # 0 /\ p = o[1]
                                                    /\ Majors(o, s, m)
                                                 THEN {n + 1} ELSE {})
               /\ Own(t, n + 1) = {}
               /\ Tops(t) = Tops(s) \cup (IF x.id = "package" /\ m = 0 THEN {n + 1} ELSE {})
  <1> DEFINE t == Append(s, x)
             n == Len(s)
  <1>1. /\ n \in Nat /\ t \in Seq(Lexeme) /\ Len(t) = n + 1
        /\ DOMAIN s = 1 .. n /\ DOMAIN t = 1 .. n + 1
        /\ \A i \in 1 .. n : t[i] = s[i]
        /\ t[n + 1] = x
    BY Longer
  <1>2. /\ \A i \in 1 .. n + 1 : Depth(t, i) = Depth(s, i)
        /\ \A i \in 1 .. n + 1 : Above(t, i) = Above(s, i)
    BY Depths, Containers
  <1>3. /\ m \in Nat /\ Depth(s, n + 1) = m
        /\ Above(s, n + 1) = {o[d] : d \in 1 .. m}
        /\ \A d \in 1 .. m : o[d] \in 1 .. n /\ Depth(s, o[d]) = d - 1
    BY DEF Opened
  <1> HIDE DEF t, n
  <1>4. \A i \in 1 .. n : i \in 1 .. n + 1
    BY <1>1
  <1>5. n + 1 \in 1 .. n + 1 /\ n + 1 \notin 1 .. n /\ \A i \in 1 .. n + 1 : i \in 1 .. n \/ i = n + 1
    BY <1>1
  <1>6. Body(t) = Body(s) \cup (IF x.id # "end" THEN {n + 1} ELSE {})
    <2>1. \A i \in 1 .. n : i \in Body(t) <=> i \in Body(s)
      BY <1>1, <1>2, <1>4 DEF Body
    <2>2. n + 1 \in Body(t) <=> x.id # "end"
      <3>1. Depth(t, n + 1) >= 0
        BY <1>2, <1>3, <1>5
      <3> QED
        BY <1>1, <1>5, <3>1 DEF Body
    <2>3. Body(t) \subseteq 1 .. n + 1 /\ Body(s) \subseteq 1 .. n
      BY <1>1 DEF Body
    <2> QED
      BY <1>5, <2>1, <2>2, <2>3
  <1>7. Body(s) \subseteq 1 .. n
    BY <1>1 DEF Body
  <1>8. Tops(t) = Tops(s) \cup (IF x.id = "package" /\ m = 0 THEN {n + 1} ELSE {})
    <2>1. \A i \in 1 .. n : i \in Tops(t) <=> i \in Tops(s)
      BY <1>1, <1>2, <1>4, <1>5, <1>6 DEF Tops
    <2>2. n + 1 \in Tops(t) <=> x.id = "package" /\ m = 0
      <3>1. Depth(t, n + 1) = m
        BY <1>2, <1>3, <1>5
      <3> QED
        BY <1>1, <1>6, <3>1 DEF Tops
    <2>3. Tops(t) \subseteq 1 .. n + 1 /\ Tops(s) \subseteq 1 .. n
      BY <1>4, <1>5, <1>6, <1>7 DEF Tops
    <2> QED
      BY <1>5, <2>1, <2>2, <2>3
  <1>9. Own(t, n + 1) = {}
    <2>1. \A i \in 1 .. n + 1 : n + 1 \notin Above(t, i)
      <3> SUFFICES ASSUME NEW i \in 1 .. n + 1
                   PROVE  n + 1 \notin 1 .. i - 1
        BY DEF Above
      <3> QED
        BY <1>1
    <2>2. Body(t) \subseteq 1 .. n + 1
      BY <1>1 DEF Body
    <2> QED
      BY <2>1, <2>2 DEF Own
  <1>10. ASSUME NEW p \in Tops(s)
         PROVE  Own(t, p) = Own(s, p) \cup (IF /\ x.id # "end" /\ m # 0 /\ p = o[1]
                                               /\ Majors(o, s, m)
                                            THEN {n + 1} ELSE {})
    <2>1. \A i \in 1 .. n : i \in Own(t, p) <=> i \in Own(s, p)
      <3> SUFFICES ASSUME NEW i \in 1 .. n
                   PROVE  i \in Own(t, p) <=> i \in Own(s, p)
        OBVIOUS
      <3>1. Above(t, i) = Above(s, i)
        BY <1>2, <1>4
      <3>2. \A j \in Above(s, i) : t[j] = s[j]
        <4>1. \A j \in 1 .. i - 1 : j \in 1 .. n
          BY <1>1
        <4> QED
          BY <1>1, <4>1 DEF Above
      <3>3. i \in Body(t) <=> i \in Body(s)
        BY <1>5, <1>6
      <3> QED
        BY <3>1, <3>2, <3>3 DEF Own
    <2>2. Depth(s, p) = 0
      BY DEF Tops
    <2>3. n + 1 \in Own(t, p) <=> /\ x.id # "end" /\ m # 0 /\ p = o[1] /\ Majors(o, s, m)
      <3>1. n + 1 \in Own(t, p)
            <=> /\ x.id # "end" /\ p \in Above(s, n + 1)
                /\ \A j \in Above(s, n + 1) \ {p} : t[j].id = "major"
        <4>1. Above(t, n + 1) = Above(s, n + 1)
          BY <1>2, <1>5
        <4>2. n + 1 \in Body(t) <=> x.id # "end"
          BY <1>5, <1>6, <1>7
        <4> QED
          BY <4>1, <4>2 DEF Own
      <3>2. p \in Above(s, n + 1) <=> m # 0 /\ p = o[1]
        <4>1. ASSUME p \in Above(s, n + 1)
              PROVE  m # 0 /\ p = o[1]
          <5>1. PICK d \in 1 .. m : p = o[d]
            BY <1>3, <4>1
          <5>2. d - 1 = 0
            BY <1>3, <2>2, <5>1
          <5>3. d = 1 /\ m # 0
            BY <1>3, <5>2
          <5> QED
            BY <5>1, <5>3
        <4>2. ASSUME m # 0 /\ p = o[1]
              PROVE  p \in Above(s, n + 1)
          <5>1. 1 \in 1 .. m
            BY <1>3, <4>2
          <5> QED
            BY <1>3, <4>2, <5>1
        <4> QED
          BY <4>1, <4>2
      <3>3. ASSUME m # 0, p = o[1]
            PROVE  (\A j \in Above(s, n + 1) \ {p} : t[j].id = "major") <=> Majors(o, s, m)
        <4>1. \A d \in 1 .. m : o[d] # p <=> d \in 2 .. m
          <5> SUFFICES ASSUME NEW d \in 1 .. m
                       PROVE  o[d] # p <=> d \in 2 .. m
            OBVIOUS
          <5>1. Depth(s, o[d]) = d - 1
            BY <1>3
          <5>2. CASE d = 1
            BY <3>3, <5>2
          <5>3. CASE d # 1
            <6>1. d - 1 # 0 /\ d \in 2 .. m
              BY <1>3, <5>3
            <6> QED
              BY <2>2, <5>1, <6>1
          <5> QED
            BY <5>2, <5>3
        <4>2. \A d \in 2 .. m : d \in 1 .. m
          BY <1>3
        <4>3. \A d \in 1 .. m : t[o[d]] = s[o[d]]
          BY <1>1, <1>3
        <4>4. Above(s, n + 1) \ {p} = {o[d] : d \in 2 .. m}
          BY <1>3, <4>1, <4>2
        <4>5. (\A j \in Above(s, n + 1) \ {p} : t[j].id = "major") <=> \A d \in 2 .. m : t[o[d]].id = "major"
          BY <4>4
        <4>6. (\A d \in 2 .. m : t[o[d]].id = "major") <=> \A d \in 2 .. m : s[o[d]].id = "major"
          BY <4>2, <4>3
        <4> QED
          BY <4>5, <4>6 DEF Majors
      <3> QED
        BY <3>1, <3>2, <3>3
    <2>4. Own(t, p) \subseteq 1 .. n + 1 /\ Own(s, p) \subseteq 1 .. n
      BY <1>1 DEF Own, Body
    <2> QED
      BY <1>5, <2>1, <2>3, <2>4
  <1> QED
    BY <1>8, <1>9, <1>10 DEF t, n

\* No top stands behind the one that is open.
LEMMA TopsOrder ==
    ASSUME NEW s \in Seq(Lexeme), NEW o, NEW m, Opened(o, s, m), m # 0
    PROVE  \A q \in Tops(s) : q <= o[1]
  <1> DEFINE n == Len(s)
  <1>1. /\ m \in Nat /\ n \in Nat /\ 1 \in 1 .. m
        /\ o[1] \in 1 .. n /\ o[1] \in Above(s, n + 1) /\ Depth(s, o[1]) = 1 - 1
    BY DEF Opened
  <1> SUFFICES ASSUME NEW q \in Tops(s), ~ (q <= o[1])
               PROVE  FALSE
    OBVIOUS
  <1>2. q \in 1 .. n /\ Depth(s, q) = 0
    BY DEF Tops, Body
  <1>3. q \in o[1] + 1 .. n + 1
    BY <1>1, <1>2
  <1>4. Depth(s, q) > Depth(s, o[1])
    BY <1>1, <1>3 DEF Above
  <1> QED
    BY <1>1, <1>2, <1>4

HasName(D) == "name" \in DOMAIN D /\ D["name"] # 0

LEMMA NamedStep ==
    ASSUME NEW s \in Seq(Lexeme), NEW x \in Lexeme, NEW o, NEW m, Opened(o, s, m)
    PROVE  LET t == Append(s, x)
               Q == Named(s) \ OpenTop(o, m)
           IN  /\ Named(t) \ OpenTop(o, m) = Q
               /\ Len(s) + 1 \notin Named(t)
               /\ \A p \in Q : Described(t, p) = Described(s, p)
  <1> DEFINE t == Append(s, x)
             n == Len(s)
  <1>1. /\ \A p \in Tops(s) :
              Own(t, p) = Own(s, p) \cup (IF /\ x.id # "end" /\ m # 0 /\ p = o[1]
                                             /\ Majors(o, s, m)
                                          THEN {n + 1} ELSE {})
        /\ Own(t, n + 1) = {}
        /\ Tops(t) = Tops(s) \cup (IF x.id = "package" /\ m = 0 THEN {n + 1} ELSE {})
    BY OwnStep
  <1>2. ASSUME NEW p \in Tops(s) \ OpenTop(o, m)
        PROVE  Described(t, p) = Described(s, p)
    <2>1. Own(t, p) = Own(s, p)
      BY <1>1 DEF OpenTop
    <2> QED
      BY <2>1, DescribedSame
  <1>3. t \in Seq(Lexeme)
    BY Longer
  <1>4. n + 1 \notin Named(t)
    <2>1. DOMAIN Described(t, n + 1) = {t[i].id : i \in Own(t, n + 1)} \cap Wanted
      BY <1>3, DescribedType
    <2>2. DOMAIN Described(t, n + 1) = {}
      BY <1>1, <2>1
    <2> QED
      BY <2>2 DEF Named
  <1>5. Named(t) \ OpenTop(o, m) = Named(s) \ OpenTop(o, m)
    <2> HIDE DEF t, n
    <2>1. \A p \in Tops(s) \ OpenTop(o, m) : p \in Named(t) <=> p \in Named(s)
      BY <1>1, <1>2 DEF Named
    <2>2. Named(s) \subseteq Tops(s) /\ Named(t) \subseteq Tops(s) \cup {n + 1}
      BY <1>1 DEF Named
    <2> QED
      BY <1>4, <2>1, <2>2
  <1>6. \A p \in Named(s) \ OpenTop(o, m) : Described(t, p) = Described(s, p)
    BY <1>2 DEF Named
  <1> QED
    BY <1>4, <1>5, <1>6

\* l lists the packages Q of the stream, in their order.
Listed(l, Q, s) ==
    /\ Len(l) = Cardinality(Q)
    /\ \A p \in Q : l[Cardinality({q \in Q : q <= p})] = Described(s, p)

LEMMA ListedMore ==
    ASSUME NEW n \in Nat, NEW Q \in SUBSET (1 .. n), NEW p \in 1 .. n, NEW s,
           \A q \in Q : q < p,
           NEW S, NEW l \in Seq(S), Listed(l, Q, s)
    PROVE  Listed(Append(l, Described(s, p)), Q \cup {p}, s)
  <1> DEFINE R == Q \cup {p}
             e == Append(l, Described(s, p))
             c == Cardinality(Q)
             K(q) == {r \in Q : r <= q}
             M(q) == {r \in R : r <= q}
  <1>1. IsFiniteSet(Q) /\ c \in Nat /\ p \notin Q
    <2>1. IsFiniteSet(1 .. n)
      BY FS_Interval
    <2>2. IsFiniteSet(Q) /\ c \in Nat
      BY <2>1, FS_Subset, FS_CardinalityType
    <2> QED
      BY <2>2
  <1>2. Cardinality(R) = c + 1
    BY <1>1, FS_AddElement
  <1>3. Len(l) = c /\ \A q \in Q : l[Cardinality(K(q))] = Described(s, q)
    BY DEF Listed
  <1> HIDE DEF c
  <1>4. Len(e) = c + 1 /\ e[c + 1] = Described(s, p) /\ \A i \in 1 .. c : e[i] = l[i]
    BY <1>1, <1>3
  <1>5. M(p) = R
    <2>1. \A r \in R : r <= p
      OBVIOUS
    <2> HIDE DEF R
    <2> QED
      BY <2>1
  <1>6. ASSUME NEW q \in Q
        PROVE  M(q) = K(q) /\ Cardinality(K(q)) \in 1 .. c
    <2>1. M(q) = K(q)
      OBVIOUS
    <2>2. K(q) \subseteq Q /\ {q} \subseteq K(q)
      OBVIOUS
    <2> HIDE DEF K, M
    <2>3. IsFiniteSet(K(q)) /\ Cardinality(K(q)) \in Nat /\ Cardinality(K(q)) <= c
      BY <1>1, <2>2, FS_Subset, FS_CardinalityType DEF c
    <2>4. Cardinality({q}) <= Cardinality(K(q))
      BY <2>2, <2>3, FS_Subset
    <2>5. Cardinality({q}) = 1
      BY FS_Singleton
    <2> QED
      BY <1>1, <2>1, <2>3, <2>4, <2>5
  <1> HIDE DEF e, K
  <1>7. \A q \in R : e[Cardinality(M(q))] = Described(s, q)
    <2> HIDE DEF M
    <2>1. \A q \in Q : e[Cardinality(M(q))] = Described(s, q)
      BY <1>3, <1>4, <1>6
    <2>2. e[Cardinality(M(p))] = Described(s, p)
      BY <1>2, <1>4, <1>5
    <2> QED
      BY <2>1, <2>2
  <1> HIDE DEF R
  <1>8. Listed(e, R, s)
    BY <1>2, <1>4, <1>7 DEF Listed
  <1> QED
    BY <1>8 DEF R, e

\* The list of the top package ends.
LEMMA CloseTop ==
    ASSUME NEW s \in Seq(Lexeme), NEW p \in Tops(s), \A q \in Tops(s) : q <= p,
           NEW S, NEW l \in Seq(S), Listed(l, Named(s) \ {p}, s),
           NEW d, d = Described(s, p),
           NEW e, e = IF HasName(d) THEN Append(l, d) ELSE l
    PROVE  Listed(e, Named(s), s)
  <1> DEFINE Q == Named(s) \ {p}
  <1>1. Named(s) = IF HasName(d) THEN Q \cup {p} ELSE Q
    BY DEF Named, HasName
  <1>2. Tops(s) \in SUBSET (1 .. Len(s)) /\ Len(s) \in Nat
    BY DEF Tops, Body
  <1>3. Q \in SUBSET (1 .. Len(s)) /\ p \in 1 .. Len(s) /\ Q \subseteq Tops(s) /\ p \notin Q
    BY <1>2 DEF Named
  <1> HIDE DEF Q
  <1>4. \A q \in Q : q < p
    BY <1>2, <1>3
  <1>5. CASE HasName(d)
    <2>1. Listed(Append(l, Described(s, p)), Q \cup {p}, s)
      BY <1>2, <1>3, <1>4, ListedMore DEF Q
    <2> QED
      BY <1>1, <1>5, <2>1
  <1>6. CASE ~ HasName(d)
    BY <1>1, <1>6 DEF Q
  <1> QED
    BY <1>5, <1>6

-----------------------------------------------------------------------------
(* What the reader holds, and how a lexeme changes it. *)

Collecting(o, s, e) == s[o[1]].id = "package" /\ Majors(o, s, e)
Mode(o, s, e) == IF e = 0 THEN "walk" ELSE IF Collecting(o, s, e) THEN "collect" ELSE "skip"

Frames == {"walk", "collect", "skip"}

\* st are the calls at work, b the package, l the packages listed.
Reading(o, s, st, b, l) ==
    LET m == Len(st) - 1
    IN  /\ Opened(o, s, m)
        /\ \A e \in 0 .. m : st[e + 1] = Mode(o, s, e)
        /\ m # 0 /\ s[o[1]].id = "package" => b = Described(s, o[1])
        /\ Listed(l, Named(s) \ OpenTop(o, m), s)

LEMMA FirstSame ==
    ASSUME NEW s \in Seq(Lexeme), NEW x \in Lexeme, NEW m \in Nat, NEW o \in [1 .. m -> 1 .. Len(s)],
           NEW e \in 0 .. m, NEW w, \A d \in 1 .. e : w[d] = o[d]
    PROVE  e # 0 => Append(s, x)[w[1]] = s[o[1]]
  <1> DEFINE t == Append(s, x)
  <1>1. \A i \in 1 .. Len(s) : t[i] = s[i]
    BY Longer
  <1>2. \A d \in 1 .. e : w[d] = o[d] /\ o[d] \in 1 .. Len(s)
    OBVIOUS
  <1>3. e # 0 => 1 \in 1 .. e
    OBVIOUS
  <1> HIDE DEF t
  <1>4. e # 0 => t[w[1]] = s[o[1]]
    BY <1>1, <1>2, <1>3
  <1> QED
    BY <1>4 DEF t

LEMMA ModeSame ==
    ASSUME NEW s \in Seq(Lexeme), NEW x \in Lexeme, NEW m \in Nat, NEW o \in [1 .. m -> 1 .. Len(s)],
           NEW e \in 0 .. m, NEW w, \A d \in 1 .. e : w[d] = o[d]
    PROVE  /\ Mode(w, Append(s, x), e) = Mode(o, s, e)
           /\ e # 0 => Append(s, x)[w[1]] = s[o[1]]
  <1> DEFINE t == Append(s, x)
  <1>1. \A i \in 1 .. Len(s) : t[i] = s[i]
    BY Longer
  <1>2. \A d \in 1 .. e : t[w[d]] = s[o[d]]
    BY <1>1
  <1> HIDE DEF t
  <1>3. e # 0 => t[w[1]] = s[o[1]]
    <2>1. e # 0 => 1 \in 1 .. e
      OBVIOUS
    <2> QED
      BY <1>2, <2>1
  <1>4. e # 0 => (Majors(w, t, e) <=> Majors(o, s, e))
    <2>1. \A d \in 2 .. e : d \in 1 .. e
      OBVIOUS
    <2> QED
      BY <1>2, <2>1 DEF Majors
  <1> QED
    BY <1>3, <1>4 DEF Mode, Collecting, t

LEMMA PkgStep ==
    ASSUME NEW s \in Seq(Lexeme), NEW x \in Lexeme, NEW o, NEW m, Opened(o, s, m), m # 0,
           s[o[1]].id = "package"
    PROVE  Described(Append(s, x), o[1])
           = IF x.id # "end" /\ Mode(o, s, m) = "collect"
             THEN With(Described(s, o[1]), x.id, IF x.void THEN 0 ELSE Len(s) + 1)
             ELSE Described(s, o[1])
  <1>1. m \in Nat /\ 1 \in 1 .. m /\ o[1] \in 1 .. Len(s) /\ Depth(s, o[1]) = 1 - 1
    BY DEF Opened
  <1>2. o[1] \in Tops(s)
    BY <1>1 DEF Tops, Body
  <1>3. Own(Append(s, x), o[1])
        = Own(s, o[1]) \cup (IF x.id # "end" /\ Majors(o, s, m) THEN {Len(s) + 1} ELSE {})
    BY <1>2, OwnStep
  <1>4. Mode(o, s, m) = "collect" <=> Majors(o, s, m)
    BY DEF Mode, Collecting
  <1>5. CASE x.id # "end" /\ Majors(o, s, m)
    BY <1>3, <1>4, <1>5, DescribedMore
  <1>6. CASE ~ (x.id # "end" /\ Majors(o, s, m))
    <2>1. Own(Append(s, x), o[1]) = Own(s, o[1])
      BY <1>3, <1>6
    <2> QED
      BY <1>4, <1>6, <2>1, DescribedSame
  <1> QED
    BY <1>5, <1>6

LEMMA ListedStep ==
    ASSUME NEW s \in Seq(Lexeme), NEW x \in Lexeme, NEW o, NEW m, Opened(o, s, m),
           NEW l, Listed(l, Named(s) \ OpenTop(o, m), s)
    PROVE  Listed(l, Named(Append(s, x)) \ OpenTop(o, m), Append(s, x))
  <1> DEFINE t == Append(s, x)
             Q == Named(s) \ OpenTop(o, m)
  <1>1. Named(t) \ OpenTop(o, m) = Q /\ \A p \in Q : Described(t, p) = Described(s, p)
    BY NamedStep
  <1> HIDE DEF Q, t
  <1>2. Listed(l, Q, s)
    BY DEF Q
  <1>3. Listed(l, Q, t)
    BY <1>1, <1>2 DEF Listed
  <1> QED
    BY <1>1, <1>3 DEF t

\* What the package at work is after x.
Worked(st, b, n, x) == IF Last(st) = "collect"
                       THEN With(b, x.id, IF x.void THEN 0 ELSE n + 1) ELSE b

LEMMA TopMode ==
    ASSUME NEW s, NEW o, NEW st \in Seq(Frames), st # <<>>, NEW b, NEW l, Reading(o, s, st, b, l)
    PROVE  LET m == Len(st) - 1
           IN  /\ m \in Nat /\ m + 1 = Len(st) /\ Opened(o, s, m)
               /\ (m = 0 => Len(st) = 1) /\ (m # 0 => Len(st) # 1)
               /\ Last(st) = Mode(o, s, m)
               /\ \A e \in 0 .. m : st[e + 1] = Mode(o, s, e)
               /\ m # 0 => (st[2] = "collect" <=> s[o[1]].id = "package")
  <1> DEFINE m == Len(st) - 1
  <1>1. m \in Nat /\ m + 1 = Len(st) /\ (m = 0 <=> Len(st) = 1)
    OBVIOUS
  <1>2. Opened(o, s, m) /\ \A e \in 0 .. m : st[e + 1] = Mode(o, s, e)
    BY DEF Reading
  <1> HIDE DEF m
  <1>3. Last(st) = Mode(o, s, m)
    <2>1. m \in 0 .. m
      BY <1>1
    <2> QED
      BY <1>1, <1>2, <2>1 DEF Last
  <1>4. m # 0 => (st[2] = "collect" <=> s[o[1]].id = "package")
    <2> SUFFICES ASSUME m # 0
                 PROVE  st[2] = "collect" <=> s[o[1]].id = "package"
      OBVIOUS
    <2>1. 1 \in 0 .. m /\ 1 + 1 = 2
      BY <1>1
    <2>2. st[2] = Mode(o, s, 1)
      BY <1>2, <2>1
    <2>3. Majors(o, s, 1)
      BY DEF Majors
    <2> QED
      BY <2>2, <2>3 DEF Mode, Collecting
  <1> QED
    BY <1>1, <1>2, <1>3, <1>4 DEF m

LEMMA ReadPlain ==
    ASSUME NEW s \in Seq(Lexeme), NEW x \in Lexeme, NEW o, NEW st \in Seq(Frames), st # <<>>,
           NEW b, NEW l, Reading(o, s, st, b, l), ~ x.kids, x.id # "end"
    PROVE  Reading(o, Append(s, x), st, Worked(st, b, Len(s), x), l)
  <1> DEFINE m == Len(st) - 1
             t == Append(s, x)
             c == Worked(st, b, Len(s), x)
  <1>1. /\ m \in Nat /\ Opened(o, s, m)
        /\ Last(st) = Mode(o, s, m)
        /\ \A e \in 0 .. m : st[e + 1] = Mode(o, s, e)
    <2>1. m \in Nat /\ Opened(o, s, m)
      BY TopMode
    <2>2. Last(st) = Mode(o, s, m)
      BY TopMode
    <2>3. \A e \in 0 .. m : st[e + 1] = Mode(o, s, e)
      BY DEF Reading
    <2> QED
      BY <2>1, <2>2, <2>3
  <1>2. /\ m # 0 /\ s[o[1]].id = "package" => b = Described(s, o[1])
        /\ Listed(l, Named(s) \ OpenTop(o, m), s)
    BY DEF Reading
  <1>3. o \in [1 .. m -> 1 .. Len(s)]
    BY <1>1 DEF Opened
  <1> HIDE DEF m
  <1>4. Opened(o, t, m)
    BY <1>1, OpenPlain
  <1>5. \A e \in 0 .. m : Mode(o, t, e) = Mode(o, s, e)
    BY <1>1, <1>3, ModeSame
  <1>6. m # 0 => t[o[1]] = s[o[1]]
    <2>1. m \in 0 .. m
      BY <1>1
    <2> QED
      BY <1>1, <1>3, <2>1, ModeSame
  <1>7. m # 0 /\ t[o[1]].id = "package" => c = Described(t, o[1])
    BY <1>1, <1>2, <1>6, PkgStep DEF Worked
  <1>8. Listed(l, Named(t) \ OpenTop(o, m), t)
    BY <1>1, <1>2, ListedStep
  <1> HIDE DEF t, c
  <1>9. Reading(o, t, st, c, l)
    BY <1>1, <1>4, <1>5, <1>7, <1>8 DEF Reading, m
  <1> QED
    BY <1>9 DEF t, c

\* What is called for the list of x.
Called(st, x) == IF Len(st) = 1
                 THEN IF x.id = "package" THEN "collect" ELSE "skip"
                 ELSE IF Last(st) = "collect" THEN Descends(x.id) ELSE "skip"
\* The package at work, within the list of x.
Started(st, b, n, x) == IF Len(st) = 1 /\ x.id = "package" THEN Empty ELSE Worked(st, b, n, x)

LEMMA ReadPush ==
    ASSUME NEW s \in Seq(Lexeme), NEW x \in Lexeme, NEW o, NEW st \in Seq(Frames), st # <<>>,
           NEW b, NEW l, Reading(o, s, st, b, l), x.kids
    PROVE  Reading(Pushed(o, Len(st) - 1, Len(s) + 1), Append(s, x), Append(st, Called(st, x)),
                   Started(st, b, Len(s), x), l)
  <1> DEFINE m == Len(st) - 1
  <1>1. /\ m \in Nat /\ m + 1 = Len(st) /\ Opened(o, s, m)
        /\ (m = 0 => Len(st) = 1) /\ (m # 0 => Len(st) # 1)
        /\ Last(st) = Mode(o, s, m)
        /\ \A e \in 0 .. m : st[e + 1] = Mode(o, s, e)
    <2>1. /\ m \in Nat /\ Opened(o, s, m) /\ Last(st) = Mode(o, s, m)
          /\ \A e \in 0 .. m : st[e + 1] = Mode(o, s, e)
      <3>1. m \in Nat /\ Opened(o, s, m)
        BY TopMode
      <3>2. Last(st) = Mode(o, s, m)
        BY TopMode
      <3>3. \A e \in 0 .. m : st[e + 1] = Mode(o, s, e)
        BY DEF Reading
      <3> QED
        BY <3>1, <3>2, <3>3
    <2>2. /\ m + 1 = Len(st)
          /\ (m = 0 => Len(st) = 1) /\ (m # 0 => Len(st) # 1)
      OBVIOUS
    <2> QED
      BY <2>1, <2>2
  <1> DEFINE n == Len(s)
             t == Append(s, x)
             c == Started(st, b, n, x)
             w == Pushed(o, m, n + 1)
             u == Append(st, Called(st, x))
  <1>2. /\ m # 0 /\ s[o[1]].id = "package" => b = Described(s, o[1])
        /\ Listed(l, Named(s) \ OpenTop(o, m), s)
    BY DEF Reading
  <1>3. o \in [1 .. m -> 1 .. n]
    BY <1>1 DEF Opened
  <1>4. x.id # "end"
    BY LexemeFacts
  <1>a. Len(u) = Len(st) + 1 /\ u[Len(st) + 1] = Called(st, x) /\ \A i \in 1 .. Len(st) : u[i] = st[i]
    OBVIOUS
  <1>b. n \in Nat /\ t[n + 1] = x /\ t \in Seq(Lexeme)
    BY Longer
  <1> HIDE DEF m, u
  <1>5. Opened(w, t, m + 1)
    BY <1>1, OpenPush
  <1>6. w[m + 1] = n + 1 /\ \A d \in 1 .. m : w[d] = o[d]
    BY <1>1 DEF Pushed
  <1> HIDE DEF n, w
  <1>7. \A e \in 0 .. m : Mode(w, t, e) = Mode(o, s, e) /\ (e # 0 => t[w[1]] = s[o[1]])
    <2> SUFFICES ASSUME NEW e \in 0 .. m
                 PROVE  Mode(w, t, e) = Mode(o, s, e) /\ (e # 0 => t[w[1]] = s[o[1]])
      OBVIOUS
    <2> HIDE DEF c
    <2>1. \A d \in 1 .. e : w[d] = o[d]
      BY <1>1, <1>6
    <2>2. o \in [1 .. m -> 1 .. Len(s)] /\ m \in Nat
      BY <1>1, <1>3 DEF n
    <2>3. s \in Seq(Lexeme) /\ x \in Lexeme /\ e \in 0 .. m
      OBVIOUS
    <2>4. Mode(w, Append(s, x), e) = Mode(o, s, e)
      BY ONLY <2>1, <2>2, <2>3, ModeSame
    <2>5. e # 0 => Append(s, x)[w[1]] = s[o[1]]
      BY ONLY <2>1, <2>2, <2>3, FirstSame
    <2> QED
      BY <2>4, <2>5
  <1>8. Mode(w, t, m + 1) = Called(st, x)
    <2>1. CASE m = 0
      <3> HIDE DEF c, t
      <3>1. t[w[1]] = x
        <4>1. w[1] = n + 1
          BY <1>6, <2>1
        <4> QED
          BY <1>b, <4>1
      <3>2. Majors(w, t, m + 1)
        BY <2>1 DEF Majors
      <3> QED
        BY <1>1, <2>1, <3>1, <3>2 DEF Mode, Collecting, Called
    <2>2. CASE m # 0
      <3>1. Majors(w, t, m + 1) <=> Majors(w, t, m) /\ x.id = "major"
        <4>1. /\ \A d \in 2 .. m + 1 : d \in 2 .. m \/ d = m + 1
              /\ \A d \in 2 .. m : d \in 2 .. m + 1
              /\ m + 1 \in 2 .. m + 1
          BY <1>1, <2>2
        <4>2. t[w[m + 1]] = x
          BY <1>6, <1>b
        <4> QED
          BY <4>1, <4>2 DEF Majors
      <3>2. m \in 0 .. m
        BY <1>1
      <3>3. Mode(w, t, m) = Last(st)
        BY <1>1, <1>7, <3>2
      <3>4. Collecting(w, t, m + 1) <=> Collecting(w, t, m) /\ x.id = "major"
        BY <3>1 DEF Collecting
      <3>5. Last(st) = "collect" <=> Collecting(w, t, m)
        BY <2>2, <3>3 DEF Mode
      <3>6. Len(st) # 1 /\ m + 1 # 0
        BY <1>1, <2>2
      <3> QED
        BY <3>4, <3>5, <3>6 DEF Mode, Called, Descends
    <2> QED
      BY <2>1, <2>2
  <1>9. \A e \in 0 .. m + 1 : u[e + 1] = Mode(w, t, e)
    <2> SUFFICES ASSUME NEW e \in 0 .. m + 1
                 PROVE  u[e + 1] = Mode(w, t, e)
      OBVIOUS
    <2>1. CASE e = m + 1
      BY <1>1, <1>8, <1>a, <2>1
    <2>2. CASE e # m + 1
      <3>1. e \in 0 .. m /\ e + 1 \in 1 .. Len(st)
        BY <1>1, <2>2
      <3> QED
        BY <1>1, <1>7, <1>a, <3>1
    <2> QED
      BY <2>1, <2>2
  <1>10. t[w[1]].id = "package" => c = Described(t, w[1])
    <2>1. CASE m = 0
      <3>1. w[1] = n + 1 /\ t[w[1]] = x
        <4> HIDE DEF c, t
        <4>1. w[1] = n + 1
          BY <1>6, <2>1
        <4> QED
          BY <1>b, <4>1
      <3>2. Own(t, n + 1) = {}
        BY <1>1, OwnStep DEF n
      <3>3. Described(t, n + 1) = Empty
        BY <3>2 DEF Described, Empty
      <3> QED
        BY <1>1, <2>1, <3>1, <3>3 DEF Started
    <2>2. CASE m # 0
      <3>1. m \in 0 .. m /\ 1 \in 1 .. m /\ Len(st) # 1
        <4> HIDE DEF c, t
        <4>1. Len(st) # 1
          BY <1>1, <2>2
        <4> QED
          BY <1>1, <2>2, <4>1
      <3>2. w[1] = o[1] /\ t[w[1]] = s[o[1]]
        BY <1>6, <1>7, <2>2, <3>1
      <3>3. c = Worked(st, b, n, x)
        BY <3>1 DEF Started
      <3>4. s[o[1]].id = "package" => Described(t, o[1])
                   = IF Mode(o, s, m) = "collect"
                     THEN With(Described(s, o[1]), x.id, IF x.void THEN 0 ELSE n + 1)
                     ELSE Described(s, o[1])
        BY <1>1, <1>4, <2>2, PkgStep DEF n
      <3> HIDE DEF c, t
      <3> QED
        BY <1>1, <1>2, <2>2, <3>2, <3>3, <3>4 DEF Worked
    <2> QED
      BY <2>1, <2>2
  <1>11. Listed(l, Named(t) \ OpenTop(w, m + 1), t)
    <2>1. Listed(l, Named(t) \ OpenTop(o, m), t)
      BY <1>1, <1>2, ListedStep
    <2>2. CASE m = 0
      <3>1. n + 1 \notin Named(t)
        BY <1>1, NamedStep DEF n
      <3>2. w[1] = n + 1
        BY <1>6, <2>2
      <3>3. Named(t) \ OpenTop(w, m + 1) = Named(t) \ OpenTop(o, m)
        BY <2>2, <3>1, <3>2 DEF OpenTop
      <3> QED
        BY <2>1, <3>3
    <2>3. CASE m # 0
      <3>1. w[1] = o[1] /\ m + 1 # 0
        BY <1>1, <1>6, <2>3
      <3> QED
        BY <2>1, <2>3, <3>1 DEF OpenTop
    <2> QED
      BY <2>2, <2>3
  <1> HIDE DEF t, c
  <1>12. Reading(w, t, u, c, l)
    <2>1. Len(u) - 1 = m + 1
      BY <1>1, <1>a
    <2> QED
      BY <1>5, <1>9, <1>10, <1>11, <2>1 DEF Reading
  <1> QED
    BY <1>12 DEF t, c, w, u, m, n

Closed1(l, d) == IF HasName(d) THEN Append(l, d) ELSE l

LEMMA ReadPop ==
    ASSUME NEW s \in Seq(Lexeme), NEW o, NEW st \in Seq(Frames), st # <<>>, Len(st) # 1,
           NEW S, NEW b, NEW l \in Seq(S), Reading(o, s, st, b, l)
    PROVE  Reading(Kept(o, Len(st) - 2), Append(s, End), Front(st), b,
                   IF Last(st) = "collect" /\ Len(st) = 2 THEN Closed1(l, b) ELSE l)
  <1> DEFINE m == Len(st) - 1
  <1>1. /\ m \in Nat /\ Opened(o, s, m)
        /\ Last(st) = Mode(o, s, m)
    BY TopMode
  <1>2. \A e \in 0 .. m : st[e + 1] = Mode(o, s, e)
    BY DEF Reading
  <1>3. /\ m # 0 /\ s[o[1]].id = "package" => b = Described(s, o[1])
        /\ Listed(l, Named(s) \ OpenTop(o, m), s)
    BY DEF Reading
  <1>4. /\ m + 1 = Len(st) /\ m # 0 /\ Len(st) - 2 = m - 1
        /\ (m = 1 => Len(st) = 2) /\ (m # 1 => Len(st) # 2)
    OBVIOUS
  <1>5. o \in [1 .. m -> 1 .. Len(s)]
    BY <1>1 DEF Opened
  <1>6. /\ Len(Front(st)) = m
        /\ \A i \in 1 .. m : Front(st)[i] = st[i]
    BY <1>1, <1>4 DEF Front
  <1>7. End \in Lexeme /\ End.id = "end" /\ End.id # "package" /\ ~ End.kids
    BY DEF Lexeme, End
  <1> DEFINE t == Append(s, End)
             w == Kept(o, m - 1)
             e1 == IF Last(st) = "collect" /\ Len(st) = 2 THEN Closed1(l, b) ELSE l
  <1> HIDE DEF m
  <1>8. Opened(w, t, m - 1)
    BY <1>1, <1>4, <1>7, OpenPop
  <1>9. \A d \in 1 .. m - 1 : w[d] = o[d]
    BY DEF Kept
  <1> HIDE DEF e1, w
  <1>10. \A e \in 0 .. m - 1 : Mode(w, t, e) = Mode(o, s, e) /\ (e # 0 => t[w[1]] = s[o[1]])
    <2> SUFFICES ASSUME NEW e \in 0 .. m - 1
                 PROVE  Mode(w, t, e) = Mode(o, s, e) /\ (e # 0 => t[w[1]] = s[o[1]])
      OBVIOUS
    <2>1. \A d \in 1 .. e : w[d] = o[d]
      BY <1>1, <1>9
    <2>2. o \in [1 .. m -> 1 .. Len(s)] /\ m \in Nat /\ e \in 0 .. m
      BY <1>1, <1>5
    <2>3. s \in Seq(Lexeme) /\ End \in Lexeme
      BY <1>7
    <2>4. Mode(w, Append(s, End), e) = Mode(o, s, e)
      BY ONLY <2>1, <2>2, <2>3, ModeSame
    <2>5. e # 0 => Append(s, End)[w[1]] = s[o[1]]
      BY ONLY <2>1, <2>2, <2>3, FirstSame
    <2> QED
      BY <2>4, <2>5
  <1>11. \A e \in 0 .. m - 1 : Front(st)[e + 1] = Mode(w, t, e)
    <2> SUFFICES ASSUME NEW e \in 0 .. m - 1
                 PROVE  Front(st)[e + 1] = Mode(w, t, e)
      OBVIOUS
    <2>1. e \in 0 .. m /\ e + 1 \in 1 .. m
      BY <1>1
    <2> QED
      BY <1>2, <1>6, <1>10, <2>1
  <1>12. s[o[1]].id = "package" => b = Described(t, o[1])
    BY <1>1, <1>3, <1>4, <1>7, PkgStep
  <1>13. m - 1 # 0 /\ t[w[1]].id = "package" => b = Described(t, w[1])
    <2> SUFFICES ASSUME m - 1 # 0, t[w[1]].id = "package"
                 PROVE  b = Described(t, w[1])
      OBVIOUS
    <2>1. 1 \in 1 .. m - 1 /\ m - 1 \in 0 .. m - 1
      BY <1>1, <1>4
    <2>2. w[1] = o[1] /\ t[w[1]] = s[o[1]]
      BY <1>9, <1>10, <2>1
    <2> QED
      BY <1>12, <2>2
  <1>14. Listed(l, Named(t) \ {o[1]}, t)
    BY <1>1, <1>3, <1>4, <1>7, ListedStep DEF OpenTop
  <1>15. Listed(e1, Named(t) \ OpenTop(w, m - 1), t)
    <2>1. CASE m = 1
      <3>1. Named(t) \ OpenTop(w, m - 1) = Named(t)
        BY <2>1 DEF OpenTop
      <3>2. Tops(t) = Tops(s)
        BY <1>1, <1>4, <1>7, OwnStep
      <3>3. 1 \in 1 .. m /\ o[1] \in 1 .. Len(s) /\ Depth(s, o[1]) = 1 - 1
        BY <1>1, <2>1 DEF Opened
      <3>4. o[1] \in Tops(s) <=> s[o[1]].id = "package"
        BY <3>3 DEF Tops, Body
      <3>5. Last(st) = "collect" <=> s[o[1]].id = "package"
        BY <1>1, <2>1 DEF Mode, Collecting, Majors
      <3>6. CASE s[o[1]].id = "package"
        <4>1. \A q \in Tops(t) : q <= o[1]
          BY <1>1, <1>4, <3>2, TopsOrder
        <4>2. t \in Seq(Lexeme)
          BY <1>7, Longer
        <4>3. e1 = IF HasName(b) THEN Append(l, b) ELSE l
          BY <1>4, <2>1, <3>5, <3>6 DEF e1, Closed1
        <4>4. o[1] \in Tops(t) /\ b = Described(t, o[1])
          BY <1>12, <3>2, <3>4, <3>6
        <4> HIDE DEF t
        <4>5. Listed(e1, Named(t), t)
          BY <1>14, <4>1, <4>2, <4>3, <4>4, CloseTop
        <4> QED
          BY <3>1, <4>5
      <3>7. CASE s[o[1]].id # "package"
        <4>1. e1 = l
          BY <3>5, <3>7 DEF e1
        <4>2. Named(t) \ {o[1]} = Named(t)
          BY <3>2, <3>4, <3>7 DEF Named
        <4> QED
          BY <1>14, <3>1, <4>1, <4>2
      <3> QED
        BY <3>6, <3>7
    <2>2. CASE m # 1
      <3>1. m - 1 # 0 /\ 1 \in 1 .. m - 1
        BY <1>1, <1>4, <2>2
      <3>2. OpenTop(w, m - 1) = {o[1]}
        BY <1>9, <3>1 DEF OpenTop
      <3>3. e1 = l
        BY <1>4, <2>2 DEF e1
      <3> QED
        BY <1>14, <3>2, <3>3
    <2> QED
      BY <2>1, <2>2
  <1> HIDE DEF t
  <1>16. Reading(w, t, Front(st), b, e1)
    <2>1. Len(Front(st)) - 1 = m - 1
      BY <1>6
    <2> QED
      BY <1>8, <1>11, <1>13, <1>15, <2>1 DEF Reading
  <1> QED
    BY <1>4, <1>16 DEF t, w, e1

\* The end mark of everything.
LEMMA ReadDone ==
    ASSUME NEW s \in Seq(Lexeme), NEW o, NEW st \in Seq(Frames), Len(st) = 1,
           NEW b, NEW l, Reading(o, s, st, b, l)
    PROVE  Listed(l, Named(Append(s, End)), Append(s, End))
  <1>1. Opened(o, s, 0) /\ Listed(l, Named(s) \ OpenTop(o, 0), s)
    BY DEF Reading
  <1>2. End \in Lexeme
    BY DEF Lexeme
  <1>3. Listed(l, Named(Append(s, End)) \ OpenTop(o, 0), Append(s, End))
    BY <1>1, <1>2, ListedStep
  <1>4. Named(Append(s, End)) \ OpenTop(o, 0) = Named(Append(s, End))
    BY DEF OpenTop
  <1> QED
    BY <1>3, <1>4

LEMMA OneLess ==
    ASSUME NEW k \in Nat, k # 0
    PROVE  (k - 1 = 0 => ~ (k > 1)) /\ (k - 1 # 0 => k > 1)
  OBVIOUS

\* The stream ends.
LEMMA ReadEof ==
    ASSUME NEW s \in Seq(Lexeme), NEW o, NEW st \in Seq(Frames), st # <<>>,
           NEW S, NEW b, NEW l \in Seq(S), Reading(o, s, st, b, l)
    PROVE  Listed(IF Len(st) > 1 /\ st[2] = "collect" THEN Closed1(l, b) ELSE l, Named(s), s)
  <1> DEFINE m == Len(st) - 1
  <1>1. /\ m \in Nat /\ Opened(o, s, m)
        /\ m # 0 => (st[2] = "collect" <=> s[o[1]].id = "package")
    BY TopMode
  <1>2. /\ m # 0 /\ s[o[1]].id = "package" => b = Described(s, o[1])
        /\ Listed(l, Named(s) \ OpenTop(o, m), s)
    BY DEF Reading
  <1>3. (m = 0 => ~ (Len(st) > 1)) /\ (m # 0 => Len(st) > 1)
    <2>1. Len(st) \in Nat /\ Len(st) # 0
      OBVIOUS
    <2> QED
      BY <2>1, OneLess
  <1> DEFINE e1 == IF Len(st) > 1 /\ st[2] = "collect" THEN Closed1(l, b) ELSE l
  <1> HIDE DEF m, e1
  <1>4. CASE m = 0
    <2>1. Named(s) \ OpenTop(o, m) = Named(s)
      BY <1>4 DEF OpenTop
    <2>2. e1 = l
      BY <1>3, <1>4 DEF e1
    <2> QED
      BY <1>2, <2>1, <2>2 DEF e1
  <1>5. CASE m # 0
    <2>1. Listed(l, Named(s) \ {o[1]}, s)
      BY <1>2, <1>5 DEF OpenTop
    <2>2. 1 \in 1 .. m /\ o[1] \in 1 .. Len(s) /\ Depth(s, o[1]) = 1 - 1
      BY <1>1, <1>5 DEF Opened
    <2>3. o[1] \in Tops(s) <=> s[o[1]].id = "package"
      BY <2>2 DEF Tops, Body
    <2>4. CASE s[o[1]].id = "package"
      <3>1. \A q \in Tops(s) : q <= o[1]
        BY <1>1, <1>5, TopsOrder
      <3>2. e1 = IF HasName(b) THEN Append(l, b) ELSE l
        BY <1>1, <1>3, <1>5, <2>4 DEF e1, Closed1
      <3>3. Listed(e1, Named(s), s)
        BY <1>2, <1>5, <2>1, <2>3, <2>4, <3>1, <3>2, CloseTop
      <3> QED
        BY <3>3 DEF e1
    <2>5. CASE s[o[1]].id # "package"
      <3>1. e1 = l
        BY <1>1, <1>5, <2>5 DEF e1
      <3>2. Named(s) \ {o[1]} = Named(s)
        BY <2>3, <2>5 DEF Named
      <3> QED
        BY <2>1, <3>1, <3>2 DEF e1
    <2> QED
      BY <2>4, <2>5
  <1> QED
    BY <1>4, <1>5

LEMMA WithType ==
    ASSUME NEW d \in Descr, NEW id, NEW v \in Nat
    PROVE  With(d, id, v) \in Descr
  <1>1. PICK D \in SUBSET Wanted : d \in [D -> Nat]
    BY DEF Descr
  <1>2. CASE id \in Wanted \ DOMAIN d
    <2>1. With(d, id, v) \in [D \cup {id} -> Nat]
      BY <1>1, <1>2 DEF With
    <2>2. D \cup {id} \in SUBSET Wanted
      BY <1>2
    <2> QED
      BY <2>1, <2>2 DEF Descr
  <1>3. CASE id \notin Wanted \ DOMAIN d
    BY <1>3 DEF With
  <1> QED
    BY <1>2, <1>3

LEMMA EmptyType == Empty \in Descr /\ ~ HasName(Empty)
  <1>1. Empty \in [{} -> Nat] /\ {} \in SUBSET Wanted
    BY DEF Empty
  <1>2. Empty \in Descr
    BY <1>1 DEF Descr
  <1>3. DOMAIN Empty = {}
    BY DEF Empty
  <1> QED
    BY <1>2, <1>3 DEF HasName

\* What holds between the lexemes.
HpkrInv ==
    /\ stream \in Seq(Lexeme)
    /\ stack \in Seq(Frames) /\ stack # <<>> /\ Len(stack) <= MaxDepth + 1
    /\ pkg \in Descr /\ packages \in Seq(Descr)
    /\ verdict \in {"reads", "done", "error"}
    /\ verdict = "reads" => \E o : Reading(o, stream, stack, pkg, packages)
    /\ verdict = "done" => Listed(packages, Named(stream), stream)

LEMMA HpkrStarts == HpkrInit => HpkrInv
  <1> SUFFICES ASSUME HpkrInit
               PROVE  HpkrInv
    OBVIOUS
  <1>1. stream = <<>> /\ stack = <<"walk">> /\ pkg = Empty /\ packages = <<>> /\ verdict = "reads"
    BY DEF HpkrInit
  <1>2. /\ stream \in Seq(Lexeme) /\ Len(stream) = 0
        /\ stack \in Seq(Frames) /\ stack # <<>> /\ Len(stack) = 1 /\ stack[1] = "walk"
        /\ packages \in Seq(Descr) /\ Len(packages) = 0
    BY <1>1 DEF Frames
  <1>3. MaxDepth \in Nat
    BY IdsAssumption
  <1> DEFINE o == [d \in {} |-> 1]
  <1>4. 1 .. 0 = {} /\ 1 .. 1 - 1 = {} /\ (0 + 1) - 1 = 0
    OBVIOUS
  <1>5. Depth(stream, 0 + 1) = 0
    <2>1. \A P \in {{}} : Cardinality(P) = 0
      BY FS_EmptySet
    <2>2. {j \in 1 .. (0 + 1) - 1 : stream[j].kids} = {} /\ {j \in 1 .. (0 + 1) - 1 : stream[j].id = "end"} = {}
      BY <1>4
    <2> QED
      BY <2>1, <2>2 DEF Depth
  <1>6. Above(stream, 0 + 1) = {}
    BY <1>4 DEF Above
  <1>7. Opened(o, stream, 0)
    <2>1. o \in [1 .. 0 -> 1 .. Len(stream)]
      BY <1>4
    <2>2. {o[d] : d \in 1 .. 0} = {}
      BY <1>4
    <2> HIDE DEF o
    <2>3. \A d \in 1 .. 0 : Depth(stream, o[d]) = d - 1
      BY <1>4
    <2> QED
      BY <1>2, <1>5, <1>6, <2>1, <2>2, <2>3 DEF Opened
  <1>8. Named(stream) \ OpenTop(o, 0) = {}
    BY <1>1 DEF Named, Tops, Body
  <1>9. Listed(packages, {}, stream)
    BY <1>2, FS_EmptySet DEF Listed
  <1> HIDE DEF o
  <1>10. Reading(o, stream, stack, pkg, packages)
    <2>1. Len(stack) - 1 = 0
      BY <1>2
    <2>2. \A e \in 0 .. 0 : stack[e + 1] = Mode(o, stream, e)
      BY <1>2 DEF Mode
    <2> QED
      BY <1>7, <1>8, <1>9, <2>1, <2>2 DEF Reading
  <1> QED
    BY <1>1, <1>2, <1>3, <1>10, EmptyType DEF HpkrInv

\* An attribute without a list.
LEMMA PlainKeeps ==
    ASSUME HpkrInv, verdict = "reads", NEW x \in Lexeme, ~ x.kids, x.id # "end",
           stream' = Append(stream, x), pkg' = Worked(stack, pkg, Len(stream), x),
           UNCHANGED <<stack, packages, verdict>>
    PROVE  HpkrInv'
  <1>1. /\ stream \in Seq(Lexeme)
        /\ stack \in Seq(Frames) /\ stack # <<>> /\ Len(stack) <= MaxDepth + 1
        /\ pkg \in Descr /\ packages \in Seq(Descr)
    BY DEF HpkrInv
  <1>2. PICK o : Reading(o, stream, stack, pkg, packages)
    BY DEF HpkrInv
  <1>3. Reading(o, stream', stack', pkg', packages')
    BY <1>1, <1>2, ReadPlain
  <1>4. stream' \in Seq(Lexeme)
    BY <1>1
  <1>5. pkg' \in Descr
    <2>1. Len(stream) + 1 \in Nat
      BY <1>1
    <2>2. (IF x.void THEN 0 ELSE Len(stream) + 1) \in Nat
      BY <2>1
    <2> QED
      BY <1>1, <2>2, WithType DEF Worked
  <1> QED
    BY <1>1, <1>3, <1>4, <1>5 DEF HpkrInv

\* An attribute with a list.
LEMMA PushKeeps ==
    ASSUME HpkrInv, verdict = "reads", NEW x \in Lexeme, x.kids,
           stream' = Append(stream, x), pkg' = Started(stack, pkg, Len(stream), x),
           Calls(Called(stack, x)), UNCHANGED packages
    PROVE  HpkrInv'
  <1>1. /\ stream \in Seq(Lexeme)
        /\ stack \in Seq(Frames) /\ stack # <<>> /\ Len(stack) <= MaxDepth + 1
        /\ pkg \in Descr /\ packages \in Seq(Descr)
    BY DEF HpkrInv
  <1>2. PICK o : Reading(o, stream, stack, pkg, packages)
    BY DEF HpkrInv
  <1>4. stream' \in Seq(Lexeme)
    BY <1>1
  <1>5. pkg' \in Descr
    <2>1. Len(stream) + 1 \in Nat
      BY <1>1
    <2>2. (IF x.void THEN 0 ELSE Len(stream) + 1) \in Nat
      BY <2>1
    <2> QED
      BY <1>1, <2>2, WithType, EmptyType DEF Worked, Started
  <1>6. CASE Len(stack) > MaxDepth
    <2>1. verdict' = "error" /\ stack' = stack
      BY <1>6 DEF Calls
    <2> QED
      BY <1>1, <1>4, <1>5, <2>1 DEF HpkrInv
  <1>7. CASE ~ (Len(stack) > MaxDepth)
    <2>1. stack' = Append(stack, Called(stack, x)) /\ verdict' = "reads"
      BY <1>7 DEF Calls
    <2>2. \E w : Reading(w, stream', stack', pkg', packages')
      BY <1>1, <1>2, <2>1, ReadPush
    <2>3. Called(stack, x) \in Frames
      BY DEF Called, Frames, Descends
    <2>4. stack' \in Seq(Frames) /\ stack' # <<>> /\ Len(stack') = Len(stack) + 1
      BY <1>1, <2>1, <2>3
    <2>5. Len(stack') <= MaxDepth + 1
      BY <1>1, <1>7, <2>4, IdsAssumption
    <2> QED
      BY <1>1, <1>4, <1>5, <2>1, <2>2, <2>4, <2>5 DEF HpkrInv
  <1> QED
    BY <1>6, <1>7

\* Which call is at work says how many there are.
LEMMA WalkAlone ==
    ASSUME HpkrInv, verdict = "reads"
    PROVE  Last(stack) = "walk" <=> Len(stack) = 1
  <1>1. /\ stack \in Seq(Frames) /\ stack # <<>>
    BY DEF HpkrInv
  <1>2. PICK o : Reading(o, stream, stack, pkg, packages)
    BY DEF HpkrInv
  <1>3. Last(stack) = Mode(o, stream, Len(stack) - 1)
    <2> DEFINE m == Len(stack) - 1
    <2>1. m \in Nat /\ m + 1 = Len(stack) /\ m \in 0 .. m
      BY <1>1
    <2>2. \A e \in 0 .. m : stack[e + 1] = Mode(o, stream, e)
      BY <1>2 DEF Reading
    <2> HIDE DEF m
    <2>3. stack[Len(stack)] = Mode(o, stream, m)
      BY <2>1, <2>2
    <2> QED
      BY <2>3 DEF Last, m
  <1>4. Len(stack) \in Nat /\ (Len(stack) - 1 = 0 <=> Len(stack) = 1)
    BY <1>1
  <1> QED
    BY <1>3, <1>4 DEF Mode

LEMMA ReadsKeep ==
    ASSUME HpkrInv, NEW x \in Lexeme, OpensPackage(x) \/ Ignores(x) \/ Collects(x) \/ Skips(x)
    PROVE  HpkrInv'
  <1>0. /\ x.id = "end" => ~ x.kids
        /\ x.kids \in BOOLEAN
    BY LexemeFacts
  <1>1. verdict = "reads" /\ stream' = Append(stream, x)
    BY DEF OpensPackage, Ignores, Collects, Skips, Reads
  <1>2. Last(stack) = "walk" <=> Len(stack) = 1
    BY <1>1, WalkAlone
  <1>3. ASSUME OpensPackage(x) PROVE HpkrInv'
    <2>1. Len(stack) = 1 /\ Last(stack) = "walk" /\ x.id = "package"
      BY <1>2, <1>3 DEF OpensPackage, In
    <2>2. CASE x.kids
      <3>1. pkg' = Empty /\ Calls("collect") /\ packages' = packages
        BY <1>3, <2>2 DEF OpensPackage
      <3>2. Called(stack, x) = "collect" /\ Started(stack, pkg, Len(stream), x) = Empty
        BY <2>1 DEF Called, Started
      <3> QED
        BY <1>1, <2>2, <3>1, <3>2, PushKeeps
    <2>3. CASE ~ x.kids
      <3>1. packages' = Appended(Empty) /\ UNCHANGED <<pkg, stack, verdict>>
        BY <1>3, <2>3 DEF OpensPackage
      <3>2. Appended(Empty) = packages
        BY EmptyType DEF Appended, HasName
      <3>3. Worked(stack, pkg, Len(stream), x) = pkg
        BY <2>1 DEF Worked
      <3> QED
        BY <1>1, <2>1, <2>3, <3>1, <3>2, <3>3, PlainKeeps
    <2> QED
      BY <2>2, <2>3
  <1>4. ASSUME Ignores(x) PROVE HpkrInv'
    <2>1. Len(stack) = 1 /\ Last(stack) = "walk" /\ x.id # "package" /\ x.id # "end"
      BY <1>2, <1>4 DEF Ignores, In
    <2>2. UNCHANGED <<pkg, packages>> /\ Worked(stack, pkg, Len(stream), x) = pkg
      BY <1>4, <2>1 DEF Ignores, Worked
    <2>3. CASE x.kids
      <3>1. Called(stack, x) = "skip" /\ Started(stack, pkg, Len(stream), x) = pkg
        BY <2>1, <2>2 DEF Called, Started
      <3>2. Calls("skip")
        BY <1>4, <2>3 DEF Ignores
      <3> QED
        BY <1>1, <2>2, <2>3, <3>1, <3>2, PushKeeps
    <2>4. CASE ~ x.kids
      <3>1. UNCHANGED <<stack, verdict>>
        BY <1>4, <2>4 DEF Ignores
      <3> QED
        BY <1>1, <2>1, <2>2, <2>4, <3>1, PlainKeeps
    <2> QED
      BY <2>3, <2>4
  <1>5. ASSUME Collects(x) PROVE HpkrInv'
    <2>1. Len(stack) # 1 /\ Last(stack) = "collect" /\ x.id # "end"
      BY <1>2, <1>5 DEF Collects, In
    <2>2. packages' = packages /\ pkg' = Worked(stack, pkg, Len(stream), x)
      BY <1>5, <2>1 DEF Collects, Worked
    <2>3. CASE x.kids
      <3>1. Called(stack, x) = Descends(x.id) /\ pkg' = Started(stack, pkg, Len(stream), x)
        BY <2>1, <2>2 DEF Called, Started
      <3>2. Calls(Descends(x.id))
        BY <1>5, <2>3 DEF Collects
      <3> QED
        BY <1>1, <2>2, <2>3, <3>1, <3>2, PushKeeps
    <2>4. CASE ~ x.kids
      <3>1. UNCHANGED <<stack, verdict>>
        BY <1>5, <2>4 DEF Collects
      <3> QED
        BY <1>1, <2>1, <2>2, <2>4, <3>1, PlainKeeps
    <2> QED
      BY <2>3, <2>4
  <1>6. ASSUME Skips(x) PROVE HpkrInv'
    <2>1. Len(stack) # 1 /\ Last(stack) = "skip" /\ x.id # "end"
      BY <1>2, <1>6 DEF Skips, In
    <2>2. UNCHANGED <<pkg, packages>> /\ Worked(stack, pkg, Len(stream), x) = pkg
      BY <1>6, <2>1 DEF Skips, Worked
    <2>3. CASE x.kids
      <3>1. Called(stack, x) = "skip" /\ Started(stack, pkg, Len(stream), x) = pkg
        BY <2>1, <2>2 DEF Called, Started
      <3>2. Calls("skip")
        BY <1>6, <2>3 DEF Skips
      <3> QED
        BY <1>1, <2>2, <2>3, <3>1, <3>2, PushKeeps
    <2>4. CASE ~ x.kids
      <3>1. UNCHANGED <<stack, verdict>>
        BY <1>6, <2>4 DEF Skips
      <3> QED
        BY <1>1, <2>1, <2>2, <2>4, <3>1, PlainKeeps
    <2> QED
      BY <2>3, <2>4
  <1> QED
    BY <1>3, <1>4, <1>5, <1>6

LEMMA ClosedType ==
    ASSUME NEW l \in Seq(Descr), NEW d \in Descr
    PROVE  Closed1(l, d) \in Seq(Descr)
  BY DEF Closed1

LEMMA EndKeeps ==
    ASSUME HpkrInv, ReadsEnd
    PROVE  HpkrInv'
  <1>1. verdict = "reads" /\ stream' = Append(stream, End) /\ pkg' = pkg /\ Returns
    BY DEF ReadsEnd, Reads
  <1>2. /\ stream \in Seq(Lexeme)
        /\ stack \in Seq(Frames) /\ stack # <<>> /\ Len(stack) <= MaxDepth + 1
        /\ pkg \in Descr /\ packages \in Seq(Descr)
    BY DEF HpkrInv
  <1>3. PICK o : Reading(o, stream, stack, pkg, packages)
    BY <1>1 DEF HpkrInv
  <1>4. stream' \in Seq(Lexeme)
    <2>1. End \in Lexeme
      BY DEF Lexeme
    <2> QED
      BY <1>1, <1>2, <2>1
  <1>5. CASE Len(stack) = 1
    <2>1. verdict' = "done" /\ stack' = stack /\ packages' = packages
      BY <1>1, <1>5 DEF Returns
    <2>2. Listed(packages', Named(stream'), stream')
      BY <1>1, <1>2, <1>3, <1>5, <2>1, ReadDone
    <2> QED
      BY <1>1, <1>2, <1>4, <2>1, <2>2 DEF HpkrInv
  <1>6. CASE Len(stack) # 1
    <2>1. /\ stack' = Front(stack) /\ verdict' = "reads"
          /\ packages' = IF Last(stack) = "collect" /\ Len(stack) = 2
                         THEN Closed1(packages, pkg) ELSE packages
      BY <1>1, <1>6 DEF Returns, Pop, Appended, Closed1, HasName
    <2>2. \E w : Reading(w, stream', stack', pkg', packages')
      <3>1. Reading(Kept(o, Len(stack) - 2), Append(stream, End), Front(stack), pkg,
                    IF Last(stack) = "collect" /\ Len(stack) = 2 THEN Closed1(packages, pkg) ELSE packages)
        BY <1>2, <1>3, <1>6, ReadPop
      <3> QED
        BY <1>1, <2>1, <3>1
    <2>3. stack' \in Seq(Frames) /\ Len(stack') = Len(stack) - 1
      <3>1. Len(stack) \in Nat /\ Len(stack) # 0
        BY <1>2
      <3>2. \A i \in 1 .. Len(stack) - 1 : stack[i] \in Frames
        BY <1>2
      <3>3. Len(stack) - 1 \in Int /\ 1 \in Int
        BY <3>1
      <3>4. stack' = SubSeq(stack, 1, Len(stack) - 1)
        BY <2>1 DEF Front
      <3>5. stack' \in Seq(Frames)
        BY <3>2, <3>3, <3>4, SubSeqProperties
      <3>6. Len(stack') = IF 1 <= Len(stack) - 1 THEN (Len(stack) - 1) - 1 + 1 ELSE 0
        BY <3>2, <3>3, <3>4, SubSeqProperties
      <3>7. Len(stack') = Len(stack) - 1
        BY <3>1, <3>6
      <3> QED
        BY <3>5, <3>7
    <2>4. stack' # <<>> /\ Len(stack') <= MaxDepth + 1
      BY <1>2, <1>6, <2>3, IdsAssumption
    <2>5. packages' \in Seq(Descr)
      BY <1>2, <2>1, ClosedType
    <2> QED
      BY <1>1, <1>2, <1>4, <2>1, <2>2, <2>3, <2>4, <2>5 DEF HpkrInv
  <1> QED
    BY <1>5, <1>6

LEMMA EofKeeps ==
    ASSUME HpkrInv, Eof
    PROVE  HpkrInv'
  <1>1. /\ verdict = "reads" /\ verdict' = "done" /\ stack' = <<"walk">>
        /\ packages' = IF Len(stack) > 1 /\ stack[2] = "collect" THEN Closed1(packages, pkg) ELSE packages
        /\ stream' = stream /\ pkg' = pkg
    BY DEF Eof, Appended, Closed1, HasName
  <1>2. /\ stream \in Seq(Lexeme)
        /\ stack \in Seq(Frames) /\ stack # <<>>
        /\ pkg \in Descr /\ packages \in Seq(Descr)
    BY DEF HpkrInv
  <1>3. PICK o : Reading(o, stream, stack, pkg, packages)
    BY <1>1 DEF HpkrInv
  <1>4. Listed(packages', Named(stream'), stream')
    BY <1>1, <1>2, <1>3, ReadEof
  <1>5. stack' \in Seq(Frames) /\ stack' # <<>> /\ Len(stack') = 1
    BY <1>1 DEF Frames
  <1>6. packages' \in Seq(Descr)
    BY <1>1, <1>2, ClosedType
  <1>7. Len(stack') <= MaxDepth + 1
    BY <1>5, IdsAssumption
  <1> QED
    BY <1>1, <1>2, <1>4, <1>5, <1>6, <1>7 DEF HpkrInv

LEMMA HpkrHolds == HpkrInit /\ [][HpkrNext]_pvars => []HpkrInv
  <1>1. HpkrInit => HpkrInv
    BY HpkrStarts
  <1>2. HpkrInv /\ [HpkrNext]_pvars => HpkrInv'
    <2> SUFFICES ASSUME HpkrInv, [HpkrNext]_pvars
                 PROVE  HpkrInv'
      OBVIOUS
    <2>1. CASE \E x \in Lexeme : OpensPackage(x) \/ Ignores(x) \/ Collects(x) \/ Skips(x)
      BY <2>1, ReadsKeep
    <2>2. CASE ReadsEnd
      BY <2>2, EndKeeps
    <2>3. CASE Eof
      BY <2>3, EofKeeps
    <2>4. CASE UNCHANGED pvars
      <3>1. /\ stream' = stream /\ stack' = stack /\ pkg' = pkg
            /\ packages' = packages /\ verdict' = verdict
        BY <2>4 DEF pvars
      <3>2. ASSUME verdict = "reads"
            PROVE  \E o : Reading(o, stream', stack', pkg', packages')
        BY <3>1, <3>2 DEF HpkrInv
      <3> QED
        BY <3>1, <3>2 DEF HpkrInv
    <2> QED
      BY <2>1, <2>2, <2>3, <2>4 DEF HpkrNext
  <1> QED
    BY <1>1, <1>2, PTL

\* The packages that are listed are the named ones of the forest the stream
\* stands for, in its order, each with the first value of its own attributes:
\* for every stream, nesting limit and set of attributes (_walk,
\* _collect_package, _skip_children of app/hpkr.py).
THEOREM PackagesListed == HpkrInit /\ [][HpkrNext]_pvars => []ListsPackages
  <1>1. HpkrInv => ListsPackages
    BY DEF HpkrInv, ListsPackages, Listed
  <1> QED
    BY <1>1, HpkrHolds, PTL

\* The reader's calls never nest deeper than _MAX_ATTR_DEPTH, and a package
\* holds nothing but what is wanted.
THEOREM HpkrTypes == HpkrInit /\ [][HpkrNext]_pvars => []HpkrTypeOK
  <1>1. HpkrInv => HpkrTypeOK
    <2> SUFFICES ASSUME HpkrInv
                 PROVE  HpkrTypeOK
      OBVIOUS
    <2>1. \A d \in Descr : DOMAIN d \subseteq Wanted
      BY DEF Descr
    <2>2. \A k \in DOMAIN packages : packages[k] \in Descr
      BY DEF HpkrInv
    <2> QED
      BY <2>1, <2>2 DEF HpkrInv, HpkrTypeOK, Frames
  <1> QED
    BY <1>1, HpkrHolds, PTL

=============================================================================
