---------------------------- MODULE IntakeProofs ----------------------------
(***************************************************************************)
(* Theorems about Intake, for any sources, registries, bodies, texts and   *)
(* matches: documents of any number, tables of any length.                 *)
(***************************************************************************)
EXTENDS Intake, FiniteSetTheorems, NaturalsInduction, WellFoundedInduction, TLAPS

\* A non-empty set of naturals has a least element.
LEMMA LeastNatural ==
    ASSUME NEW T \in SUBSET Nat, T # {}
    PROVE  \E x \in T : \A y \in T : x <= y
<1> DEFINE R == OpToRel(<, Nat)
<1>1. \A x, y \in Nat : y < x => <<y, x>> \in R
  BY DEF OpToRel
<1>2. IsWellFoundedOn(R, Nat)
  BY NatLessThanWellFounded, Zenon
<1> HIDE DEF R
<1>3. PICK x \in T : \A y \in T : ~(<<y, x>> \in R)
  BY <1>2, WFMin
<1>4. \A y \in T : ~(y < x)
  BY <1>1, <1>3
<1>5. \A y \in T : x <= y
  BY <1>4
<1> QED
  BY <1>5

-----------------------------------------------------------------------------
(* Finite sets under a strict total order R.                               *)

StrictOrder(S, R) ==
    /\ \A x \in S : <<x, x>> \notin R
    /\ \A x, y, z \in S : <<x, y>> \in R /\ <<y, z>> \in R => <<x, z>> \in R
    /\ \A x, y \in S : x # y => <<x, y>> \in R \/ <<y, x>> \in R
Below(S, R, x) == {y \in S : <<y, x>> \in R}
Place(S, R, x) == Cardinality(Below(S, R, x))

\* Places are numbers, and they rise along the order.
LEMMA PlaceRises ==
    ASSUME NEW S, IsFiniteSet(S), NEW R, StrictOrder(S, R), NEW x \in S
    PROVE  /\ Place(S, R, x) \in Nat /\ Place(S, R, x) < Cardinality(S) /\ Cardinality(S) \in Nat
           /\ \A y \in S : <<y, x>> \in R => Place(S, R, y) < Place(S, R, x)
<1>1. \A y \in S : IsFiniteSet(Below(S, R, y)) /\ Place(S, R, y) \in Nat
  <2> TAKE y \in S
  <2>1. Below(S, R, y) \in SUBSET S
    BY DEF Below
  <2> QED
    BY <2>1, FS_Subset, FS_CardinalityType DEF Place
<1>2. Cardinality(S) \in Nat
  BY FS_CardinalityType
<1>3. Place(S, R, x) < Cardinality(S)
  <2>1. Below(S, R, x) \in SUBSET S /\ x \notin Below(S, R, x)
    BY DEF Below, StrictOrder
  <2>2. /\ Cardinality(Below(S, R, x)) <= Cardinality(S)
        /\ Cardinality(S) = Cardinality(Below(S, R, x)) => S = Below(S, R, x)
    BY <2>1, FS_Subset
  <2> QED
    BY <1>1, <1>2, <2>1, <2>2 DEF Place
<1>4. ASSUME NEW y \in S, <<y, x>> \in R PROVE Place(S, R, y) < Place(S, R, x)
  <2>1. Below(S, R, y) \in SUBSET Below(S, R, x)
    BY <1>4 DEF Below, StrictOrder
  <2>2. y \in Below(S, R, x) /\ y \notin Below(S, R, y)
    BY <1>4 DEF Below, StrictOrder
  <2>3. /\ Cardinality(Below(S, R, y)) <= Cardinality(Below(S, R, x))
        /\ Cardinality(Below(S, R, x)) = Cardinality(Below(S, R, y))
             => Below(S, R, x) = Below(S, R, y)
    BY <1>1, <2>1, FS_Subset
  <2> QED
    BY <1>1, <2>2, <2>3 DEF Place
<1> QED
  BY <1>1, <1>2, <1>3, <1>4

Ranked(S, R) ==
    /\ Cardinality(S) \in Nat
    /\ \A x \in S : Place(S, R, x) \in 0..Cardinality(S) - 1
    /\ \A x, y \in S : Place(S, R, x) = Place(S, R, y) => x = y
    /\ \A n \in 0..Cardinality(S) - 1 : \E x \in S : Place(S, R, x) = n

\* Places number the set: each from 0 on is taken, and by one element.
LEMMA PlacesNumber ==
    ASSUME NEW S, IsFiniteSet(S), NEW R, StrictOrder(S, R)
    PROVE  Ranked(S, R)
<1> DEFINE N == Cardinality(S)
           rank == [x \in S |-> Place(S, R, x)]
<1>1. N \in Nat
  BY FS_CardinalityType
<1>2. \A x \in S : Place(S, R, x) \in 0..N - 1
  <2> TAKE x \in S
  <2>1. Place(S, R, x) \in Nat /\ Place(S, R, x) < N
    BY PlaceRises
  <2> HIDE DEF N
  <2> QED
    BY <1>1, <2>1
<1>3. \A x, y \in S : Place(S, R, x) = Place(S, R, y) => x = y
  <2> SUFFICES ASSUME NEW x \in S, NEW y \in S, Place(S, R, x) = Place(S, R, y), x # y
               PROVE  FALSE
    OBVIOUS
  <2>1. <<x, y>> \in R \/ <<y, x>> \in R
    BY DEF StrictOrder
  <2>2. Place(S, R, x) \in Nat
    BY PlaceRises
  <2>3. <<x, y>> \in R => Place(S, R, x) < Place(S, R, y)
    BY PlaceRises
  <2>4. <<y, x>> \in R => Place(S, R, y) < Place(S, R, x)
    BY PlaceRises
  <2> QED
    BY <2>1, <2>2, <2>3, <2>4
<1>4. \A n \in 0..N - 1 : \E x \in S : Place(S, R, x) = n
  <2>1. rank \in Injection(S, 0..N - 1)
    <3>1. rank \in [S -> 0..N - 1]
      BY <1>2
    <3>2. \A x, y \in S : rank[x] = rank[y] => x = y
      BY <1>3
    <3> HIDE DEF rank
    <3> QED
      BY <3>1, <3>2 DEF Injection, IsInjective
  <2>2. IsFiniteSet(0..N - 1) /\ Cardinality(0..N - 1) = N
    <3> HIDE DEF N
    <3>1. 0 \in Int /\ N - 1 \in Int /\ (0 > N - 1 => N = 0)
      BY <1>1
    <3>2. /\ IsFiniteSet(0..N - 1)
          /\ Cardinality(0..N - 1) = IF 0 > N - 1 THEN 0 ELSE (N - 1) - 0 + 1
      BY <3>1, FS_Interval, Zenon
    <3> QED
      BY <1>1, <3>1, <3>2
  <2>3. rank \in Surjection(S, 0..N - 1)
    <3> HIDE DEF rank
    <3> QED
      BY <2>1, <2>2, FS_Injection
  <2>4. \A n \in 0..N - 1 : \E x \in S : rank[x] = n
    <3> HIDE DEF rank
    <3> QED
      BY <2>3 DEF Surjection
  <2> QED
    BY <2>4
<1> QED
  BY <1>1, <1>2, <1>3, <1>4 DEF Ranked

\* A finite set that is not empty has a last element.
LEMMA LastExists ==
    ASSUME NEW S, IsFiniteSet(S), S # {}, NEW R, StrictOrder(S, R)
    PROVE  \E x \in S : \A y \in S : y # x => <<y, x>> \in R
<1> DEFINE N == Cardinality(S)
<1>1. /\ N \in Nat /\ \A x \in S : Place(S, R, x) \in 0..N - 1
      /\ \A n \in 0..N - 1 : \E x \in S : Place(S, R, x) = n
  BY PlacesNumber DEF Ranked
<1>2. N # 0
  BY FS_EmptySet
<1>3. PICK x \in S : Place(S, R, x) = N - 1
  <2> HIDE DEF N
  <2>1. N - 1 \in 0..N - 1
    BY <1>1, <1>2
  <2> QED
    BY <1>1, <2>1
<1>4. ASSUME NEW y \in S, y # x PROVE <<y, x>> \in R
  <2>1. <<x, y>> \in R => Place(S, R, x) < Place(S, R, y)
    BY PlaceRises
  <2>2. Place(S, R, y) \in 0..N - 1
    BY <1>1
  <2> HIDE DEF N
  <2>3. ~(<<x, y>> \in R)
    BY <1>1, <1>3, <2>1, <2>2
  <2> QED
    BY <1>4, <2>3 DEF StrictOrder
<1> QED
  BY <1>4

-----------------------------------------------------------------------------
(* Normalization.                                                          *)

\* sorted() returns the kept elements, each of them.
LEMMA ByRankIs ==
    ASSUME NEW kept \in SUBSET Nat, IsFiniteSet(kept), NEW ds,
           \A i \in kept : ds[i].rank \in Nat
    PROVE  /\ Len(ByRank(ds, kept)) \in Nat
           /\ \A n \in 1..Len(ByRank(ds, kept)) : \E i \in kept : ByRank(ds, kept)[n] = ds[i]
           /\ \A i \in kept : \E n \in 1..Len(ByRank(ds, kept)) : ByRank(ds, kept)[n] = ds[i]
<1> DEFINE Sooner(i, j) == ds[i].rank < ds[j].rank \/ (ds[i].rank = ds[j].rank /\ i < j)
           order == {p \in kept \X kept : Sooner(p[1], p[2])}
           N == Cardinality(kept)
           At(n) == CHOOSE i \in kept : Cardinality({j \in kept : Sooner(j, i)}) = n - 1
           seq == ByRank(ds, kept)
<1>1. \A i, j \in kept : <<i, j>> \in order <=> Sooner(i, j)
  OBVIOUS
<1>2. StrictOrder(kept, order)
  <2>1. \A i \in kept : ~Sooner(i, i)
    OBVIOUS
  <2>2. ASSUME NEW i \in kept, NEW j \in kept, NEW k \in kept, Sooner(i, j), Sooner(j, k)
        PROVE  Sooner(i, k)
    <3>1. /\ ds[i].rank \in Nat /\ ds[j].rank \in Nat /\ ds[k].rank \in Nat
          /\ i \in Nat /\ j \in Nat /\ k \in Nat
      OBVIOUS
    <3> QED
      BY <2>2, <3>1
  <2>3. \A i, j \in kept : i # j => Sooner(i, j) \/ Sooner(j, i)
    OBVIOUS
  <2> HIDE DEF order, Sooner
  <2> QED
    BY <1>1, <2>1, <2>2, <2>3 DEF StrictOrder
<1>3. \A i \in kept : Place(kept, order, i) = Cardinality({j \in kept : Sooner(j, i)})
  <2> TAKE i \in kept
  <2>1. Below(kept, order, i) = {j \in kept : Sooner(j, i)}
    BY <1>1 DEF Below
  <2> QED
    BY <2>1 DEF Place
<1>4. /\ N \in Nat /\ \A i \in kept : Place(kept, order, i) \in 0..N - 1
      /\ \A i, j \in kept : Place(kept, order, i) = Place(kept, order, j) => i = j
      /\ \A n \in 0..N - 1 : \E i \in kept : Place(kept, order, i) = n
  <2> HIDE DEF order
  <2>1. Ranked(kept, order)
    BY <1>2, PlacesNumber
  <2> QED
    BY <2>1 DEF Ranked
<1>5. seq = [n \in 1..N |-> ds[At(n)]]
  BY DEF ByRank
<1>6. \A n \in 1..N : At(n) \in kept /\ Place(kept, order, At(n)) = n - 1
  <2> TAKE n \in 1..N
  <2> HIDE DEF N, order, Sooner
  <2>1. n - 1 \in 0..N - 1
    BY <1>4
  <2>2. PICK i \in kept : Place(kept, order, i) = n - 1
    BY <1>4, <2>1
  <2>3. Cardinality({j \in kept : Sooner(j, i)}) = n - 1
    BY <1>3, <2>2
  <2>4. At(n) \in kept /\ Cardinality({j \in kept : Sooner(j, At(n))}) = n - 1
    BY <2>3
  <2> QED
    BY <1>3, <2>4
<1> HIDE DEF seq, At, order, N, Sooner
<1>7. Len(seq) = N
  BY <1>4, <1>5
<1>8. ASSUME NEW i \in kept PROVE \E n \in 1..N : seq[n] = ds[i]
  <2> DEFINE m == Place(kept, order, i) + 1
  <2>1. m \in 1..N /\ m - 1 = Place(kept, order, i)
    BY <1>4
  <2> HIDE DEF m
  <2>2. At(m) \in kept /\ Place(kept, order, At(m)) = Place(kept, order, i)
    BY <1>6, <2>1
  <2>3. At(m) = i
    BY <1>4, <2>2
  <2> QED
    BY <1>5, <2>1, <2>3
<1>9. \A n \in 1..N : \E i \in kept : seq[n] = ds[i]
  BY <1>5, <1>6
<1> QED
  BY <1>4, <1>7, <1>8, <1>9 DEF seq

\* The documents a normalizer returns.
AreDocuments(ds) == Len(ds) \in Nat /\ \A i \in 1..Len(ds) : ds[i].text \in Text /\ ds[i].rank \in Nat

\* Sorting items into documents loses their types no more than their texts.
LEMMA SortedAre ==
    ASSUME NEW n \in Nat, NEW ds, \A i \in 1..n : ds[i].text \in Text /\ ds[i].rank \in Nat,
           NEW usable \in SUBSET (1..n)
    PROVE  AreDocuments(SortDocuments(ds, usable))
<1> DEFINE Same(i) == {j \in usable : ds[j].key = ds[i].key /\ ds[j].text = ds[i].text}
           Final(i) == CHOOSE j \in Same(i) : \A k \in Same(i) : k <= j
           last == [i \in usable |-> ds[Final(i)]]
           kept == {i \in usable : \A j \in Same(i) : i <= j}
<1>1. ASSUME NEW i \in usable PROVE Final(i) \in usable
  <2> DEFINE T == {n - j : j \in Same(i)}
  <2>1. Same(i) \in SUBSET (1..n) /\ i \in Same(i)
    OBVIOUS
  <2> HIDE DEF Same
  <2>2. \A j \in Same(i) : n - j \in Nat
    <3>1. \A j \in 1..n : n - j \in Nat
      OBVIOUS
    <3> QED
      BY <2>1, <3>1
  <2>3. T \in SUBSET Nat /\ T # {}
    BY <2>1, <2>2
  <2>4. PICK t \in T : \A u \in T : t <= u
    BY <2>3, LeastNatural
  <2>5. PICK j \in Same(i) : t = n - j
    BY <2>4
  <2>6. \A k \in Same(i) : k <= j
    <3> TAKE k \in Same(i)
    <3>1. n - j <= n - k
      BY <2>4, <2>5
    <3>2. j \in 1..n /\ k \in 1..n
      BY <2>1
    <3> QED
      BY <3>1, <3>2
  <2>7. Final(i) \in Same(i)
    BY <2>6
  <2> QED
    BY <2>7 DEF Same
<1>2. SortDocuments(ds, usable) = ByRank(last, kept)
  BY DEF SortDocuments
<1> HIDE DEF Final
<1>3. \A i \in usable : last[i].text \in Text /\ last[i].rank \in Nat
  BY <1>1
<1>4. kept \in SUBSET usable /\ kept \in SUBSET Nat /\ IsFiniteSet(kept)
  <2>1. kept \in SUBSET (1..n)
    OBVIOUS
  <2>2. IsFiniteSet(1..n)
    BY FS_Interval
  <2> HIDE DEF kept
  <2>3. IsFiniteSet(kept)
    BY <2>1, <2>2, FS_Subset
  <2> QED
    BY <2>1, <2>3 DEF kept
<1> HIDE DEF last, kept
<1>5. /\ Len(ByRank(last, kept)) \in Nat
      /\ \A m \in 1..Len(ByRank(last, kept)) : \E i \in kept : ByRank(last, kept)[m] = last[i]
  BY <1>3, <1>4, ByRankIs
<1> QED
  BY <1>2, <1>3, <1>4, <1>5 DEF AreDocuments

\* Whatever the parser makes of a body, it is a list of documents with texts.
LEMMA NormalizedAre ==
    ASSUME NEW p \in Parser, NEW b \in Body
    PROVE  AreDocuments(Normalized[p][b].docs)
<1> DEFINE es == Entries[b]
           n == Len(Entries[b])
<1>1. es \in Seq(Entry) /\ n \in Nat /\ \A i \in 1..n : es[i] \in Entry
  BY Inputs
<1>2. \A i \in 1..n : es[i].text \in Text /\ es[i].rank \in Nat
  BY <1>1 DEF Entry
<1>3. Usable(es) \in SUBSET (1..n)
  BY DEF Usable
<1>4. \A key, e : Document(key, e).text = e.text /\ Document(key, e).rank = e.rank
  BY DEF Document
<1>5. \A i \in 1..n : Items(es)[i].text \in Text /\ Items(es)[i].rank \in Nat
  BY <1>2, <1>4 DEF Items
<1>6. \A usable \in SUBSET (1..n) : AreDocuments(SortDocuments(Items(es), usable))
  BY <1>1, <1>5, SortedAre
<1>7. \A class : AreDocuments(Refused(class).docs)
  <2>1. \A class : Refused(class).docs = << >>
    BY DEF Refused
  <2>2. Len(<< >>) = 0
    OBVIOUS
  <2>3. AreDocuments(<< >>)
    BY <2>2 DEF AreDocuments
  <2> QED
    BY <2>1, <2>3
<1>8. \A ds : Parsed(ds).docs = ds
  BY DEF Parsed
<1>9. AreDocuments(Items(es))
  <2>1. Len(Items(es)) = n
    BY <1>1 DEF Items
  <2> QED
    BY <1>1, <1>5, <2>1 DEF AreDocuments
<1>10. AreDocuments(NormalizeFeed(p, b).docs)
  <2>1. 1..n \in SUBSET (1..n)
    OBVIOUS
  <2> QED
    BY <1>6, <1>7, <1>8, <2>1 DEF NormalizeFeed
<1>11. AreDocuments(NormalizeKev(b).docs) /\ AreDocuments(NormalizeNvd(b).docs)
       /\ AreDocuments(NormalizeIocs(b).docs)
  BY <1>3, <1>6, <1>7, <1>8, <1>9 DEF NormalizeKev, NormalizeNvd, NormalizeIocs
<1>12. AreDocuments(NormalizeList(b).docs)
  <2> DEFINE Numbered(i) == IF Entries[b][i].ext # None THEN Entries[b][i].ext
                            ELSE "item-" \o ToString(i - 1)
             items == [i \in 1..n |-> Document(Numbered(i), Entries[b][i])]
  <2>1. NormalizeList(b) = Parsed(SortDocuments(items, Usable(es)))
    BY DEF NormalizeList
  <2> HIDE DEF Numbered
  <2>2. \A i \in 1..n : items[i].text \in Text /\ items[i].rank \in Nat
    BY <1>2, <1>4
  <2> HIDE DEF items
  <2> QED
    BY <1>1, <1>3, <1>8, <2>1, <2>2, SortedAre
<1>13. AreDocuments(NormalizePage(p, b).docs)
  <2>1. CASE n = 0
    BY <1>7, <2>1 DEF NormalizePage
  <2>2. CASE n # 0
    <3> DEFINE d == Document(SourceUrl, es[1])
    <3>1. NormalizePage(p, b) = Parsed(<<d>>)
      BY <2>2 DEF NormalizePage
    <3>2. d.text \in Text /\ d.rank \in Nat
      <4>1. 1 \in 1..n
        BY <1>1, <2>2
      <4> QED
        BY <1>2, <1>4, <4>1
    <3> HIDE DEF d
    <3>3. Len(<<d>>) = 1 /\ <<d>>[1] = d
      OBVIOUS
    <3>4. AreDocuments(<<d>>)
      BY <3>2, <3>3 DEF AreDocuments
    <3> QED
      BY <1>8, <3>1, <3>4
  <2> QED
    BY <2>1, <2>2
<1>14. Normalized[p][b] = Normalize(p, b)
  BY DEF Normalized
<1>15. AreDocuments(NormalizeJson(b).docs)
  <2>1. \/ NormalizeJson(b) \in {NormalizeNvd(b), NormalizeKev(b), NormalizeIocs(b), NormalizeList(b)}
        \/ NormalizeJson(b) = Refused("invalid_json")
    BY DEF NormalizeJson
  <2> QED
    BY <1>7, <1>11, <1>12, <2>1
<1>16. Normalize(p, b) \in {NormalizeFeed(p, b), NormalizeJson(b), NormalizePage(p, b)}
  BY DEF Normalize, Parser
<1> QED
  BY <1>10, <1>13, <1>14, <1>15, <1>16

Among(ds, es) == \A i \in 1..Len(ds) : \E n \in 1..Len(es) : es[n] = ds[i]

\* collect_once reorders the documents of a source and loses none.
LEMMA OrderedAre ==
    ASSUME NEW p \in Parser, NEW b \in Body
    PROVE  /\ Len(Ordered[p][b]) \in Nat
           /\ \A i \in 1..Len(Ordered[p][b]) : Ordered[p][b][i].text \in Text
           /\ Among(Normalized[p][b].docs, Ordered[p][b])
<1> DEFINE ds == Normalized[p][b].docs
           kept == 1..Len(ds)
<1>1. AreDocuments(ds)
  BY NormalizedAre
<1>2. Ordered[p][b] = ByRank(ds, kept)
  BY DEF Ordered
<1>3. Len(ds) \in Nat /\ \A i \in kept : ds[i].text \in Text /\ ds[i].rank \in Nat
  BY <1>1 DEF AreDocuments
<1>4. kept \in SUBSET Nat /\ IsFiniteSet(kept)
  BY <1>3, FS_Interval
<1> HIDE DEF ds
<1>5. /\ Len(ByRank(ds, kept)) \in Nat
      /\ \A n \in 1..Len(ByRank(ds, kept)) : \E i \in kept : ByRank(ds, kept)[n] = ds[i]
      /\ \A i \in kept : \E n \in 1..Len(ByRank(ds, kept)) : ByRank(ds, kept)[n] = ds[i]
  <2>1. \A i \in kept : ds[i].rank \in Nat
    BY <1>3
  <2> HIDE DEF kept
  <2> QED
    BY <1>4, <2>1, ByRankIs, Zenon
<1>6. Among(ds, ByRank(ds, kept))
  BY <1>5 DEF Among
<1> QED
  BY <1>2, <1>3, <1>5, <1>6 DEF ds

-----------------------------------------------------------------------------
(* persist_source_document.                                                *)

ChainOf(table, s, key) == {x \in table : x.source = s /\ x.key = key}
Ids(chain) == {DocId(x) : x \in chain}
Versions(chain) == {x.version : x \in chain}
OfVersion(chain, v) == {DocId(x) : x \in {y \in chain : y.version = v}}

ChainSound(table, d) ==
    LET chain == ChainOf(table, d.source, d.key)
    IN  /\ Versions(chain) = 1..Cardinality(chain)
        /\ Cardinality(Ids(chain)) = Cardinality(chain)
        /\ d.supersedes = OfVersion(chain, d.version - 1)
Chains(table) == IsFiniteSet(table) /\ \A d \in table : ChainSound(table, d)

Has(table, s, d) == \E x \in table : x.source = s /\ x.key = d.key /\ x.text = d.text

\* The image of a finite set of rows under their ids is finite.
LEMMA IdsFinite ==
    ASSUME NEW chain, IsFiniteSet(chain)
    PROVE  IsFiniteSet(Ids(chain)) /\ Cardinality(Ids(chain)) \in Nat
<1> DEFINE f == [x \in chain |-> DocId(x)]
<1>1. f \in Surjection(chain, Ids(chain))
  BY DEF Surjection, Ids
<1> HIDE DEF f
<1>2. IsFiniteSet(Ids(chain))
  BY <1>1, FS_Surjection
<1> QED
  BY <1>2, FS_CardinalityType

\* The greatest of 0..n is n.
LEMMA MaxOfVersions ==
    ASSUME NEW n \in Nat
    PROVE  Max(1..n \cup {0}) = n
<1> DEFINE S == 1..n \cup {0}
<1>1. n \in S /\ \A y \in S : n >= y
  OBVIOUS
<1>2. \A x \in S : (\A y \in S : x >= y) => x = n
  <2> SUFFICES ASSUME NEW x \in S, \A y \in S : x >= y PROVE x = n
    OBVIOUS
  <2>1. x >= n /\ n >= x
    BY <1>1
  <2> QED
    BY <2>1
<1> HIDE DEF S
<1>3. (CHOOSE x \in S : \A y \in S : x >= y) = n
  BY <1>1, <1>2
<1> QED
  BY <1>3 DEF Max, S

\* A document is found, or a row is added that continues its chain.
LEMMA StoreDocumentIs ==
    ASSUME NEW table, Chains(table), NEW s, NEW art, NEW d
    PROVE  LET after == StoreDocument(s, art, table, d)
           IN  /\ Chains(after) /\ table \subseteq after /\ Has(after, s, d)
               /\ \A x \in after \ table :
                     /\ x.source = s /\ x.key = d.key /\ x.text = d.text /\ x.artifact = art
                     /\ ~Has(table, s, d)
<1> DEFINE chain == ChainOf(table, s, d.key)
           n == Cardinality(chain)
           new == [source |-> s, key |-> d.key, text |-> d.text, version |-> n + 1,
                   artifact |-> art, supersedes |-> OfVersion(chain, n)]
           after == StoreDocument(s, art, table, d)
<1>1. IsFiniteSet(chain) /\ n \in Nat
  <2>1. chain \in SUBSET table
    BY DEF ChainOf
  <2> QED
    BY <2>1, FS_Subset, FS_CardinalityType DEF Chains
<1>2. Versions(chain) = 1..n /\ Cardinality(Ids(chain)) = n
  <2>1. CASE chain = {}
    <3>1. Versions(chain) = {} /\ Ids(chain) = {} /\ n = 0
      BY <2>1, FS_EmptySet DEF Versions, Ids
    <3>2. 1..0 = {}
      OBVIOUS
    <3> HIDE DEF n
    <3> QED
      BY <3>1, <3>2, FS_EmptySet
  <2>2. CASE chain # {}
    <3>1. PICK x \in chain : TRUE
      BY <2>2
    <3>2. x \in table /\ x.source = s /\ x.key = d.key
      BY <3>1 DEF ChainOf
    <3>3. ChainSound(table, x)
      BY <3>2 DEF Chains
    <3> QED
      BY <3>2, <3>3 DEF ChainSound
  <2> QED
    BY <2>1, <2>2
<1>3. Max(Versions(chain) \cup {0}) = n
  <2> HIDE DEF n, chain
  <2> QED
    BY <1>1, <1>2, MaxOfVersions
<1>4. (\E x \in chain : x.text = d.text) <=> Has(table, s, d)
  BY DEF ChainOf, Has
<1>5. after = IF Has(table, s, d) THEN table ELSE table \cup {new}
  <2>1. after = IF \E x \in chain : x.text = d.text THEN table
                ELSE table \cup {[source |-> s, key |-> d.key, text |-> d.text,
                        version |-> Max(Versions(chain) \cup {0}) + 1, artifact |-> art,
                        supersedes |-> OfVersion(chain, Max(Versions(chain) \cup {0}))]}
    BY DEF StoreDocument, ChainOf, Versions, OfVersion
  <2> HIDE DEF after, chain
  <2> QED
    BY <1>3, <1>4, <2>1
<1>6. CASE Has(table, s, d)
  BY <1>5, <1>6
<1>7. CASE ~Has(table, s, d)
  <2>1. /\ new.source = s /\ new.key = d.key /\ new.text = d.text /\ new.version = n + 1
        /\ new.artifact = art /\ new.supersedes = OfVersion(chain, n)
    OBVIOUS
  <2>2. after = table \cup {new}
    BY <1>5, <1>7
  <2> HIDE DEF new, after
  <2>3. \A x \in after \ table : x = new
    BY <2>2
  <2>4. Has(after, s, d)
    BY <2>1, <2>2 DEF Has
  <2>5. IsFiniteSet(after)
    BY <2>2, FS_AddElement DEF Chains
  <2>6. ChainOf(after, s, d.key) = chain \cup {new}
    BY <2>1, <2>2 DEF ChainOf
  <2>7. new \notin chain /\ DocId(new) \notin Ids(chain)
    <3>1. \A x \in chain : DocId(x) # DocId(new)
      BY <1>4, <1>7, <2>1 DEF DocId
    <3> QED
      BY <3>1 DEF Ids
  <2> DEFINE longer == chain \cup {new}
  <2>8. IsFiniteSet(longer) /\ Cardinality(longer) = n + 1
    <3> HIDE DEF chain
    <3> QED
      BY <1>1, <2>7, FS_AddElement DEF chain
  <2>9. Versions(longer) = 1..n + 1
    <3>1. Versions(longer) = Versions(chain) \cup {n + 1}
      BY <2>1 DEF Versions
    <3> HIDE DEF n, longer, chain
    <3> QED
      BY <1>1, <1>2, <3>1
  <2>10. Cardinality(Ids(longer)) = n + 1
    <3>1. Ids(longer) = Ids(chain) \cup {DocId(new)}
      BY DEF Ids
    <3>2. IsFiniteSet(Ids(chain))
      BY <1>1, IdsFinite
    <3> HIDE DEF n, longer, chain
    <3> QED
      BY <1>2, <2>7, <3>1, <3>2, FS_AddElement
  <2>11. ASSUME NEW x \in after PROVE ChainSound(after, x)
    <3>1. CASE x = new
      <4>1. ChainOf(after, x.source, x.key) = longer
        BY <2>1, <2>6, <3>1
      <4>2. x.supersedes = OfVersion(longer, x.version - 1)
        <5>1. x.version - 1 = n /\ x.supersedes = OfVersion(chain, n)
          BY <1>1, <2>1, <3>1
        <5>2. OfVersion(longer, n) = OfVersion(chain, n)
          BY <1>1, <2>1 DEF OfVersion
        <5> QED
          BY <5>1, <5>2
      <4> HIDE DEF longer, n
      <4> QED
        BY <2>8, <2>9, <2>10, <4>1, <4>2 DEF ChainSound
    <3>2. CASE x \in table /\ x.source = s /\ x.key = d.key
      <4>1. ChainOf(after, x.source, x.key) = longer /\ x \in chain
        BY <2>6, <3>2 DEF ChainOf
      <4>2. x.version \in 1..n
        <5>1. x.version \in Versions(chain)
          BY <4>1 DEF Versions
        <5> QED
          BY <1>2, <5>1
      <4>3. OfVersion(longer, x.version - 1) = OfVersion(chain, x.version - 1)
        <5>1. new.version # x.version - 1
          BY <1>1, <2>1, <4>2
        <5> QED
          BY <5>1 DEF OfVersion
      <4>4. x.supersedes = OfVersion(chain, x.version - 1)
        BY <3>2 DEF Chains, ChainSound
      <4> HIDE DEF longer, n
      <4> QED
        BY <2>8, <2>9, <2>10, <4>1, <4>3, <4>4 DEF ChainSound
    <3>3. CASE x \in table /\ ~(x.source = s /\ x.key = d.key)
      <4>1. ChainOf(after, x.source, x.key) = ChainOf(table, x.source, x.key)
        BY <2>1, <2>2, <3>3 DEF ChainOf
      <4>2. ChainSound(table, x)
        BY <3>3 DEF Chains
      <4> QED
        BY <4>1, <4>2 DEF ChainSound
    <3> QED
      BY <2>2, <3>1, <3>2, <3>3
  <2>12. Chains(after)
    BY <2>5, <2>11 DEF Chains
  <2> QED
    BY <1>7, <2>1, <2>2, <2>3, <2>4, <2>12 DEF after
<1> QED
  BY <1>6, <1>7

\* The table after each document follows from the table before it.
LEMMA TableAfterIs ==
    ASSUME NEW table, NEW s, NEW ds, Len(ds) \in Nat
    PROVE  /\ TableAfter(table, s, ds)[0] = table
           /\ \A n \in 1..Len(ds) : TableAfter(table, s, ds)[n] =
                 StoreDocument(s, ArtifactOf(s).id, TableAfter(table, s, ds)[n - 1], ds[n])
<1> DEFINE N == Len(ds)
           art == ArtifactOf(s).id
           F(u, n) == StoreDocument(s, art, u, ds[n])
           Good(m) == \E g : g = [n \in 0..m |-> IF n = 0 THEN table ELSE F(g[n - 1], n)]
           T == {m \in Nat : m <= N /\ ~Good(m)}
           after == TableAfter(table, s, ds)
<1>1. after = CHOOSE g : g = [n \in 0..N |-> IF n = 0 THEN table ELSE F(g[n - 1], n)]
  BY DEF TableAfter
<1> HIDE DEF F, after, N
<1>2. N \in Nat
  BY DEF N
<1>3. Good(N)
  <2> SUFFICES ASSUME ~Good(N) PROVE FALSE
    OBVIOUS
  <2>1. T \in SUBSET Nat /\ T # {}
    BY <1>2
  <2>2. PICK m \in T : \A y \in T : m <= y
    BY <2>1, LeastNatural
  <2>3. m # 0
    <3> DEFINE g == [n \in 0..0 |-> table]
    <3>1. g = [n \in 0..0 |-> IF n = 0 THEN table ELSE F(g[n - 1], n)]
      OBVIOUS
    <3> HIDE DEF g
    <3>2. Good(0)
      BY <3>1
    <3> QED
      BY <3>2
  <2>4. m - 1 \in Nat /\ m - 1 <= N /\ m \in Nat
    BY <1>2, <2>3
  <2>5. Good(m - 1)
    <3> HIDE DEF Good
    <3>1. m - 1 \notin T
      BY <2>2, <2>4
    <3> QED
      BY <2>4, <3>1
  <2>6. PICK g : g = [n \in 0..m - 1 |-> IF n = 0 THEN table ELSE F(g[n - 1], n)]
    BY <2>5
  <2> DEFINE h == [n \in 0..m |-> IF n < m THEN g[n] ELSE F(g[m - 1], m)]
  <2>7. h = [n \in 0..m |-> IF n = 0 THEN table ELSE F(h[n - 1], n)]
    <3> SUFFICES ASSUME NEW n \in 0..m
                 PROVE  h[n] = IF n = 0 THEN table ELSE F(h[n - 1], n)
      OBVIOUS
    <3>1. CASE n < m
      BY <2>3, <2>4, <2>6, <3>1
    <3>2. CASE n = m
      BY <2>3, <2>4, <3>2
    <3> QED
      BY <2>4, <3>1, <3>2
  <2>8. Good(m)
    <3> HIDE DEF h
    <3> QED
      BY <2>7
  <2> QED
    BY <2>8
<1>4. after = [n \in 0..N |-> IF n = 0 THEN table ELSE F(after[n - 1], n)]
  BY <1>1, <1>3
<1>5. after[0] = table
  BY <1>2, <1>4
<1>6. \A n \in 1..N : after[n] = F(after[n - 1], n)
  BY <1>2, <1>4
<1> QED
  BY <1>5, <1>6 DEF after, F, N

\* What a source's documents make of the table: all are in it, in sound chains,
\* and what is new is one of them, under the artifact of this collection.
LEMMA TableAfterAll ==
    ASSUME NEW table, Chains(table), NEW s, NEW ds, Len(ds) \in Nat
    PROVE  LET last == TableAfter(table, s, ds)[Len(ds)]
           IN  /\ Chains(last) /\ table \subseteq last
               /\ \A i \in 1..Len(ds) : Has(last, s, ds[i])
               /\ \A x \in last \ table :
                     /\ x.source = s /\ x.artifact = ArtifactOf(s).id
                     /\ \E i \in 1..Len(ds) :
                           x.key = ds[i].key /\ x.text = ds[i].text /\ ~Has(table, s, ds[i])
<1> DEFINE after == TableAfter(table, s, ds)
           art == ArtifactOf(s).id
           Good(n) ==
               /\ Chains(after[n]) /\ table \subseteq after[n]
               /\ \A i \in 1..n : Has(after[n], s, ds[i])
               /\ \A x \in after[n] \ table :
                     /\ x.source = s /\ x.artifact = art
                     /\ \E i \in 1..n :
                           x.key = ds[i].key /\ x.text = ds[i].text /\ ~Has(table, s, ds[i])
           T == {m \in Nat : m <= Len(ds) /\ ~Good(m)}
<1>1. /\ after[0] = table
      /\ \A n \in 1..Len(ds) : after[n] = StoreDocument(s, art, after[n - 1], ds[n])
  BY TableAfterIs
<1> HIDE DEF after, art
<1>2. Good(0)
  <2>1. 1..0 = {}
    OBVIOUS
  <2> QED
    BY <1>1, <2>1
<1>3. ASSUME NEW n \in 1..Len(ds), Good(n - 1) PROVE Good(n)
  <2> DEFINE old == after[n - 1]
             new == after[n]
  <2>1. new = StoreDocument(s, art, old, ds[n])
    BY <1>1
  <2>2. /\ Chains(new) /\ old \subseteq new /\ Has(new, s, ds[n])
        /\ \A x \in new \ old :
              /\ x.source = s /\ x.key = ds[n].key /\ x.text = ds[n].text /\ x.artifact = art
              /\ ~Has(old, s, ds[n])
    <3> HIDE DEF old, new
    <3>1. Chains(old)
      BY <1>3 DEF old
    <3> QED
      BY <2>1, <3>1, StoreDocumentIs
  <2>3. \A i \in 1..n : i \in 1..n - 1 \/ i = n
    OBVIOUS
  <2>4. \A i \in 1..n : Has(new, s, ds[i])
    BY <1>3, <2>2, <2>3 DEF Has
  <2>5. ASSUME NEW x \in new \ table
        PROVE  /\ x.source = s /\ x.artifact = art
               /\ \E i \in 1..n :
                     x.key = ds[i].key /\ x.text = ds[i].text /\ ~Has(table, s, ds[i])
    <3>1. CASE x \in old
      <4>1. PICK i \in 1..n - 1 : x.key = ds[i].key /\ x.text = ds[i].text /\ ~Has(table, s, ds[i])
        BY <1>3, <3>1
      <4>2. i \in 1..n
        OBVIOUS
      <4> QED
        BY <1>3, <3>1, <4>1, <4>2
    <3>2. CASE x \notin old
      <4>1. ~Has(table, s, ds[n])
        BY <1>3, <2>2, <3>2 DEF Has
      <4>2. n \in 1..n
        OBVIOUS
      <4> QED
        BY <2>2, <3>2, <4>1, <4>2
    <3> QED
      BY <3>1, <3>2
  <2> QED
    BY <1>3, <2>2, <2>4, <2>5
<1> HIDE DEF Good
<1>4. Good(Len(ds))
  <2> SUFFICES ASSUME ~Good(Len(ds)) PROVE FALSE
    OBVIOUS
  <2>1. T \in SUBSET Nat /\ T # {}
    OBVIOUS
  <2>2. PICK m \in T : \A y \in T : m <= y
    BY <2>1, LeastNatural
  <2>3. m # 0
    BY <1>2, <2>2
  <2>4. m \in 1..Len(ds) /\ m - 1 \in Nat /\ m - 1 <= Len(ds)
    BY <2>2, <2>3
  <2>5. Good(m - 1)
    BY <2>2, <2>4
  <2> QED
    BY <1>3, <2>2, <2>4, <2>5
<1> QED
  BY <1>4 DEF Good, after, art

-----------------------------------------------------------------------------
(* The transaction of run_once.                                            *)

\* Once every source is settled, the fresh ones have a body, a final URL and
\* documents.
LEMMA FreshAre ==
    ASSUME TypeOK, AllSettled
    PROVE  /\ Fresh \subseteq Source /\ IsFiniteSet(Fresh)
           /\ \A s \in Source : result[s] \in Result /\ (s \in Fresh <=> result[s].body # None)
           /\ \A s \in Fresh :
                 /\ result[s].body \in Body /\ result[s].url \in Url /\ parser[s] \in Parser
                 /\ Len(DocsOf(s)) \in Nat
                 /\ \A i \in 1..Len(DocsOf(s)) : DocsOf(s)[i].text \in Text
<1>1. Fresh \subseteq Source /\ IsFiniteSet(Fresh)
  <2>1. Fresh \in SUBSET Source
    BY DEF Fresh
  <2> QED
    BY <2>1, Inputs, FS_Subset
<1>2. \A s \in Source : result[s] \in Result
  BY DEF TypeOK, AllSettled
<1>3. \A s \in Source : s \in Fresh <=> result[s].body # None
  BY <1>2 DEF Fresh, Result
<1>4. ASSUME NEW s \in Fresh
      PROVE  /\ result[s].body \in Body /\ result[s].url \in Url /\ parser[s] \in Parser
             /\ Len(DocsOf(s)) \in Nat
             /\ \A i \in 1..Len(DocsOf(s)) : DocsOf(s)[i].text \in Text
  <2>1. s \in Source /\ result[s] \in Result /\ result[s].body # None
    BY <1>1, <1>2, <1>3
  <2>2. result[s].body \in Body /\ result[s].url \in Url
    BY <2>1 DEF Result
  <2>3. parser[s] \in Parser
    BY <2>1, Inputs DEF TypeOK
  <2> QED
    BY <2>2, <2>3, OrderedAre DEF DocsOf
<1> QED
  BY <1>1, <1>2, <1>3, <1>4

\* What the transaction makes of source_documents: sound chains that keep every
\* row, hold every document collected, and add only documents that were not
\* there, under the artifact of their collection.
LEMMA StoredDocsAre ==
    ASSUME TypeOK, AllSettled, Chains(docs)
    PROVE  /\ Chains(StoredDocs) /\ docs \subseteq StoredDocs
           /\ \A s \in Fresh : \A i \in 1..Len(DocsOf(s)) : Has(StoredDocs, s, DocsOf(s)[i])
           /\ \A x \in StoredDocs \ docs :
                 /\ x.source \in Fresh /\ x.artifact = ArtifactOf(x.source).id
                 /\ \E i \in 1..Len(DocsOf(x.source)) :
                       /\ x.key = DocsOf(x.source)[i].key /\ x.text = DocsOf(x.source)[i].text
                       /\ ~Has(docs, x.source, DocsOf(x.source)[i])
<1> DEFINE Tab(s) == StoredFor(docs, s)
           all == {Tab(s) : s \in Fresh}
<1>1. ASSUME NEW s \in Fresh
      PROVE  /\ Chains(Tab(s)) /\ docs \subseteq Tab(s)
             /\ \A i \in 1..Len(DocsOf(s)) : Has(Tab(s), s, DocsOf(s)[i])
             /\ \A x \in Tab(s) \ docs :
                   /\ x.source = s /\ x.artifact = ArtifactOf(s).id
                   /\ \E i \in 1..Len(DocsOf(s)) :
                         /\ x.key = DocsOf(s)[i].key /\ x.text = DocsOf(s)[i].text
                         /\ ~Has(docs, s, DocsOf(s)[i])
  <2>1. Len(DocsOf(s)) \in Nat
    BY FreshAre
  <2> QED
    BY <2>1, TableAfterAll DEF StoredFor
<1>2. StoredDocs = docs \cup UNION all
  BY DEF StoredDocs
<1>3. IsFiniteSet(StoredDocs)
  <2> DEFINE f == [s \in Fresh |-> Tab(s)]
  <2> HIDE DEF Tab
  <2>1. f \in Surjection(Fresh, all)
    BY DEF Surjection
  <2>2. IsFiniteSet(Fresh)
    BY FreshAre
  <2>3. IsFiniteSet(all)
    <3> HIDE DEF f, all
    <3> QED
      BY <2>1, <2>2, FS_Surjection
  <2>4. \A T \in all : IsFiniteSet(T)
    BY <1>1 DEF Chains
  <2>5. IsFiniteSet(UNION all)
    <3> HIDE DEF all
    <3> QED
      BY <2>3, <2>4, FS_UNION
  <2>6. IsFiniteSet(docs)
    BY DEF Chains
  <2> HIDE DEF all
  <2> QED
    BY <1>2, <2>5, <2>6, FS_Union
<1> HIDE DEF Tab
<1>4. \A x \in StoredDocs : x \in docs \/ (x.source \in Fresh /\ x \in Tab(x.source) \ docs)
  BY <1>1, <1>2
<1>5. ASSUME NEW x \in StoredDocs PROVE ChainSound(StoredDocs, x)
  <2> DEFINE s == x.source
  <2>1. CASE s \in Fresh
    <3>1. ChainOf(StoredDocs, s, x.key) = ChainOf(Tab(s), s, x.key)
      BY <1>1, <1>2, <1>4, <2>1 DEF ChainOf
    <3>2. x \in Tab(s)
      BY <1>1, <1>4, <2>1
    <3>3. ChainSound(Tab(s), x)
      BY <1>1, <2>1, <3>2 DEF Chains
    <3> QED
      BY <3>1, <3>3 DEF ChainSound
  <2>2. CASE s \notin Fresh
    <3>1. ChainOf(StoredDocs, s, x.key) = ChainOf(docs, s, x.key)
      BY <1>2, <1>4, <2>2 DEF ChainOf
    <3>2. x \in docs
      BY <1>4, <2>2
    <3>3. ChainSound(docs, x)
      BY <3>2 DEF Chains
    <3> QED
      BY <3>1, <3>3 DEF ChainSound
  <2> QED
    BY <2>1, <2>2
<1>6. Chains(StoredDocs) /\ docs \subseteq StoredDocs
  BY <1>2, <1>3, <1>5 DEF Chains
<1>7. \A s \in Fresh : \A i \in 1..Len(DocsOf(s)) : Has(StoredDocs, s, DocsOf(s)[i])
  <2> TAKE s \in Fresh
  <2>1. Tab(s) \subseteq StoredDocs
    BY <1>2
  <2> QED
    BY <1>1, <2>1 DEF Has
<1>8. ASSUME NEW x \in StoredDocs \ docs
      PROVE  /\ x.source \in Fresh /\ x.artifact = ArtifactOf(x.source).id
             /\ \E i \in 1..Len(DocsOf(x.source)) :
                   /\ x.key = DocsOf(x.source)[i].key /\ x.text = DocsOf(x.source)[i].text
                   /\ ~Has(docs, x.source, DocsOf(x.source)[i])
  BY <1>1, <1>4
<1> QED
  BY <1>6, <1>7, <1>8

\* The chains of the table are what DocumentChain states.
LEMMA ChainsAre ==
    ASSUME IsFiniteSet(docs)
    PROVE  DocumentChain <=> Chains(docs)
BY DEF DocumentChain, Chains, ChainSound, ChainOf, Ids, Versions, OfVersion

-----------------------------------------------------------------------------
(* upsert_source.                                                          *)

PastOf(hist, s) == {h \in hist : h.source = s}
Named(srcs, hist) ==
    /\ srcs \subseteq hist
    /\ \A s \in Source :
          {h.version : h \in PastOf(hist, s)} = 1..Cardinality(PastOf(hist, s))
    /\ \A g, h \in hist : g.source = h.source /\ g.version = h.version => g = h
Known(s) == {h \in history : h.source = s /\ h.config = config[s]}
Upserted(s) == [source |-> s, config |-> config[s], version |-> NextVersion(s)]

\* A configuration seen before is the row the history holds; another one gets
\* the number after the last.
LEMMA UpsertedIs ==
    ASSUME TypeOK, Named(sources, history), NEW s \in Source
    PROVE  /\ IsFiniteSet(PastOf(history, s)) /\ Cardinality(PastOf(history, s)) \in Nat
           /\ Known(s) # {} => Upserted(s) \in history
           /\ Known(s) = {} => Upserted(s).version = Cardinality(PastOf(history, s)) + 1
           /\ Upserted(s) \in Configured
<1> DEFINE past == PastOf(history, s)
           n == Cardinality(past)
<1>1. IsFiniteSet(past) /\ n \in Nat
  <2>1. past \in SUBSET history
    BY DEF PastOf
  <2> QED
    BY <2>1, FS_Subset, FS_CardinalityType DEF TypeOK
<1>2. config[s] \in Config
  BY Inputs DEF TypeOK
<1>3. Known(s) # {} => Upserted(s) \in history
  <2> SUFFICES ASSUME Known(s) # {} PROVE Upserted(s) \in history
    OBVIOUS
  <2> DEFINE h == CHOOSE x \in Known(s) : TRUE
  <2>1. h \in Known(s)
    OBVIOUS
  <2>2. NextVersion(s) = h.version
    BY DEF NextVersion, Known
  <2> HIDE DEF h
  <2>3. h \in history /\ h.source = s /\ h.config = config[s] /\ h \in Configured
    BY <2>1 DEF Known, TypeOK
  <2>4. h = [source |-> s, config |-> config[s], version |-> h.version]
    BY <2>3 DEF Configured
  <2> QED
    BY <2>2, <2>3, <2>4 DEF Upserted
<1>4. Known(s) = {} => NextVersion(s) = n + 1
  <2> SUFFICES ASSUME Known(s) = {} PROVE NextVersion(s) = n + 1
    OBVIOUS
  <2> DEFINE vs == {h.version : h \in {x \in history : x.source = s}}
             stored == {x.version : x \in {y \in sources : y.source = s}}
             S == {v + 1 : v \in vs \cup stored} \cup {1}
  <2>1. NextVersion(s) = Max(S)
    BY DEF NextVersion, Known
  <2>2. vs = 1..n
    BY DEF Named, PastOf
  <2>3. stored \subseteq vs
    BY DEF Named
  <2> HIDE DEF vs, stored, n
  <2>4. S = {v + 1 : v \in 1..n} \cup {1}
    BY <2>2, <2>3
  <2>5. n + 1 \in S /\ \A y \in S : n + 1 >= y
    <3>1. n = 0 \/ n \in 1..n
      BY <1>1
    <3>2. n + 1 \in S
      <4>1. n = 0 => n + 1 = 1
        OBVIOUS
      <4>2. n \in 1..n => n + 1 \in {v + 1 : v \in 1..n}
        OBVIOUS
      <4> HIDE DEF S
      <4> QED
        BY <2>4, <3>1, <4>1, <4>2
    <3>3. ASSUME NEW y \in S PROVE n + 1 >= y
      <4>1. y = 1 \/ \E v \in 1..n : y = v + 1
        BY <2>4
      <4> QED
        BY <1>1, <4>1
    <3> QED
      BY <3>2, <3>3
  <2>6. \A x \in S : (\A y \in S : x >= y) => x = n + 1
    <3> SUFFICES ASSUME NEW x \in S, \A y \in S : x >= y PROVE x = n + 1
      OBVIOUS
    <3>1. x >= n + 1 /\ n + 1 >= x
      BY <2>5
    <3>2. x \in Nat
      BY <1>1, <2>4
    <3> QED
      BY <1>1, <3>1, <3>2
  <2> HIDE DEF S
  <2>7. (CHOOSE x \in S : \A y \in S : x >= y) = n + 1
    BY <2>5, <2>6
  <2> QED
    BY <2>1, <2>7 DEF Max
<1>5. Upserted(s) \in Configured
  <2>1. CASE Known(s) # {}
    BY <1>3, <2>1 DEF TypeOK
  <2>2. CASE Known(s) = {}
    <3> HIDE DEF n
    <3>1. NextVersion(s) \in Nat \ {0}
      BY <1>1, <1>4, <2>2
    <3> QED
      BY <1>2, <3>1 DEF Upserted, Configured
  <2> QED
    BY <2>1, <2>2
<1>6. Upserted(s).version = NextVersion(s)
  BY DEF Upserted
<1> QED
  BY <1>1, <1>3, <1>4, <1>5, <1>6

\* Upserting every source of the registry keeps the history in order.
LEMMA UpsertedAre ==
    ASSUME TypeOK, Named(sources, history)
    PROVE  /\ Named(UpsertedSources, UpsertedHistory)
           /\ UpsertedSources \subseteq Configured /\ UpsertedHistory \subseteq Configured
           /\ IsFiniteSet(UpsertedHistory)
<1> DEFINE new == {x \in UpsertedSources :
                      ~\E h \in history : h.source = x.source /\ h.config = x.config}
<1>1. UpsertedSources = {Upserted(s) : s \in Source}
  BY DEF UpsertedSources, Upserted
<1>2. UpsertedHistory = history \cup new
  BY DEF UpsertedHistory
<1>3. \A s : Upserted(s).source = s /\ Upserted(s).config = config[s]
  BY DEF Upserted
<1>4. \A s \in Source : Upserted(s) \in new <=> Known(s) = {}
  BY <1>1, <1>3 DEF Known
<1>5. \A x \in new : x.source \in Source /\ x = Upserted(x.source) /\ Known(x.source) = {}
  BY <1>1, <1>3 DEF Known
<1>6. UpsertedSources \subseteq Configured
  BY <1>1, UpsertedIs
<1>7. UpsertedHistory \subseteq Configured
  BY <1>2, <1>6 DEF TypeOK
<1>8. UpsertedSources \subseteq UpsertedHistory
  BY <1>1, <1>2, <1>4, UpsertedIs
<1>9. IsFiniteSet(UpsertedHistory)
  <2> DEFINE f == [s \in Source |-> Upserted(s)]
  <2>1. f \in Surjection(Source, UpsertedSources)
    BY <1>1 DEF Surjection
  <2> HIDE DEF f
  <2>2. IsFiniteSet(UpsertedSources)
    BY <2>1, Inputs, FS_Surjection
  <2>3. new \in SUBSET UpsertedSources
    OBVIOUS
  <2> HIDE DEF new
  <2>4. IsFiniteSet(new)
    BY <2>2, <2>3, FS_Subset
  <2> QED
    BY <1>2, <2>4, FS_Union DEF TypeOK
<1> HIDE DEF new
<1>10. ASSUME NEW s \in Source
       PROVE  LET after == PastOf(UpsertedHistory, s)
              IN  {h.version : h \in after} = 1..Cardinality(after)
  <2> DEFINE past == PastOf(history, s)
             n == Cardinality(past)
             after == PastOf(UpsertedHistory, s)
  <2>1. {h.version : h \in past} = 1..n
    BY DEF Named
  <2>2. CASE Known(s) # {}
    <3>1. after = past
      BY <1>2, <1>5, <2>2 DEF PastOf
    <3> QED
      BY <2>1, <3>1
  <2>3. CASE Known(s) = {}
    <3>1. after = past \cup {Upserted(s)}
      BY <1>2, <1>3, <1>4, <1>5, <2>3 DEF PastOf
    <3>2. IsFiniteSet(past) /\ n \in Nat /\ Upserted(s).version = n + 1
      BY <2>3, UpsertedIs
    <3>3. Upserted(s) \notin past
      <4> SUFFICES ASSUME Upserted(s) \in past PROVE FALSE
        OBVIOUS
      <4>1. n + 1 \in 1..n
        BY <2>1, <3>2
      <4> HIDE DEF n
      <4> QED
        BY <3>2, <4>1
    <3>4. Cardinality(after) = n + 1
      BY <3>1, <3>2, <3>3, FS_AddElement
    <3>5. {h.version : h \in after} = {h.version : h \in past} \cup {n + 1}
      BY <3>1, <3>2
    <3> HIDE DEF n, after, past
    <3>6. {h.version : h \in after} = 1..n + 1
      BY <2>1, <3>2, <3>5
    <3> QED
      BY <3>4, <3>6 DEF after
  <2> QED
    BY <2>2, <2>3
<1>11. ASSUME NEW g \in UpsertedHistory, NEW h \in UpsertedHistory,
              g.source = h.source, g.version = h.version
       PROVE  g = h
  <2>1. \A x \in new, y \in history : x.source = y.source => x.version # y.version
    <3> TAKE x \in new, y \in history
    <3> HAVE x.source = y.source
    <3> DEFINE s == x.source
               past == PastOf(history, s)
               n == Cardinality(past)
    <3>1. s \in Source /\ x = Upserted(s) /\ Known(s) = {}
      BY <1>5
    <3>2. n \in Nat /\ x.version = n + 1
      BY <3>1, UpsertedIs
    <3>3. y \in past
      BY DEF PastOf
    <3>4. y.version \in 1..n
      BY <3>1, <3>3 DEF Named
    <3> HIDE DEF n
    <3> QED
      BY <3>2, <3>4
  <2>2. CASE g \in history /\ h \in history
    BY <1>11, <2>2 DEF Named
  <2>3. CASE g \in new /\ h \in new
    BY <1>5, <1>11, <2>3
  <2> QED
    BY <1>2, <1>11, <2>1, <2>2, <2>3
<1> QED
  BY <1>6, <1>7, <1>8, <1>9, <1>10, <1>11 DEF Named

\* The history in order is what ConfigurationNamed states.
LEMMA NamedIs == ConfigurationNamed <=> Named(sources, history)
BY DEF ConfigurationNamed, Named, PastOf

-----------------------------------------------------------------------------
(* persist_extraction.                                                     *)

Exact(table, obs, cls) ==
    /\ \A o \in obs \cup cls : \E d \in table : o.doc = DocId(d)
    /\ \A d \in table :
          /\ {o \in obs : o.doc = DocId(d)} = Findings({d})
          /\ {c \in cls : c.doc = DocId(d)} = Mentioned({d})

\* What is found in documents is what is found in each, it bears the id of its
\* document, and it depends on nothing but that id.
LEMMA FindingsAre ==
    /\ \A ds : \A o : o \in Findings(ds) <=> \E d \in ds : o \in Findings({d})
    /\ \A ds : \A c : c \in Mentioned(ds) <=> \E d \in ds : c \in Mentioned({d})
    /\ \A d : \A o \in Findings({d}) \cup Mentioned({d}) : o.doc = DocId(d)
    /\ \A d, e : DocId(d) = DocId(e) =>
          Findings({d}) = Findings({e}) /\ Mentioned({d}) = Mentioned({e})
<1> DEFINE F(d) == {[doc |-> DocId(d), type |-> c.type, value |-> c.value,
                     start |-> c.start, end |-> c.end] : c \in Extracted[d.text]}
           M(d) == {[doc |-> DocId(d), cve |-> v] : v \in ExtractCves(d.text)}
<1>1. \A ds : Findings(ds) = UNION {F(d) : d \in ds}
  BY DEF Findings
<1>2. \A ds : Mentioned(ds) = UNION {M(d) : d \in ds}
  BY DEF Mentioned
<1>3. \A d : \A o \in F(d) \cup M(d) : o.doc = DocId(d)
  OBVIOUS
<1>4. \A d, e : DocId(d) = DocId(e) => F(d) = F(e) /\ M(d) = M(e)
  <2> SUFFICES ASSUME NEW d, NEW e, DocId(d) = DocId(e) PROVE F(d) = F(e) /\ M(d) = M(e)
    OBVIOUS
  <2>1. d.text = e.text
    BY DEF DocId
  <2> QED
    BY <2>1
<1> HIDE DEF F, M
<1>5. \A d : Findings({d}) = F(d) /\ Mentioned({d}) = M(d)
  BY <1>1, <1>2
<1>6. \A ds : \A o : o \in Findings(ds) <=> \E d \in ds : o \in F(d)
  BY <1>1
<1>7. \A ds : \A o : o \in Mentioned(ds) <=> \E d \in ds : o \in M(d)
  BY <1>2
<1>8. \A ds : \A o : o \in Findings(ds) <=> \E d \in ds : o \in Findings({d})
  <2> TAKE ds
  <2> TAKE o
  <2>1. o \in Findings(ds) <=> \E d \in ds : o \in F(d)
    BY <1>6
  <2> QED
    BY <1>5, <2>1
<1>9. \A ds : \A c : c \in Mentioned(ds) <=> \E d \in ds : c \in Mentioned({d})
  <2> TAKE ds
  <2> TAKE c
  <2>1. c \in Mentioned(ds) <=> \E d \in ds : c \in M(d)
    BY <1>7
  <2> QED
    BY <1>5, <2>1
<1>10. \A d : \A o \in Findings({d}) \cup Mentioned({d}) : o.doc = DocId(d)
  BY <1>3, <1>5
<1>11. \A d, e : DocId(d) = DocId(e) =>
          Findings({d}) = Findings({e}) /\ Mentioned({d}) = Mentioned({e})
  BY <1>4, <1>5
<1> QED
  BY <1>8, <1>9, <1>10, <1>11, Zenon

\* Every document collected is stored after the transaction, and what is new
\* in the table was collected and had no row before.
LEMMA CollectedAre ==
    ASSUME TypeOK, AllSettled, Chains(docs)
    PROVE  /\ \A e \in Collected : \E d \in StoredDocs : DocId(d) = DocId(e)
           /\ \A d \in StoredDocs \ docs :
                 /\ d.source \in Source /\ d.text \in Text
                 /\ \E e \in Collected : DocId(e) = DocId(d)
                 /\ \A y \in docs : DocId(y) # DocId(d)
<1> DEFINE C(s, i) == [source |-> s, key |-> DocsOf(s)[i].key, text |-> DocsOf(s)[i].text]
<1>1. \A e : e \in Collected <=> \E s \in Fresh : \E i \in 1..Len(DocsOf(s)) : e = C(s, i)
  BY DEF Collected
<1>2. \A s, i : C(s, i).source = s /\ C(s, i).key = DocsOf(s)[i].key
                /\ C(s, i).text = DocsOf(s)[i].text
  OBVIOUS
<1> HIDE DEF C
<1>3. ASSUME NEW e \in Collected PROVE \E d \in StoredDocs : DocId(d) = DocId(e)
  <2>0. PICK s \in Fresh : \E i \in 1..Len(DocsOf(s)) : e = C(s, i)
    BY <1>1
  <2>1. PICK i \in 1..Len(DocsOf(s)) : e = C(s, i)
    BY <2>0
  <2>2. Has(StoredDocs, s, DocsOf(s)[i])
    BY StoredDocsAre
  <2>3. PICK d \in StoredDocs : d.source = s /\ d.key = DocsOf(s)[i].key /\ d.text = DocsOf(s)[i].text
    BY <2>2 DEF Has
  <2>4. e.source = s /\ e.key = DocsOf(s)[i].key /\ e.text = DocsOf(s)[i].text
    BY <1>2, <2>1
  <2> QED
    BY <2>3, <2>4 DEF DocId
<1>4. ASSUME NEW d \in StoredDocs \ docs
      PROVE  /\ d.source \in Source /\ d.text \in Text
             /\ \E e \in Collected : DocId(e) = DocId(d)
             /\ \A y \in docs : DocId(y) # DocId(d)
  <2> DEFINE s == d.source
  <2>1. s \in Fresh
    BY StoredDocsAre
  <2>2. PICK i \in 1..Len(DocsOf(s)) :
            /\ d.key = DocsOf(s)[i].key /\ d.text = DocsOf(s)[i].text
            /\ ~Has(docs, s, DocsOf(s)[i])
    BY StoredDocsAre
  <2>3. s \in Source /\ d.text \in Text
    BY <2>1, <2>2, FreshAre
  <2>4. C(s, i) \in Collected /\ DocId(C(s, i)) = DocId(d)
    BY <1>1, <1>2, <2>1, <2>2 DEF DocId
  <2>5. \A y \in docs : DocId(y) # DocId(d)
    BY <2>2 DEF Has, DocId
  <2> QED
    BY <2>3, <2>4, <2>5
<1> QED
  BY <1>3, <1>4

\* The transaction adds to the evidence what the new documents hold, and to the
\* old documents nothing.
LEMMA EvidenceAfter ==
    ASSUME TypeOK, AllSettled, Chains(docs), Exact(docs, observations, claims)
    PROVE  Exact(StoredDocs, observations \cup Findings(Collected), claims \cup Mentioned(Collected))
<1> DEFINE obs == observations \cup Findings(Collected)
           cls == claims \cup Mentioned(Collected)
<1>1. docs \subseteq StoredDocs
  BY StoredDocsAre
<1>2. ASSUME NEW o \in obs \cup cls PROVE \E d \in StoredDocs : o.doc = DocId(d)
  <2>1. CASE o \in observations \cup claims
    BY <1>1, <2>1 DEF Exact
  <2>2. CASE o \in Findings(Collected) \cup Mentioned(Collected)
    <3>1. PICK e \in Collected : o \in Findings({e}) \cup Mentioned({e})
      BY <2>2, FindingsAre
    <3>2. o.doc = DocId(e)
      BY <3>1, FindingsAre
    <3> QED
      BY <3>2, CollectedAre
  <2> QED
    BY <2>1, <2>2
<1>3. ASSUME NEW d \in StoredDocs
      PROVE  /\ {o \in obs : o.doc = DocId(d)} = Findings({d})
             /\ {c \in cls : c.doc = DocId(d)} = Mentioned({d})
  <2>1. \A o \in Findings(Collected) : o.doc = DocId(d) => o \in Findings({d})
    <3> TAKE o \in Findings(Collected)
    <3>1. PICK e \in Collected : o \in Findings({e})
      BY FindingsAre
    <3>2. o.doc = DocId(e)
      BY <3>1, FindingsAre
    <3> QED
      BY <3>1, <3>2, FindingsAre
  <2>2. \A o \in Mentioned(Collected) : o.doc = DocId(d) => o \in Mentioned({d})
    <3> TAKE o \in Mentioned(Collected)
    <3>1. PICK e \in Collected : o \in Mentioned({e})
      BY FindingsAre
    <3>2. o.doc = DocId(e)
      BY <3>1, FindingsAre
    <3> QED
      BY <3>1, <3>2, FindingsAre
  <2>3. \A o \in Findings({d}) \cup Mentioned({d}) : o.doc = DocId(d)
    BY FindingsAre
  <2>4. CASE d \in docs
    <3>1. /\ {o \in observations : o.doc = DocId(d)} = Findings({d})
          /\ {c \in claims : c.doc = DocId(d)} = Mentioned({d})
      BY <2>4 DEF Exact
    <3> QED
      BY <2>1, <2>2, <2>3, <3>1
  <2>5. CASE d \notin docs
    <3>1. \A o \in observations \cup claims : o.doc # DocId(d)
      BY <2>5, CollectedAre DEF Exact
    <3>2. PICK e \in Collected : DocId(e) = DocId(d)
      BY <2>5, CollectedAre
    <3>3. Findings({d}) = Findings({e}) /\ Mentioned({d}) = Mentioned({e})
      BY <3>2, FindingsAre
    <3>4. Findings({d}) \subseteq Findings(Collected) /\ Mentioned({d}) \subseteq Mentioned(Collected)
      BY <3>3, FindingsAre
    <3>5. {o \in obs : o.doc = DocId(d)} = Findings({d})
      <4>1. \A o \in obs : o.doc = DocId(d) => o \in Findings({d})
        BY <2>1, <3>1
      <4>2. \A o \in Findings({d}) : o \in obs /\ o.doc = DocId(d)
        BY <2>3, <3>4
      <4> QED
        BY <4>1, <4>2
    <3>6. {c \in cls : c.doc = DocId(d)} = Mentioned({d})
      BY <2>2, <2>3, <3>1, <3>4
    <3> QED
      BY <3>5, <3>6
  <2> QED
    BY <2>4, <2>5
<1> QED
  BY <1>2, <1>3 DEF Exact

\* The exact evidence is what EvidenceExact states.
LEMMA ExactIs == EvidenceExact <=> Exact(docs, observations, claims)
BY DEF EvidenceExact, Exact

-----------------------------------------------------------------------------
(* The inductive invariant: the invariants of the runs, and a row for the  *)
(* artifact of every document and for every document of an artifact.       *)

HasAll(table, s, ds) == \A i \in 1..Len(ds) : Has(table, s, ds[i])
Anchored ==
    /\ \A d \in docs : \E a \in artifacts : a.id = d.artifact
    /\ \A a \in artifacts : HasAll(docs, a.source, Ordered[parser[a.source]][a.body])
Remembered(s) ==
    validators[s] # None =>
        /\ Normalized[parser[s]][validators[s]].error = None
        /\ \/ s \in unsaved
           \/ result[s] # None /\ result[s].body = validators[s]
           \/ HasAll(docs, s, Normalized[parser[s]][validators[s]].docs)
        /\ result[s] # None /\ result[s].body # None => result[s].body = validators[s]
IInv ==
    /\ TypeOK /\ Chains(docs) /\ Named(sources, history)
    /\ Exact(docs, observations, claims) /\ Anchored /\ \A s \in Source : Remembered(s)

\* A document stays found while rows are only added.
LEMMA HasAllGrows ==
    ASSUME NEW old, NEW new, old \subseteq new, NEW s, NEW ds, HasAll(old, s, ds)
    PROVE  HasAll(new, s, ds)
BY DEF HasAll, Has

\* What a collection ends with is a result.
LEMMA OutcomesAre ==
    /\ \A status \in {"completed", "failed", "skipped"} :
          Outcome(status) \in Result /\ Outcome(status).body = None
    /\ \A s \in Source : \A url \in Landing[s], b \in Offers[s] :
          Completed(b, url) \in Result /\ Completed(b, url).body = b /\ b \in Body
    /\ None \notin Body /\ None \notin Result
<1>1. None \notin Body /\ None \notin Result /\ None \notin Url
  BY Inputs
<1>2. \A status \in {"completed", "failed", "skipped"} :
          Outcome(status) \in Result /\ Outcome(status).body = None
  BY DEF Outcome, Result
<1>3. ASSUME NEW s \in Source, NEW url \in Landing[s], NEW b \in Offers[s]
      PROVE  Completed(b, url) \in Result /\ Completed(b, url).body = b /\ b \in Body
  <2>1. b \in Body
    BY Inputs
  <2>2. url \in Url
    BY DEF Url
  <2> QED
    BY <1>1, <2>1, <2>2 DEF Completed, Result
<1> QED
  BY <1>1, <1>2, <1>3

\* Settling a source gives it a result and leaves the others alone.
LEMMA SettleIs ==
    ASSUME TypeOK, NEW s \in Source, NEW r \in Result, Settle(s, r)
    PROVE  /\ stage' \in [Source -> {"waiting", "fetching", "done"}]
           /\ attempt' \in [Source -> 0..MaxRetries + 1]
           /\ result' \in [Source -> Result \cup {None}]
           /\ \A t \in Source : stage'[t] = "done" <=> result'[t] # None
           /\ result'[s] = r /\ \A t \in Source : t # s => result'[t] = result[t]
<1>1. 0 \in 0..MaxRetries + 1
  BY Bounds
<1>2. /\ result' = [result EXCEPT ![s] = r] /\ stage' = [stage EXCEPT ![s] = "done"]
      /\ attempt' = [attempt EXCEPT ![s] = 0]
  BY DEF Settle
<1>3. /\ stage \in [Source -> {"waiting", "fetching", "done"}]
      /\ attempt \in [Source -> 0..MaxRetries + 1]
      /\ result \in [Source -> Result \cup {None}]
      /\ \A t \in Source : stage[t] = "done" <=> result[t] # None
  BY DEF TypeOK
<1>4. None \notin Result
  BY OutcomesAre
<1>5. result'[s] = r /\ \A t \in Source : t # s => result'[t] = result[t]
  BY <1>2, <1>3
<1>6. stage'[s] = "done" /\ \A t \in Source : t # s => stage'[t] = stage[t]
  BY <1>2, <1>3
<1>7. \A t \in Source : stage'[t] = "done" <=> result'[t] # None
  BY <1>3, <1>4, <1>5, <1>6
<1> QED
  BY <1>1, <1>2, <1>3, <1>5, <1>7

\* A step that leaves the tables and the sets of rows alone keeps what is said
\* of them.
LEMMA TablesKept ==
    ASSUME IInv, UNCHANGED <<parser, tables>>
    PROVE  /\ Chains(docs)' /\ Named(sources, history)' /\ Exact(docs, observations, claims)'
           /\ Anchored'
           /\ sources' \subseteq Configured /\ history' \subseteq Configured /\ IsFiniteSet(history')
           /\ artifacts' \subseteq [id : Source \X Url \X Body, source : Source, body : Body]
           /\ IsFiniteSet(docs') /\ \A d \in docs' : d.source \in Source /\ d.text \in Text
           /\ parser' \in Registry
           /\ row' \in [failed : BOOLEAN, found : BOOLEAN]
<1>1. /\ sources' = sources /\ history' = history /\ artifacts' = artifacts /\ docs' = docs
      /\ observations' = observations /\ claims' = claims /\ parser' = parser /\ row' = row
  BY DEF tables
<1>2. Anchored'
  BY <1>1 DEF IInv, Anchored
<1>3. Chains(docs)' /\ Named(sources, history)' /\ Exact(docs, observations, claims)'
  BY <1>1 DEF IInv
<1> QED
  BY <1>1, <1>2, <1>3 DEF IInv, TypeOK

\* A source that is settled without a body keeps what it remembers.
LEMMA SettledWithoutBody ==
    ASSUME IInv, NEW s \in Source, stage[s] # "done",
           NEW r \in Result, r.body = None, Settle(s, r),
           UNCHANGED <<parser, config, validators, phase, tables, unsaved>>
    PROVE  IInv'
<1>1. /\ stage' \in [Source -> {"waiting", "fetching", "done"}]
      /\ attempt' \in [Source -> 0..MaxRetries + 1]
      /\ result' \in [Source -> Result \cup {None}]
      /\ \A t \in Source : stage'[t] = "done" <=> result'[t] # None
      /\ result'[s] = r /\ \A t \in Source : t # s => result'[t] = result[t]
  BY SettleIs DEF IInv
<1>2. TypeOK'
  BY <1>1, TablesKept DEF IInv, TypeOK
<1>3. docs' = docs /\ parser' = parser /\ validators' = validators /\ unsaved' = unsaved
  BY DEF tables
<1>4. result[s] = None
  BY DEF IInv, TypeOK
<1>5. ASSUME NEW t \in Source PROVE Remembered(t)'
  <2>1. Remembered(t)
    BY DEF IInv
  <2>2. CASE t = s
    BY <1>1, <1>3, <1>4, <2>1, <2>2 DEF Remembered
  <2>3. CASE t # s
    BY <1>1, <1>3, <2>1, <2>3 DEF Remembered
  <2> QED
    BY <2>2, <2>3
<1> QED
  BY <1>2, <1>5, TablesKept DEF IInv

\* Nothing is stored and nothing remembered at the start.
LEMMA InitHolds == Init => IInv
<1> SUFFICES ASSUME Init PROVE IInv
  OBVIOUS
<1>1. /\ sources = {} /\ history = {} /\ artifacts = {} /\ docs = {}
      /\ observations = {} /\ claims = {} /\ unsaved = {}
  BY DEF Init
<1>2. IsFiniteSet({}) /\ Cardinality({}) = 0
  BY FS_EmptySet
<1>3. 0 \in 0..MaxRetries + 1 /\ 1..0 = {}
  BY Bounds
<1>4. TypeOK
  BY <1>1, <1>2, <1>3 DEF Init, TypeOK, NewRow
<1>5. Chains(docs)
  BY <1>1, <1>2 DEF Chains
<1>6. Named(sources, history)
  <2>1. \A s \in Source : PastOf(history, s) = {}
    BY <1>1 DEF PastOf
  <2>2. \A s \in Source : {h.version : h \in PastOf(history, s)} = {}
    BY <2>1
  <2> QED
    BY <1>1, <1>2, <1>3, <2>1, <2>2 DEF Named
<1>7. Exact(docs, observations, claims) /\ Anchored
  BY <1>1 DEF Exact, Anchored
<1>8. \A s \in Source : Remembered(s)
  BY DEF Init, Remembered
<1> QED
  BY <1>4, <1>5, <1>6, <1>7, <1>8 DEF IInv

\* The start of a run.
LEMMA BeginRunKeeps == IInv /\ BeginRun => IInv'
<1> SUFFICES ASSUME IInv, BeginRun PROVE IInv'
  OBVIOUS
<1>1. /\ parser' = parser /\ config' = config /\ validators' = validators /\ stage' = stage
      /\ attempt' = attempt /\ result' = result /\ unsaved' = unsaved
      /\ sources' = sources /\ history' = history /\ artifacts' = artifacts /\ docs' = docs
      /\ observations' = observations /\ claims' = claims /\ phase' = "collecting"
      /\ row' \in {row, NewRow}
  BY DEF BeginRun
<1>2. TypeOK'
  <2>1. NewRow \in [failed : BOOLEAN, found : BOOLEAN]
    BY DEF NewRow
  <2>2. row' \in [failed : BOOLEAN, found : BOOLEAN]
    BY <1>1, <2>1 DEF IInv, TypeOK
  <2> QED
    BY <1>1, <2>2 DEF IInv, TypeOK
<1>3. Anchored'
  BY <1>1 DEF IInv, Anchored
<1>4. \A s \in Source : Remembered(s)'
  BY <1>1 DEF IInv, Remembered
<1> QED
  BY <1>1, <1>2, <1>3, <1>4 DEF IInv

\* The semaphore admits a source.
LEMMA StartSourceKeeps ==
    ASSUME IInv, NEW s \in Source, StartSource(s)
    PROVE  IInv'
<1>1. CASE Settle(s, Outcome("skipped"))
  BY <1>1, OutcomesAre, SettledWithoutBody DEF StartSource
<1>2. CASE stage' = [stage EXCEPT ![s] = "fetching"] /\ UNCHANGED <<attempt, result>>
  <2>1. UNCHANGED <<parser, config, validators, phase, tables, unsaved>> /\ stage[s] = "waiting"
    BY DEF StartSource
  <2>2. TypeOK'
    <3>1. /\ stage \in [Source -> {"waiting", "fetching", "done"}]
          /\ \A t \in Source : stage[t] = "done" <=> result[t] # None
      BY DEF IInv, TypeOK
    <3>2. stage' \in [Source -> {"waiting", "fetching", "done"}]
      BY <1>2, <3>1
    <3>3. \A t \in Source : stage'[t] = "done" <=> result'[t] # None
      BY <1>2, <2>1, <3>1
    <3> QED
      BY <1>2, <2>1, <3>2, <3>3, TablesKept DEF IInv, TypeOK
  <2>3. docs' = docs /\ parser' = parser /\ validators' = validators /\ unsaved' = unsaved
        /\ result' = result
    BY <1>2, <2>1 DEF tables
  <2>4. \A t \in Source : Remembered(t)'
    BY <2>3 DEF IInv, Remembered
  <2> QED
    BY <2>1, <2>2, <2>4, TablesKept DEF IInv
<1> QED
  BY <1>1, <1>2 DEF StartSource

\* An attempt fails.
LEMMA AttemptFailsKeeps ==
    ASSUME IInv, NEW s \in Source, AttemptFails(s)
    PROVE  IInv'
<1>1. UNCHANGED <<parser, config, validators, phase, tables, unsaved>> /\ stage[s] = "fetching"
  BY DEF AttemptFails
<1>2. CASE Settle(s, Outcome("failed"))
  BY <1>1, <1>2, OutcomesAre, SettledWithoutBody
<1>3. CASE /\ attempt' = [attempt EXCEPT ![s] = (@ + 1) % (MaxRetries + 2)]
           /\ UNCHANGED <<stage, result>>
  <2>1. attempt' \in [Source -> 0..MaxRetries + 1]
    <3>1. attempt \in [Source -> 0..MaxRetries + 1]
      BY DEF IInv, TypeOK
    <3>2. (attempt[s] + 1) % (MaxRetries + 2) \in 0..MaxRetries + 1
      <4>1. attempt[s] + 1 \in Nat
        BY <3>1, Bounds
      <4>2. MaxRetries + 2 \in Nat \ {0}
        BY Bounds
      <4>3. \A a \in Nat, n \in Nat \ {0} : a % n \in 0..n - 1
        OBVIOUS
      <4> DEFINE a == attempt[s] + 1
                 n == MaxRetries + 2
      <4>4. n - 1 = MaxRetries + 1
        BY Bounds
      <4> HIDE DEF a, n
      <4>5. a % n \in 0..n - 1
        BY <4>1, <4>2, <4>3 DEF a, n
      <4>6. a % n \in 0..MaxRetries + 1
        BY <4>4, <4>5
      <4> QED
        BY <4>6 DEF a, n
    <3> QED
      BY <1>3, <3>1, <3>2
  <2>2. TypeOK'
    BY <1>1, <1>3, <2>1, TablesKept DEF IInv, TypeOK
  <2>3. docs' = docs /\ parser' = parser /\ validators' = validators /\ unsaved' = unsaved
        /\ result' = result
    BY <1>1, <1>3 DEF tables
  <2>4. \A t \in Source : Remembered(t)'
    BY <2>3 DEF IInv, Remembered
  <2> QED
    BY <1>1, <2>2, <2>4, TablesKept DEF IInv
<1> QED
  BY <1>2, <1>3 DEF AttemptFails

\* A body is received.
LEMMA ReceiveKeeps ==
    ASSUME IInv, NEW s \in Source, Receive(s)
    PROVE  IInv'
<1>1. UNCHANGED <<parser, config, phase, tables, unsaved>> /\ stage[s] = "fetching"
  BY DEF Receive
<1>2. CASE Settle(s, Outcome("failed")) /\ validators' = validators
  BY <1>1, <1>2, OutcomesAre, SettledWithoutBody
<1>3. ASSUME NEW url \in Landing[s], NEW b \in Offers[s],
             Normalized[parser[s]][b].error = None,
             Settle(s, Completed(b, url)), validators' = [validators EXCEPT ![s] = b]
      PROVE  IInv'
  <2>1. Completed(b, url) \in Result /\ Completed(b, url).body = b /\ b \in Body
    BY OutcomesAre
  <2>2. /\ stage' \in [Source -> {"waiting", "fetching", "done"}]
        /\ attempt' \in [Source -> 0..MaxRetries + 1]
        /\ result' \in [Source -> Result \cup {None}]
        /\ \A t \in Source : stage'[t] = "done" <=> result'[t] # None
        /\ result'[s] = Completed(b, url) /\ \A t \in Source : t # s => result'[t] = result[t]
    BY <1>3, <2>1, SettleIs DEF IInv
  <2>3. validators \in [Source -> Body \cup {None}]
    BY DEF IInv, TypeOK
  <2>4. validators' \in [Source -> Body \cup {None}]
    BY <1>3, <2>1, <2>3
  <2>5. TypeOK'
    BY <1>1, <2>2, <2>4, TablesKept DEF IInv, TypeOK
  <2>6. docs' = docs /\ parser' = parser /\ unsaved' = unsaved
    BY <1>1 DEF tables
  <2>7. validators'[s] = b /\ \A t \in Source : t # s => validators'[t] = validators[t]
    BY <1>3, <2>3
  <2>8. ASSUME NEW t \in Source PROVE Remembered(t)'
    <3>1. Remembered(t)
      BY DEF IInv
    <3>2. CASE t = s
      <4>1. result'[s] # None
        BY <2>1, <2>2, OutcomesAre
      <4> QED
        BY <1>3, <2>1, <2>2, <2>6, <2>7, <3>2, <4>1 DEF Remembered
    <3>3. CASE t # s
      BY <2>2, <2>6, <2>7, <3>1, <3>3 DEF Remembered
    <3> QED
      BY <3>2, <3>3
  <2> QED
    BY <1>1, <2>5, <2>8, TablesKept DEF IInv
<1> QED
  <2>1. CASE \E url \in Landing[s], b \in Offers[s] :
             /\ Settle(s, IF Normalized[parser[s]][b].error = None
                          THEN Completed(b, url) ELSE Outcome("failed"))
             /\ validators' = IF Normalized[parser[s]][b].error = None
                              THEN [validators EXCEPT ![s] = b] ELSE validators
    BY <1>2, <1>3, <2>1
  <2> QED
    BY <1>2, <2>1 DEF Receive, Remembers

\* A new process remembers nothing.
LEMMA RestartKeeps ==
    ASSUME IInv, NEW c \in Settings, Restart(c)
    PROVE  IInv'
<1>1. 0 \in 0..MaxRetries + 1
  BY Bounds
<1>2. TypeOK'
  BY <1>1, TablesKept DEF Restart, TypeOK
<1>3. \A s \in Source : Remembered(s)'
  BY DEF Restart, Remembered
<1> QED
  BY <1>2, <1>3, TablesKept DEF Restart, IInv

\* The end of a run whose transaction stores nothing: what its sources remember
\* is known to be unsaved.
LEMMA NothingStoredKeeps ==
    ASSUME IInv, AllSettled, unsaved' = unsaved \cup Fresh, EndRun, UNCHANGED tables
    PROVE  IInv'
<1>1. /\ phase' = "idle" /\ stage' = [s \in Source |-> "waiting"]
      /\ result' = [s \in Source |-> None]
      /\ UNCHANGED <<parser, config, validators, attempt>>
  BY DEF EndRun
<1>2. Fresh \subseteq Source /\ \A s \in Source : result[s].body # None => s \in Fresh
  BY FreshAre DEF IInv
<1>3. TypeOK'
  BY <1>1, <1>2, TablesKept DEF IInv, TypeOK
<1>4. docs' = docs /\ parser' = parser /\ validators' = validators
  BY <1>1 DEF tables
<1>5. \A s \in Source : Remembered(s)'
  <2> TAKE s \in Source
  <2>1. Remembered(s)
    BY DEF IInv
  <2>2. result'[s] = None
    BY <1>1
  <2> QED
    BY <1>2, <1>4, <2>1, <2>2 DEF Remembered
<1> QED
  BY <1>1, <1>3, <1>5, TablesKept DEF IInv

\* The commit stores the artifacts with their documents.
LEMMA CommitAnchors ==
    ASSUME IInv, AllSettled, ~Raises, docs' = StoredDocs, artifacts' = StoredArtifacts,
           parser' = parser
    PROVE  /\ Anchored'
           /\ artifacts' \subseteq [id : Source \X Url \X Body, source : Source, body : Body]
<1>1. docs \subseteq StoredDocs /\ artifacts \subseteq StoredArtifacts
  BY StoredDocsAre DEF IInv, StoredArtifacts
<1>2. \A a \in StoredArtifacts : a \in artifacts \/ \E s \in Fresh : a = ArtifactOf(s)
  BY DEF StoredArtifacts
<1>3. \A s : /\ ArtifactOf(s).id = <<s, result[s].url, result[s].body>>
             /\ ArtifactOf(s).source = s /\ ArtifactOf(s).body = result[s].body
  BY DEF ArtifactOf
<1>4. ASSUME NEW d \in StoredDocs PROVE \E a \in StoredArtifacts : a.id = d.artifact
  <2>1. CASE d \in docs
    BY <1>1, <2>1 DEF IInv, Anchored
  <2>2. CASE d \notin docs
    BY <2>2 DEF Raises
  <2> QED
    BY <2>1, <2>2
<1>5. ASSUME NEW a \in StoredArtifacts
      PROVE  HasAll(StoredDocs, a.source, Ordered[parser[a.source]][a.body])
  <2>1. CASE a \in artifacts
    <3>1. HasAll(docs, a.source, Ordered[parser[a.source]][a.body])
      BY <2>1 DEF IInv, Anchored
    <3> QED
      BY <1>1, <3>1, HasAllGrows
  <2>2. CASE a \notin artifacts
    <3>1. PICK s \in Fresh : a = ArtifactOf(s)
      BY <1>2, <2>2
    <3>2. a.source = s /\ Ordered[parser[a.source]][a.body] = DocsOf(s)
      BY <1>3, <3>1 DEF DocsOf
    <3>3. \A i \in 1..Len(DocsOf(s)) : Has(StoredDocs, s, DocsOf(s)[i])
      BY StoredDocsAre DEF IInv
    <3> QED
      BY <3>2, <3>3 DEF HasAll
  <2> QED
    BY <2>1, <2>2
<1>6. Anchored'
  BY <1>4, <1>5 DEF Anchored
<1>7. \A s \in Fresh : ArtifactOf(s) \in [id : Source \X Url \X Body, source : Source, body : Body]
  <2> TAKE s \in Fresh
  <2>1. s \in Source /\ result[s].url \in Url /\ result[s].body \in Body
    BY FreshAre DEF IInv
  <2> QED
    BY <2>1 DEF ArtifactOf
<1>8. artifacts' \subseteq [id : Source \X Url \X Body, source : Source, body : Body]
  BY <1>2, <1>7 DEF IInv, TypeOK
<1> QED
  BY <1>6, <1>8

\* What a source remembers is stored when the run commits: the documents of its
\* body if it is fresh, what they were before if it is not.
LEMMA CommitRemembers ==
    ASSUME IInv, AllSettled, docs' = StoredDocs, parser' = parser, validators' = validators,
           unsaved' = unsaved \ Fresh, result' = [s \in Source |-> None],
           NEW s \in Source
    PROVE  Remembered(s)'
<1> DEFINE parsed == Normalized[parser[s]][validators[s]]
<1>1. SUFFICES ASSUME validators[s] # None
               PROVE  /\ parsed.error = None
                      /\ s \in unsaved \ Fresh \/ HasAll(StoredDocs, s, parsed.docs)
  <2>1. result'[s] = None
    OBVIOUS
  <2> QED
    BY <1>1, <2>1 DEF Remembered
<1>2. /\ parsed.error = None
      /\ \/ s \in unsaved
         \/ result[s] # None /\ result[s].body = validators[s]
         \/ HasAll(docs, s, parsed.docs)
      /\ result[s] # None /\ result[s].body # None => result[s].body = validators[s]
  BY <1>1 DEF IInv, Remembered
<1>3. result[s] # None /\ (s \in Fresh <=> result[s].body # None)
  BY FreshAre, OutcomesAre DEF IInv
<1>4. docs \subseteq StoredDocs
  BY StoredDocsAre DEF IInv
<1>5. CASE s \in Fresh
  <2>1. result[s].body = validators[s] /\ validators[s] \in Body /\ parser[s] \in Parser
    BY <1>2, <1>3, <1>5, FreshAre DEF IInv
  <2>2. \A i \in 1..Len(DocsOf(s)) : Has(StoredDocs, s, DocsOf(s)[i])
    BY <1>5, StoredDocsAre DEF IInv
  <2>3. DocsOf(s) = Ordered[parser[s]][validators[s]]
    BY <2>1 DEF DocsOf
  <2>4. Among(parsed.docs, DocsOf(s))
    BY <2>1, <2>3, OrderedAre
  <2> HIDE DEF parsed
  <2>5. HasAll(StoredDocs, s, parsed.docs)
    BY <2>2, <2>4 DEF HasAll, Among
  <2> QED
    BY <1>2, <2>5
<1>6. CASE s \notin Fresh
  <2>1. s \in unsaved \/ HasAll(docs, s, parsed.docs)
    BY <1>1, <1>2, <1>3, <1>6
  <2>2. HasAll(docs, s, parsed.docs) => HasAll(StoredDocs, s, parsed.docs)
    BY <1>4, HasAllGrows
  <2> QED
    BY <1>2, <1>6, <2>1, <2>2
<1> QED
  BY <1>5, <1>6

\* The commit.
LEMMA CommitKeeps == IInv /\ Commit => IInv'
<1> SUFFICES ASSUME IInv, Commit PROVE IInv'
  OBVIOUS
<1>1. AllSettled /\ EndRun
  BY DEF Commit
<1>2. CASE unsaved' = unsaved \cup Fresh /\ UNCHANGED tables
  BY <1>1, <1>2, NothingStoredKeeps
<1>3. CASE /\ ~Raises /\ sources' = UpsertedSources /\ history' = UpsertedHistory
           /\ artifacts' = StoredArtifacts /\ docs' = StoredDocs
           /\ observations' = observations \cup Findings(Collected)
           /\ claims' = claims \cup Mentioned(Collected)
           /\ row' = [failed |-> \E s \in Source : result[s].status = "failed",
                      found |-> IF Collected = {} THEN row.found
                                ELSE Findings(Collected) # {} \/ Mentioned(Collected) # {}]
           /\ unsaved' = unsaved \ Fresh
  <2>1. /\ phase' = "idle" /\ stage' = [s \in Source |-> "waiting"]
        /\ result' = [s \in Source |-> None]
        /\ parser' = parser /\ config' = config /\ validators' = validators /\ attempt' = attempt
    BY <1>1 DEF EndRun
  <2>2. Chains(docs)' /\ IsFiniteSet(docs')
    BY <1>1, <1>3, StoredDocsAre DEF IInv, Chains
  <2>3. Named(sources, history)' /\ sources' \subseteq Configured /\ history' \subseteq Configured
        /\ IsFiniteSet(history')
    BY <1>3, UpsertedAre DEF IInv
  <2>4. Exact(docs, observations, claims)'
    BY <1>1, <1>3, EvidenceAfter DEF IInv
  <2>5. /\ Anchored'
        /\ artifacts' \subseteq [id : Source \X Url \X Body, source : Source, body : Body]
    BY <1>1, <1>3, <2>1, CommitAnchors
  <2>6. \A s \in Source : Remembered(s)'
    BY <1>1, <1>3, <2>1, CommitRemembers
  <2>7. row' \in [failed : BOOLEAN, found : BOOLEAN]
    <3>1. row.found \in BOOLEAN
      BY DEF IInv, TypeOK
    <3> DEFINE f == \E s \in Source : result[s].status = "failed"
               g == IF Collected = {} THEN row.found
                    ELSE Findings(Collected) # {} \/ Mentioned(Collected) # {}
    <3>2. f \in BOOLEAN /\ g \in BOOLEAN
      BY <3>1
    <3>3. row' = [failed |-> f, found |-> g]
      BY <1>3
    <3> HIDE DEF f, g
    <3> QED
      BY <3>2, <3>3
  <2>8. \A d \in docs' : d.source \in Source /\ d.text \in Text
    BY <1>1, <1>3, CollectedAre DEF IInv, TypeOK
  <2>9. TypeOK'
    BY <1>3, <2>1, <2>2, <2>3, <2>5, <2>7, <2>8 DEF IInv, TypeOK
  <2> QED
    BY <2>2, <2>3, <2>4, <2>5, <2>6, <2>9 DEF IInv
<1> QED
  BY <1>2, <1>3 DEF Commit

\* The rollback.
LEMMA RollbackKeeps == IInv /\ Rollback => IInv'
BY NothingStoredKeeps DEF Rollback, RolledBack, tables

\* The invariant is inductive.
LEMMA IInvKept == IInv /\ [Next]_vars => IInv'
<1> SUFFICES ASSUME IInv, [Next]_vars PROVE IInv'
  OBVIOUS
<1>1. ASSUME NEW s \in Source, NotModified(s) PROVE IInv'
  BY <1>1, OutcomesAre, SettledWithoutBody DEF NotModified
<1>2. CASE UNCHANGED vars
  <2>1. UNCHANGED <<parser, config, process, tables, unsaved>>
    BY <1>2 DEF vars
  <2>2. TypeOK'
    BY <2>1, TablesKept DEF IInv, TypeOK, process
  <2>3. docs' = docs /\ parser' = parser /\ validators' = validators /\ unsaved' = unsaved
        /\ result' = result
    BY <2>1 DEF tables, process
  <2>4. \A t \in Source : Remembered(t)'
    BY <2>3 DEF IInv, Remembered
  <2> QED
    BY <2>1, <2>2, <2>4, TablesKept DEF IInv
<1> QED
  BY <1>1, <1>2, BeginRunKeeps, CommitKeeps, RollbackKeeps, StartSourceKeeps,
     AttemptFailsKeeps, ReceiveKeeps, RestartKeeps DEF Next, SourceStep

-----------------------------------------------------------------------------
(* _select_candidates.                                                     *)

Order(cs) == {p \in cs \X cs : Earlier(p[1], p[2])}
Spans(cs) ==
    /\ \A c \in cs : c.type \in Extracting /\ c.start \in Nat /\ c.end \in Nat
    /\ \A c, d \in cs : c.type = d.type /\ c.start = d.start /\ c.end = d.end => c = d
Selected(cs, free, taken) ==
    \A c \in cs : c \in taken <=> c \in free /\ ~Redundant(c, {d \in taken : Earlier(d, c)})

\* The candidates of a text are finitely many, and their type and place name
\* them.
LEMMA CandidatesAre ==
    ASSUME NEW t \in Text
    PROVE  IsFiniteSet(Collectable[t]) /\ Spans(Collectable[t])
<1> DEFINE ms == {x \in Matches[t] : x.type \in Extracting /\ Normal[x.raw] # None}
           cs == {CandidateValue(m) : m \in ms}
           f == [m \in ms |-> CandidateValue(m)]
<1>1. Collectable[t] = cs
  BY DEF Collectable, CollectCandidates
<1>2. IsFiniteSet(ms)
  <2>1. ms \in SUBSET Matches[t] /\ IsFiniteSet(Matches[t])
    BY TextInputs
  <2> HIDE DEF ms
  <2> QED
    BY <2>1, FS_Subset
<1>3. IsFiniteSet(cs)
  <2>1. f \in Surjection(ms, cs)
    BY DEF Surjection
  <2> HIDE DEF f, ms, cs
  <2> QED
    BY <1>2, <2>1, FS_Surjection
<1>4. \A m : /\ CandidateValue(m).type = m.type /\ CandidateValue(m).start = m.start
             /\ CandidateValue(m).end = m.end
  BY DEF CandidateValue
<1>5. \A m \in ms : m.type \in Extracting /\ m.start \in Nat /\ m.end \in Nat
  BY TextInputs
<1>6. ASSUME NEW m \in ms, NEW n \in ms, m.type = n.type, m.start = n.start, m.end = n.end
      PROVE  CandidateValue(m) = CandidateValue(n)
  <2>1. m.raw = n.raw
    BY <1>6, TextInputs
  <2> QED
    BY <1>6, <2>1 DEF CandidateValue
<1> HIDE DEF ms
<1>7. \A c \in cs : c.type \in Extracting /\ c.start \in Nat /\ c.end \in Nat
  BY <1>4, <1>5
<1>8. \A c, d \in cs : c.type = d.type /\ c.start = d.start /\ c.end = d.end => c = d
  BY <1>4, <1>6
<1> QED
  BY <1>1, <1>3, <1>7, <1>8 DEF Spans

\* Candidates stand one before the other.
LEMMA EarlierOrders ==
    ASSUME NEW cs, Spans(cs)
    PROVE  StrictOrder(cs, Order(cs))
<1>1. /\ \A k \in Extracting : Priority[k] \in Nat
      /\ \A k, l \in Extracting : Priority[k] = Priority[l] => k = l
  BY DEF Extracting, Priority
<1>2. \A c, d \in cs : <<c, d>> \in Order(cs) <=> Earlier(c, d)
  BY DEF Order
<1>3. \A c \in cs : c.start \in Nat /\ c.end \in Nat /\ Priority[c.type] \in Nat
  BY <1>1 DEF Spans
<1>4. \A c \in cs : ~Earlier(c, c)
  BY <1>3 DEF Earlier
<1>5. ASSUME NEW c \in cs, NEW d \in cs, NEW e \in cs, Earlier(c, d), Earlier(d, e)
      PROVE  Earlier(c, e)
  <2>1. /\ c.start \in Nat /\ c.end \in Nat /\ Priority[c.type] \in Nat
        /\ d.start \in Nat /\ d.end \in Nat /\ Priority[d.type] \in Nat
        /\ e.start \in Nat /\ e.end \in Nat /\ Priority[e.type] \in Nat
    BY <1>3
  <2> QED
    BY <1>5, <2>1 DEF Earlier
<1>6. ASSUME NEW c \in cs, NEW d \in cs, c # d PROVE Earlier(c, d) \/ Earlier(d, c)
  <2>1. ~(c.start = d.start /\ Priority[c.type] = Priority[d.type] /\ c.end = d.end)
    BY <1>1, <1>6 DEF Spans
  <2>2. /\ c.start \in Nat /\ c.end \in Nat /\ Priority[c.type] \in Nat
        /\ d.start \in Nat /\ d.end \in Nat /\ Priority[d.type] \in Nat
    BY <1>3
  <2> QED
    BY <2>1, <2>2 DEF Earlier
<1> QED
  BY <1>2, <1>4, <1>5, <1>6 DEF StrictOrder

\* Going through the candidates in order settles each of them.
LEMMA SelectionExists ==
    ASSUME NEW cs, IsFiniteSet(cs), Spans(cs), NEW free
    PROVE  \E taken \in SUBSET cs : Selected(cs, free, taken)
<1> DEFINE Good(S) == \E taken \in SUBSET S : Selected(S, free, taken)
           T == {n \in Nat : \E S \in SUBSET cs : Cardinality(S) = n /\ ~Good(S)}
<1>1. \A S \in SUBSET cs : IsFiniteSet(S) /\ Cardinality(S) \in Nat /\ Spans(S)
  <2> TAKE S \in SUBSET cs
  <2>1. IsFiniteSet(S)
    BY FS_Subset
  <2> QED
    BY <2>1, FS_CardinalityType DEF Spans
<1>2. SUFFICES ASSUME ~Good(cs) PROVE FALSE
  OBVIOUS
<1> HIDE DEF Good
<1>3. T \in SUBSET Nat /\ T # {}
  BY <1>1, <1>2
<1>4. PICK n \in T : \A y \in T : n <= y
  BY <1>3, LeastNatural
<1>5. PICK S \in SUBSET cs : Cardinality(S) = n /\ ~Good(S)
  BY <1>4
<1>6. S # {}
  <2> SUFFICES ASSUME S = {} PROVE FALSE
    OBVIOUS
  <2>1. Selected(S, free, {})
    BY DEF Selected
  <2> QED
    BY <1>5, <2>1 DEF Good
<1>7. StrictOrder(S, Order(S)) /\ IsFiniteSet(S)
  BY <1>1, EarlierOrders
<1>8. \A c, d \in S : <<c, d>> \in Order(S) <=> Earlier(c, d)
  BY DEF Order
<1>9. PICK x \in S : \A y \in S : y # x => <<y, x>> \in Order(S)
  BY <1>6, <1>7, LastExists
<1>10. \A y \in S : ~Earlier(x, y)
  BY <1>7, <1>8, <1>9 DEF StrictOrder
<1> DEFINE less == S \ {x}
<1>11. Good(less)
  <2>1. Cardinality(less) = n - 1
    BY <1>5, <1>7, FS_RemoveElement
  <2>2. less \in SUBSET cs /\ n \in Nat /\ n - 1 \in Nat
    BY <1>1, <2>1
  <2>3. n - 1 \notin T
    BY <1>4, <2>2
  <2> HIDE DEF less
  <2> QED
    BY <2>1, <2>2, <2>3
<1>12. PICK taken \in SUBSET less : Selected(less, free, taken)
  BY <1>11 DEF Good
<1> DEFINE ok == x \in free /\ ~Redundant(x, {d \in taken : Earlier(d, x)})
           more == IF ok THEN taken \cup {x} ELSE taken
<1>13. more \in SUBSET S /\ \A c \in S : {d \in more : Earlier(d, c)} = {d \in taken : Earlier(d, c)}
  BY <1>10
<1>14. x \in more <=> ok
  OBVIOUS
<1>15. \A c \in less : c \in more <=> c \in taken
  OBVIOUS
<1> HIDE DEF more
<1>16. Selected(S, free, more)
  <2> SUFFICES ASSUME NEW c \in S
               PROVE  c \in more <=> c \in free /\ ~Redundant(c, {d \in more : Earlier(d, c)})
    BY DEF Selected
  <2>1. CASE c = x
    BY <1>13, <1>14, <2>1
  <2>2. CASE c # x
    BY <1>12, <1>13, <1>15, <2>2 DEF Selected
  <2> QED
    BY <2>1, <2>2
<1> QED
  BY <1>5, <1>13, <1>16 DEF Good

Covered(cs, c) == \E u \in cs : u.type = "url" /\ u # c /\ Within(c, u)

\* The selection: nothing inside a URL is taken, and of the rest what neither
\* repeats nor overlaps a match taken before it.
LEMMA SelectionIs ==
    ASSUME NEW t \in Text
    PROVE  LET cs == Collectable[t]
               taken == SelectCandidates(cs)
           IN  /\ taken \subseteq cs
               /\ \A c \in cs : c \in taken <=>
                     ~Covered(cs, c) /\ ~Redundant(c, {d \in taken : Earlier(d, c)})
               /\ \A c, d \in cs : c # d => Earlier(c, d) \/ Earlier(d, c)
<1> DEFINE cs == Collectable[t]
           free == {c \in cs : ~Covered(cs, c)}
           Fits(taken) == \A c \in cs : c \in taken <=>
                              ~Covered(cs, c) /\ ~Redundant(c, {d \in taken : Earlier(d, c)})
<1>1. IsFiniteSet(cs) /\ Spans(cs)
  BY CandidatesAre
<1>2. StrictOrder(cs, Order(cs))
  BY <1>1, EarlierOrders
<1>3. \A c, d \in cs : c # d => Earlier(c, d) \/ Earlier(d, c)
  BY <1>2 DEF StrictOrder, Order
<1>4. SelectCandidates(cs) = CHOOSE taken \in SUBSET cs : Fits(taken)
  BY DEF SelectCandidates, Covered
<1> HIDE DEF cs
<1>5. PICK taken \in SUBSET cs : Selected(cs, free, taken)
  <2> HIDE DEF free
  <2> QED
    BY <1>1, SelectionExists
<1>6. Fits(taken)
  BY <1>5 DEF Selected
<1> HIDE DEF Fits
<1>7. SelectCandidates(cs) \in SUBSET cs /\ Fits(SelectCandidates(cs))
  BY <1>4, <1>5, <1>6
<1> QED
  BY <1>3, <1>7 DEF Fits, cs

-----------------------------------------------------------------------------
(* The theorems.                                                           *)

\* IInv holds in every reachable state.
LEMMA InvariantHolds == Spec => []IInv
<1>1. Init => IInv
  BY InitHolds
<1>2. IInv /\ [Next]_vars => IInv'
  BY IInvKept
<1> QED
  BY <1>1, <1>2, PTL DEF Spec

\* Whatever the sources serve and however runs fail, are rolled back, repeated
\* or interrupted: the versions of each document and of each configuration are
\* 1..n, each document supersedes the one before it, and the stored evidence is
\* that of the stored texts (persist_source_document, upsert_source,
\* persist_extraction).
THEOREM IntakeIsSound == Spec => []IntakeInv
<1>1. IInv => IntakeInv
  <2> SUFFICES ASSUME IInv PROVE IntakeInv
    OBVIOUS
  <2>1. TypeOK /\ Chains(docs) /\ Named(sources, history) /\ Exact(docs, observations, claims)
    BY DEF IInv
  <2>2. IsFiniteSet(docs)
    BY <2>1 DEF TypeOK
  <2> QED
    BY <2>1, <2>2, ChainsAre, NamedIs, ExactIs DEF IntakeInv
<1> QED
  BY <1>1, InvariantHolds, PTL

\* No commit is refused for a missing artifact row: every document's artifact is
\* stored, the documents of every stored artifact are stored, and so whatever a
\* settled run would add names an artifact that is there, also when the same
\* bytes were reached through another redirect (persist_raw_artifact).
THEOREM ArtifactsAreAnchors == Spec => []EvidenceAnchored
<1>1. IInv => EvidenceAnchored
  <2> SUFFICES ASSUME IInv PROVE EvidenceAnchored
    OBVIOUS
  <2>1. \A a \in artifacts : HoldsAll(a.source, Ordered[parser[a.source]][a.body])
    BY DEF IInv, Anchored, HasAll, Has, HoldsAll
  <2>2. ASSUME AllSettled, NEW d \in StoredDocs \ docs
        PROVE  \E a \in StoredArtifacts : a.id = d.artifact
    <3> DEFINE s == d.source
               art == ArtifactOf(s)
    <3>1. s \in Fresh /\ d.artifact = art.id
      BY <2>2, StoredDocsAre DEF IInv
    <3>2. PICK i \in 1..Len(DocsOf(s)) : ~Has(docs, s, DocsOf(s)[i])
      BY <2>2, StoredDocsAre DEF IInv
    <3>3. art.source = s /\ art.body = result[s].body
      BY DEF ArtifactOf
    <3>4. ASSUME NEW x \in artifacts, x.source = art.source, x.body = art.body PROVE FALSE
      <4>1. HasAll(docs, s, DocsOf(s))
        BY <3>3, <3>4 DEF IInv, Anchored, DocsOf
      <4> QED
        BY <3>2, <4>1 DEF HasAll
    <3>5. art \in StoredArtifacts
      BY <3>1, <3>4 DEF StoredArtifacts
    <3> QED
      BY <3>1, <3>5
  <2> QED
    BY <2>1, <2>2 DEF EvidenceAnchored, IInv, Anchored
<1> QED
  BY <1>1, InvariantHolds, PTL

\* A 304 never hides a document: the body whose validators the process sends was
\* parsed, and its documents are stored, are in the run at hand, or belong to a
\* run known to have stored nothing (_collect_source, run_once).
THEOREM RememberedBodiesAreStored == Spec => []RememberedIsStored
<1>1. IInv => RememberedIsStored
  BY DEF IInv, Remembered, RememberedIsStored, HasAll, Has, HoldsAll
<1> QED
  BY <1>1, InvariantHolds, PTL

\* Of every text, however its matches overlap, the observations are one per type
\* and value, none inside a URL, no two of different types over the same
\* characters, and a match is left out only for one that was taken; every CVE
\* the text mentions is claimed (_select_candidates, _extract_cves).
THEOREM ObservationsAreOfTheText == Spec => []ObservationsOfText
<1>1. IInv => ObservationsOfText
  <2> SUFFICES ASSUME IInv, NEW d \in docs
               PROVE  LET seen == {o \in observations : o.doc = DocId(d)}
                          found == Collectable[d.text]
                          Urls == {c \in found : c.type = "url"}
                          Stored(c) == \E o \in seen : o.type = c.type /\ o.value = c.value
                          Blocks(c, e) == SameValue(c, e) \/ (c.type # e.type /\ Overlap(c, e))
                          InUrl(c) == \E u \in Urls : u # c /\ Within(c, u)
                      IN  /\ \A o, p \in seen : o # p =>
                                ~SameValue(o, p) /\ (o.type = p.type \/ ~Overlap(o, p))
                          /\ \A o \in seen : o.type # "url" => \A u \in Urls : ~Within(o, u)
                          /\ {c.cve : c \in {x \in claims : x.doc = DocId(d)}} =
                                {Normal[m.raw] : m \in {x \in Matches[d.text] : x.type = "cve"}}
                          /\ \A c \in found :
                                \/ c.suppressed \/ Stored(c) \/ InUrl(c)
                                \/ \E e \in found :
                                      ~InUrl(e) /\ Blocks(c, e) /\ (Stored(e) \/ e.suppressed)
    BY DEF ObservationsOfText
  <2> DEFINE seen == {o \in observations : o.doc = DocId(d)}
             found == Collectable[d.text]
             Urls == {c \in found : c.type = "url"}
             Stored(c) == \E o \in seen : o.type = c.type /\ o.value = c.value
             Blocks(c, e) == SameValue(c, e) \/ (c.type # e.type /\ Overlap(c, e))
             InUrl(c) == \E u \in Urls : u # c /\ Within(c, u)
             taken == SelectCandidates(found)
             Row(c) == [doc |-> DocId(d), type |-> c.type, value |-> c.value,
                        start |-> c.start, end |-> c.end]
  <2>1. d.text \in Text
    BY DEF IInv, TypeOK
  <2>2. /\ taken \subseteq found
        /\ \A c \in found : c \in taken <=>
              ~Covered(found, c) /\ ~Redundant(c, {e \in taken : Earlier(e, c)})
        /\ \A c, e \in found : c # e => Earlier(c, e) \/ Earlier(e, c)
    BY <2>1, SelectionIs
  <2>3. \A c : InUrl(c) <=> Covered(found, c)
    BY DEF Covered
  <2>4. \A o : o \in seen <=> \E c \in taken : ~c.suppressed /\ o = Row(c)
    <3>1. seen = Findings({d})
      BY DEF IInv, Exact
    <3>2. Findings({d}) = {Row(c) : c \in Extracted[d.text]}
      BY DEF Findings
    <3>3. Extracted[d.text] = {c \in taken : ~c.suppressed}
      BY <2>1 DEF Extracted, Extract
    <3> QED
      BY <3>1, <3>2, <3>3
  <2>5. {c.cve : c \in {x \in claims : x.doc = DocId(d)}} =
            {Normal[m.raw] : m \in {x \in Matches[d.text] : x.type = "cve"}}
    <3>1. {x \in claims : x.doc = DocId(d)} = Mentioned({d})
      BY DEF IInv, Exact
    <3>2. Mentioned({d}) = {[doc |-> DocId(d), cve |-> v] : v \in ExtractCves(d.text)}
      BY DEF Mentioned
    <3> DEFINE Claim(v) == [doc |-> DocId(d), cve |-> v]
    <3>3. {c.cve : c \in Mentioned({d})} = ExtractCves(d.text)
      <4>1. \A v : Claim(v).cve = v
        OBVIOUS
      <4>2. Mentioned({d}) = {Claim(v) : v \in ExtractCves(d.text)}
        BY <3>2
      <4> HIDE DEF Claim
      <4> DEFINE cves == ExtractCves(d.text)
                 rows == Mentioned({d})
      <4>3. \A x \in rows : x.cve \in cves
        BY <4>1, <4>2
      <4>4. \A v \in cves : Claim(v) \in rows
        BY <4>2
      <4> HIDE DEF cves, rows
      <4>5. {c.cve : c \in rows} = cves
        BY <4>1, <4>3, <4>4
      <4> QED
        BY <4>5 DEF cves, rows
    <3> QED
      BY <3>1, <3>3 DEF ExtractCves
  <2>6. \A c : /\ Row(c).type = c.type /\ Row(c).value = c.value
               /\ Row(c).start = c.start /\ Row(c).end = c.end
    OBVIOUS
  <2> HIDE DEF seen, found, taken, Row
  <2>7. \A c, e \in taken : c # e => ~SameValue(c, e) /\ (c.type = e.type \/ ~Overlap(c, e))
    <3> SUFFICES ASSUME NEW c \in taken, NEW e \in taken, c # e
                 PROVE  ~SameValue(c, e) /\ (c.type = e.type \/ ~Overlap(c, e))
      OBVIOUS
    <3>1. CASE Earlier(e, c)
      BY <2>2, <3>1 DEF Redundant
    <3>2. CASE Earlier(c, e)
      BY <2>2, <3>2 DEF Redundant, SameValue, Overlap
    <3> QED
      BY <2>2, <3>1, <3>2
  <2>8. \A o, p \in seen : o # p => ~SameValue(o, p) /\ (o.type = p.type \/ ~Overlap(o, p))
    <3> SUFFICES ASSUME NEW o \in seen, NEW p \in seen, o # p
                 PROVE  ~SameValue(o, p) /\ (o.type = p.type \/ ~Overlap(o, p))
      OBVIOUS
    <3>1. PICK c \in taken : o = Row(c)
      BY <2>4
    <3>2. PICK e \in taken : p = Row(e)
      BY <2>4
    <3>3. ~SameValue(c, e) /\ (c.type = e.type \/ ~Overlap(c, e))
      BY <2>7, <3>1, <3>2
    <3> QED
      BY <2>6, <3>1, <3>2, <3>3 DEF SameValue, Overlap
  <2>9. ASSUME NEW o \in seen, o.type # "url", NEW u \in Urls PROVE ~Within(o, u)
    <3>1. PICK c \in taken : o = Row(c)
      BY <2>4
    <3>2. ~Covered(found, c) /\ c # u
      BY <2>2, <2>6, <2>9, <3>1
    <3>3. ~Within(c, u)
      BY <3>2 DEF Covered
    <3> QED
      BY <2>6, <3>1, <3>3 DEF Within
  <2>10. \A c \in taken : c.suppressed \/ Stored(c)
    BY <2>4, <2>6
  <2>11. ASSUME NEW c \in found
         PROVE  \/ c.suppressed \/ Stored(c) \/ InUrl(c)
                \/ \E e \in found : ~InUrl(e) /\ Blocks(c, e) /\ (Stored(e) \/ e.suppressed)
    <3>1. CASE c \in taken
      BY <2>10, <3>1
    <3>2. CASE Covered(found, c)
      BY <2>3, <3>2
    <3>3. CASE c \notin taken /\ ~Covered(found, c)
      <4>1. Redundant(c, {e \in taken : Earlier(e, c)})
        BY <2>2, <3>3
      <4>2. PICK e \in taken : Blocks(c, e)
        BY <4>1 DEF Redundant
      <4>3. e \in found /\ ~InUrl(e)
        BY <2>2, <2>3
      <4> HIDE DEF Stored, InUrl, Blocks
      <4> QED
        BY <2>10, <4>2, <4>3
    <3> QED
      BY <3>1, <3>2, <3>3
  <2> QED
    BY <2>5, <2>8, <2>9, <2>11 DEF seen, found
<1> QED
  BY <1>1, InvariantHolds, PTL
=============================================================================
