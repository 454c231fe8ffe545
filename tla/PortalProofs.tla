---------------------------- MODULE PortalProofs ----------------------------
(***************************************************************************)
(* Theorems about Portal, for any reports, severities, bundles, CVEs,      *)
(* queries, relationships, page sizes and number of writes.                *)
(***************************************************************************)
EXTENDS Portal, FiniteSetTheorems, NaturalsInduction, WellFoundedInduction, TLAPS

\* A non-empty set of naturals has a least element.
LEMMA LeastNatural ==
    ASSUME NEW T \in SUBSET Nat, T # {}
    PROVE  \E x \in T : \A y \in T : x <= y
<1> DEFINE R == OpToRel(<, Nat)
<1>1. \A x, y \in Nat : y < x => <<y, x>> \in R
  BY DEF OpToRel
<1>2. IsWellFoundedOn(R, Nat)
  BY NatLessThanWellFounded, Zenon
<1> HIDE DEF R
<1>3. PICK x \in T : \A y \in T : ~(<<y, x>> \in R)
  BY <1>2, WFMin
<1>4. \A y \in T : ~(y < x)
  BY <1>1, <1>3
<1>5. \A y \in T : x <= y
  BY <1>4
<1> QED
  BY <1>5

-----------------------------------------------------------------------------
(* ORDER BY with OFFSET and LIMIT, for any strict total order R of a       *)
(* finite set S.                                                           *)

StrictOrder(S, R) ==
    /\ \A x \in S : <<x, x>> \notin R
    /\ \A x, y, z \in S : <<x, y>> \in R /\ <<y, z>> \in R => <<x, z>> \in R
    /\ \A x, y \in S : x # y => <<x, y>> \in R \/ <<y, x>> \in R
Below(S, R, x) == {y \in S : <<y, x>> \in R}
Place(S, R, x) == Cardinality(Below(S, R, x))
Foremost(S, R, n) == {x \in S : Place(S, R, x) < n}

\* Places are numbers, and they rise along the order.
LEMMA PlaceRises ==
    ASSUME NEW S, IsFiniteSet(S), NEW R, StrictOrder(S, R), NEW x \in S
    PROVE  /\ Place(S, R, x) \in Nat /\ Place(S, R, x) < Cardinality(S) /\ Cardinality(S) \in Nat
           /\ \A y \in S : <<y, x>> \in R => Place(S, R, y) < Place(S, R, x)
<1>1. \A y \in S : IsFiniteSet(Below(S, R, y)) /\ Place(S, R, y) \in Nat
  <2> TAKE y \in S
  <2>1. Below(S, R, y) \in SUBSET S
    BY DEF Below
  <2> QED
    BY <2>1, FS_Subset, FS_CardinalityType DEF Place
<1>2. Cardinality(S) \in Nat
  BY FS_CardinalityType
<1>3. Place(S, R, x) < Cardinality(S)
  <2>1. Below(S, R, x) \in SUBSET S /\ x \notin Below(S, R, x)
    BY DEF Below, StrictOrder
  <2>2. /\ Cardinality(Below(S, R, x)) <= Cardinality(S)
        /\ Cardinality(S) = Cardinality(Below(S, R, x)) => S = Below(S, R, x)
    BY <2>1, FS_Subset
  <2> QED
    BY <1>1, <1>2, <2>1, <2>2 DEF Place
<1>4. ASSUME NEW y \in S, <<y, x>> \in R PROVE Place(S, R, y) < Place(S, R, x)
  <2>1. Below(S, R, y) \in SUBSET Below(S, R, x)
    BY <1>4 DEF Below, StrictOrder
  <2>2. y \in Below(S, R, x) /\ y \notin Below(S, R, y)
    BY <1>4 DEF Below, StrictOrder
  <2>3. /\ Cardinality(Below(S, R, y)) <= Cardinality(Below(S, R, x))
        /\ Cardinality(Below(S, R, x)) = Cardinality(Below(S, R, y))
             => Below(S, R, x) = Below(S, R, y)
    BY <1>1, <2>1, FS_Subset
  <2> QED
    BY <1>1, <2>2, <2>3 DEF Place
<1> QED
  BY <1>1, <1>2, <1>3, <1>4

\* An element with n others ahead of it has the n foremost ahead of it.
LEMMA ForemostFull ==
    ASSUME NEW S, IsFiniteSet(S), NEW R, StrictOrder(S, R), NEW n \in Nat,
           NEW e \in S, n <= Place(S, R, e)
    PROVE  /\ IsFiniteSet(Foremost(S, R, n)) /\ Cardinality(Foremost(S, R, n)) = n
           /\ \A f \in Foremost(S, R, n) : <<f, e>> \in R
<1> DEFINE F == Foremost(S, R, n)
           Rank(x) == Place(S, R, x)
           T == {Rank(x) : x \in S \ F}
           rank == [x \in F |-> Rank(x)]
<1>1. \A x \in S : Rank(x) \in Nat /\ (x \in F <=> Rank(x) < n)
  BY PlaceRises DEF Foremost
<1>2. F \in SUBSET S
  BY DEF Foremost
<1>3. IsFiniteSet(F) /\ Cardinality(F) \in Nat
  BY <1>2, FS_Subset, FS_CardinalityType
<1>4. \A x, y \in S : x # y => Rank(x) # Rank(y)
  <2> SUFFICES ASSUME NEW x \in S, NEW y \in S, x # y PROVE Rank(x) # Rank(y)
    OBVIOUS
  <2>1. <<x, y>> \in R \/ <<y, x>> \in R
    BY DEF StrictOrder
  <2>2. <<x, y>> \in R => Rank(x) < Rank(y)
    BY PlaceRises
  <2>3. <<y, x>> \in R => Rank(y) < Rank(x)
    BY PlaceRises
  <2> QED
    BY <1>1, <2>1, <2>2, <2>3
<1>5. Cardinality(F) <= n
  <2>1. rank \in Injection(F, 0..n - 1)
    BY <1>1, <1>2, <1>4 DEF Injection, IsInjective
  <2>2. IsFiniteSet(0..n - 1) /\ Cardinality(0..n - 1) = n
    BY FS_Interval
  <2> HIDE DEF rank, F
  <2> QED
    BY <2>1, <2>2, FS_Injection
<1>6. n <= Cardinality(F)
  <2>1. T \in SUBSET Nat /\ T # {}
    BY <1>1
  <2>2. PICK m \in T : \A y \in T : m <= y
    BY <2>1, LeastNatural
  <2>3. PICK x \in S \ F : Rank(x) = m
    BY <2>2
  <2>4. Below(S, R, x) \in SUBSET F
    <3> SUFFICES ASSUME NEW g \in Below(S, R, x), g \notin F PROVE FALSE
      OBVIOUS
    <3>1. g \in S /\ Rank(g) < Rank(x)
      BY PlaceRises DEF Below
    <3>2. Rank(g) \in T
      BY <3>1
    <3> QED
      BY <1>1, <2>2, <2>3, <3>1, <3>2
  <2>5. Rank(x) <= Cardinality(F)
    BY <1>3, <2>4, FS_Subset DEF Place
  <2>6. n <= Rank(x)
    BY <1>1, <2>3
  <2> QED
    BY <1>1, <1>3, <2>3, <2>5, <2>6
<1>7. \A f \in F : <<f, e>> \in R
  <2> TAKE f \in F
  <2>1. f \in S /\ Rank(f) < n /\ Rank(f) \in Nat /\ Rank(e) \in Nat
    BY <1>1, <1>2
  <2>2. <<e, f>> \in R => Rank(e) < Rank(f)
    BY <2>1, PlaceRises
  <2>3. e # f
    BY <2>1
  <2> QED
    BY <2>1, <2>2, <2>3 DEF StrictOrder
<1> QED
  BY <1>3, <1>5, <1>6, <1>7

\* An element behind a page has the page full ahead of it.
LEMMA PageFull ==
    ASSUME NEW S, IsFiniteSet(S), NEW R, StrictOrder(S, R), NEW m \in Nat, NEW k \in Nat,
           NEW e \in S, m + k <= Place(S, R, e)
    PROVE  Cardinality({x \in S : Place(S, R, x) \in m..m + k - 1}) = k
<1> DEFINE A == Foremost(S, R, m + k)
           B == Foremost(S, R, m)
           page == {x \in S : Place(S, R, x) \in m..m + k - 1}
<1>1. \A x \in S : Place(S, R, x) \in Nat
  BY PlaceRises
<1>2. IsFiniteSet(A) /\ Cardinality(A) = m + k
  BY ForemostFull
<1>3. IsFiniteSet(B) /\ Cardinality(B) = m
  <2>1. m <= Place(S, R, e)
    BY <1>1
  <2> QED
    BY <2>1, ForemostFull
<1>4. page = A \ B /\ A \cap B = B
  BY <1>1 DEF Foremost
<1>5. Cardinality(A \ B) = Cardinality(A) - Cardinality(A \cap B)
  BY <1>2, FS_Difference
<1> HIDE DEF A, B
<1>6. Cardinality(page) = k
  <2> HIDE DEF page
  <2> QED
    BY <1>2, <1>3, <1>4, <1>5
<1> QED
  BY <1>6

-----------------------------------------------------------------------------
(* The order of the reports, and what merging them gives.                  *)

SoonerPairs == {p \in Report \X Report : Sooner(p[1], p[2])}

\* PRIORITY orders the public reports totally: no two were written at once.
LEMMA SoonerIsStrict ==
    ASSUME TypeOK, RowsSound, NEW S \in SUBSET Published
    PROVE  /\ IsFiniteSet(S) /\ StrictOrder(S, SoonerPairs)
           /\ \A r \in S : Below(S, SoonerPairs, r) = Ahead(S, r)
<1>1. S \in SUBSET Report /\ \A r \in S : rows[r] # Absent
  BY DEF Published, RowsSound
<1>2. IsFiniteSet(S)
  BY <1>1, FS_Subset, PortalInputs
<1>3. \A r \in Report : Severity[r] \in Int /\ rows[r].updated \in Int
  BY PortalInputs DEF TypeOK, Row
<1>4. \A q, r \in S : <<q, r>> \in SoonerPairs <=> Sooner(q, r)
  BY <1>1 DEF SoonerPairs
<1>5. \A r \in S : ~Sooner(r, r)
  BY <1>1, <1>3 DEF Sooner
<1>6. \A q, r, s \in S : Sooner(q, r) /\ Sooner(r, s) => Sooner(q, s)
  BY <1>1, <1>3 DEF Sooner
<1>7. \A q, r \in S : q # r => Sooner(q, r) \/ Sooner(r, q)
  <2> SUFFICES ASSUME NEW q \in S, NEW r \in S, q # r PROVE Sooner(q, r) \/ Sooner(r, q)
    OBVIOUS
  <2>1. rows[q].updated # rows[r].updated
    BY <1>1 DEF RowsSound
  <2> QED
    BY <1>1, <1>3, <2>1 DEF Sooner
<1>8. StrictOrder(S, SoonerPairs)
  BY <1>4, <1>5, <1>6, <1>7 DEF StrictOrder
<1>9. \A r \in S : Below(S, SoonerPairs, r) = Ahead(S, r)
  BY <1>4 DEF Below, Ahead
<1> QED
  BY <1>2, <1>8, <1>9

\* The count of the rows ahead of a report is its place.
LEMMA AheadCounts ==
    ASSUME TypeOK, RowsSound, NEW S \in SUBSET Published, NEW r \in S
    PROVE  /\ Cardinality(Ahead(S, r)) = Place(S, SoonerPairs, r)
           /\ Cardinality(Ahead(S, r)) \in Nat /\ Cardinality(S) \in Nat
           /\ Cardinality(Ahead(S, r)) < Cardinality(S) /\ IsFiniteSet(S)
<1>1. /\ IsFiniteSet(S) /\ StrictOrder(S, SoonerPairs)
      /\ Below(S, SoonerPairs, r) = Ahead(S, r)
  BY SoonerIsStrict
<1>2. Cardinality(Ahead(S, r)) = Place(S, SoonerPairs, r)
  BY <1>1 DEF Place
<1>3. /\ Place(S, SoonerPairs, r) \in Nat /\ Place(S, SoonerPairs, r) < Cardinality(S)
      /\ Cardinality(S) \in Nat
  BY <1>1, PlaceRises
<1> QED
  BY <1>1, <1>2, <1>3

\* A finite set of numbers that is not empty has a greatest one.
LEMMA MaxOf ==
    ASSUME NEW S \in SUBSET (0..10), S # {}
    PROVE  Max(S) \in S /\ \A y \in S : y <= Max(S)
<1> DEFINE T == {10 - x : x \in S}
<1>1. T \in SUBSET Nat /\ T # {}
  <2>1. \A x \in 0..10 : 10 - x \in Nat
    OBVIOUS
  <2>2. \A x \in S : 10 - x \in Nat
    BY <2>1
  <2> QED
    BY <2>2
<1>2. PICK t \in T : \A y \in T : t <= y
  BY <1>1, LeastNatural
<1>3. PICK x \in S : t = 10 - x
  BY <1>2
<1>4. \A y \in S : x >= y
  <2> TAKE y \in S
  <2>1. t <= 10 - y
    BY <1>2
  <2> QED
    BY <1>3, <2>1
<1>5. \E z \in S : \A y \in S : z >= y
  BY <1>4
<1>6. Max(S) \in S /\ \A y \in S : Max(S) >= y
  BY <1>5 DEF Max
<1> QED
  BY <1>6

\* The highest score is a score, or None, and no score is above it.
LEMMA HighestIs ==
    ASSUME NEW scores \in SUBSET (0..10 \cup {None})
    PROVE  /\ Highest(scores) \in 0..10 \cup {None}
           /\ \A s \in scores : s # None => AtLeast(Highest(scores), s)
<1>1. CASE scores \subseteq {None}
  BY <1>1 DEF Highest
<1>2. CASE ~(scores \subseteq {None})
  <2>1. scores \ {None} \in SUBSET (0..10) /\ scores \ {None} # {}
    BY <1>2
  <2>2. /\ Max(scores \ {None}) \in scores \ {None}
        /\ \A y \in scores \ {None} : y <= Max(scores \ {None})
    BY <2>1, MaxOf
  <2>3. Highest(scores) = Max(scores \ {None})
    BY <1>2 DEF Highest
  <2> QED
    BY <2>1, <2>2, <2>3 DEF AtLeast
<1> QED
  BY <1>1, <1>2

\* The report read last is one of those read.
LEMMA LastIs ==
    ASSUME TypeOK, RowsSound, NEW S \in SUBSET Published, S # {}
    PROVE  LastOf(S) \in S
<1> DEFINE Rank(r) == Cardinality(Ahead(S, r))
           T == {Cardinality(S) - Rank(r) : r \in S}
<1>1. \A r \in S : Rank(r) \in Nat /\ Rank(r) < Cardinality(S) /\ Cardinality(S) \in Nat
  BY AheadCounts
<1>2. T \in SUBSET Nat /\ T # {}
  <2>1. \A r \in S : Cardinality(S) - Rank(r) \in Nat
    <3> HIDE DEF Rank
    <3> QED
      BY <1>1
  <2> QED
    BY <2>1
<1>3. PICK t \in T : \A u \in T : t <= u
  BY <1>2, LeastNatural
<1>4. PICK r \in S : t = Cardinality(S) - Rank(r)
  BY <1>3
<1>5. \A q \in S : ~Sooner(r, q)
  <2> SUFFICES ASSUME NEW q \in S, Sooner(r, q) PROVE FALSE
    OBVIOUS
  <2>1. <<r, q>> \in SoonerPairs
    BY DEF SoonerPairs, Published
  <2>2. Place(S, SoonerPairs, r) < Place(S, SoonerPairs, q)
    BY <2>1, SoonerIsStrict, PlaceRises
  <2>3. Rank(r) < Rank(q)
    BY <2>2, AheadCounts
  <2>4. t <= Cardinality(S) - Rank(q)
    BY <1>3
  <2> HIDE DEF Rank
  <2> QED
    BY <1>1, <1>4, <2>3, <2>4
<1>6. \E z \in S : \A q \in S : ~Sooner(z, q)
  BY <1>5
<1> QED
  BY <1>6 DEF LastOf

\* What a public report records of a CVE is a vulnerability or nothing.
LEMMA RecordIs ==
    ASSUME TypeOK, RowsSound, NEW r \in Published, NEW x \in Cve
    PROVE  rows[r].current \in Content /\ Record(r, x) \in Vulnerability \cup {None}
<1>1. rows[r].current \in rows[r].issued /\ rows[r].issued \in SUBSET Content
  BY DEF TypeOK, RowsSound, Published, Row
<1> QED
  BY <1>1, PortalInputs DEF Record

\* A merged entry is a record, or nothing if there was nothing to merge, and is
\* as bad as the entry before and as every record merged.
LEMMA MergeIs ==
    ASSUME TypeOK, RowsSound, NEW page \in SUBSET Published, NEW x \in Cve,
           NEW entry \in Vulnerability \cup {None}
    PROVE  /\ Merge(entry, page, x) \in Vulnerability \cup {None}
           /\ entry # None =>
                 /\ Merge(entry, page, x) # None
                 /\ entry.kev => Merge(entry, page, x).kev
                 /\ entry.cvss # None => AtLeast(Merge(entry, page, x).cvss, entry.cvss)
           /\ \A r \in page : Record(r, x) # None =>
                 /\ Merge(entry, page, x) # None
                 /\ Record(r, x).kev => Merge(entry, page, x).kev
                 /\ Record(r, x).cvss # None =>
                       AtLeast(Merge(entry, page, x).cvss, Record(r, x).cvss)
<1> DEFINE told == Recording(page, x)
           old == IF entry = None THEN {} ELSE {entry}
           scored == {r \in told : Record(r, x).epss # None}
           scores == {v.cvss : v \in old} \cup {Record(r, x).cvss : r \in told}
           epss == IF scored # {} THEN Record(LastOf(scored), x).epss
                   ELSE IF entry = None THEN None ELSE entry.epss
           kev == (\E v \in old : v.kev) \/ \E r \in told : Record(r, x).kev
           e == Merge(entry, page, x)
<1>1. \A r \in told : r \in Published /\ Record(r, x) \in Vulnerability
  BY RecordIs DEF Recording
<1>2. \A r \in page : Record(r, x) # None => r \in told
  BY DEF Recording
<1>3. None \notin Vulnerability /\ old \in SUBSET Vulnerability
  BY PortalInputs
<1>4. CASE told = {}
  <2>1. e = entry
    BY <1>4 DEF Merge
  <2>2. entry # None /\ entry.cvss # None => AtLeast(entry.cvss, entry.cvss)
    BY DEF AtLeast, Vulnerability
  <2> QED
    BY <1>2, <1>4, <2>1, <2>2
<1>5. CASE told # {}
  <2>1. e = [cvss |-> Highest(scores), epss |-> epss, kev |-> kev]
    BY <1>5 DEF Merge
  <2>2. scores \in SUBSET (0..10 \cup {None})
    BY <1>1, <1>3 DEF Vulnerability
  <2>3. /\ Highest(scores) \in 0..10 \cup {None}
        /\ \A s \in scores : s # None => AtLeast(Highest(scores), s)
    BY <2>2, HighestIs
  <2>4. epss \in 0..100 \cup {None}
    <3>1. CASE scored # {}
      <4>1. scored \in SUBSET Published
        BY <1>1
      <4>2. LastOf(scored) \in scored
        BY <3>1, <4>1, LastIs
      <4>3. Record(LastOf(scored), x) \in Vulnerability
        BY <1>1, <4>2
      <4> QED
        BY <3>1, <4>3 DEF Vulnerability
    <3>2. CASE scored = {}
      BY <3>2 DEF Vulnerability
    <3> QED
      BY <3>1, <3>2
  <2>5. kev \in BOOLEAN
    OBVIOUS
  <2>6. e \in Vulnerability /\ e.cvss = Highest(scores) /\ e.kev = kev
    <3> HIDE DEF scores, epss, kev, e
    <3> QED
      BY <2>1, <2>3, <2>4, <2>5 DEF Vulnerability
  <2>7. ASSUME entry # None
        PROVE  /\ entry.kev => kev
               /\ entry.cvss \in scores
    BY <2>7
  <2>8. ASSUME NEW r \in told
        PROVE  /\ Record(r, x).kev => kev
               /\ Record(r, x).cvss \in scores
    OBVIOUS
  <2>9. e # None
    BY <1>3, <2>6
  <2> HIDE DEF scores, kev, e, told
  <2>10. entry # None => /\ e # None /\ (entry.kev => e.kev)
                         /\ entry.cvss # None => AtLeast(e.cvss, entry.cvss)
    BY <2>3, <2>6, <2>7, <2>9
  <2>11. \A r \in page : Record(r, x) # None =>
            /\ e # None /\ (Record(r, x).kev => e.kev)
            /\ Record(r, x).cvss # None => AtLeast(e.cvss, Record(r, x).cvss)
    BY <1>2, <2>3, <2>6, <2>8, <2>9
  <2> QED
    BY <2>6, <2>10, <2>11 DEF e
<1> QED
  BY <1>4, <1>5

-----------------------------------------------------------------------------
(* The inductive invariant.                                                *)

ReadInv == PortalInv /\ ListingComplete

\* A request is of the record its kind names.
LEMMA JobOf ==
    ASSUME TypeOK
    PROVE  /\ job.kind = "cves" => job \in CveJob
           /\ job.kind = "vulnerability" => job \in VulnerabilityJob
           /\ job.kind = "graph" => job \in GraphJob
           /\ job.kind = "client" => job \in ClientJob
           /\ job.kind = "section" => job \in SectionJob
           /\ job.kind \notin {"cves", "vulnerability", "graph", "client", "section"} => job = Idle
           /\ job = Idle => job.kind = "none"
<1>1. Idle.kind = "none"
  BY DEF Idle
<1>2. /\ job \in CveJob => job.kind = "cves"
      /\ job \in VulnerabilityJob => job.kind = "vulnerability"
      /\ job \in GraphJob => job.kind = "graph"
      /\ job \in ClientJob => job.kind = "client"
      /\ job \in SectionJob => job.kind = "section"
  BY DEF CveJob, VulnerabilityJob, GraphJob, ClientJob, SectionJob
<1>3. job \in {Idle} \cup CveJob \cup VulnerabilityJob \cup GraphJob \cup ClientJob \cup SectionJob
  BY DEF TypeOK
<1> QED
  BY <1>1, <1>2, <1>3

\* A step that only reads leaves the rows sound and every row as it was.
LEMMA RowsKept ==
    ASSUME TypeOK, RowsSound, UNCHANGED tables
    PROVE  /\ RowsSound' /\ Published' = Published
           /\ rows' = rows /\ rows' \in [Report -> Row] /\ writes' \in 0..MaxWrites
           /\ \A r \in Report : Ahead(Published, r)' = Ahead(Published, r)
<1>1. rows' = rows /\ writes' = writes
  BY DEF tables
<1>2. RowsSound'
  BY <1>1 DEF RowsSound, Public
<1>3. Published' = Published
  BY <1>1 DEF Published, Public
<1>4. \A r \in Report : Ahead(Published, r)' = Ahead(Published, r)
  BY <1>1, <1>3 DEF Ahead, Sooner
<1> QED
  BY <1>1, <1>2, <1>3, <1>4 DEF TypeOK

\* A public report has a head and a current version, which was published.
LEMMA PublicRow ==
    ASSUME TypeOK, RowsSound, NEW r \in Published
    PROVE  /\ r \in Report /\ Public(r) /\ rows[r].head \in Content /\ rows[r].current \in Content
           /\ rows[r].current \in rows[r].issued
<1>1. rows[r].saved \in SUBSET Content
  BY DEF TypeOK, Row, Published
<1> QED
  BY <1>1 DEF RowsSound, Published

\* The initial state satisfies the invariant.
LEMMA InitInv == Init => ReadInv
<1> SUFFICES ASSUME Init PROVE ReadInv
  OBVIOUS
<1>1. job.kind = "none"
  BY DEF Init, Idle
<1>2. Absent \in Row
  BY PortalInputs DEF Absent, Row
<1>3. TypeOK
  <2>1. rows \in [Report -> Row] /\ touched \subseteq Report /\ arrived \in BOOLEAN
    BY <1>2 DEF Init
  <2>2. writes \in 0..MaxWrites
    BY PortalInputs DEF Init
  <2>3. job \in {Idle}
    BY DEF Init
  <2> QED
    BY <2>1, <2>2, <2>3 DEF TypeOK
<1>4. RowsSound
  <2>1. \A r \in Report : rows[r] = Absent
    BY DEF Init
  <2>2. Absent.state # "published" /\ Absent.issued = {} /\ Absent.updated = 0
    BY DEF Absent
  <2>3. writes = 0
    BY DEF Init
  <2> QED
    BY <2>1, <2>2, <2>3 DEF RowsSound, Public
<1>5. DraftsStayPrivate /\ ListingAdvances /\ EntriesWorst /\ VulnerabilityShown
  BY <1>1 DEF DraftsStayPrivate, ListingAdvances, EntriesWorst, VulnerabilityShown
<1>6. GraphComplete /\ CopyCurrent /\ ListingComplete
  BY <1>1 DEF GraphComplete, CopyCurrent, ListingComplete, ListingDone
<1> QED
  BY <1>3, <1>4, <1>5, <1>6 DEF ReadInv, PortalInv

-----------------------------------------------------------------------------
(* The requests, one lemma for each of their steps.                        *)

\* list_cves: the listing starts with nothing read.
LEMMA ListCvesStep ==
    ASSUME ReadInv, NEW q \in Query, ListCves(q)
    PROVE  ReadInv'
<1> USE DEF ListCves, Begin
<1>1. TypeOK /\ RowsSound
  BY DEF ReadInv, PortalInv
<1>2. /\ RowsSound' /\ Published' = Published
      /\ rows' \in [Report -> Row] /\ writes' \in 0..MaxWrites
      /\ \A r \in Report : Ahead(Published, r)' = Ahead(Published, r)
  BY <1>1, RowsKept
<1>3. job' \in CveJob
  BY DEF CveJob
<1>4. /\ job'.kind = "cves" /\ job'.pc = "start" /\ job'.page = 1 /\ job'.listed = {}
      /\ touched' = {} /\ arrived' = FALSE
  OBVIOUS
<1>5. TypeOK'
  BY <1>2, <1>3, <1>4 DEF TypeOK
<1>6. DraftsStayPrivate' /\ EntriesWorst' /\ ListingComplete'
  BY <1>4 DEF DraftsStayPrivate, EntriesWorst, ListingComplete, ListingDone
<1>7. VulnerabilityShown' /\ GraphComplete' /\ CopyCurrent'
  BY <1>4 DEF VulnerabilityShown, GraphComplete, CopyCurrent
<1>8. ListingAdvances'
  <2>1. (1 - 1) * PageSize = 0
    BY PortalInputs
  <2>2. \A r \in Published : Cardinality(Ahead(Published, r)) \in Nat
    BY <1>1, AheadCounts
  <2>3. \A r \in Published : Cardinality(Ahead(Published, r)') \in Nat
    BY <1>2, <2>2 DEF Published
  <2>4. \A r \in Published' : Cardinality(Ahead(Published, r)') >= (job'.page - 1) * PageSize
    BY <1>2, <1>4, <2>1, <2>3
  <2> QED
    BY <1>4, <2>4 DEF ListingAdvances
<1> QED
  BY <1>2, <1>5, <1>6, <1>7, <1>8 DEF ReadInv, PortalInv

\* The count of a page: true of the reports that are public at that moment.
LEMMA CountStep ==
    ASSUME ReadInv, CountReports
    PROVE  ReadInv'
<1>1. TypeOK /\ RowsSound /\ job.kind = "cves" /\ job \in CveJob
  BY JobOf DEF ReadInv, PortalInv, CountReports
<1>2. /\ RowsSound' /\ Published' = Published /\ rows' = rows
      /\ rows' \in [Report -> Row] /\ writes' \in 0..MaxWrites
      /\ \A r \in Report : Ahead(Published, r)' = Ahead(Published, r)
  BY <1>1, RowsKept DEF CountReports
<1>3. Cardinality(Published) \in Nat
  <2>1. IsFiniteSet(Published)
    BY <1>1, SoonerIsStrict
  <2> QED
    BY <2>1, FS_CardinalityType
<1>4. /\ job'.kind = "cves" /\ job'.pc = "counted" /\ job'.page = job.page
      /\ job'.listed = job.listed /\ job'.entries = job.entries
      /\ job'.total = Cardinality(Published) /\ job' \in CveJob
      /\ touched' = touched /\ arrived' = arrived /\ job.pc = "start"
  BY <1>1, <1>3 DEF CountReports, CveJob
<1>5. TypeOK'
  BY <1>1, <1>2, <1>4 DEF TypeOK
<1>6. DraftsStayPrivate' /\ EntriesWorst' /\ ListingComplete'
  BY <1>1, <1>2, <1>4 DEF ReadInv, PortalInv, DraftsStayPrivate, EntriesWorst, ListingComplete, ListingDone
<1>7. VulnerabilityShown' /\ GraphComplete' /\ CopyCurrent'
  BY <1>4 DEF VulnerabilityShown, GraphComplete, CopyCurrent
<1>8. ListingAdvances'
  BY <1>1, <1>2, <1>4 DEF ReadInv, PortalInv, ListingAdvances, Published
<1> QED
  BY <1>2, <1>5, <1>6, <1>7, <1>8 DEF ReadInv, PortalInv

\* The fetch of a page: the reports it does not return are behind it.
LEMMA FetchStep ==
    ASSUME ReadInv, FetchReports
    PROVE  ReadInv'
<1> DEFINE items == PageOf(Published, job.page)
           last == LastPage(items)
           read == {<<r, rows[r].current>> : r \in items}
<1>1. TypeOK /\ RowsSound /\ job.kind = "cves" /\ job \in CveJob /\ job.pc = "counted"
  BY JobOf DEF ReadInv, PortalInv, FetchReports
<1>2. /\ RowsSound' /\ Published' = Published /\ rows' = rows
      /\ rows' \in [Report -> Row] /\ writes' \in 0..MaxWrites
      /\ \A r \in Report : Ahead(Published, r)' = Ahead(Published, r)
  BY <1>1, RowsKept DEF FetchReports
<1>3. items \in SUBSET Published
  BY DEF PageOf
<1>4. \A r \in items : /\ r \in Report /\ rows[r].current \in Content
                       /\ rows[r].current \in rows[r].issued
  BY <1>1, <1>3, PublicRow
<1>5. job.page \in Nat \ {0} /\ job.entries \in [Cve -> Vulnerability \cup {None}]
  BY <1>1 DEF CveJob
<1>6. \A x \in Cve : MergeAll(job.entries, items)[x] = Merge(job.entries[x], items, x)
  BY DEF MergeAll
<1>7. MergeAll(job.entries, items) \in [Cve -> Vulnerability \cup {None}]
  <2>1. \A x \in Cve : Merge(job.entries[x], items, x) \in Vulnerability \cup {None}
    BY <1>1, <1>3, <1>5, MergeIs
  <2> QED
    BY <2>1 DEF MergeAll
<1>8. read \in SUBSET (Report \X Content)
  BY <1>4
<1>9. job' = [job EXCEPT !.listed = @ \cup read, !.entries = MergeAll(@, items),
                         !.pc = IF last THEN "done" ELSE "start",
                         !.page = IF last THEN @ ELSE NextPage(@)]
  BY DEF FetchReports
<1>10. touched' = touched /\ arrived' = arrived
  BY DEF FetchReports
<1> HIDE DEF items, last, read
<1>11. /\ job'.kind = "cves" /\ job'.pc = IF last THEN "done" ELSE "start"
       /\ job'.page = IF last THEN job.page ELSE job.page + 1
       /\ job'.listed = job.listed \cup read
       /\ job'.entries = MergeAll(job.entries, items)
       /\ job' \in CveJob
  <2> DEFINE es == MergeAll(job.entries, items)
             pc == IF last THEN "done" ELSE "start"
             page == IF last THEN job.page ELSE job.page + 1
             listed == job.listed \cup read
  <2>1. pc \in {"start", "counted", "done"} /\ page \in Nat \ {0}
    BY <1>5
  <2>2. listed \in SUBSET (Report \X Content)
    BY <1>1, <1>8 DEF CveJob
  <2>3. job' = [job EXCEPT !.listed = listed, !.entries = es, !.pc = pc, !.page = page]
    BY <1>9 DEF NextPage
  <2>4. es \in [Cve -> Vulnerability \cup {None}]
    BY <1>7
  <2> HIDE DEF es, pc, page, listed
  <2>5. /\ job'.kind = "cves" /\ job'.pc = pc /\ job'.page = page /\ job'.listed = listed
        /\ job'.entries = es /\ job' \in CveJob
    BY <1>1, <2>1, <2>2, <2>3, <2>4 DEF CveJob
  <2> QED
    BY <2>5 DEF es, pc, page, listed
<1>12. TypeOK'
  BY <1>1, <1>2, <1>10, <1>11 DEF TypeOK
<1>13. DraftsStayPrivate'
  <2>1. \A p \in job.listed : p[2] \in rows[p[1]].issued
    BY <1>1 DEF ReadInv, PortalInv, DraftsStayPrivate
  <2>2. \A p \in read : p[2] \in rows[p[1]].issued
    BY <1>4 DEF read
  <2> QED
    BY <1>2, <1>11, <2>1, <2>2 DEF DraftsStayPrivate
<1>14. EntriesWorst'
  <2> DEFINE es == job.entries
             fs == job'.entries
  <2> SUFFICES ASSUME NEW p \in job'.listed, NEW x \in Cve, Finding[p[2]][x] # None
               PROVE  /\ fs[x] # None
                      /\ Finding[p[2]][x].cvss # None => AtLeast(fs[x].cvss, Finding[p[2]][x].cvss)
                      /\ Finding[p[2]][x].kev => fs[x].kev
    BY DEF EntriesWorst
  <2>1. fs[x] = Merge(es[x], items, x) /\ es[x] \in Vulnerability \cup {None}
    BY <1>5, <1>6, <1>11
  <2>2. CASE p \in read
    <3>1. PICK r \in items : p = <<r, rows[r].current>>
      BY <2>2 DEF read
    <3>2. Finding[p[2]][x] = Record(r, x)
      BY <3>1 DEF Record
    <3>3. /\ Merge(es[x], items, x) # None
          /\ Record(r, x).kev => Merge(es[x], items, x).kev
          /\ Record(r, x).cvss # None => AtLeast(Merge(es[x], items, x).cvss, Record(r, x).cvss)
      BY <1>1, <1>3, <2>1, <3>2, MergeIs
    <3> QED
      BY <2>1, <3>2, <3>3
  <2>3. CASE p \in job.listed
    <3> DEFINE f == Finding[p[2]][x]
    <3>1. /\ es[x] # None /\ (f.kev => es[x].kev)
          /\ f.cvss # None => AtLeast(es[x].cvss, f.cvss)
      BY <1>1, <2>3 DEF ReadInv, PortalInv, EntriesWorst
    <3>2. /\ fs[x] # None /\ (es[x].kev => fs[x].kev)
          /\ es[x].cvss # None => AtLeast(fs[x].cvss, es[x].cvss)
      BY <1>1, <1>3, <2>1, <3>1, MergeIs
    <3>3. f \in Vulnerability /\ es[x] \in Vulnerability /\ fs[x] \in Vulnerability
      <4>1. p[2] \in Content
        BY <1>1, <2>3 DEF CveJob
      <4>2. fs[x] \in Vulnerability \cup {None}
        BY <1>11 DEF CveJob
      <4> QED
        BY <2>1, <3>1, <3>2, <4>1, <4>2, PortalInputs
    <3>4. \A v \in Vulnerability : v.cvss # None => v.cvss \in Nat
      BY DEF Vulnerability
    <3> HIDE DEF es, fs, f
    <3>5. f.cvss # None => AtLeast(fs[x].cvss, f.cvss)
      BY <3>1, <3>2, <3>3, <3>4 DEF AtLeast
    <3> QED
      BY <3>1, <3>2, <3>5 DEF f
  <2> QED
    BY <1>11, <2>2, <2>3
<1>15. ASSUME NEW r \in Published \ touched, <<r, rows[r].current>> \notin job'.listed
       PROVE  Cardinality(Ahead(Published, r)) >= job.page * PageSize
  <2>1. Cardinality(Ahead(Published, r)) >= (job.page - 1) * PageSize
    BY <1>1, <1>11, <1>15 DEF ReadInv, PortalInv, ListingAdvances
  <2>2. r \notin items
    BY <1>11, <1>15 DEF read
  <2>3. Cardinality(Ahead(Published, r)) \in Nat
    BY <1>1, AheadCounts
  <2>4. Cardinality(Ahead(Published, r)) \notin (job.page - 1) * PageSize..job.page * PageSize - 1
    BY <2>2 DEF items, PageOf
  <2>5. job.page * PageSize \in Int /\ (job.page - 1) * PageSize \in Int
    BY <1>5, PortalInputs
  <2> QED
    BY <2>1, <2>3, <2>4, <2>5
<1>16. ListingAdvances'
  <2>1. last \/ (job'.page - 1) * PageSize = job.page * PageSize
    BY <1>5, <1>11
  <2>2. ASSUME ~last, NEW r \in Published \ touched, <<r, rows[r].current>> \notin job'.listed
        PROVE  Cardinality(Ahead(Published, r)') >= (job'.page - 1) * PageSize
    <3>1. Ahead(Published, r)' = Ahead(Published, r)
      BY <1>2, <2>2 DEF Published
    <3> QED
      BY <1>15, <2>1, <2>2, <3>1
  <2>3. job'.pc # "counted" /\ (job'.pc # "done" => ~last)
    BY <1>11
  <2> QED
    BY <1>2, <1>10, <2>2, <2>3 DEF ListingAdvances
<1>17. ListingComplete'
  <2> SUFFICES ASSUME last, ~arrived, NEW r \in Published \ touched,
                      <<r, rows[r].current>> \notin job'.listed
               PROVE  FALSE
    BY <1>2, <1>10, <1>11 DEF ListingComplete, ListingDone
  <2>1. Cardinality(Ahead(Published, r)) >= job.page * PageSize
    BY <1>15
  <2>2. /\ Cardinality(Ahead(Published, r)) = Place(Published, SoonerPairs, r)
        /\ Cardinality(Ahead(Published, r)) \in Nat /\ Cardinality(Published) \in Nat
        /\ Cardinality(Ahead(Published, r)) < Cardinality(Published)
    BY <1>1, AheadCounts
  <2>3. Cardinality(Published) = job.total
    BY <1>1 DEF ReadInv, PortalInv, ListingAdvances
  <2>4. ~(job.page * PageSize >= job.total)
    <3>1. job.page * PageSize \in Int
      BY <1>5, PortalInputs
    <3> QED
      BY <2>1, <2>2, <2>3, <3>1
  <2>5. Cardinality(items) < PageSize
    BY <2>4 DEF last, LastPage
  <2>6. /\ (job.page - 1) * PageSize \in Nat /\ PageSize \in Nat
        /\ (job.page - 1) * PageSize + PageSize = job.page * PageSize
    BY <1>5, PortalInputs, SMTT(20)
  <2>7. items = {q \in Published : Place(Published, SoonerPairs, q) \in
                    (job.page - 1) * PageSize..(job.page - 1) * PageSize + PageSize - 1}
    <3>1. \A q \in Published : Cardinality(Ahead(Published, q)) = Place(Published, SoonerPairs, q)
      BY <1>1, AheadCounts
    <3> QED
      BY <2>6, <3>1 DEF items, PageOf
  <2>8. IsFiniteSet(Published) /\ StrictOrder(Published, SoonerPairs)
    BY <1>1, SoonerIsStrict
  <2> DEFINE m == (job.page - 1) * PageSize
  <2>9. m \in Nat /\ m + PageSize <= Place(Published, SoonerPairs, r)
    BY <2>1, <2>2, <2>6
  <2> HIDE DEF m
  <2>10. Cardinality({q \in Published : Place(Published, SoonerPairs, q) \in m..m + PageSize - 1})
            = PageSize
    BY <2>6, <2>8, <2>9, PageFull
  <2>11. Cardinality(items) = PageSize
    BY <2>7, <2>10 DEF m
  <2> QED
    BY <2>5, <2>6, <2>11
<1>18. VulnerabilityShown' /\ GraphComplete' /\ CopyCurrent'
  BY <1>11 DEF VulnerabilityShown, GraphComplete, CopyCurrent
<1> QED
  BY <1>2, <1>12, <1>13, <1>14, <1>16, <1>17, <1>18 DEF ReadInv, PortalInv

\* The search of vulnerability_page: every hit is queued under its slug.
LEMMA VulnerabilityPageStep ==
    ASSUME ReadInv, NEW x \in Cve, VulnerabilityPage(x)
    PROVE  ReadInv'
<1> DEFINE hits == PageOf({r \in Published : Lists(r, x)}, 1)
           Item(r) == [place |-> Cardinality(Ahead(hits, r)), slug |-> SlugOf(r)]
           queue == {Item(r) : r \in hits}
<1>1. TypeOK /\ RowsSound
  BY DEF ReadInv, PortalInv
<1>2. /\ RowsSound' /\ Published' = Published /\ rows' = rows
      /\ rows' \in [Report -> Row] /\ writes' \in 0..MaxWrites
  BY <1>1, RowsKept DEF VulnerabilityPage, Begin
<1>3. hits \in SUBSET Published /\ \A r \in hits : Lists(r, x)
  BY DEF PageOf
<1>4. \A r \in hits : /\ r \in Report /\ Public(r) /\ SlugOf(r) \in Report \X Content
                      /\ Cardinality(Ahead(hits, r)) \in Nat
  BY <1>1, <1>3, PublicRow, AheadCounts DEF SlugOf
<1>5. queue \in SUBSET [place : Nat, slug : Report \X Content]
  <2>1. \A r \in hits : Item(r) \in [place : Nat, slug : Report \X Content]
    BY <1>4
  <2> HIDE DEF Item
  <2> QED
    BY <2>1
<1>6. \A r \in hits : \E h \in queue : h.slug = SlugOf(r)
  <2>1. \A r \in hits : Item(r).slug = SlugOf(r)
    OBVIOUS
  <2> HIDE DEF Item, hits
  <2>2. \A r \in hits : Item(r) \in queue
    OBVIOUS
  <2> HIDE DEF queue
  <2> QED
    BY <2>1, <2>2
<1>7. /\ job' = [kind |-> "vulnerability", cve |-> x, hits |-> hits, found |-> None, queue |-> queue]
      /\ touched' = {} /\ arrived' = FALSE
  BY DEF VulnerabilityPage, Begin
<1> HIDE DEF hits, queue
<1>8. /\ job'.kind = "vulnerability" /\ job'.cve = x /\ job'.hits = hits /\ job'.found = None
      /\ job'.queue = queue
  BY <1>7
<1>9. TypeOK'
  <2>1. hits \in SUBSET Report
    BY <1>4
  <2>2. job' \in VulnerabilityJob
    BY <1>5, <1>7, <2>1 DEF VulnerabilityJob
  <2> QED
    BY <1>2, <1>7, <2>2 DEF TypeOK
<1>10. ListingAdvances' /\ EntriesWorst' /\ ListingComplete'
  BY <1>8 DEF ListingAdvances, EntriesWorst, ListingComplete, ListingDone
<1>11. DraftsStayPrivate' /\ GraphComplete' /\ CopyCurrent'
  BY <1>8 DEF DraftsStayPrivate, GraphComplete, CopyCurrent
<1>12. VulnerabilityShown'
  BY <1>2, <1>3, <1>4, <1>6, <1>8 DEF VulnerabilityShown, Lists, Public, SlugOf
<1> QED
  BY <1>2, <1>9, <1>10, <1>11, <1>12 DEF ReadInv, PortalInv

\* A lookup by slug: a hit whose slug did not move is not passed over.
LEMMA GetReportStep ==
    ASSUME ReadInv, GetReport
    PROVE  ReadInv'
<1> DEFINE hit == First(job.queue)
           match == {r \in Report : Public(r) /\ SlugOf(r) = hit.slug /\ Lists(r, job.cve)}
<1>1. TypeOK /\ RowsSound /\ job.kind = "vulnerability" /\ job \in VulnerabilityJob
  BY JobOf DEF ReadInv, PortalInv, GetReport
<1>2. /\ RowsSound' /\ Published' = Published /\ rows' = rows
      /\ rows' \in [Report -> Row] /\ writes' \in 0..MaxWrites
  BY <1>1, RowsKept DEF GetReport
<1>3. touched' = touched /\ arrived' = arrived
  BY DEF GetReport
<1>4. \A r \in job.hits \ touched :
         /\ r \in Report /\ Public(r) /\ Lists(r, job.cve)
         /\ job.found # None \/ \E h \in job.queue : h.slug = SlugOf(r)
  BY <1>1 DEF ReadInv, PortalInv, VulnerabilityShown, VulnerabilityJob
<1>5. job.found # None => job.found[2] \in rows[job.found[1]].issued
  BY <1>1 DEF ReadInv, PortalInv, DraftsStayPrivate
<1>6. \/ match = {} /\ job' = [job EXCEPT !.queue = @ \ {hit}]
      \/ \E r \in match : job' = [job EXCEPT !.queue = {}, !.found = <<r, rows[r].current>>]
  BY DEF GetReport
<1>7. job' \in VulnerabilityJob /\ job'.kind = "vulnerability" /\ DraftsStayPrivate' /\ VulnerabilityShown'
  <2>1. CASE match = {} /\ job' = [job EXCEPT !.queue = @ \ {hit}]
    <3> HIDE DEF hit
    <3>1. /\ job' \in VulnerabilityJob /\ job'.kind = "vulnerability" /\ job'.hits = job.hits
          /\ job'.found = job.found /\ job'.queue = job.queue \ {hit} /\ job'.cve = job.cve
      BY <1>1, <2>1 DEF VulnerabilityJob
    <3>2. \A r \in job.hits \ touched : SlugOf(r) # hit.slug
      BY <1>4, <2>1
    <3>3. VulnerabilityShown'
      BY <1>2, <1>3, <1>4, <3>1, <3>2 DEF VulnerabilityShown, Public, Lists, SlugOf
    <3>4. DraftsStayPrivate'
      BY <1>2, <1>5, <3>1 DEF DraftsStayPrivate
    <3> QED
      BY <3>1, <3>3, <3>4
  <2>2. ASSUME NEW r \in match, job' = [job EXCEPT !.queue = {}, !.found = <<r, rows[r].current>>]
        PROVE  /\ job' \in VulnerabilityJob /\ job'.kind = "vulnerability"
               /\ DraftsStayPrivate' /\ VulnerabilityShown'
    <3>1. r \in Report /\ rows[r].current \in Content /\ rows[r].current \in rows[r].issued
      BY <1>1, PublicRow DEF Published
    <3> HIDE DEF match, hit
    <3>2. /\ job' \in VulnerabilityJob /\ job'.kind = "vulnerability" /\ job'.hits = job.hits
          /\ job'.found = <<r, rows[r].current>> /\ job'.cve = job.cve
      BY <1>1, <2>2, <3>1 DEF VulnerabilityJob
    <3>3. job'.found # None
      <4>1. <<r, rows[r].current>> \in Report \X Content
        BY <3>1
      <4> QED
        BY <3>2, <4>1, PortalInputs
    <3>4. VulnerabilityShown'
      BY <1>2, <1>3, <1>4, <3>2, <3>3 DEF VulnerabilityShown, Public, Lists
    <3>5. job'.found[1] = r /\ job'.found[2] = rows[r].current
      BY <3>2
    <3>6. DraftsStayPrivate'
      BY <1>2, <3>1, <3>2, <3>5 DEF DraftsStayPrivate
    <3> QED
      BY <3>2, <3>4, <3>6
  <2> QED
    BY <1>6, <2>1, <2>2
<1>8. TypeOK'
  BY <1>1, <1>2, <1>3, <1>7 DEF TypeOK
<1>9. ListingAdvances' /\ EntriesWorst' /\ ListingComplete' /\ GraphComplete' /\ CopyCurrent'
  BY <1>7 DEF ListingAdvances, EntriesWorst, ListingComplete, ListingDone, GraphComplete, CopyCurrent
<1> QED
  BY <1>2, <1>7, <1>8, <1>9 DEF ReadInv, PortalInv

\* The select of public_relationships.
LEMMA RelationshipsStep ==
    ASSUME ReadInv, NEW about \in Entity \cup {None}, PublicRelationships(about)
    PROVE  ReadInv'
<1> DEFINE rels == {l \in Relation :
                       /\ Member(l.from) /\ Member(l.to)
                       /\ about # None => about \in {l.from, l.to} /\ GetPublicEntity(about)}
           page == {l \in rels : Cardinality({k \in rels : k.id < l.id}) < Limit}
<1>1. TypeOK /\ RowsSound
  BY DEF ReadInv, PortalInv
<1>2. /\ RowsSound' /\ Published' = Published /\ rows' = rows
      /\ rows' \in [Report -> Row] /\ writes' \in 0..MaxWrites
  BY <1>1, RowsKept DEF PublicRelationships, Begin
<1>3. page \in SUBSET Relation /\ \A l \in page : Member(l.from) /\ Member(l.to)
  OBVIOUS
<1>4. /\ job' = [kind |-> "graph", left |-> page, picked |-> page, shown |-> {}]
      /\ touched' = {} /\ arrived' = FALSE
  BY DEF PublicRelationships, Begin
<1> HIDE DEF page
<1>5. /\ job'.kind = "graph" /\ job'.left = page /\ job'.picked = page /\ job'.shown = {}
      /\ job' \in GraphJob
  BY <1>3, <1>4 DEF GraphJob
<1>6. TypeOK'
  BY <1>2, <1>4, <1>5 DEF TypeOK
<1>7. GraphComplete'
  BY <1>2, <1>3, <1>5 DEF GraphComplete, Member, Public
<1>8. ListingAdvances' /\ EntriesWorst' /\ ListingComplete'
  BY <1>5 DEF ListingAdvances, EntriesWorst, ListingComplete, ListingDone
<1>9. DraftsStayPrivate' /\ VulnerabilityShown' /\ CopyCurrent'
  BY <1>5 DEF DraftsStayPrivate, VulnerabilityShown, CopyCurrent
<1> QED
  BY <1>2, <1>6, <1>7, <1>8, <1>9 DEF ReadInv, PortalInv

\* A set of relationships that is not empty has one of the lowest id.
LEMMA LowestIs ==
    ASSUME NEW left \in SUBSET Relation, left # {}
    PROVE  (CHOOSE x \in left : \A y \in left : x.id <= y.id) \in left
<1> DEFINE T == {l.id : l \in left}
<1>1. \A l \in left : l.id \in Nat
  BY PortalInputs
<1>2. T \in SUBSET Nat /\ T # {}
  BY <1>1
<1>3. PICK t \in T : \A u \in T : t <= u
  BY <1>2, LeastNatural
<1>4. PICK l \in left : l.id = t
  BY <1>3
<1>5. \A k \in left : l.id <= k.id
  BY <1>3, <1>4
<1> QED
  BY <1>5

\* The endpoints of one relationship: still public.
LEMMA ResolveStep ==
    ASSUME ReadInv, ResolveEndpoints
    PROVE  ReadInv'
<1> DEFINE l == CHOOSE x \in job.left : \A y \in job.left : x.id <= y.id
<1>1. TypeOK /\ RowsSound /\ job.kind = "graph" /\ job \in GraphJob /\ job.left # {}
  BY JobOf DEF ReadInv, PortalInv, ResolveEndpoints
<1>2. /\ RowsSound' /\ Published' = Published /\ rows' = rows
      /\ rows' \in [Report -> Row] /\ writes' \in 0..MaxWrites
  BY <1>1, RowsKept DEF ResolveEndpoints
<1>3. /\ job.shown \cup job.left = job.picked
      /\ \A k \in job.picked : Member(k.from) /\ Member(k.to)
  BY <1>1 DEF ReadInv, PortalInv, GraphComplete
<1>4. l \in job.left
  BY <1>1, LowestIs DEF GraphJob
<1>5. job' = [job EXCEPT !.left = @ \ {l},
                 !.shown = IF GetPublicEntityById(l.from) /\ GetPublicEntityById(l.to)
                           THEN @ \cup {l} ELSE @]
  BY DEF ResolveEndpoints
<1>6. touched' = touched /\ arrived' = arrived
  BY DEF ResolveEndpoints
<1> HIDE DEF l
<1>7. GetPublicEntityById(l.from) /\ GetPublicEntityById(l.to)
  BY <1>3, <1>4 DEF GetPublicEntityById
<1>8. job' = [job EXCEPT !.left = @ \ {l}, !.shown = @ \cup {l}]
  BY <1>5, <1>7
<1>9. /\ job'.kind = "graph" /\ job'.left = job.left \ {l} /\ job'.picked = job.picked
      /\ job'.shown = job.shown \cup {l} /\ job' \in GraphJob
  BY <1>1, <1>4, <1>8 DEF GraphJob
<1>10. TypeOK'
  BY <1>1, <1>2, <1>6, <1>9 DEF TypeOK
<1>11. GraphComplete'
  BY <1>2, <1>3, <1>4, <1>9 DEF GraphComplete, Member, Public
<1>12. ListingAdvances' /\ EntriesWorst' /\ ListingComplete'
  BY <1>9 DEF ListingAdvances, EntriesWorst, ListingComplete, ListingDone
<1>13. DraftsStayPrivate' /\ VulnerabilityShown' /\ CopyCurrent'
  BY <1>9 DEF DraftsStayPrivate, VulnerabilityShown, CopyCurrent
<1> QED
  BY <1>2, <1>10, <1>11, <1>12, <1>13 DEF ReadInv, PortalInv

\* A first answer: the body is the current one.
LEMMA GetDetailStep ==
    ASSUME ReadInv, NEW r \in Report, GetDetail(r)
    PROVE  ReadInv'
<1>1. TypeOK /\ RowsSound /\ r \in Published
  BY DEF ReadInv, PortalInv, GetDetail, Published
<1>2. /\ RowsSound' /\ rows' = rows /\ rows' \in [Report -> Row] /\ writes' \in 0..MaxWrites
  BY <1>1, RowsKept DEF GetDetail, Begin
<1>3. /\ Public(r) /\ rows[r].head \in Content /\ rows[r].current \in Content
      /\ rows[r].current \in rows[r].issued
  BY <1>1, PublicRow
<1>4. /\ job' = [kind |-> "client", report |-> r, body |-> Detail(r)]
      /\ touched' = {} /\ arrived' = FALSE
  BY DEF GetDetail, Begin
<1>5. job' \in ClientJob /\ job'.kind = "client" /\ job'.report = r /\ job'.body = Detail(r)
  BY <1>3, <1>4 DEF ClientJob, Detail
<1>6. TypeOK'
  BY <1>2, <1>4, <1>5 DEF TypeOK
<1>7. DraftsStayPrivate' /\ CopyCurrent'
  BY <1>2, <1>3, <1>5 DEF DraftsStayPrivate, CopyCurrent, Public, Detail
<1>8. ListingAdvances' /\ EntriesWorst' /\ ListingComplete'
  BY <1>5 DEF ListingAdvances, EntriesWorst, ListingComplete, ListingDone
<1>9. VulnerabilityShown' /\ GraphComplete'
  BY <1>5 DEF VulnerabilityShown, GraphComplete
<1> QED
  BY <1>2, <1>6, <1>7, <1>8, <1>9 DEF ReadInv, PortalInv

\* A 304 or a new body: the client holds the current one.
LEMMA RevalidateStep ==
    ASSUME ReadInv, Revalidate
    PROVE  ReadInv'
<1>1. TypeOK /\ RowsSound /\ job.kind = "client" /\ job \in ClientJob
  BY JobOf DEF ReadInv, PortalInv, Revalidate
<1>2. /\ RowsSound' /\ rows' = rows /\ rows' \in [Report -> Row] /\ writes' \in 0..MaxWrites
  BY <1>1, RowsKept DEF Revalidate
<1>3. job.report \in Report /\ Public(job.report)
  BY <1>1 DEF ReadInv, PortalInv, DraftsStayPrivate, ClientJob
<1>4. /\ rows[job.report].head \in Content /\ rows[job.report].current \in Content
      /\ rows[job.report].current \in rows[job.report].issued
  BY <1>1, <1>3, PublicRow DEF Published
<1>5. touched' = {} /\ arrived' = arrived
  BY DEF Revalidate
<1>6. /\ job' \in ClientJob /\ job'.kind = "client" /\ job'.report = job.report
      /\ job'.body = Detail(job.report)
  <2>1. Detail(job.report) \in [head : Content, version : Content]
    BY <1>4 DEF Detail
  <2>2. CASE Detail(job.report) = job.body
    BY <1>1, <2>2 DEF Revalidate, Etag
  <2>3. CASE Detail(job.report) # job.body
    BY <1>1, <2>1, <2>3 DEF Revalidate, Etag, ClientJob
  <2> QED
    BY <2>2, <2>3
<1>7. TypeOK'
  BY <1>1, <1>2, <1>5, <1>6 DEF TypeOK
<1>8. DraftsStayPrivate' /\ CopyCurrent'
  BY <1>2, <1>3, <1>4, <1>6 DEF DraftsStayPrivate, CopyCurrent, Public, Detail
<1>9. ListingAdvances' /\ EntriesWorst' /\ ListingComplete'
  BY <1>6 DEF ListingAdvances, EntriesWorst, ListingComplete, ListingDone
<1>10. VulnerabilityShown' /\ GraphComplete'
  BY <1>6 DEF VulnerabilityShown, GraphComplete
<1> QED
  BY <1>2, <1>7, <1>8, <1>9, <1>10 DEF ReadInv, PortalInv

\* The header of a section.
LEMMA SectionPartialStep ==
    ASSUME ReadInv, NEW r \in Report, SectionPartial(r)
    PROVE  ReadInv'
<1>1. TypeOK /\ RowsSound /\ r \in Published
  BY DEF ReadInv, PortalInv, SectionPartial, Published
<1>2. /\ RowsSound' /\ rows' = rows /\ rows' \in [Report -> Row] /\ writes' \in 0..MaxWrites
  BY <1>1, RowsKept DEF SectionPartial, Begin
<1>3. /\ Public(r) /\ rows[r].head \in Content /\ rows[r].current \in Content
      /\ rows[r].current \in rows[r].issued
  BY <1>1, PublicRow
<1>4. /\ job' = [kind |-> "section", report |-> r, slug |-> SlugOf(r), pc |-> "detail",
                 header |-> rows[r].current, section |-> None]
      /\ touched' = {} /\ arrived' = FALSE
  BY DEF SectionPartial, Begin
<1>5. /\ job' \in SectionJob /\ job'.kind = "section" /\ job'.report = r /\ job'.slug = SlugOf(r)
      /\ job'.pc = "detail" /\ job'.header = rows[r].current /\ job'.section = None
      /\ job'.slug[1] = r
  BY <1>3, <1>4 DEF SectionJob, SlugOf
<1>6. TypeOK'
  BY <1>2, <1>4, <1>5 DEF TypeOK
<1>7. DraftsStayPrivate' /\ CopyCurrent'
  BY <1>2, <1>3, <1>5 DEF DraftsStayPrivate, CopyCurrent, Public, SlugOf
<1>8. ListingAdvances' /\ EntriesWorst' /\ ListingComplete'
  BY <1>5 DEF ListingAdvances, EntriesWorst, ListingComplete, ListingDone
<1>9. VulnerabilityShown' /\ GraphComplete'
  BY <1>5 DEF VulnerabilityShown, GraphComplete
<1> QED
  BY <1>2, <1>6, <1>7, <1>8, <1>9 DEF ReadInv, PortalInv

\* The section itself: of the same report, or nothing.
LEMMA GetSectionStep ==
    ASSUME ReadInv, GetSection
    PROVE  ReadInv'
<1> DEFINE match == {r \in Report : Public(r) /\ SlugOf(r) = job.slug}
           found == IF match = {} THEN None ELSE rows[CHOOSE r \in match : TRUE].current
<1>1. TypeOK /\ RowsSound /\ job.kind = "section" /\ job \in SectionJob /\ job.pc = "detail"
  BY JobOf DEF ReadInv, PortalInv, GetSection
<1>2. /\ RowsSound' /\ rows' = rows /\ rows' \in [Report -> Row] /\ writes' \in 0..MaxWrites
  BY <1>1, RowsKept DEF GetSection
<1>3. job.report \in Report /\ job.slug[1] = job.report
  BY <1>1 DEF ReadInv, PortalInv, CopyCurrent, SectionJob
<1>4. \A r \in match : r = job.report
  <2> SUFFICES ASSUME NEW r \in match PROVE r = job.report
    OBVIOUS
  <2>1. <<r, rows[r].head>>[1] = job.slug[1]
    BY DEF SlugOf
  <2> QED
    BY <1>3, <2>1
<1>5. match # {} => /\ found = rows[job.report].current /\ job.report \in Published
                    /\ found \in Content /\ found \in rows[job.report].issued
  <2> SUFFICES ASSUME match # {}
               PROVE  /\ found = rows[job.report].current /\ job.report \in Published
                      /\ found \in Content /\ found \in rows[job.report].issued
    OBVIOUS
  <2>1. (CHOOSE r \in match : TRUE) \in match
    OBVIOUS
  <2>2. (CHOOSE r \in match : TRUE) = job.report /\ job.report \in Published
    BY <1>4, <2>1 DEF Published
  <2> QED
    BY <1>1, <2>2, PublicRow
<1>6. job' = [job EXCEPT !.pc = "done", !.section = found] /\ touched' = touched /\ arrived' = arrived
  BY DEF GetSection
<1>7. ASSUME job.report \notin touched
      PROVE  /\ Public(job.report) /\ job.slug = SlugOf(job.report)
             /\ job.header = rows[job.report].current /\ match # {}
  BY <1>1, <1>3, <1>7 DEF ReadInv, PortalInv, CopyCurrent
<1>8. match = {} => found = None
  OBVIOUS
<1> HIDE DEF found, match
<1>9. /\ job' \in SectionJob /\ job'.kind = "section" /\ job'.report = job.report
      /\ job'.slug = job.slug /\ job'.pc = "done" /\ job'.header = job.header /\ job'.section = found
  BY <1>1, <1>5, <1>6, <1>8 DEF SectionJob
<1>10. TypeOK'
  BY <1>1, <1>2, <1>6, <1>9 DEF TypeOK
<1>11. DraftsStayPrivate'
  <2>1. {job.header, job.section} \subseteq rows[job.report].issued \cup {None}
    BY <1>1 DEF ReadInv, PortalInv, DraftsStayPrivate
  <2> QED
    BY <1>2, <1>5, <1>8, <1>9, <2>1 DEF DraftsStayPrivate
<1>12. CopyCurrent'
  BY <1>2, <1>3, <1>5, <1>6, <1>7, <1>9 DEF CopyCurrent, Public, SlugOf
<1>13. ListingAdvances' /\ EntriesWorst' /\ ListingComplete'
  BY <1>9 DEF ListingAdvances, EntriesWorst, ListingComplete, ListingDone
<1>14. VulnerabilityShown' /\ GraphComplete'
  BY <1>9 DEF VulnerabilityShown, GraphComplete
<1> QED
  BY <1>2, <1>10, <1>11, <1>12, <1>13, <1>14 DEF ReadInv, PortalInv

\* The end of a request.
LEMMA CloseStep ==
    ASSUME ReadInv, Close
    PROVE  ReadInv'
<1>1. TypeOK /\ RowsSound
  BY DEF ReadInv, PortalInv
<1>2. RowsSound' /\ rows' \in [Report -> Row] /\ writes' \in 0..MaxWrites
  BY <1>1, RowsKept DEF Close
<1>3. job' = Idle /\ touched' = {} /\ arrived' = FALSE /\ job'.kind = "none"
  BY DEF Close, Idle
<1>4. TypeOK'
  BY <1>2, <1>3 DEF TypeOK
<1>5. ListingAdvances' /\ EntriesWorst' /\ ListingComplete' /\ DraftsStayPrivate'
  BY <1>3 DEF ListingAdvances, EntriesWorst, ListingComplete, ListingDone, DraftsStayPrivate
<1>6. VulnerabilityShown' /\ GraphComplete' /\ CopyCurrent'
  BY <1>3 DEF VulnerabilityShown, GraphComplete, CopyCurrent
<1> QED
  BY <1>2, <1>4, <1>5, <1>6 DEF ReadInv, PortalInv

-----------------------------------------------------------------------------
(* A write between the statements of a request.                            *)

\* persist_bundle takes nothing back from a row and leaves the other rows alone.
LEMMA SaveRow ==
    ASSUME TypeOK, RowsSound, NEW r \in Report, NEW c \in Content, NEW publish \in BOOLEAN,
           Save(r, c, publish)
    PROVE  /\ rows' \in [Report -> Row] /\ writes' \in 0..MaxWrites /\ writes' = writes + 1
           /\ \A q \in Report \ {r} : rows'[q] = rows[q]
           /\ rows'[r].updated = writes + 1 /\ rows'[r] # Absent
           /\ rows'[r].head = c /\ c \in rows'[r].saved
           /\ rows[r].saved \subseteq rows'[r].saved /\ rows[r].issued \subseteq rows'[r].issued
           /\ rows'[r].issued \subseteq rows'[r].saved /\ rows'[r].current \in rows'[r].saved
           /\ rows'[r].state = "published" <=> publish \/ rows[r].state = "published"
           /\ rows'[r].state = "published" => rows'[r].current \in rows'[r].issued
<1> DEFINE row == IF rows[r] = Absent THEN Inserted(c, publish) ELSE Updated(rows[r], c, publish)
<1>1. writes \in Nat /\ writes + 1 \in 0..MaxWrites /\ writes + 1 # 0
  BY PortalInputs DEF TypeOK, Save
<1>2. rows[r] \in Row /\ rows \in [Report -> Row]
  BY DEF TypeOK
<1>3. /\ rows[r].issued \subseteq rows[r].saved
      /\ rows[r] # Absent => rows[r].current \in rows[r].saved
      /\ rows[r].state = "published" => rows[r] # Absent /\ rows[r].current \in rows[r].issued
  BY DEF RowsSound, Public
<1>4. /\ row \in Row /\ row.updated = writes + 1 /\ row.head = c /\ c \in row.saved
      /\ rows[r].saved \subseteq row.saved /\ rows[r].issued \subseteq row.issued
      /\ row.issued \subseteq row.saved /\ row.current \in row.saved
      /\ row.state = "published" <=> publish \/ rows[r].state = "published"
      /\ row.state = "published" => row.current \in row.issued
  <2>1. CASE rows[r] = Absent
    <3>1. rows[r].saved = {} /\ rows[r].issued = {} /\ rows[r].state = "absent"
      BY <2>1 DEF Absent
    <3>2. row = Inserted(c, publish)
      BY <2>1
    <3> HIDE DEF row
    <3> QED
      BY <1>1, <3>1, <3>2 DEF Inserted, Row
  <2>2. CASE rows[r] # Absent
    <3>1. row = Updated(rows[r], c, publish)
      BY <2>2
    <3> HIDE DEF row
    <3> QED
      BY <1>1, <1>2, <1>3, <2>2, <3>1 DEF Updated, Row
  <2> QED
    BY <2>1, <2>2
<1>5. row # Absent
  BY <1>1, <1>4 DEF Absent
<1>6. rows' = [rows EXCEPT ![r] = row] /\ writes' = writes + 1
  BY DEF Save
<1> HIDE DEF row
<1>7. rows'[r] = row /\ (\A q \in Report \ {r} : rows'[q] = rows[q]) /\ rows' \in [Report -> Row]
  BY <1>2, <1>4, <1>6
<1> QED
  BY <1>1, <1>4, <1>5, <1>6, <1>7

\* A write between two statements takes nothing from the request at hand.
LEMMA SaveStep ==
    ASSUME ReadInv, NEW r \in Report, NEW c \in Content, NEW publish \in BOOLEAN,
           Save(r, c, publish)
    PROVE  ReadInv'
<1>1. TypeOK /\ RowsSound
  BY DEF ReadInv, PortalInv
<1>2. /\ rows' \in [Report -> Row] /\ writes' \in 0..MaxWrites /\ writes' = writes + 1
      /\ \A q \in Report \ {r} : rows'[q] = rows[q]
      /\ rows'[r].updated = writes + 1 /\ rows'[r] # Absent
      /\ rows'[r].head = c /\ c \in rows'[r].saved
      /\ rows[r].saved \subseteq rows'[r].saved /\ rows[r].issued \subseteq rows'[r].issued
      /\ rows'[r].issued \subseteq rows'[r].saved /\ rows'[r].current \in rows'[r].saved
      /\ rows'[r].state = "published" <=> publish \/ rows[r].state = "published"
      /\ rows'[r].state = "published" => rows'[r].current \in rows'[r].issued
  BY <1>1, SaveRow
<1>3. /\ job' = job /\ (job # Idle => touched' = touched \cup {r})
      /\ arrived' = (arrived \/ (/\ job.kind = "cves" /\ job.pc = "counted"
                                 /\ publish /\ rows[r].state # "published"))
  BY DEF Save
<1>4. job.kind \in {"cves", "vulnerability", "graph", "client", "section"} => job # Idle
  BY DEF Idle
<1>5. TypeOK'
  <2>1. touched' \subseteq Report
    BY <1>1 DEF TypeOK, Save
  <2>2. arrived' \in BOOLEAN
    BY <1>1, <1>3 DEF TypeOK
  <2> QED
    BY <1>1, <1>2, <1>3, <2>1, <2>2 DEF TypeOK
<1>6. RowsSound'
  <2>1. writes \in Nat /\ \A q \in Report : rows[q].updated \in Nat /\ rows[q].updated <= writes
    BY <1>1, PortalInputs DEF TypeOK, RowsSound, Row
  <2>2. ASSUME NEW q \in Report
        PROVE  /\ rows'[q].issued \subseteq rows'[q].saved /\ rows'[q].updated <= writes'
               /\ rows'[q] # Absent => {rows'[q].head, rows'[q].current} \subseteq rows'[q].saved
               /\ rows'[q] = Absent <=> rows'[q].updated = 0
               /\ rows'[q].state = "published" =>
                     rows'[q] # Absent /\ rows'[q].current \in rows'[q].issued
    <3>1. CASE q = r
      BY <1>2, <2>1, <3>1
    <3>2. CASE q # r
      BY <1>1, <1>2, <2>1, <3>2 DEF RowsSound, Public
    <3> QED
      BY <3>1, <3>2
  <2>3. ASSUME NEW p \in Report, NEW q \in Report, rows'[q] # Absent,
               rows'[q].updated = rows'[p].updated
        PROVE  q = p
    <3>1. CASE p = r /\ q # r
      BY <1>2, <2>1, <2>3, <3>1
    <3>2. CASE p # r /\ q = r
      BY <1>2, <2>1, <2>3, <3>2
    <3>3. CASE p # r /\ q # r
      BY <1>1, <1>2, <2>3, <3>3 DEF RowsSound
    <3> QED
      BY <3>1, <3>2, <3>3
  <2> QED
    BY <2>2, <2>3 DEF RowsSound, Public
<1>7. \A q \in Report : /\ rows[q].issued \subseteq rows'[q].issued
                        /\ rows[q].saved \subseteq rows'[q].saved /\ (Public(q) => Public(q)')
  BY <1>2 DEF Public
<1>8. DraftsStayPrivate'
  <2>1. /\ job.kind = "cves" => job.listed \in SUBSET (Report \X Content)
        /\ job.kind = "vulnerability" /\ job.found # None => job.found \in Report \X Content
        /\ job.kind \in {"section", "client"} => job.report \in Report
    BY <1>1, JobOf DEF CveJob, VulnerabilityJob, SectionJob, ClientJob
  <2>2. \A p \in Report \X Content : p[1] \in Report
    OBVIOUS
  <2>3. DraftsStayPrivate
    BY DEF ReadInv, PortalInv
  <2> QED
    BY <1>3, <1>7, <2>1, <2>2, <2>3 DEF DraftsStayPrivate
<1>9. job # Idle => \A q \in Report \ touched' :
                       /\ q # r /\ q \notin touched /\ rows'[q] = rows[q] /\ Public(q)' = Public(q)
  BY <1>2, <1>3 DEF Public
<1>10. ListingAdvances' /\ ListingComplete'
  <2> SUFFICES ASSUME job.kind = "cves" PROVE ListingAdvances' /\ ListingComplete'
    BY <1>3 DEF ListingAdvances, ListingComplete, ListingDone
  <2>1. job # Idle /\ job \in CveJob
    BY <1>1, <1>4, JobOf
  <2>2. \A q \in Published' \ touched' : q \in Published \ touched /\ rows'[q] = rows[q] /\ q # r
    BY <1>9, <2>1 DEF Published
  <2>3. ASSUME NEW q \in Published' \ touched'
        PROVE  Cardinality(Ahead(Published, q)') >= Cardinality(Ahead(Published, q))
               /\ Cardinality(Ahead(Published, q)') \in Nat /\ Cardinality(Ahead(Published, q)) \in Nat
    <3>1. q \in Report /\ rows[q].updated < writes + 1 /\ writes \in Nat
      <4>1. q \in Report /\ rows[q].updated \in Nat /\ writes \in Nat
        BY <1>1, PortalInputs DEF TypeOK, Row, Published
      <4>2. rows[q].updated <= writes
        BY <1>1, <4>1 DEF RowsSound
      <4> QED
        BY <4>1, <4>2
    <3>2. ASSUME NEW p \in Published, Sooner(p, q) PROVE p \in Published' /\ Sooner(p, q)'
      <4>1. p \in Published'
        BY <1>7 DEF Published
      <4>2. Severity[p] \in Nat /\ Severity[q] \in Nat
        BY <3>1, PortalInputs DEF Published
      <4>3. CASE p = r
        BY <1>2, <2>2, <2>3, <3>1, <3>2, <4>1, <4>2, <4>3 DEF Sooner
      <4>4. CASE p # r
        <5>1. rows'[p] = rows[p] /\ rows'[q] = rows[q]
          BY <1>2, <2>2, <2>3, <4>4 DEF Published
        <5> QED
          BY <3>2, <4>1, <5>1 DEF Sooner
      <4> QED
        BY <4>1, <4>3, <4>4
    <3>3. Ahead(Published, q) \subseteq Ahead(Published, q)'
      BY <3>2 DEF Ahead
    <3>4. Ahead(Published, q)' \in SUBSET Report
      BY DEF Ahead, Published
    <3>5. IsFiniteSet(Ahead(Published, q)')
      BY <3>4, FS_Subset, PortalInputs
    <3>6. IsFiniteSet(Ahead(Published, q))
      BY <3>3, <3>5, FS_Subset
    <3> QED
      BY <3>3, <3>5, <3>6, FS_Subset, FS_CardinalityType
  <2>4. job.page \in Nat \ {0} /\ (job.page - 1) * PageSize \in Int
    <3>1. job.page \in Nat \ {0}
      BY <2>1 DEF CveJob
    <3> QED
      BY <3>1, PortalInputs
  <2>5. ASSUME job.pc # "done", NEW q \in Published' \ touched'
        PROVE  \/ <<q, rows'[q].current>> \in job.listed
               \/ Cardinality(Ahead(Published, q)') >= (job.page - 1) * PageSize
    <3>1. \/ <<q, rows[q].current>> \in job.listed
          \/ Cardinality(Ahead(Published, q)) >= (job.page - 1) * PageSize
      BY <2>2, <2>5 DEF ReadInv, PortalInv, ListingAdvances
    <3>2. Cardinality(Ahead(Published, q)') >= Cardinality(Ahead(Published, q))
          /\ Cardinality(Ahead(Published, q)') \in Nat /\ Cardinality(Ahead(Published, q)) \in Nat
      BY <2>3, <2>5
    <3> QED
      BY <2>2, <2>4, <2>5, <3>1, <3>2
  <2>6. ASSUME job.pc = "counted", ~arrived' PROVE Cardinality(Published)' = job.total
    <3>1. ~arrived /\ (rows'[r].state = "published" <=> rows[r].state = "published")
      BY <1>2, <1>3, <2>6
    <3>2. Published' = Published
      BY <1>2, <3>1 DEF Published, Public
    <3> QED
      BY <2>6, <3>1, <3>2 DEF ReadInv, PortalInv, ListingAdvances
  <2>7. ListingAdvances'
    BY <1>3, <2>5, <2>6 DEF ListingAdvances
  <2>8. ListingComplete'
    BY <1>3, <2>2 DEF ReadInv, ListingComplete, ListingDone
  <2> QED
    BY <2>7, <2>8
<1>11. EntriesWorst'
  BY <1>3 DEF ReadInv, PortalInv, EntriesWorst
<1>12. VulnerabilityShown'
  <2> SUFFICES ASSUME job.kind = "vulnerability" PROVE VulnerabilityShown'
    BY <1>3 DEF VulnerabilityShown
  <2>1. job # Idle /\ job.hits \subseteq Report
    BY <1>1, <1>4, JobOf DEF VulnerabilityJob
  <2> QED
    BY <1>3, <1>9, <2>1 DEF ReadInv, PortalInv, VulnerabilityShown, Public, Lists, SlugOf
<1>13. GraphComplete'
  <2>1. \A e : Member(e) => Member(e)'
    BY <1>7 DEF Member
  <2> QED
    BY <1>3, <2>1 DEF ReadInv, PortalInv, GraphComplete
<1>14. CopyCurrent'
  <2>1. job.kind \in {"section", "client"} => job.report \in Report /\ job # Idle
    BY <1>1, <1>4, JobOf DEF SectionJob, ClientJob
  <2> QED
    BY <1>3, <1>9, <2>1 DEF ReadInv, PortalInv, CopyCurrent, Public, SlugOf, Detail
<1> QED
  BY <1>5, <1>6, <1>8, <1>10, <1>11, <1>12, <1>13, <1>14 DEF ReadInv, PortalInv

\* Every step keeps the invariant.
LEMMA NextStep ==
    ASSUME ReadInv, [Next]_vars
    PROVE  ReadInv'
<1>1. CASE UNCHANGED vars
  <2> USE <1>1 DEF vars, ReadInv, PortalInv, Public
  <2>1. TypeOK' /\ RowsSound' /\ DraftsStayPrivate' /\ EntriesWorst'
    BY DEF TypeOK, RowsSound, DraftsStayPrivate, EntriesWorst
  <2>2. ListingAdvances' /\ ListingComplete'
    BY DEF ListingAdvances, ListingComplete, ListingDone, Published, Ahead, Sooner
  <2>3. VulnerabilityShown' /\ GraphComplete' /\ CopyCurrent'
    BY DEF VulnerabilityShown, GraphComplete, CopyCurrent, Lists, SlugOf, Member, Detail
  <2> QED
    BY <2>1, <2>2, <2>3
<1>2. CASE \E r \in Report, c \in Content, publish \in BOOLEAN : Save(r, c, publish)
  BY <1>2, SaveStep
<1>3. CASE \E q \in Query : ListCves(q)
  BY <1>3, ListCvesStep
<1>4. CASE Step \/ Revalidate
  BY <1>4, CountStep, FetchStep, GetReportStep, ResolveStep, GetSectionStep, CloseStep,
     RevalidateStep DEF Step
<1>5. CASE \E x \in Cve : VulnerabilityPage(x)
  BY <1>5, VulnerabilityPageStep
<1>6. CASE \E about \in Entity \cup {None} : PublicRelationships(about)
  BY <1>6, RelationshipsStep
<1>7. CASE \E r \in Report : GetDetail(r) \/ SectionPartial(r)
  BY <1>7, GetDetailStep, SectionPartialStep
<1> QED
  BY <1>1, <1>2, <1>3, <1>4, <1>5, <1>6, <1>7 DEF Next

\* Whatever is saved between the statements of a request, it shows what is
\* public, loses none of it, and confirms no copy that is out of date.
THEOREM PortalIsSound == Spec => []PortalInv
<1>1. Init => ReadInv
  BY InitInv
<1>2. ReadInv /\ [Next]_vars => ReadInv'
  BY NextStep
<1>3. ReadInv => PortalInv
  BY DEF ReadInv
<1> QED
  BY <1>1, <1>2, <1>3, PTL DEF Spec

\* A finished CVE listing holds every public report nobody wrote meanwhile, unless
\* one became public between a count and its fetch.
THEOREM ListingIsComplete == Spec => []ListingComplete
<1>1. Init => ReadInv
  BY InitInv
<1>2. ReadInv /\ [Next]_vars => ReadInv'
  BY NextStep
<1>3. ReadInv => ListingComplete
  BY DEF ReadInv
<1> QED
  BY <1>1, <1>2, <1>3, PTL DEF Spec

-----------------------------------------------------------------------------
(* The answer of the CVE listing.                                          *)

\* The sort key of an entry: three numbers, compared one after the other.
LEMMA KeyOrder ==
    ASSUME NEW es \in [Cve -> Vulnerability \cup {None}], NEW x \in Cve, NEW y \in Cve,
           es[x] # None, es[y] # None
    PROVE  /\ Key(es[x])[1] \in Nat /\ Key(es[x])[2] \in Nat /\ Key(es[x])[3] \in Nat
           /\ es[x].kev <=> Key(es[x])[1] = 1
           /\ Key(es[x])[1] <= 1
           /\ Precedes(es, x, y) <=>
                 LET k == Key(es[x])
                     l == Key(es[y])
                 IN  \/ k[1] > l[1]
                     \/ k[1] = l[1] /\ k[2] > l[2]
                     \/ k[1] = l[1] /\ k[2] = l[2] /\ k[3] > l[3]
                     \/ k[1] = l[1] /\ k[2] = l[2] /\ k[3] = l[3] /\ x < y
<1> DEFINE k == Key(es[x])
           l == Key(es[y])
<1>1. es[x] \in Vulnerability /\ es[y] \in Vulnerability
  OBVIOUS
<1>2. \A v \in Vulnerability : v.kev \in BOOLEAN /\ OrZero(v.cvss) \in Nat /\ OrZero(v.epss) \in Nat
  BY DEF OrZero, Vulnerability
<1>3. /\ k = <<IF es[x].kev THEN 1 ELSE 0, OrZero(es[x].cvss), OrZero(es[x].epss)>>
      /\ l = <<IF es[y].kev THEN 1 ELSE 0, OrZero(es[y].cvss), OrZero(es[y].epss)>>
  BY DEF Key
<1>4. /\ k \in Nat \X Nat \X Nat /\ l \in Nat \X Nat \X Nat
      /\ k[1] = IF es[x].kev THEN 1 ELSE 0
  BY <1>1, <1>2, <1>3
<1>5. k = l <=> k[1] = l[1] /\ k[2] = l[2] /\ k[3] = l[3]
  BY <1>4
<1>6. (\E i \in 1..3 : k[i] > l[i] /\ \A n \in 1..i - 1 : k[n] = l[n]) <=>
         \/ k[1] > l[1]
         \/ k[1] = l[1] /\ k[2] > l[2]
         \/ k[1] = l[1] /\ k[2] = l[2] /\ k[3] > l[3]
  <2> HIDE DEF k, l
  <2>1. \A i \in 1..3 : i = 1 \/ i = 2 \/ i = 3
    OBVIOUS
  <2>2. 1..1 - 1 = {} /\ 1..2 - 1 = {1} /\ 1..3 - 1 = {1, 2} /\ 1 \in 1..3 /\ 2 \in 1..3 /\ 3 \in 1..3
    OBVIOUS
  <2> QED
    BY <2>1, <2>2
<1>7. Precedes(es, x, y) <=> \/ k = l /\ x < y
                             \/ \E i \in 1..3 : k[i] > l[i] /\ \A n \in 1..i - 1 : k[n] = l[n]
  BY DEF Precedes
<1> HIDE DEF k, l
<1>8. Precedes(es, x, y) <=> \/ k[1] > l[1]
                             \/ k[1] = l[1] /\ k[2] > l[2]
                             \/ k[1] = l[1] /\ k[2] = l[2] /\ k[3] > l[3]
                             \/ k[1] = l[1] /\ k[2] = l[2] /\ k[3] = l[3] /\ x < y
  BY <1>5, <1>6, <1>7
<1>9. k[1] \in Nat /\ k[2] \in Nat /\ k[3] \in Nat /\ (es[x].kev <=> k[1] = 1) /\ k[1] <= 1
  BY <1>1, <1>2, <1>4
<1> QED
  BY <1>8, <1>9 DEF k, l

PassingPairs == {p \in Cve \X Cve : Precedes(job.entries, p[1], p[2])}

\* The sort orders the entries that pass the filters totally, by the id in the end.
LEMMA PassingIsStrict ==
    ASSUME job.entries \in [Cve -> Vulnerability \cup {None}]
    PROVE  /\ IsFiniteSet(Passing) /\ StrictOrder(Passing, PassingPairs)
           /\ \A x \in Passing : Below(Passing, PassingPairs, x) = Before(x)
<1> DEFINE es == job.entries
           a(x) == Key(es[x])[1]
           b(x) == Key(es[x])[2]
           c(x) == Key(es[x])[3]
           R(x, y) == \/ a(x) > a(y)
                      \/ a(x) = a(y) /\ b(x) > b(y)
                      \/ a(x) = a(y) /\ b(x) = b(y) /\ c(x) > c(y)
                      \/ a(x) = a(y) /\ b(x) = b(y) /\ c(x) = c(y) /\ x < y
<1>1. Passing \in SUBSET Cve /\ \A x \in Passing : es[x] # None
  BY DEF Passing
<1>2. IsFiniteSet(Passing) /\ \A x \in Passing : x \in Nat
  BY <1>1, FS_Subset, PortalInputs
<1>3. \A x, y \in Passing : <<x, y>> \in PassingPairs <=> Precedes(es, x, y)
  BY <1>1 DEF PassingPairs
<1>4. \A x, y \in Passing : Precedes(es, x, y) <=> R(x, y)
  BY <1>1, KeyOrder
<1>5. \A x \in Passing : a(x) \in Nat /\ b(x) \in Nat /\ c(x) \in Nat
  BY <1>1, KeyOrder
<1> HIDE DEF a, b, c, es
<1>6. \A x \in Passing : ~R(x, x)
  BY <1>2, <1>5
<1>7. \A x, y, z \in Passing : R(x, y) /\ R(y, z) => R(x, z)
  BY <1>2, <1>5
<1>8. \A x, y \in Passing : x # y => R(x, y) \/ R(y, x)
  BY <1>2, <1>5
<1> HIDE DEF R
<1>9. StrictOrder(Passing, PassingPairs)
  BY <1>3, <1>4, <1>6, <1>7, <1>8 DEF StrictOrder
<1>10. \A x \in Passing : Below(Passing, PassingPairs, x) = Before(x)
  BY <1>3 DEF Below, Before, es
<1> QED
  BY <1>2, <1>9, <1>10

\* An exploited CVE is critical, whatever its scores.
LEMMA ExploitedIsCritical ==
    ASSUME NEW e, e.kev
    PROVE  SeverityOf(e) = 4
BY DEF SeverityOf

\* However the reports are ordered, a finished listing shows no CVE better than a
\* report it was merged from says, and an exploited one passes every filter on
\* severity or exploitation and is shown before any that is not.
LEMMA WorstIsKept == ReadInv => WorstKept
<1> SUFFICES ASSUME ReadInv, ListingDone, NEW p \in job.listed, NEW x \in Cve,
                    Finding[p[2]][x] # None
             PROVE  /\ job.entries[x] # None
                    /\ Finding[p[2]][x].cvss # None =>
                          AtLeast(job.entries[x].cvss, Finding[p[2]][x].cvss)
                    /\ Finding[p[2]][x].kev =>
                          /\ job.entries[x].kev /\ SeverityOf(job.entries[x]) = 4
                          /\ job.query.min_cvss = None /\ job.query.severities \in {{}, {4}} =>
                                \/ x \in Shown
                                \/ /\ Cardinality(Shown) = CvePage
                                   /\ \A y \in Shown : job.entries[y].kev
  BY DEF WorstKept
<1>1. TypeOK /\ job.kind = "cves" /\ job \in CveJob
  BY JobOf DEF ReadInv, PortalInv, ListingDone
<1>2. job.entries \in [Cve -> Vulnerability \cup {None}]
  BY <1>1 DEF CveJob
<1>3. /\ job.entries[x] # None
      /\ Finding[p[2]][x].cvss # None => AtLeast(job.entries[x].cvss, Finding[p[2]][x].cvss)
      /\ Finding[p[2]][x].kev => job.entries[x].kev
  BY <1>1 DEF ReadInv, PortalInv, EntriesWorst
<1>4. ASSUME job.entries[x].kev, job.query.min_cvss = None, job.query.severities \in {{}, {4}},
             x \notin Shown
      PROVE  Cardinality(Shown) = CvePage /\ \A y \in Shown : job.entries[y].kev
  <2>1. SeverityOf(job.entries[x]) = 4
    BY <1>4, ExploitedIsCritical
  <2>2. x \in Passing
    BY <1>3, <1>4, <2>1 DEF Passing, Matches
  <2>3. /\ IsFiniteSet(Passing) /\ StrictOrder(Passing, PassingPairs)
        /\ \A y \in Passing : Below(Passing, PassingPairs, y) = Before(y)
    BY <1>2, PassingIsStrict
  <2>4. \A y \in Passing : Place(Passing, PassingPairs, y) = Cardinality(Before(y))
    BY <2>3 DEF Place
  <2>5. Foremost(Passing, PassingPairs, CvePage) = Shown
    BY <2>4 DEF Foremost, Shown
  <2>6. CvePage \in Nat /\ CvePage <= Place(Passing, PassingPairs, x)
    <3>1. Place(Passing, PassingPairs, x) \in Nat
      BY <2>2, <2>3, PlaceRises
    <3>2. ~(Cardinality(Before(x)) < CvePage)
      BY <1>4, <2>2 DEF Shown
    <3> QED
      BY <2>2, <2>4, <3>1, <3>2, PortalInputs
  <2>7. /\ Cardinality(Shown) = CvePage
        /\ \A y \in Shown : <<y, x>> \in PassingPairs
    BY <2>2, <2>3, <2>5, <2>6, ForemostFull
  <2>8. ASSUME NEW y \in Shown PROVE job.entries[y].kev
    <3>1. y \in Cve /\ job.entries[y] # None
      BY DEF Shown, Passing
    <3>2. Precedes(job.entries, y, x)
      BY <2>7 DEF PassingPairs
    <3>3. Key(job.entries[y])[1] >= Key(job.entries[x])[1]
      BY <1>2, <1>3, <3>1, <3>2, KeyOrder
    <3>4. Key(job.entries[x])[1] = 1
      BY <1>2, <1>3, <1>4, KeyOrder
    <3>5. /\ Key(job.entries[y])[1] \in Nat /\ Key(job.entries[y])[1] <= 1
          /\ job.entries[y].kev <=> Key(job.entries[y])[1] = 1
      BY <1>2, <3>1, KeyOrder
    <3> QED
      BY <3>3, <3>4, <3>5
  <2> QED
    BY <2>7, <2>8
<1> QED
  BY <1>3, <1>4, ExploitedIsCritical

\* A finished listing shows no CVE better than a report it was merged from says.
THEOREM WorstIsAlwaysKept == Spec => []WorstKept
<1>1. Init => ReadInv
  BY InitInv
<1>2. ReadInv /\ [Next]_vars => ReadInv'
  BY NextStep
<1>3. ReadInv => WorstKept
  BY WorstIsKept
<1> QED
  BY <1>1, <1>2, <1>3, PTL DEF Spec
=============================================================================
