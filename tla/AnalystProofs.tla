---------------------------- MODULE AnalystProofs ----------------------------
(***************************************************************************)
(* Theorems about AnalystDesk, by itself and under the pages of            *)
(* CorpusPages, for any analysts, numbers, runs, events and requests; and  *)
(* about the pages, for any corpus, queries, writers and limit. What ORDER *)
(* BY with LIMIT returns is counted, not sorted: the rows of a page are    *)
(* those with few enough rows ahead of them.                               *)
(***************************************************************************)
EXTENDS CorpusPages, FiniteSetTheorems, NaturalsInduction, WellFoundedInduction, TLAPS

\* A non-empty set of naturals has a least element.
LEMMA LeastNatural ==
    ASSUME NEW T \in SUBSET Nat, T # {}
    PROVE  \E x \in T : \A y \in T : x <= y
<1> DEFINE R == OpToRel(<, Nat)
<1>1. \A x, y \in Nat : y < x => <<y, x>> \in R
  BY DEF OpToRel
<1>2. IsWellFoundedOn(R, Nat)
  BY NatLessThanWellFounded, Zenon
<1> HIDE DEF R
<1>3. PICK x \in T : \A y \in T : ~(<<y, x>> \in R)
  BY <1>2, WFMin
<1>4. \A y \in T : ~(y < x)
  BY <1>1, <1>3
<1>5. \A y \in T : x <= y
  BY <1>4
<1> QED
  BY <1>5

\* Numbers are naturals, and the one after any that counts is a number.
LEMMA NumbersAre == Number \subseteq Nat /\ None \notin Number /\ \A n \in 0..MaxSeq : n + 1 \in Number
<1>1. MaxSeq \in Nat /\ None \notin Nat
  BY DeskAssumption
<1> QED
  BY <1>1 DEF Number

\* The number that follows is one of the numbers and above all that count.
LEMMA FollowingIs ==
    ASSUME NEW numbers \in SUBSET Number
    PROVE  /\ Following(numbers) \in Number
           /\ Following(numbers) <= MaxSeq => Following(numbers) \notin numbers
<1> DEFINE S == {0} \cup {n \in numbers : n <= MaxSeq}
           T == {MaxSeq - x : x \in S}
<1>0. MaxSeq \in Nat /\ MaxSeq # 0
  BY DeskAssumption
<1>1. MaxSeq \in Nat /\ S \subseteq 0..MaxSeq /\ 0 \in S
  <2>1. \A n \in numbers : n \in Nat
    BY NumbersAre
  <2> QED
    BY <1>0, <2>1
<1> HIDE DEF S
<1>2. T \subseteq Nat /\ T # {}
  BY <1>1
<1>3. PICK m \in T : \A y \in T : m <= y
  BY <1>2, LeastNatural
<1>4. PICK x \in S : m = MaxSeq - x
  BY <1>3
<1>5. \A y \in S : x >= y
  <2> SUFFICES ASSUME NEW y \in S PROVE x >= y
    OBVIOUS
  <2>1. m <= MaxSeq - y
    BY <1>3
  <2> QED
    BY <1>1, <1>4, <2>1
<1>6. Max(S) \in S /\ \A y \in S : Max(S) >= y
  BY <1>4, <1>5 DEF Max
<1>7. Following(numbers) = Max(S) + 1
  BY DEF Following, S
<1>8. Following(numbers) \in Number
  BY <1>1, <1>6, <1>7, NumbersAre
<1>9. ASSUME Following(numbers) <= MaxSeq, Following(numbers) \in numbers PROVE FALSE
  <2>1. Max(S) + 1 \in S
    BY <1>7, <1>9 DEF S
  <2> QED
    BY <1>1, <1>6, <2>1
<1> QED
  BY <1>8, <1>9

-----------------------------------------------------------------------------
(* Reports and their numbers.                                              *)

\* A number that is given out is kept, and shared only at a known risk.
LEMMA GiveStep ==
    ASSUME DeskInv, NEW a \in Analyst, NEW n \in Number, NEW sure \in BOOLEAN, Give(a, n, sure),
           sure /\ n <= MaxSeq => n \notin Taken
    PROVE  DeskInv'
<1>1. /\ NumbersKept /\ SharedOnlyIfExposed /\ CountsHold /\ LedgerConverges /\ SummaryAgrees
      /\ MergedOnlyIfExposed
  BY DEF DeskInv
<1>2. /\ held[a] = None /\ held' = [held EXCEPT ![a] = n]
      /\ exposed' = IF sure /\ n <= MaxSeq /\ Waiting(a) = {} THEN exposed ELSE exposed \cup {a}
      /\ UNCHANGED <<report, ledger, counted, summary, moved>>
  BY DEF Give
<1>3. exposed \subseteq exposed' /\ held'[a] = n /\ \A b \in Analyst \ {a} : held'[b] = held[b]
  BY <1>1, <1>2 DEF NumbersKept
<1>4. Taken' = Taken
  BY <1>2 DEF Taken
<1>5. MergedOnlyIfExposed'
  BY <1>1, <1>2, <1>3, <1>4 DEF MergedOnlyIfExposed
<1>6. LedgerConverges' /\ SummaryAgrees' /\ CountsHold'
  BY <1>1, <1>2 DEF LedgerConverges, SummaryAgrees, CountsHold, Rows
<1>7. NumbersKept'
  <2>1. held' \in [Analyst -> Number \cup {None}] /\ DOMAIN report' = Number
    BY <1>1, <1>2 DEF NumbersKept
  <2>2. ASSUME NEW m \in Taken', NEW b \in Analyst, held[b] = m PROVE held'[b] = m
    <3>1. m \in Number /\ report[m] # None
      BY <1>4, <2>2 DEF Taken
    <3> QED
      BY <1>2, <1>3, <2>2, <3>1, NumbersAre
  <2>3. \A m \in Taken :
        /\ report[m].id \in Analyst /\ held[report[m].id] = m
        /\ \A i \in DOMAIN report[m].versions :
             report[m].versions[i] \in Analyst /\ held[report[m].versions[i]] = m
        /\ report[m].versions \in Seq(Analyst)
    BY <1>1 DEF NumbersKept
  <2> QED
    BY <1>2, <1>4, <2>1, <2>2, <2>3 DEF NumbersKept
<1>8. SharedOnlyIfExposed'
  <2>1. ASSUME NEW b \in Analyst \ {a}, held[b] = n, held[b] # None PROVE {a, b} \cap exposed' # {}
    <3> SUFFICES ASSUME a \notin exposed' PROVE FALSE
      OBVIOUS
    <3>1. sure /\ n <= MaxSeq /\ Waiting(a) = {}
      BY <1>2
    <3>2. b \notin Waiting(a)
      BY <3>1
    <3>3. PICK m \in Taken : \E i \in DOMAIN report[m].versions : report[m].versions[i] = b
      BY <2>1, <3>2 DEF Waiting
    <3>4. held[b] = m
      BY <1>1, <3>3 DEF NumbersKept
    <3> QED
      BY <2>1, <3>1, <3>3, <3>4
  <2> SUFFICES ASSUME NEW b \in Analyst, NEW c \in Analyst, b # c, held'[b] = held'[c], held'[b] # None
               PROVE  {b, c} \cap exposed' # {}
    BY DEF SharedOnlyIfExposed
  <2>2. CASE b = a
    <3>1. c \in Analyst \ {a} /\ held[c] = n /\ held[c] # None
      BY <1>3, <2>2
    <3> QED
      BY <2>1, <2>2, <3>1
  <2>3. CASE c = a
    <3>1. b \in Analyst \ {a} /\ held[b] = n /\ held[b] # None
      BY <1>3, <2>3
    <3> QED
      BY <2>1, <2>3, <3>1
  <2>4. CASE b # a /\ c # a
    <3>1. {b, c} \cap exposed # {}
      BY <1>1, <1>3, <2>4 DEF SharedOnlyIfExposed
    <3> QED
      BY <1>3, <3>1
  <2> QED
    BY <2>2, <2>3, <2>4
<1> QED
  BY <1>5, <1>6, <1>7, <1>8 DEF DeskInv

\* A report goes under its analyst's number, whoever has a report there.
LEMMA SubmitPlace ==
    ASSUME NumbersKept, NEW a \in Analyst, held[a] # None
    PROVE  Place(a) = held[a] /\ held[a] \in Number
<1>1. \A n \in Own(a) : n = held[a]
  BY DEF Own, NumbersKept
<1>2. Place(a) = held[a]
  <2>1. CASE Own(a) = {}
    BY <2>1 DEF Place
  <2>2. CASE Own(a) # {}
    BY <1>1, <2>2 DEF Place
  <2> QED
    BY <2>1, <2>2
<1> QED
  BY <1>2 DEF NumbersKept

\* A submission keeps the numbers and merges reports only where one was exposed.
LEMMA SubmitStep ==
    ASSUME DeskInv, NEW a \in Analyst, NEW publish \in BOOLEAN, Submit(a, publish) PROVE DeskInv'
<1>1. /\ NumbersKept /\ SharedOnlyIfExposed /\ CountsHold /\ LedgerConverges /\ SummaryAgrees
  BY DEF DeskInv
<1> DEFINE n == held[a]
           old == IF report[n] = None THEN [id |-> a, state |-> "draft", versions |-> <<>>] ELSE report[n]
           new == [id |-> old.id, state |-> IF publish THEN "published" ELSE old.state,
                   versions |-> Append(old.versions, a)]
<1>2. n # None /\ n \in Number /\ Place(a) = n
  BY <1>1, SubmitPlace DEF Submit
<1>3. /\ report' = [report EXCEPT ![n] = new]
      /\ UNCHANGED <<held, ledger, counted, summary, exposed, moved>>
  BY <1>2 DEF Submit
<1>4. old.id \in Analyst /\ held[old.id] = n /\ old.versions \in Seq(Analyst)
      /\ \A i \in DOMAIN old.versions : held[old.versions[i]] = n
  <2>1. CASE report[n] = None
    <3>1. old = [id |-> a, state |-> "draft", versions |-> <<>>]
      BY <2>1
    <3> HIDE DEF old
    <3> QED
      BY <3>1
  <2>2. CASE report[n] # None
    <3>1. n \in Taken /\ old = report[n]
      BY <1>2, <2>2 DEF Taken
    <3> HIDE DEF old
    <3> QED
      BY <1>1, <3>1 DEF NumbersKept
  <2> QED
    BY <2>1, <2>2
<1> HIDE DEF old
<1>5. /\ new.id \in Analyst /\ held[new.id] = n /\ new.versions \in Seq(Analyst)
      /\ \A i \in DOMAIN new.versions : new.versions[i] \in Analyst /\ held[new.versions[i]] = n
  <2>1. new.id = old.id /\ new.versions = Append(old.versions, a)
    OBVIOUS
  <2>2. \A i \in DOMAIN Append(old.versions, a) :
          \/ i \in DOMAIN old.versions /\ Append(old.versions, a)[i] = old.versions[i]
          \/ Append(old.versions, a)[i] = a
    BY <1>4
  <2>3. Append(old.versions, a) \in Seq(Analyst)
    BY <1>4
  <2> HIDE DEF new
  <2>4. \A i \in DOMAIN old.versions : old.versions[i] \in Analyst
    BY <1>4
  <2> QED
    BY <1>4, <2>1, <2>2, <2>3, <2>4
<1> HIDE DEF new, n
<1>6. DOMAIN report' = Number /\ report'[n] = new /\ \A m \in Number \ {n} : report'[m] = report[m]
  BY <1>1, <1>2, <1>3 DEF NumbersKept
<1>7. \A m \in Taken' : m = n \/ (m \in Taken /\ m # n)
  BY <1>6 DEF Taken
<1>8. NumbersKept'
  <2>1. ASSUME NEW m \in Taken'
        PROVE  /\ report'[m].id \in Analyst /\ held[report'[m].id] = m
               /\ \A i \in DOMAIN report'[m].versions :
                    report'[m].versions[i] \in Analyst /\ held[report'[m].versions[i]] = m
               /\ report'[m].versions \in Seq(Analyst)
    <3>1. CASE m = n
      BY <1>5, <1>6, <3>1
    <3>2. CASE m # n
      <4>1. m \in Taken /\ report'[m] = report[m]
        BY <1>6, <1>7, <2>1, <3>2 DEF Taken
      <4> QED
        BY <1>1, <4>1 DEF NumbersKept
    <3> QED
      BY <3>1, <3>2
  <2> QED
    BY <1>1, <1>3, <1>6, <2>1 DEF NumbersKept
<1>9. SharedOnlyIfExposed' /\ LedgerConverges' /\ SummaryAgrees' /\ CountsHold'
  BY <1>1, <1>3 DEF SharedOnlyIfExposed, LedgerConverges, SummaryAgrees, CountsHold, Rows
<1>10. MergedOnlyIfExposed'
  <2> SUFFICES ASSUME NEW m \in Taken', NEW i \in DOMAIN report'[m].versions,
                      report'[m].versions[i] # report'[m].id
               PROVE  {report'[m].versions[i], report'[m].id} \cap exposed' # {}
    BY DEF MergedOnlyIfExposed
  <2>1. /\ report'[m].id \in Analyst /\ held'[report'[m].id] = m
        /\ report'[m].versions[i] \in Analyst /\ held'[report'[m].versions[i]] = m
    BY <1>8 DEF NumbersKept
  <2>2. m # None
    BY NumbersAre DEF Taken
  <2> QED
    BY <1>9, <2>1, <2>2 DEF SharedOnlyIfExposed
<1> QED
  BY <1>8, <1>9, <1>10 DEF DeskInv

-----------------------------------------------------------------------------
(* The ledger.                                                             *)

\* Steps that leave reports and numbers alone.
LEMMA ReportsStay ==
    ASSUME DeskInv, UNCHANGED <<report, held, exposed>>
    PROVE  MergedOnlyIfExposed' /\ NumbersKept' /\ SharedOnlyIfExposed'
  BY DEF DeskInv, MergedOnlyIfExposed, NumbersKept, SharedOnlyIfExposed, Taken

\* A candidate record keeps the id its entry has, and is noted while a count is open.
LEMMA UpsertStep ==
    ASSUME DeskInv, NEW r \in Request, upsert_candidate(r) PROVE DeskInv'
<1> DEFINE k == <<r.run, r.event>>
           id == IF ledger[k] = None THEN r.id ELSE ledger[k].id
           entry == [id |-> id, lifecycle |-> r.lifecycle, public |-> r.public, retry |-> r.retry]
<1>1. /\ r.id = k /\ ledger' = [ledger EXCEPT ![k] = entry] /\ moved' = (moved \/ counted # None)
      /\ UNCHANGED <<report, held, counted, summary, exposed>>
  BY DEF upsert_candidate, Genuine
<1>2. LedgerConverges /\ SummaryAgrees /\ CountsHold
  BY DEF DeskInv
<1>3. k \in DOMAIN ledger => entry.id = k
  BY <1>1, <1>2 DEF LedgerConverges
<1> HIDE DEF entry, id, k
<1>4. DOMAIN ledger' = DOMAIN ledger
  BY <1>1
<1>5. \A x \in DOMAIN ledger : ledger'[x] = IF x = k THEN entry ELSE ledger[x]
  BY <1>1
<1>6. LedgerConverges'
  BY <1>2, <1>3, <1>4, <1>5 DEF LedgerConverges
<1>7. moved \in BOOLEAN
  BY <1>2 DEF CountsHold
<1>8. moved' \in BOOLEAN /\ (counted' # None => moved')
  BY <1>1, <1>7
<1>9. DOMAIN ledger' = Run \X Event
  BY <1>2, <1>4 DEF CountsHold
<1>10. CountsHold'
  BY <1>8, <1>9 DEF CountsHold
<1>11. SummaryAgrees'
  BY <1>1, <1>2 DEF SummaryAgrees
<1> QED
  BY <1>1, <1>6, <1>10, <1>11, ReportsStay DEF DeskInv

\* What the first statement of the summary counts is what the ledger holds.
LEMMA CountStep ==
    ASSUME DeskInv, NEW run \in Known, CountCandidates(run) PROVE DeskInv'
<1>1. /\ counted' = [run |-> run, published |-> Cardinality(Rows(run, "published")),
                     total |-> Cardinality({k \in {run} \X Event : ledger[k] # None})]
      /\ moved' = FALSE /\ UNCHANGED <<report, held, ledger, summary, exposed>>
  BY DEF CountCandidates
<1>2. LedgerConverges /\ SummaryAgrees /\ CountsHold
  BY DEF DeskInv
<1>3. /\ counted'.run = run /\ counted'.published = Cardinality(Rows(run, "published"))
      /\ counted'.total = Cardinality({k \in {run} \X Event : ledger[k] # None})
  BY <1>1
<1>4. Rows(run, "published")' = Rows(run, "published")
  BY <1>1 DEF Rows
<1>5. /\ counted'.published = Cardinality(Rows(counted'.run, "published"))
      /\ counted'.total = Cardinality({k \in {counted'.run} \X Event : ledger'[k] # None})
  BY <1>1, <1>3
<1>6. CountsHold'
  BY <1>1, <1>2, <1>5 DEF CountsHold, Rows
<1>7. LedgerConverges' /\ SummaryAgrees'
  BY <1>1, <1>2 DEF LedgerConverges, SummaryAgrees
<1> QED
  BY <1>1, <1>6, <1>7, ReportsStay DEF DeskInv

\* The summary agrees with itself when no candidate moved between its statements.
LEMMA SummaryStep == ASSUME DeskInv, candidate_summary PROVE DeskInv'
<1>1. /\ counted # None /\ counted' = None /\ moved' = FALSE
      /\ summary' = [total |-> counted.total, published |-> counted.published,
                     ids |-> PublishedIds(counted.run), torn |-> moved]
      /\ UNCHANGED <<report, held, ledger, exposed>>
  BY DEF candidate_summary
<1>2. LedgerConverges /\ CountsHold
  BY DEF DeskInv
<1>3. LedgerConverges' /\ CountsHold'
  BY <1>1, <1>2 DEF LedgerConverges, CountsHold
<1>4. SummaryAgrees'
  <2> DEFINE run == counted.run
             all == {k \in {run} \X Event : ledger[k] # None}
             pub == Rows(run, "published")
             ids == PublishedIds(run)
  <2> SUFFICES ASSUME ~summary'.torn
               PROVE  Cardinality(summary'.ids) <= summary'.published /\ summary'.published <= summary'.total
    BY DEF SummaryAgrees
  <2>1. /\ summary'.torn = moved /\ summary'.ids = ids /\ summary'.published = counted.published
        /\ summary'.total = counted.total
    BY <1>1
  <2>2. ~moved
    BY <2>1
  <2>3. counted.published = Cardinality(pub) /\ counted.total = Cardinality(all)
    BY <1>1, <1>2, <2>2 DEF CountsHold
  <2>4. IsFiniteSet({run} \X Event)
    BY DeskAssumption, FS_Singleton, FS_Product
  <2>5. ids \subseteq pub /\ pub \subseteq all /\ all \subseteq {run} \X Event
    BY DEF PublishedIds, Rows
  <2> HIDE DEF ids, pub, all, run
  <2>6. IsFiniteSet(all) /\ IsFiniteSet(pub)
    BY <2>4, <2>5, FS_Subset
  <2>7. /\ Cardinality(ids) \in Nat /\ Cardinality(pub) \in Nat /\ Cardinality(all) \in Nat
        /\ Cardinality(ids) <= Cardinality(pub) /\ Cardinality(pub) <= Cardinality(all)
    BY <2>5, <2>6, FS_Subset, FS_CardinalityType
  <2> QED
    BY <2>1, <2>3, <2>7
<1> QED
  BY <1>1, <1>3, <1>4, ReportsStay DEF DeskInv

-----------------------------------------------------------------------------
(* The theorems.                                                           *)

\* The desk is in order before anything is given out.
LEMMA DeskStart == DeskInit => DeskInv
<1> SUFFICES ASSUME DeskInit PROVE DeskInv
  OBVIOUS
<1>1. Taken = {} /\ NumbersKept
  BY DEF DeskInit, Taken, NumbersKept
<1>2. MergedOnlyIfExposed /\ SharedOnlyIfExposed
  BY <1>1 DEF DeskInit, MergedOnlyIfExposed, SharedOnlyIfExposed
<1>3. LedgerConverges /\ SummaryAgrees /\ CountsHold
  BY DEF DeskInit, LedgerConverges, SummaryAgrees, CountsHold
<1> QED
  BY <1>1, <1>2, <1>3 DEF DeskInv

\* Every step of analysts and clients keeps the desk in order.
LEMMA DeskStep == DeskInv /\ [ReportsNext \/ LedgerNext]_desk => DeskInv'
<1> SUFFICES ASSUME DeskInv, [ReportsNext \/ LedgerNext]_desk PROVE DeskInv'
  OBVIOUS
<1>t. Taken \subseteq Number /\ Public \subseteq Number /\ {} \subseteq Number
  BY DEF Taken, Public
<1>1. ASSUME NEW a \in Analyst, NextFromDatabase(a) PROVE DeskInv'
  <2>1. Give(a, Following(Taken), TRUE)
    BY <1>1 DEF NextFromDatabase, Stored
  <2>2. Following(Taken) \in Number /\ (Following(Taken) <= MaxSeq => Following(Taken) \notin Taken)
    BY <1>t, FollowingIs
  <2> QED
    BY <2>1, <2>2, GiveStep
<1>2. ASSUME NEW a \in Analyst, NextFromPortal(a) PROVE DeskInv'
  <2>1. CASE Give(a, Following(Public), Taken = {})
    <3>1. Following(Public) \in Number /\ (Taken = {}) \in BOOLEAN
      BY <1>t, FollowingIs
    <3>2. (Taken = {}) => Following(Public) \notin Taken
      OBVIOUS
    <3> QED
      BY <2>1, <3>1, <3>2, GiveStep
  <2>2. CASE Give(a, Following({}), FALSE)
    <3>1. Following({}) \in Number
      BY <1>t, FollowingIs
    <3> QED
      BY <2>2, <3>1, GiveStep
  <2> QED
    BY <1>2, <2>1, <2>2 DEF NextFromPortal
<1>3. CASE LedgerNext
  BY <1>3, UpsertStep, CountStep, SummaryStep DEF LedgerNext
<1>4. CASE UNCHANGED desk
  <2>1. UNCHANGED <<report, held, ledger, counted, summary, exposed, moved>>
    BY <1>4 DEF desk
  <2>2. LedgerConverges' /\ SummaryAgrees' /\ CountsHold'
    BY <2>1 DEF DeskInv, LedgerConverges, SummaryAgrees, CountsHold, Rows
  <2> QED
    BY <2>1, <2>2, ReportsStay DEF DeskInv
<1> QED
  BY <1>1, <1>2, <1>3, <1>4, SubmitStep DEF ReportsNext

\* Reports, numbers and candidates are never mixed up by analysts and clients
\* that work at the same time: a report takes in another's version only where a
\* number was given out blindly, a candidate keeps its derived id, and the
\* terminal accounting agrees with itself unless a candidate moved meanwhile.
THEOREM DeskInvariant == DeskSpec => []DeskInv
  BY DeskStart, DeskStep, PTL DEF DeskSpec

\* A client that walks the corpus, and the writers of the corpus, change nothing
\* of what the desk does.
THEOREM PagesImplementDesk == Spec => DeskSpec
<1>1. Init => DeskInit
  BY DEF Init
<1>2. [Next]_vars => [ReportsNext \/ LedgerNext]_desk
  BY DEF Next, vars, Client, StartWalk, ReadRows, ReturnPage, BeginWrite, CommitWrite
<1> QED
  BY <1>1, <1>2, PTL DEF Spec, DeskSpec

\* So the desk is in order also while its reports decide what the pages show.
THEOREM DeskInvariantUnderPages == Spec => []DeskInv
  BY DeskInvariant, PagesImplementDesk, PTL

-----------------------------------------------------------------------------
(* ORDER BY and LIMIT.                                                     *)

\* The order of the pages is strict and total, whatever times tie.
LEMMA OrderIsStrict ==
    ASSUME NEW at \in [Entry -> Stamp], NEW e \in Entry, NEW f \in Entry, NEW g \in Entry
    PROVE  /\ ~InOrder(at, e, e)
           /\ e = f \/ InOrder(at, e, f) \/ InOrder(at, f, e)
           /\ InOrder(at, e, f) => ~InOrder(at, f, e)
           /\ InOrder(at, e, f) /\ InOrder(at, f, g) => InOrder(at, e, g)
<1>1. at[e] \in Int /\ at[f] \in Int /\ at[g] \in Int /\ e \in Int /\ f \in Int /\ g \in Int
  BY PagesAssumption DEF Stamp
<1> QED
  BY <1>1 DEF InOrder

\* A row has fewer rows ahead of it than the rows it is ahead of.
LEMMA AheadRises ==
    ASSUME NEW at \in [Entry -> Stamp], NEW S \in SUBSET Entry, NEW e \in S
    PROVE  /\ Cardinality(Ahead(at, S, e)) \in Nat /\ IsFiniteSet(Ahead(at, S, e))
           /\ \A f \in S : InOrder(at, f, e) =>
                Cardinality(Ahead(at, S, f)) < Cardinality(Ahead(at, S, e))
<1>1. \A f \in S : IsFiniteSet(Ahead(at, S, f)) /\ Cardinality(Ahead(at, S, f)) \in Nat
  <2> TAKE f \in S
  <2>1. Ahead(at, S, f) \in SUBSET Entry
    BY DEF Ahead
  <2>2. IsFiniteSet(Ahead(at, S, f))
    BY <2>1, FS_Subset, PagesAssumption
  <2> QED
    BY <2>2, FS_CardinalityType
<1>2. ASSUME NEW f \in S, InOrder(at, f, e)
      PROVE  Cardinality(Ahead(at, S, f)) < Cardinality(Ahead(at, S, e))
  <2>1. Ahead(at, S, f) \in SUBSET Ahead(at, S, e)
    BY <1>2, OrderIsStrict DEF Ahead
  <2>2. f \in Ahead(at, S, e) /\ f \notin Ahead(at, S, f)
    BY <1>2, OrderIsStrict DEF Ahead
  <2>3. /\ Cardinality(Ahead(at, S, f)) <= Cardinality(Ahead(at, S, e))
        /\ Cardinality(Ahead(at, S, e)) = Cardinality(Ahead(at, S, f))
             => Ahead(at, S, e) = Ahead(at, S, f)
    BY <1>1, <2>1, FS_Subset
  <2> QED
    BY <1>1, <2>2, <2>3
<1> QED
  BY <1>1, <1>2

\* LIMIT n gives at most n rows.
LEMMA ForemostBounded ==
    ASSUME NEW at \in [Entry -> Stamp], NEW S \in SUBSET Entry, NEW n \in Nat
    PROVE  /\ IsFiniteSet(Foremost(n, at, S)) /\ Cardinality(Foremost(n, at, S)) \in Nat
           /\ Cardinality(Foremost(n, at, S)) <= n
<1> DEFINE F == Foremost(n, at, S)
           rank == [e \in F |-> Cardinality(Ahead(at, S, e))]
<1>1. F \subseteq S /\ \A e \in F : Cardinality(Ahead(at, S, e)) < n
  BY DEF Foremost
<1>2. \A e \in F : Cardinality(Ahead(at, S, e)) \in 0..n - 1
  BY <1>1, AheadRises
<1>3. \A e, f \in F : e # f => Cardinality(Ahead(at, S, e)) # Cardinality(Ahead(at, S, f))
  <2> SUFFICES ASSUME NEW e \in F, NEW f \in F, e # f
               PROVE  Cardinality(Ahead(at, S, e)) # Cardinality(Ahead(at, S, f))
    OBVIOUS
  <2>1. InOrder(at, e, f) \/ InOrder(at, f, e)
    BY <1>1, OrderIsStrict
  <2>2. Cardinality(Ahead(at, S, e)) \in Nat /\ Cardinality(Ahead(at, S, f)) \in Nat
    BY <1>1, AheadRises
  <2>3. InOrder(at, e, f) => Cardinality(Ahead(at, S, e)) < Cardinality(Ahead(at, S, f))
    BY <1>1, AheadRises
  <2>4. InOrder(at, f, e) => Cardinality(Ahead(at, S, f)) < Cardinality(Ahead(at, S, e))
    BY <1>1, AheadRises
  <2> QED
    BY <2>1, <2>2, <2>3, <2>4
<1>4. rank \in Injection(F, 0..n - 1)
  BY <1>2, <1>3 DEF Injection, IsInjective
<1>5. IsFiniteSet(0..n - 1) /\ Cardinality(0..n - 1) = n
  BY FS_Interval
<1> HIDE DEF rank, F
<1>6. IsFiniteSet(F) /\ Cardinality(F) <= n
  BY <1>4, <1>5, FS_Injection
<1> QED
  BY <1>6, FS_CardinalityType DEF F

\* A row that LIMIT n leaves out has n rows before it, all those of the page.
LEMMA ForemostFull ==
    ASSUME NEW at \in [Entry -> Stamp], NEW S \in SUBSET Entry, NEW n \in Nat,
           NEW e \in S, e \notin Foremost(n, at, S)
    PROVE  /\ n <= Cardinality(Foremost(n, at, S))
           /\ \A f \in Foremost(n, at, S) : InOrder(at, f, e)
<1> DEFINE F == Foremost(n, at, S)
           Rank(x) == Cardinality(Ahead(at, S, x))
           T == {Rank(x) : x \in S \ F}
<1>1. \A x \in S : Rank(x) \in Nat /\ (x \in F <=> Rank(x) < n)
  BY AheadRises DEF Foremost
<1>2. T \in SUBSET Nat /\ T # {}
  BY <1>1
<1>3. PICK m \in T : \A y \in T : m <= y
  BY <1>2, LeastNatural
<1>4. PICK x \in S \ F : Rank(x) = m
  BY <1>3
<1>5. Ahead(at, S, x) \in SUBSET F
  <2> SUFFICES ASSUME NEW g \in Ahead(at, S, x), g \notin F PROVE FALSE
    OBVIOUS
  <2>1. g \in S /\ InOrder(at, g, x)
    BY DEF Ahead
  <2>2. Rank(g) < Rank(x)
    BY <2>1, AheadRises
  <2>3. Rank(g) \in T
    BY <2>1
  <2> QED
    BY <1>1, <1>3, <1>4, <2>1, <2>2, <2>3
<1>6. IsFiniteSet(F) /\ Cardinality(F) \in Nat
  BY ForemostBounded
<1>7. Rank(x) <= Cardinality(F)
  BY <1>5, <1>6, FS_Subset
<1>8. n <= Rank(x)
  BY <1>1, <1>4
<1>9. \A f \in F : InOrder(at, f, e)
  <2> TAKE f \in F
  <2>1. f \in S /\ Rank(f) < n /\ n <= Rank(e) /\ Rank(f) \in Nat /\ Rank(e) \in Nat
    BY <1>1 DEF Foremost
  <2>2. InOrder(at, e, f) => Rank(e) < Rank(f)
    BY <2>1, AheadRises
  <2>3. e # f
    BY <2>1
  <2> QED
    BY <2>1, <2>2, <2>3, OrderIsStrict
<1> QED
  BY <1>1, <1>4, <1>6, <1>7, <1>8, <1>9

\* A page that is not empty has a last row.
LEMMA LastExists ==
    ASSUME NEW at \in [Entry -> Stamp], NEW S \in SUBSET Entry, S # {}
    PROVE  \E m \in S : \A f \in S : ~InOrder(at, m, f)
<1> DEFINE Rank(x) == Cardinality(Ahead(at, S, x))
           T == {Cardinality(S) - Rank(x) : x \in S}
<1>1. IsFiniteSet(S) /\ Cardinality(S) \in Nat
  BY FS_Subset, FS_CardinalityType, PagesAssumption
<1>2. \A x \in S : Rank(x) \in Nat /\ Rank(x) <= Cardinality(S)
  <2> TAKE x \in S
  <2>1. Ahead(at, S, x) \in SUBSET S
    BY DEF Ahead
  <2> QED
    BY <1>1, <2>1, FS_Subset, AheadRises
<1>3. T \in SUBSET Nat /\ T # {}
  BY <1>1, <1>2
<1>4. PICK t \in T : \A y \in T : t <= y
  BY <1>3, LeastNatural
<1>5. PICK m \in S : t = Cardinality(S) - Rank(m)
  BY <1>4
<1>6. ASSUME NEW f \in S, InOrder(at, m, f) PROVE FALSE
  <2>1. Rank(m) < Rank(f)
    BY <1>6, AheadRises
  <2>2. t <= Cardinality(S) - Rank(f)
    BY <1>4
  <2> QED
    BY <1>1, <1>2, <1>5, <2>1, <2>2
<1> QED
  BY <1>6

-----------------------------------------------------------------------------
(* The walk.                                                               *)

\* What a query finds are entries of the corpus.
LEMMA MatchingIsEntries ==
    ASSUME NEW q \in Query, NEW d
    PROVE  Matching(q, d) \subseteq Entry
<1>1. \A kind : Common(kind, q, d) \subseteq Entry
  BY DEF Common
<1>2. ASSUME NEW kind, NEW published PROVE Where(q, Common(kind, q, d), published) \subseteq Entry
  BY <1>1 DEF Where
<1>3. q.resource \in CorpusResource
  BY PagesAssumption
<1> QED
  BY <1>1, <1>2, <1>3 DEF CorpusResource, Matching, Entities, cves, iocs, products, actors, malware,
     tools, campaigns, techniques, urls, evidence, relationships, contradictions

\* Before any client asks there is nothing a walk could miss.
LEMMA PagesStart == Init => PagesInv
<1> SUFFICES ASSUME Init PROVE PagesInv
  OBVIOUS
<1>1. /\ clock = 2 /\ row = [e \in Entry |-> [at |-> 1, text |-> "old", dated |-> e % 2 = 0]]
      /\ links = [e \in Entry |-> {1}] /\ tx = [w \in Writer |-> None] /\ issued = None
      /\ walk = NoWalk
  BY DEF Init
<1>2. row \in [Entry -> Row]
  <2>1. \A e \in Entry : (e % 2 = 0) \in BOOLEAN
    OBVIOUS
  <2>2. 1 \in Stamp
    BY PagesAssumption DEF Stamp
  <2> QED
    BY <1>1, <2>1, <2>2 DEF Row
<1>3. /\ walk.phase = "idle" /\ walk.query = None /\ walk.cursor = None /\ walk.page = {}
      /\ walk.items = {} /\ walk.stable = {} /\ walk.seen = [e \in Entry |-> 0]
      /\ walk = [phase |-> walk.phase, query |-> walk.query, cursor |-> walk.cursor,
                 page |-> walk.page, items |-> walk.items, at |-> walk.at, base |-> walk.base,
                 stable |-> walk.stable, seen |-> walk.seen]
  BY <1>1 DEF NoWalk
<1>4. TypeOK
  BY <1>1, <1>2, <1>3, FS_EmptySet, PagesAssumption DEF TypeOK
<1> QED
  BY <1>3, <1>4 DEF PagesInv, WalkComplete, NoRepeats, ProvenanceComplete, StableMatch, CursorDivides,
                    PageIsForemost, LinksGrow

\* The tables a query reads are the rows and the reports.
LEMMA SameTables ==
    ASSUME row' = row, report' = report
    PROVE  Tables' = Tables /\ Times' = Times
<1>1. Public' = Public
  BY DEF Public, Taken
<1>2. \A n : UNION {Named(report'[n].versions[i]) : i \in DOMAIN report'[n].versions} =
            UNION {Named(report[n].versions[i]) : i \in DOMAIN report[n].versions}
  OBVIOUS
<1>3. Listed' = Listed
  BY <1>1, <1>2 DEF Listed
<1>4. Times' = Times
  BY DEF Times
<1> QED
  BY <1>3, <1>4 DEF Tables

\* A step that writes nothing a walk reads.
LEMMA StillStep ==
    ASSUME PagesInv, UNCHANGED <<row, links, report, walk, issued>>,
           clock' \in 2..MaxClock + 1, DOMAIN tx' = Writer,
           \A w \in Writer : tx'[w] # None => tx'[w].stamp \in Stamp /\ tx'[w].text \in {"old", "new"}
    PROVE  PagesInv'
<1>1. Tables' = Tables /\ Times' = Times
  BY SameTables
<1>2. TypeOK'
  BY DEF PagesInv, TypeOK
<1>3. WalkComplete' /\ NoRepeats' /\ ProvenanceComplete' /\ LinksGrow'
  BY DEF PagesInv, WalkComplete, NoRepeats, ProvenanceComplete, LinksGrow
<1>4. StableMatch' /\ CursorDivides' /\ PageIsForemost'
  BY <1>1 DEF PagesInv, StableMatch, CursorDivides, PageIsForemost
<1> QED
  BY <1>2, <1>3, <1>4 DEF PagesInv

\* A step that writes rows, links or reports: what it touches is no longer what
\* the walk relies on, and the rest is as the walk left it.
LEMMA SettleStep ==
    ASSUME PagesInv, Settle, row' \in [Entry -> Row], DOMAIN links' = Entry,
           \A e \in Entry : links[e] \subseteq links'[e], UNCHANGED <<clock, issued>>,
           DOMAIN tx' = Writer,
           \A w \in Writer : tx'[w] # None => tx'[w].stamp \in Stamp /\ tx'[w].text \in {"old", "new"}
    PROVE  PagesInv'
<1>1. TypeOK
  BY DEF PagesInv
<1>2. /\ walk'.phase = walk.phase /\ walk'.query = walk.query /\ walk'.cursor = walk.cursor
      /\ walk'.page = walk.page /\ walk'.items = walk.items /\ walk'.at = walk.at
      /\ walk'.base = walk.base /\ walk'.seen = walk.seen
      /\ walk' = [phase |-> walk'.phase, query |-> walk'.query, cursor |-> walk'.cursor,
                  page |-> walk'.page, items |-> walk'.items, at |-> walk'.at, base |-> walk'.base,
                  stable |-> walk'.stable, seen |-> walk'.seen]
      /\ walk.query = None => walk'.stable = walk.stable
      /\ walk.query # None => walk'.stable =
            {e \in walk.stable \cap Matching(walk.query, Tables') : row'[e] = row[e]}
  <2> DEFINE W == [phase |-> walk.phase, query |-> walk.query, cursor |-> walk.cursor,
                   page |-> walk.page, items |-> walk.items, at |-> walk.at, base |-> walk.base,
                   stable |-> walk.stable, seen |-> walk.seen]
             kept == {e \in walk.stable \cap Matching(walk.query, Tables') : row'[e] = row[e]}
  <2>1. walk = W
    BY <1>1 DEF TypeOK
  <2>2. walk' = IF walk.query = None THEN walk ELSE [walk EXCEPT !.stable = kept]
    BY DEF Settle
  <2> HIDE DEF kept
  <2>3. [W EXCEPT !.stable = kept] =
          [phase |-> walk.phase, query |-> walk.query, cursor |-> walk.cursor,
           page |-> walk.page, items |-> walk.items, at |-> walk.at, base |-> walk.base,
           stable |-> kept, seen |-> walk.seen]
    OBVIOUS
  <2>4. CASE walk.query = None
    BY <2>1, <2>2, <2>4
  <2>5. CASE walk.query # None
    <3>1. walk' = [phase |-> walk.phase, query |-> walk.query, cursor |-> walk.cursor,
                   page |-> walk.page, items |-> walk.items, at |-> walk.at, base |-> walk.base,
                   stable |-> kept, seen |-> walk.seen]
      BY <2>1, <2>2, <2>3, <2>5, Zenon
    <3> QED
      BY <2>5, <3>1 DEF kept
  <2> QED
    BY <2>4, <2>5
<1>3. walk'.stable \subseteq walk.stable
  BY <1>2
<1>4. TypeOK'
  BY <1>1, <1>2, <1>3 DEF TypeOK
<1>5. WalkComplete' /\ NoRepeats' /\ ProvenanceComplete'
  BY <1>2, <1>3 DEF PagesInv, WalkComplete, NoRepeats, ProvenanceComplete
<1>6. StableMatch'
  BY <1>2 DEF PagesInv, StableMatch
<1>7. ASSUME NEW e \in walk'.stable
      PROVE  e \in Entry /\ e \in walk.stable /\ (walk.query # None => row'[e] = row[e])
  BY <1>1, <1>2, <1>3, <1>7 DEF TypeOK
<1>8. CursorDivides'
  <2> SUFFICES ASSUME walk'.phase = "ask", NEW e \in walk'.stable
               PROVE  walk'.seen[e] = (IF AfterCursor(walk'.cursor, Times', e) THEN 0 ELSE 1)
    BY DEF CursorDivides
  <2>1. walk.query # None
    BY <1>2 DEF PagesInv, StableMatch
  <2>2. Times'[e] = Times[e]
    BY <1>7, <2>1 DEF Times
  <2>3. AfterCursor(walk'.cursor, Times', e) <=> AfterCursor(walk.cursor, Times, e)
    BY <1>2, <2>2 DEF AfterCursor
  <2>4. walk.seen[e] = (IF AfterCursor(walk.cursor, Times, e) THEN 0 ELSE 1)
    BY <1>2, <1>7 DEF PagesInv, CursorDivides
  <2> QED
    BY <1>2, <2>3, <2>4
<1>9. PageIsForemost'
  <2> SUFFICES ASSUME walk'.phase = "rows" PROVE PageIsForemost'
    BY DEF PageIsForemost
  <2>1. walk.query # None
    BY <1>2 DEF PagesInv, StableMatch
  <2>2. \A e \in walk'.stable : e \in walk.stable /\ row'[e] = row[e]
    BY <1>7, <2>1
  <2> QED
    BY <1>2, <2>2 DEF PagesInv, PageIsForemost
<1>10. LinksGrow'
  BY <1>2 DEF PagesInv, LinksGrow
<1> QED
  BY <1>4, <1>5, <1>6, <1>8, <1>9, <1>10 DEF PagesInv

\* A walk begins with no cursor and nothing returned, or is refused.
LEMMA StartStep ==
    ASSUME PagesInv, NEW q \in Query, NEW cursor \in {None, issued}, StartWalk(q, cursor)
    PROVE  PagesInv'
<1>1. /\ walk'.phase = (IF Supported(q) /\ Decodes(cursor, q) THEN "ask" ELSE "refused")
      /\ walk'.query = q /\ walk'.cursor = cursor /\ walk'.page = {} /\ walk'.items = {}
      /\ walk'.stable = Matching(q, Tables) /\ walk'.seen = [e \in Entry |-> 0]
      /\ walk' = [phase |-> walk'.phase, query |-> walk'.query, cursor |-> walk'.cursor,
                  page |-> walk'.page, items |-> walk'.items, at |-> walk'.at, base |-> walk'.base,
                  stable |-> walk'.stable, seen |-> walk'.seen]
  BY DEF StartWalk
<1>2. UNCHANGED <<row, links, report, tx, issued, clock>>
  BY DEF StartWalk, desk, corpus
<1>3. Tables' = Tables
  BY <1>2, SameTables
<1>4. walk'.phase = "ask" => cursor = None
  BY <1>1 DEF StartWalk, Decodes
<1>5. walk'.stable \subseteq Entry
  BY <1>1, MatchingIsEntries
<1>6. TypeOK'
  BY <1>1, <1>2, <1>5, FS_EmptySet, PagesAssumption DEF PagesInv, TypeOK
<1>7. q # None
  BY PagesAssumption
<1>8. StableMatch' /\ CursorDivides'
  BY <1>1, <1>3, <1>4, <1>5, <1>7 DEF StableMatch, CursorDivides, AfterCursor
<1>9. walk'.phase \notin {"rows", "done"}
  BY <1>1
<1> QED
  BY <1>1, <1>5, <1>6, <1>8, <1>9
     DEF PagesInv, WalkComplete, NoRepeats, ProvenanceComplete, PageIsForemost, LinksGrow

\* The first statement of a page reads the foremost rows after the cursor.
LEMMA ReadStep ==
    ASSUME PagesInv, ReadRows
    PROVE  PagesInv'
<1> DEFINE S == Remaining(walk.query, walk.cursor)
           page == Fetch(walk.query, walk.cursor)
<1>1. /\ walk.phase = "ask" /\ walk'.phase = "rows" /\ walk'.query = walk.query
      /\ walk'.cursor = walk.cursor /\ walk'.page = page /\ walk'.items = {}
      /\ walk'.at = Times /\ walk'.base = links
      /\ walk'.stable = walk.stable /\ walk'.seen = walk.seen
      /\ walk' = [phase |-> walk'.phase, query |-> walk'.query, cursor |-> walk'.cursor,
                  page |-> walk'.page, items |-> walk'.items, at |-> walk'.at, base |-> walk'.base,
                  stable |-> walk'.stable, seen |-> walk'.seen]
  BY DEF ReadRows
<1>2. UNCHANGED <<row, links, report, tx, issued, clock>>
  BY DEF ReadRows, desk, corpus
<1>3. Tables' = Tables /\ Times' = Times
  BY <1>2, SameTables
<1>4. walk.query \in Query /\ walk.stable \subseteq Matching(walk.query, Tables) /\ walk.stable \subseteq Entry
  BY <1>1 DEF PagesInv, TypeOK, StableMatch
<1>5. Times \in [Entry -> Stamp] /\ \A e \in Entry : Times[e] = row[e].at
  BY DEF PagesInv, TypeOK, Times, Row
<1>6. S \in SUBSET Entry /\ \A e \in S : AfterCursor(walk.cursor, Times, e)
  BY <1>4, MatchingIsEntries DEF Remaining
<1>7. page = Foremost(Limit + 1, Times, S) /\ page \subseteq S /\ Limit + 1 \in Nat /\ Limit \in Nat
  BY PagesAssumption DEF Fetch, Foremost
<1> HIDE DEF page, S
<1>8. Cardinality(page) \in Nat /\ Cardinality(page) <= Limit + 1
  BY <1>5, <1>6, <1>7, ForemostBounded
<1>9. TypeOK'
  BY <1>1, <1>2, <1>6, <1>7, <1>8, FS_EmptySet, PagesAssumption DEF PagesInv, TypeOK
<1>10. ASSUME NEW e \in walk.stable, AfterCursor(walk.cursor, Times, e), e \notin page
       PROVE  Cardinality(page) > Limit /\ \A f \in page : InOrder(Times, f, e)
  <2>1. e \in S
    BY <1>4, <1>10 DEF S, Remaining
  <2>2. Limit + 1 <= Cardinality(page) /\ \A f \in page : InOrder(Times, f, e)
    BY <1>5, <1>6, <1>7, <1>10, <2>1, ForemostFull
  <2> QED
    BY <1>7, <1>8, <2>2
<1>11. PageIsForemost'
  <2>1. \A e \in walk.stable : walk.seen[e] = (IF AfterCursor(walk.cursor, Times, e) THEN 0 ELSE 1)
    BY <1>1 DEF PagesInv, CursorDivides
  <2> QED
    BY <1>1, <1>2, <1>4, <1>5, <1>6, <1>7, <1>10, <2>1 DEF PageIsForemost
<1>12. StableMatch' /\ CursorDivides'
  BY <1>1, <1>3 DEF PagesInv, StableMatch, CursorDivides
<1>13. WalkComplete' /\ NoRepeats' /\ ProvenanceComplete' /\ LinksGrow'
  BY <1>1, <1>2 DEF PagesInv, WalkComplete, NoRepeats, ProvenanceComplete, LinksGrow
<1> QED
  BY <1>9, <1>11, <1>12, <1>13 DEF PagesInv

\* The second statement returns the page: the last visible row becomes the cursor,
\* so what stays and was not returned is behind it and what was returned is not.
LEMMA ReturnStep ==
    ASSUME PagesInv, ReturnPage
    PROVE  PagesInv'
<1> DEFINE V == Visible
           m == Marker
           more == Cardinality(walk.page) > Limit
           cursor == IF more THEN [resource |-> walk.query.resource, id |-> m, at |-> walk.at[m]]
                     ELSE None
<1>1. /\ walk.phase = "rows" /\ walk'.phase = (IF more THEN "ask" ELSE "done")
      /\ walk'.query = walk.query /\ walk'.cursor = cursor /\ walk'.page = walk.page
      /\ walk'.items = Items /\ walk'.at = walk.at /\ walk'.base = walk.base
      /\ walk'.stable = walk.stable
      /\ walk'.seen = [e \in Entry |-> IF e \notin V THEN walk.seen[e]
                                       ELSE IF walk.seen[e] = 0 THEN 1 ELSE 2]
      /\ walk' = [phase |-> walk'.phase, query |-> walk'.query, cursor |-> walk'.cursor,
                  page |-> walk'.page, items |-> walk'.items, at |-> walk'.at, base |-> walk'.base,
                  stable |-> walk'.stable, seen |-> walk'.seen]
      /\ issued' = IF more THEN cursor ELSE issued
  BY DEF ReturnPage
<1>2. UNCHANGED <<row, links, report, tx, clock>>
  BY DEF ReturnPage, desk
<1>3. Tables' = Tables /\ Times' = Times
  BY <1>2, SameTables
<1>4. /\ walk.query \in Query /\ walk.stable \subseteq Entry /\ walk.page \subseteq Entry
      /\ walk.seen \in [Entry -> 0..2] /\ walk.cursor \in Cursor \cup {None}
  BY <1>1 DEF PagesInv, TypeOK, StableMatch
<1>5. /\ walk.at \in [Entry -> Stamp] /\ \A e \in walk.page : AfterCursor(walk.cursor, walk.at, e)
      /\ \A e \in walk.stable :
            /\ walk.at[e] = row[e].at
            /\ walk.seen[e] = (IF AfterCursor(walk.cursor, walk.at, e) THEN 0 ELSE 1)
            /\ AfterCursor(walk.cursor, walk.at, e) /\ e \notin walk.page =>
                 more /\ \A f \in walk.page : InOrder(walk.at, f, e)
  BY <1>1 DEF PagesInv, PageIsForemost
<1>6. /\ V = Foremost(Limit, walk.at, walk.page) /\ V \subseteq walk.page /\ V \subseteq Entry
      /\ Limit \in Nat /\ Limit > 0
  BY <1>4, PagesAssumption DEF Visible, Foremost
<1>7. m = CHOOSE e \in V : \A f \in V : ~InOrder(walk.at, e, f)
  BY DEF Marker
<1> HIDE DEF V, m
<1>8. IsFiniteSet(V) /\ Cardinality(V) \in Nat /\ Cardinality(V) <= Limit
  BY <1>4, <1>5, <1>6, ForemostBounded
<1>9. IsFiniteSet(walk.page) /\ Cardinality(walk.page) \in Nat
  BY <1>4, FS_Subset, FS_CardinalityType, PagesAssumption
<1>10. ASSUME NEW e \in walk.page, e \notin V
       PROVE  more /\ \A f \in V : InOrder(walk.at, f, e)
  <2>1. Limit <= Cardinality(V) /\ \A f \in V : InOrder(walk.at, f, e)
    BY <1>4, <1>5, <1>6, <1>10, ForemostFull
  <2>2. V \cup {e} \in SUBSET walk.page /\ Cardinality(V \cup {e}) = Cardinality(V) + 1
    BY <1>6, <1>8, <1>10, FS_AddElement
  <2>3. Cardinality(V \cup {e}) <= Cardinality(walk.page)
    BY <1>9, <2>2, FS_Subset
  <2> QED
    BY <1>6, <1>8, <1>9, <2>1, <2>2, <2>3
<1>11. ASSUME more PROVE m \in V /\ \A f \in V : ~InOrder(walk.at, m, f)
  <2>1. V # {}
    <3> SUFFICES ASSUME V = {} PROVE FALSE
      OBVIOUS
    <3>1. Cardinality(V) = 0 /\ walk.page # {}
      BY <1>6, <1>11, FS_EmptySet
    <3>2. PICK e \in walk.page : TRUE
      BY <3>1
    <3>3. Limit <= Cardinality(V)
      BY <1>4, <1>5, <1>6, <3>2, ForemostFull
    <3> QED
      BY <1>6, <3>1, <3>3
  <2>2. \E e \in V : \A f \in V : ~InOrder(walk.at, e, f)
    BY <1>5, <1>6, <2>1, LastExists
  <2> QED
    BY <1>7, <2>2
<1>12. more => cursor \in Cursor
  <2> SUFFICES ASSUME more PROVE cursor \in Cursor
    OBVIOUS
  <2>1. m \in Entry /\ walk.at[m] \in Stamp /\ walk.query.resource \in CorpusResource
    BY <1>4, <1>5, <1>6, <1>11, PagesAssumption
  <2> QED
    BY <2>1 DEF Cursor
<1>13. \A e \in Entry : more => (AfterCursor(cursor, walk.at, e) <=> InOrder(walk.at, m, e))
  <2> SUFFICES ASSUME NEW e \in Entry, more
               PROVE  AfterCursor(cursor, walk.at, e) <=> InOrder(walk.at, m, e)
    OBVIOUS
  <2>1. cursor # None /\ cursor.at = walk.at[m] /\ cursor.id = m
    <3>1. cursor = [resource |-> walk.query.resource, id |-> m, at |-> walk.at[m]]
      OBVIOUS
    <3>2. cursor # None
      <4>1. cursor \in Cursor
        BY <1>12
      <4> HIDE DEF cursor
      <4> QED
        BY <4>1, PagesAssumption DEF Cursor, Stamp
    <3> QED
      BY <3>1, <3>2
  <2>2. m \in Int /\ e \in Int /\ walk.at[m] \in Int /\ walk.at[e] \in Int
    <3>1. m \in Entry
      BY <1>6, <1>11
    <3> QED
      BY <1>5, <3>1, PagesAssumption DEF Stamp
  <2> HIDE DEF cursor
  <2> QED
    BY <2>1, <2>2 DEF AfterCursor, InOrder
<1>14. ASSUME NEW e \in walk.stable
       PROVE  /\ walk'.seen[e] \in {0, 1}
              /\ walk'.seen[e] = 0 => more
              /\ more => (walk'.seen[e] = 0 <=> InOrder(walk.at, m, e))
  <2>0. e \in Entry /\ walk'.seen[e] = (IF e \notin V THEN walk.seen[e]
                                        ELSE IF walk.seen[e] = 0 THEN 1 ELSE 2)
    BY <1>1, <1>4, <1>14
  <2>1. CASE e \in V
    <3>1. walk.seen[e] = 0
      BY <1>5, <1>6, <1>14, <2>1
    <3> QED
      BY <1>11, <2>0, <2>1, <3>1
  <2>2. CASE e \notin V /\ AfterCursor(walk.cursor, walk.at, e)
    <3>1. walk'.seen[e] = 0
      BY <1>5, <1>14, <2>0, <2>2
    <3>2. more /\ \A f \in V : InOrder(walk.at, f, e)
      BY <1>5, <1>6, <1>10, <1>14, <2>2
    <3> QED
      BY <1>11, <3>1, <3>2
  <2>3. CASE e \notin V /\ ~AfterCursor(walk.cursor, walk.at, e)
    <3>1. walk'.seen[e] = 1
      BY <1>5, <1>14, <2>0, <2>3
    <3>2. more => ~InOrder(walk.at, m, e)
      <4> SUFFICES ASSUME more PROVE ~InOrder(walk.at, m, e)
        OBVIOUS
      <4>1. m \in Entry /\ AfterCursor(walk.cursor, walk.at, m)
        BY <1>5, <1>6, <1>11
      <4>2. m \in Int /\ e \in Int /\ walk.at[m] \in Int /\ walk.at[e] \in Int
        BY <1>5, <2>0, <4>1, PagesAssumption DEF Stamp
      <4>3. walk.cursor # None /\ walk.cursor.at \in Int /\ walk.cursor.id \in Int
        <5>1. walk.cursor # None
          BY <2>3 DEF AfterCursor
        <5>2. walk.cursor.at \in Stamp /\ walk.cursor.id \in Entry
          BY <1>4, <5>1 DEF Cursor
        <5>3. \A x \in Stamp : x \in Int
          BY DEF Stamp
        <5>4. \A x \in Entry : x \in Int
          BY PagesAssumption
        <5> QED
          BY <5>1, <5>2, <5>3, <5>4, Zenon
      <4> QED
        BY <2>3, <4>1, <4>2, <4>3 DEF AfterCursor, InOrder
    <3> QED
      BY <3>1, <3>2
  <2> QED
    BY <2>1, <2>2, <2>3
<1>15. Cardinality(Items) <= Limit
  <2> DEFINE name == [x \in Items |-> x.id]
  <2>1. Items = {[id |-> e, links |-> LinksOf(e)] : e \in V}
    BY DEF Items, V
  <2>2. name \in Injection(Items, V)
    BY <2>1 DEF Injection, IsInjective
  <2> HIDE DEF name
  <2>3. IsFiniteSet(Items) /\ Cardinality(Items) <= Cardinality(V)
    BY <1>8, <2>2, FS_Injection
  <2>4. Cardinality(Items) \in Nat
    BY <2>3, FS_CardinalityType
  <2> QED
    BY <1>6, <1>8, <2>3, <2>4
<1>16. TypeOK'
  <2>1. walk'.seen \in [Entry -> 0..2]
    BY <1>1, <1>4
  <2>2. walk'.cursor \in Cursor \cup {None} /\ issued' \in Cursor \cup {None}
    BY <1>1, <1>12 DEF PagesInv, TypeOK
  <2> HIDE DEF cursor, more
  <2> QED
    BY <1>1, <1>2, <1>15, <2>1, <2>2 DEF PagesInv, TypeOK
<1>17. WalkComplete'
  <2> SUFFICES ASSUME walk'.phase = "done", NEW e \in walk'.stable PROVE walk'.seen[e] > 0
    BY DEF WalkComplete
  <2>1. ~more /\ e \in walk.stable
    BY <1>1
  <2> QED
    BY <1>14, <2>1
<1>18. NoRepeats'
  BY <1>1, <1>14 DEF NoRepeats
<1>19. ProvenanceComplete'
  <2> SUFFICES ASSUME NEW x \in Items PROVE walk.base[x.id] \subseteq x.links
    BY <1>1 DEF ProvenanceComplete
  <2>1. PICK e \in V : x = [id |-> e, links |-> LinksOf(e)]
    BY DEF Items, V
  <2>2. walk.base[e] \subseteq links[e]
    BY <1>1, <1>6 DEF PagesInv, LinksGrow
  <2> QED
    BY <2>1, <2>2 DEF LinksOf
<1>20. StableMatch'
  BY <1>1, <1>3, <1>4, PagesAssumption DEF PagesInv, StableMatch
<1>21. CursorDivides'
  <2> SUFFICES ASSUME walk'.phase = "ask", NEW e \in walk'.stable
               PROVE  walk'.seen[e] = (IF AfterCursor(walk'.cursor, Times', e) THEN 0 ELSE 1)
    BY DEF CursorDivides
  <2>1. more /\ e \in walk.stable /\ e \in Entry
    BY <1>1, <1>4
  <2>2. Times'[e] = walk.at[e]
    BY <1>3, <1>5, <2>1 DEF Times
  <2>3. AfterCursor(walk'.cursor, Times', e) <=> AfterCursor(cursor, walk.at, e)
    <3> HIDE DEF cursor, more
    <3> QED
      BY <1>1, <2>2 DEF AfterCursor
  <2>4. AfterCursor(cursor, walk.at, e) <=> InOrder(walk.at, m, e)
    BY <1>13, <2>1
  <2> HIDE DEF cursor
  <2> QED
    BY <1>14, <2>1, <2>3, <2>4
<1>22. PageIsForemost' /\ LinksGrow'
  BY <1>1 DEF PageIsForemost, LinksGrow
<1> QED
  BY <1>16, <1>17, <1>18, <1>19, <1>20, <1>21, <1>22 DEF PagesInv

\* A transaction that commits adds links and touches the rows it wrote.
LEMMA CommitStep ==
    ASSUME PagesInv, NEW w \in Writer, CommitWrite(w)
    PROVE  PagesInv'
<1>1. /\ tx[w] # None /\ tx' = [tx EXCEPT ![w] = None] /\ UNCHANGED <<clock, issued>> /\ Settle
      /\ row' = [e \in Entry |->
                  IF e \notin tx[w].set THEN row[e]
                  ELSE [at |-> IF tx[w].touch THEN tx[w].stamp ELSE row[e].at,
                        text |-> tx[w].text, dated |-> row[e].dated]]
      /\ links' = [e \in Entry |-> IF e \in tx[w].set THEN links[e] \cup {tx[w].stamp} ELSE links[e]]
  BY DEF CommitWrite
<1>2. tx[w].stamp \in Stamp /\ tx[w].text \in {"old", "new"} /\ row \in [Entry -> Row] /\ DOMAIN tx = Writer
  BY <1>1 DEF PagesInv, TypeOK
<1>3. row' \in [Entry -> Row]
  <2>1. \A e \in Entry : row[e].at \in Stamp /\ row[e].dated \in BOOLEAN
    BY <1>2 DEF Row
  <2> QED
    BY <1>1, <1>2, <2>1 DEF Row
<1>4. DOMAIN links' = Entry /\ \A e \in Entry : links[e] \subseteq links'[e]
  BY <1>1
<1>5. /\ DOMAIN tx' = Writer
      /\ \A x \in Writer : tx'[x] # None => tx'[x].stamp \in Stamp /\ tx'[x].text \in {"old", "new"}
  BY <1>1, <1>2 DEF PagesInv, TypeOK
<1> QED
  BY <1>1, <1>3, <1>4, <1>5, SettleStep

\* A transaction that begins takes the time as the stamp of its rows.
LEMMA BeginStep ==
    ASSUME PagesInv, NEW w \in Writer, BeginWrite(w)
    PROVE  PagesInv'
<1>1. /\ clock <= MaxClock /\ clock' = clock + 1 /\ UNCHANGED <<row, links, report, walk, issued>>
  BY DEF BeginWrite, desk
<1>2. PICK set \in Writes, text \in {"old", "new"}, touch \in BOOLEAN :
        tx' = [tx EXCEPT ![w] = [stamp |-> clock, set |-> set, text |-> text, touch |-> touch]]
  BY DEF BeginWrite
<1>3. clock \in Stamp /\ clock' \in 2..MaxClock + 1
  BY <1>1, PagesAssumption DEF PagesInv, TypeOK, Stamp
<1>4. /\ DOMAIN tx' = Writer
      /\ \A x \in Writer : tx'[x] # None => tx'[x].stamp \in Stamp /\ tx'[x].text \in {"old", "new"}
  BY <1>2, <1>3 DEF PagesInv, TypeOK
<1> QED
  BY <1>1, <1>3, <1>4, StillStep

\* Every step of the client, the writers, the analysts and the ledger keeps what
\* a walk relies on.
LEMMA PagesStep == PagesInv /\ [Next]_vars => PagesInv'
<1> SUFFICES ASSUME PagesInv, [Next]_vars PROVE PagesInv'
  OBVIOUS
<1>1. /\ clock \in 2..MaxClock + 1 /\ DOMAIN tx = Writer /\ row \in [Entry -> Row] /\ DOMAIN links = Entry
      /\ \A w \in Writer : tx[w] # None => tx[w].stamp \in Stamp /\ tx[w].text \in {"old", "new"}
  BY DEF PagesInv, TypeOK
<1>2. CASE ReportsNext /\ UNCHANGED corpus /\ Settle
  BY <1>1, <1>2, SettleStep DEF corpus
<1>3. CASE LedgerNext /\ UNCHANGED <<corpus, walk>>
  <2>1. report' = report
    BY <1>3 DEF LedgerNext, upsert_candidate, CountCandidates, candidate_summary
  <2> QED
    BY <1>1, <1>3, <2>1, StillStep DEF corpus
<1>4. ASSUME NEW q \in Query, NEW cursor \in {None, issued}, StartWalk(q, cursor) PROVE PagesInv'
  BY <1>4, StartStep
<1>5. CASE Client
  BY <1>5, ReadStep, ReturnStep DEF Client
<1>6. ASSUME NEW w \in Writer, BeginWrite(w) \/ CommitWrite(w) PROVE PagesInv'
  BY <1>6, BeginStep, CommitStep
<1>7. CASE UNCHANGED vars
  BY <1>1, <1>7, StillStep DEF vars, corpus, desk
<1> QED
  BY <1>2, <1>3, <1>4, <1>5, <1>6, <1>7 DEF Next

\* Keyset pages are complete and do not repeat: however many transactions write
\* the corpus during a walk, with whatever times, ties and limit, a walk that has
\* ended returned every row that stayed as it was exactly once, and with all the
\* evidence that was linked to it when it was read.
THEOREM PagesInvariant == Spec => []PagesInv
  BY PagesStart, PagesStep, PTL DEF Spec
=============================================================================
