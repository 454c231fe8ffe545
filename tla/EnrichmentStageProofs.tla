------------------------ MODULE EnrichmentStageProofs ------------------------
(***************************************************************************)
(* Theorems about EnrichmentStage, for every set of CVEs, providers,       *)
(* fields and payloads, every list of claims and every cap.                *)
(***************************************************************************)
EXTENDS EnrichmentStage, FiniteSetTheorems, SequenceTheorems, TLAPS

\* A non-empty set of naturals has a least element.
LEMMA LeastNatural ==
    ASSUME NEW T \in SUBSET Nat, T # {}
    PROVE  \E x \in T : \A y \in T : x <= y
<1> DEFINE R == OpToRel(<, Nat)
<1>1. \A x, y \in Nat : y < x => <<y, x>> \in R
  BY DEF OpToRel
<1>2. IsWellFoundedOn(R, Nat)
  BY NatLessThanWellFounded, Zenon
<1> HIDE DEF R
<1>3. PICK x \in T : \A y \in T : ~(<<y, x>> \in R)
  BY <1>2, WFMin
<1>4. \A y \in T : ~(y < x)
  BY <1>1, <1>3
<1>5. \A y \in T : x <= y
  BY <1>4
<1> QED
  BY <1>5

-----------------------------------------------------------------------------
(* The steps.                                                              *)

\* A transaction that ends without a commit: a version conflict or a failure of
\* the database, which leave the tables alone.
RollsBack(w) ==
    Active(w) /\ Degrade(w) /\ UNCHANGED <<clock, cache, db, commits, overlap>>

\* Every step is a start, a statement of one worker, or the end of its list.
LEMMA StepCases ==
    ASSUME [Next]_vars
    PROVE  \/ UNCHANGED vars
           \/ EnrichRunCves \/ DbEnrich
           \/ \E w \in Worker :
                \/ EnrichCve(w) \/ Insert(w) \/ Observe(w) \/ Select(w) \/ Assess(w)
                \/ Commit(w) \/ RollsBack(w) \/ StageDone(w)
<1>1. \A w \in Worker : Conflicted(w) => RollsBack(w)
  BY DEF Conflicted, RollsBack, Active, InTx
<1>2. \A w \in Worker : DatabaseFails(w) => RollsBack(w)
  BY DEF DatabaseFails, RollsBack
<1> QED
  BY <1>1, <1>2 DEF Next, Process

\* The responses of a request are well typed, and so is what is cached of them.
LEMMA AnswerTypes ==
    ASSUME TypeOK, clock <= MaxClock, NEW w \in Worker, NEW c \in Cve, NEW p \in Provider,
           NEW a \in Answers(w, c, p)
    PROVE  /\ a \in Response
           /\ Put(w, c, p, a) \in [payload: Payload, at: 1..MaxClock] \cup {None}
<1>1. cache[w][c][p] \in [payload: Payload, at: 1..MaxClock] \cup {None}
  BY DEF TypeOK, WorkersOK
<1>2. clock \in 1..MaxClock
  BY StageAssumption DEF TypeOK, WorkersOK
<1>3. CASE Fresh(w, c, p)
  BY <1>1, <1>2, <1>3 DEF Answers, Fresh, Cached, Response, Put
<1>4. CASE ~Fresh(w, c, p)
  <2>1. CASE a \in [status: {"success"}, payload: Payload, at: {clock}]
    BY <1>1, <1>2, <2>1 DEF Response, Put
  <2>2. CASE Stale(w, c, p) /\ a = Cached(w, c, p, "stale")
    BY <1>1, <1>2, <2>2 DEF Stale, Cached, Response, Put
  <2>3. CASE a = [status |-> "unavailable", payload |-> None, at |-> 0]
    BY <1>1, <1>2, <2>3 DEF Response, Put
  <2> QED
    BY <1>4, <2>1, <2>2, <2>3 DEF Answers
<1> QED
  BY <1>3, <1>4

\* The transaction record after a step, for proofs that only need its fields.
LEMMA TxFields ==
    ASSUME TypeOK, NEW w \in Worker
    PROVE  DOMAIN tx[w] = {"cve", "stamp", "resp", "loaded", "choice", "latest"}
  BY DEF TypeOK, WorkersOK, Transaction

\* The snapshots of a transaction are keys whose rows have a status and a time.
LEMMA BasisTypes ==
    ASSUME TypeOK, NEW w \in Worker, Active(w)
    PROVE  /\ Basis(w) \subseteq Key
           /\ \A k \in Basis(w) : Snapshot(w, k) \in Row
<1>1. tx[w].resp \in [Provider -> Response]
  BY DEF TypeOK, WorkersOK
<1>2. ASSUME NEW p \in Provider, tx[w].resp[p].payload # None
      PROVE  /\ <<p, tx[w].resp[p].payload>> \in Key
             /\ Snapshot(w, <<p, tx[w].resp[p].payload>>) \in Row
  <2>1. tx[w].resp[p] \in Response
    BY <1>1
  <2>2. tx[w].resp[p] \in [status: {"success", "stale"}, payload: Payload, at: 1..MaxClock]
    BY <1>2, <2>1 DEF Response
  <2>3. <<p, tx[w].resp[p].payload>>[1] = p
    OBVIOUS
  <2> QED
    BY <2>2, <2>3 DEF Key, Snapshot, Row
<1> QED
  BY <1>2 DEF Basis

\* select_canonical_fields finds a best candidate whenever there is one: what it
\* chooses is a usable snapshot that has a value for the field.
LEMMA ChoiceIsUsable ==
    ASSUME NEW rows \in [Key -> Row \cup {None}], NEW f, Choice(rows, f) # None
    PROVE  /\ Choice(rows, f) \in Key
           /\ Usable(rows[Choice(rows, f)])
           /\ Value(Choice(rows, f), f) # None
<1> DEFINE candidates == {k \in Key : Usable(rows[k]) /\ Value(k, f) # None}
           Before(j, k) == \/ Rank(j[1], f) < Rank(k[1], f)
                           \/ Rank(j[1], f) = Rank(k[1], f) /\ rows[j].at >= rows[k].at
           owned == {k \in candidates : Rank(k[1], f) = 0}
           best == IF owned # {} THEN owned ELSE candidates
<1>1. Choice(rows, f) = CHOOSE k \in candidates : \A j \in candidates : Before(k, j)
  BY DEF Choice
<1>2. candidates # {}
  BY DEF Choice
<1>3. \A k \in candidates : Rank(k[1], f) \in {0, 1} /\ rows[k].at \in 1..MaxClock
  BY DEF Rank, Usable, Row
<1>4. best # {} /\ best \subseteq candidates
  BY <1>2
<1>5. \A k \in best, j \in candidates : 
          \/ Rank(k[1], f) < Rank(j[1], f)
          \/ j \in best /\ Rank(k[1], f) = Rank(j[1], f)
  BY <1>3
<1> DEFINE ages == {MaxClock - rows[k].at : k \in best}
<1>6. ages \in SUBSET Nat /\ ages # {}
  BY <1>3, <1>4, StageAssumption
<1> HIDE DEF candidates, best
<1>7. PICK x \in ages : \A y \in ages : x <= y
  BY <1>6, LeastNatural
<1>8. PICK k \in best : x = MaxClock - rows[k].at
  BY <1>7
<1>9. \A j \in best : rows[k].at >= rows[j].at
  <2> SUFFICES ASSUME NEW j \in best PROVE rows[k].at >= rows[j].at
    OBVIOUS
  <2>1. rows[k].at \in 1..MaxClock /\ rows[j].at \in 1..MaxClock
    BY <1>3, <1>4
  <2>2. MaxClock - rows[k].at <= MaxClock - rows[j].at
    BY <1>7, <1>8
  <2> QED
    BY <2>1, <2>2, StageAssumption
<1>10. k \in candidates /\ \A j \in candidates : Before(k, j)
  BY <1>4, <1>5, <1>8, <1>9
<1>11. Choice(rows, f) \in candidates
  BY <1>1, <1>10
<1> QED
  BY <1>11 DEF candidates

-----------------------------------------------------------------------------
(* Type correctness.                                                       *)

\* The tables, reports and transactions are well typed before any worker begins.
LEMMA TypeInit == Init => TypeOK
<1> SUFFICES ASSUME Init PROVE TypeOK
  OBVIOUS
<1>1. NoTx \in Transaction(None) /\ NoTx.loaded = None
  BY DEF NoTx, Transaction
<1>2. report \in [Worker -> Result]
  BY DEF Init, NoReport, Result
<1> QED
  BY <1>1, <1>2, StageAssumption DEF Init, TypeOK, WorkersOK, EmptyCache, Active, InTx

\* A statement changes the state of one worker; the others keep theirs.
LEMMA TypeTx ==
    ASSUME TypeOK, NEW w \in Worker, NEW t,
           NEW s \in {"idle", "next", "insert", "observe", "select", "assess", "commit", "done"},
           pc' = [pc EXCEPT ![w] = s], tx' = [tx EXCEPT ![w] = t],
           t \in Transaction(t.loaded),
           s \in {"insert", "observe", "select", "assess", "commit"} =>
               t.cve \in Cve /\ t.resp \in [Provider -> Response],
           s \in {"select", "assess", "commit"} => t.choice \in [Fields -> Key \cup {None}]
    PROVE  WorkersOK'
<1>1. pc'[w] = s /\ tx'[w] = t
  BY DEF TypeOK, WorkersOK
<1>2. \A u \in Worker \ {w} : pc'[u] = pc[u] /\ tx'[u] = tx[u]
  BY DEF TypeOK, WorkersOK
<1> QED
  BY <1>1, <1>2 DEF TypeOK, WorkersOK, Active, InTx

\* What a transaction looks like after one of its fields is set.
LEMMA TxSet ==
    ASSUME TypeOK, NEW w \in Worker, NEW v
    PROVE  /\ [tx[w] EXCEPT !.loaded = v] =
                [cve |-> tx[w].cve, stamp |-> tx[w].stamp, resp |-> tx[w].resp, loaded |-> v,
                 choice |-> tx[w].choice, latest |-> tx[w].latest]
           /\ [tx[w] EXCEPT !.choice = v] =
                [cve |-> tx[w].cve, stamp |-> tx[w].stamp, resp |-> tx[w].resp,
                 loaded |-> tx[w].loaded, choice |-> v, latest |-> tx[w].latest]
           /\ [tx[w] EXCEPT !.latest = v] =
                [cve |-> tx[w].cve, stamp |-> tx[w].stamp, resp |-> tx[w].resp,
                 loaded |-> tx[w].loaded, choice |-> tx[w].choice, latest |-> v]
<1> DEFINE t == tx[w]
<1>1. t \in Transaction(t.loaded)
  BY DEF TypeOK, WorkersOK
<1> HIDE DEF t
<1>2. t = [cve |-> t.cve, stamp |-> t.stamp, resp |-> t.resp, loaded |-> t.loaded,
           choice |-> t.choice, latest |-> t.latest]
  BY <1>1 DEF Transaction
<1>3. [t EXCEPT !.loaded = v] =
        [cve |-> t.cve, stamp |-> t.stamp, resp |-> t.resp, loaded |-> v,
         choice |-> t.choice, latest |-> t.latest]
  BY <1>2
<1>4. [t EXCEPT !.choice = v] =
        [cve |-> t.cve, stamp |-> t.stamp, resp |-> t.resp, loaded |-> t.loaded,
         choice |-> v, latest |-> t.latest]
  BY <1>2
<1>5. [t EXCEPT !.latest = v] =
        [cve |-> t.cve, stamp |-> t.stamp, resp |-> t.resp, loaded |-> t.loaded,
         choice |-> t.choice, latest |-> v]
  BY <1>2
<1> QED
  BY <1>3, <1>4, <1>5 DEF t

\* Counting an enriched CVE or listing a failed one gives a result again.
LEMMA ResultSet ==
    ASSUME NEW r \in Result
    PROVE  /\ [r EXCEPT !.enriched = @ + 1] \in Result
           /\ [r EXCEPT !.enriched = @ + 1].enriched = r.enriched + 1
           /\ [r EXCEPT !.enriched = @ + 1].failed = r.failed
           /\ [r EXCEPT !.enriched = @ + 1].attempted = r.attempted
           /\ \A c \in Cve :
                /\ [r EXCEPT !.failed = Append(@, c)] \in Result
                /\ [r EXCEPT !.failed = Append(@, c)].failed = Append(r.failed, c)
                /\ [r EXCEPT !.failed = Append(@, c)].enriched = r.enriched
                /\ [r EXCEPT !.failed = Append(@, c)].attempted = r.attempted
<1>1. /\ r.attempted \in Nat /\ r.enriched \in Nat /\ r.failed \in Seq(Cve)
      /\ DOMAIN r = {"attempted", "truncated", "enriched", "failed"}
  BY DEF Result
<1>2. r.truncated \in BOOLEAN
  BY Zenon DEF Result
<1>3. r.enriched + 1 \in Nat /\ \A c \in Cve : Append(r.failed, c) \in Seq(Cve)
  BY <1>1
<1>4. [r EXCEPT !.enriched = @ + 1] \in Result
  BY <1>3, Zenon DEF Result
<1>5. \A c \in Cve : [r EXCEPT !.failed = Append(@, c)] \in Result
  BY <1>3, Zenon DEF Result
<1> QED
  BY <1>1, <1>4, <1>5

\* The newest version of a chain is its length, so the next one is free.
LEMMA LatestIsLength ==
    ASSUME AssessmentChain, FiniteRows, NEW c \in Cve
    PROVE  Cardinality(risk[c]) \in Nat /\ Latest(c) = Cardinality(risk[c])
<1> DEFINE n == Cardinality(risk[c])
<1>1. n \in Nat
  BY FS_CardinalityType DEF FiniteRows
<1>2. {r.version : r \in risk[c]} = 1..n
  BY DEF AssessmentChain
<1>3. Latest(c) = Max({0} \cup 1..n)
  BY <1>2 DEF Latest
<1> HIDE DEF n
<1>4. Max({0} \cup 1..n) = n
  BY <1>1 DEF Max
<1> QED
  BY <1>1, <1>3, <1>4 DEF n

\* Every statement keeps the types; the version read needs a finite chain.
LEMMA TypeStep == TypeOK /\ AtHand /\ AssessmentChain /\ FiniteRows /\ [Next]_vars => TypeOK'
<1> SUFFICES ASSUME TypeOK, AtHand, AssessmentChain, FiniteRows, [Next]_vars PROVE TypeOK'
  OBVIOUS
<1>1. CASE UNCHANGED vars
  BY <1>1 DEF TypeOK, WorkersOK, vars, db, Active, InTx
<1>2. ASSUME NEW w \in Worker, NEW work \in Seq(Cve), NEW n \in Nat, NEW b \in BOOLEAN,
             Begin(w, work, n, b)
      PROVE  TypeOK'
  <2> DEFINE rec == [attempted |-> n, truncated |-> b, enriched |-> 0, failed |-> <<>>]
  <2>e. <<>> \in Seq(Cve) /\ 0 \in Nat
    OBVIOUS
  <2>0. rec \in Result
    BY <2>e, Zenon DEF Result
  <2>r. report' = [report EXCEPT ![w] = rec]
    BY <1>2, Zenon DEF Begin
  <2> HIDE DEF rec
  <2>1. report' \in [Worker -> Result]
    BY <2>0, <2>r DEF TypeOK, WorkersOK
  <2>2. \A u \in Worker : Active(u)' => Active(u)
    BY <1>2 DEF TypeOK, WorkersOK, Begin, Active, InTx
  <2> QED
    BY <1>2, <2>1, <2>2 DEF TypeOK, WorkersOK, Begin, db
<1>3. CASE EnrichRunCves
  <2>1. SubSeq(Claims, 1, Bounded(Cap, Len(Claims))) \in Seq(Cve)
    BY StageAssumption DEF Bounded
  <2>2. "pipeline" \in Worker /\ Len(Claims) \in Nat /\ Truncated \in BOOLEAN
    BY StageAssumption DEF Worker, Truncated
  <2> QED
    BY <1>2, <1>3, <2>1, <2>2, Zenon DEF EnrichRunCves
<1>4. CASE DbEnrich
  <2>1. "cli" \in Worker /\ Selected \in Seq(Cve) /\ Len(Selected) \in Nat /\ FALSE \in BOOLEAN
    BY StageAssumption DEF Worker
  <2> QED
    BY <1>2, <1>4, <2>1, Zenon DEF DbEnrich
<1>5. ASSUME NEW w \in Worker, EnrichCve(w) PROVE TypeOK'
  <2> DEFINE c == Head(todo[w])
  <2>1. todo[w] \in Seq(Cve) /\ todo[w] # <<>> /\ clock <= MaxClock
    BY <1>5 DEF TypeOK, WorkersOK, EnrichCve
  <2>2. c \in Cve
    BY <2>1
  <2> HIDE DEF c
  <2>3. PICK resp \in [Provider -> UNION {Answers(w, c, p) : p \in Provider}] :
          /\ \A p \in Provider : resp[p] \in Answers(w, c, p)
          /\ cache' = [cache EXCEPT ![w][c] = [p \in Provider |-> Put(w, c, p, resp[p])]]
          /\ tx' = [tx EXCEPT ![w] = [NoTx EXCEPT !.cve = c, !.resp = resp, !.stamp = clock]]
    BY <1>5 DEF EnrichCve, c
  <2>4. \A p \in Provider : /\ resp[p] \in Response
                             /\ Put(w, c, p, resp[p]) \in [payload: Payload, at: 1..MaxClock] \cup {None}
    BY <2>1, <2>2, <2>3, AnswerTypes
  <2>5. resp \in [Provider -> Response]
    BY <2>3, <2>4
  <2>6. cache' \in [Worker -> [Cve -> [Provider -> [payload: Payload, at: 1..MaxClock] \cup {None}]]]
    BY <2>2, <2>3, <2>4 DEF TypeOK, WorkersOK
  <2>7. /\ tx'[w] \in Transaction(None) /\ tx'[w].loaded = None
        /\ tx'[w].cve = c /\ tx'[w].resp = resp
    <3>1. tx'[w] = [cve |-> c, stamp |-> clock, resp |-> resp, loaded |-> None, choice |-> None,
                    latest |-> 0]
      BY <2>3 DEF TypeOK, WorkersOK, NoTx
    <3>2. clock \in Nat
      BY DEF TypeOK, WorkersOK
    <3> QED
      BY <2>2, <2>5, <3>1, <3>2 DEF Transaction
  <2>8. DOMAIN tx' = Worker /\ \A u \in Worker \ {w} : tx'[u] = tx[u]
    BY <2>3 DEF TypeOK, WorkersOK
  <2>9. clock' \in 1..MaxClock + 1
    BY <1>5, <2>1, StageAssumption DEF TypeOK, WorkersOK, EnrichCve
  <2>10. /\ pc' = [pc EXCEPT ![w] = "insert"]
         /\ UNCHANGED <<todo, report, db, commits, overlap>>
    BY <1>5 DEF EnrichCve
  <2>11. pc'[w] = "insert" /\ \A u \in Worker \ {w} : pc'[u] = pc[u]
    BY <2>10 DEF TypeOK, WorkersOK
  <2>12. ASSUME NEW u \in Worker
         PROVE  /\ tx'[u] \in Transaction(tx'[u].loaded)
                /\ Active(u)' => tx'[u].cve \in Cve /\ tx'[u].resp \in [Provider -> Response]
                /\ pc'[u] \in {"select", "assess", "commit"} => tx'[u].choice \in [Fields -> Key \cup {None}]
    BY <2>2, <2>5, <2>7, <2>8, <2>11 DEF TypeOK, WorkersOK, Active, InTx
  <2> QED
    BY <2>6, <2>8, <2>9, <2>10, <2>12 DEF TypeOK, WorkersOK, db
<1>6. ASSUME NEW w \in Worker, Insert(w) PROVE TypeOK'
  <2> DEFINE t == [tx[w] EXCEPT !.loaded = canon[tx[w].cve]]
  <2>1. /\ t = [cve |-> tx[w].cve, stamp |-> tx[w].stamp, resp |-> tx[w].resp,
                loaded |-> canon[tx[w].cve], choice |-> tx[w].choice, latest |-> tx[w].latest]
        /\ tx' = [tx EXCEPT ![w] = t]
    BY <1>6, TxSet DEF Insert
  <2> HIDE DEF t
  <2>2. Active(w) /\ tx[w].cve \in Cve /\ tx[w].resp \in [Provider -> Response]
    BY <1>6 DEF Insert, Active, TypeOK, WorkersOK
  <2>3. tx[w] \in Transaction(tx[w].loaded)
    BY DEF TypeOK, WorkersOK
  <2>4. t \in Transaction(t.loaded) /\ t.cve = tx[w].cve /\ t.resp = tx[w].resp
    BY <2>1, <2>3 DEF Transaction
  <2>5. /\ pc' = [pc EXCEPT ![w] = "observe"]
        /\ UNCHANGED <<clock, todo, report, cache, db, commits>>
    BY <1>6 DEF Insert
  <2>6. overlap' \subseteq Cve
    BY <1>6, <2>2 DEF Insert, TypeOK
  <2>7. WorkersOK'
    BY <2>1, <2>2, <2>4, <2>5, TypeTx
  <2> QED
    BY <2>5, <2>6, <2>7 DEF TypeOK, WorkersOK, db
<1>7. ASSUME NEW w \in Worker, Observe(w) PROVE TypeOK'
  <2> DEFINE rows == [k \in Key |-> IF k \in Basis(w) THEN Snapshot(w, k) ELSE obs[tx[w].cve][k]]
             ch == [f \in Fields |-> Choice(rows, f)]
             t == [tx[w] EXCEPT !.choice = ch]
  <2>1. Active(w) /\ tx[w].cve \in Cve /\ tx[w].resp \in [Provider -> Response]
    BY <1>7 DEF Observe, Active, InTx, TypeOK, WorkersOK
  <2>2. tx' = [tx EXCEPT ![w] = t]
    BY <1>7 DEF Observe
  <2>3. rows \in [Key -> Row \cup {None}]
    BY <2>1, BasisTypes DEF TypeOK
  <2> HIDE DEF rows
  <2>4. ch \in [Fields -> Key \cup {None}]
    BY <2>3, ChoiceIsUsable
  <2>5. t = [cve |-> tx[w].cve, stamp |-> tx[w].stamp, resp |-> tx[w].resp,
             loaded |-> tx[w].loaded, choice |-> ch, latest |-> tx[w].latest]
    BY TxSet, Zenon
  <2> HIDE DEF t, ch
  <2>6. tx[w] \in Transaction(tx[w].loaded)
    BY DEF TypeOK, WorkersOK
  <2>7. t \in Transaction(t.loaded) /\ t.cve = tx[w].cve /\ t.resp = tx[w].resp /\ t.choice = ch
    BY <2>4, <2>5, <2>6 DEF Transaction
  <2>8. /\ pc' = [pc EXCEPT ![w] = "select"]
        /\ UNCHANGED <<clock, todo, report, cache, db, commits, overlap>>
    BY <1>7 DEF Observe
  <2>9. WorkersOK'
    BY <2>1, <2>2, <2>4, <2>7, <2>8, TypeTx
  <2> QED
    BY <2>8, <2>9 DEF TypeOK, db
<1>8. ASSUME NEW w \in Worker, Select(w) PROVE TypeOK'
  <2>1. /\ pc[w] = "select" /\ pc' = [pc EXCEPT ![w] = "assess"]
        /\ UNCHANGED <<clock, todo, report, cache, tx, db, commits, overlap>>
    BY <1>8 DEF Select
  <2>2. WorkersOK'
    BY <2>1 DEF TypeOK, WorkersOK, Active, InTx
  <2> QED
    BY <2>1, <2>2 DEF TypeOK, db
<1>9. ASSUME NEW w \in Worker, Assess(w) PROVE TypeOK'
  <2> DEFINE t == [tx[w] EXCEPT !.latest = Latest(tx[w].cve)]
  <2>1. /\ tx[w].cve \in Cve /\ tx[w].resp \in [Provider -> Response]
        /\ tx[w].choice \in [Fields -> Key \cup {None}]
    BY <1>9 DEF Assess, Active, InTx, TypeOK, WorkersOK
  <2>2. Latest(tx[w].cve) \in Nat
    BY <2>1, LatestIsLength
  <2>3. /\ tx' = [tx EXCEPT ![w] = t]
        /\ t = [cve |-> tx[w].cve, stamp |-> tx[w].stamp, resp |-> tx[w].resp,
                loaded |-> tx[w].loaded, choice |-> tx[w].choice, latest |-> Latest(tx[w].cve)]
    BY <1>9, TxSet DEF Assess
  <2> HIDE DEF t
  <2>4. tx[w] \in Transaction(tx[w].loaded)
    BY DEF TypeOK, WorkersOK
  <2>5. /\ t \in Transaction(t.loaded) /\ t.cve = tx[w].cve /\ t.resp = tx[w].resp
        /\ t.choice = tx[w].choice
    BY <2>2, <2>3, <2>4 DEF Transaction
  <2>6. /\ pc' = [pc EXCEPT ![w] = "commit"]
        /\ UNCHANGED <<clock, todo, report, cache, db, commits, overlap>>
    BY <1>9 DEF Assess
  <2>7. WorkersOK'
    BY <2>1, <2>3, <2>5, <2>6, TypeTx
  <2> QED
    BY <2>6, <2>7 DEF TypeOK, db
<1>10. NoTx \in Transaction(NoTx.loaded)
  BY DEF NoTx, Transaction
<1>11. ASSUME NEW w \in Worker, Commit(w) PROVE TypeOK'
  <2> DEFINE c == tx[w].cve
  <2>1. /\ Active(w) /\ c \in Cve /\ tx[w].choice \in [Fields -> Key \cup {None}]
        /\ todo[w] \in Seq(Cve) /\ todo[w] # <<>>
    BY <1>11 DEF Commit, Active, InTx, TypeOK, WorkersOK, AtHand
  <2>2. /\ pc' = [pc EXCEPT ![w] = "next"] /\ tx' = [tx EXCEPT ![w] = NoTx]
        /\ todo' = [todo EXCEPT ![w] = Tail(@)]
    BY <1>11 DEF Commit, Finished
  <2>3. WorkersOK'
    BY <1>10, <2>2, TypeTx
  <2>4. todo' \in [Worker -> Seq(Cve)]
    BY <2>1, <2>2 DEF TypeOK
  <2>5. report' \in [Worker -> Result]
    BY <1>11, ResultSet DEF Commit, TypeOK
  <2>6. obs' \in [Cve -> [Key -> Row \cup {None}]]
    BY <1>11, <2>1, BasisTypes DEF Commit, StoreSnapshots, TypeOK
  <2>7. sel' \in [Cve -> [Fields -> Key \cup {None}]]
    BY <1>11, <2>1 DEF Commit, StoreSelections, TypeOK
  <2>8. canon' = [d \in Cve |-> [f \in Fields |-> canon'[d][f]]]
    BY <1>11, <2>1 DEF Commit, StoreFields, TypeOK
  <2>9. /\ DOMAIN risk' = Cve
        /\ \A d \in Cve : \A r \in risk'[d] :
             r.version \in Nat \ {0} /\ r.supersedes \in Nat /\ r.at \in Nat /\ r.basis \subseteq Key
    <3>1. tx[w].latest \in Nat /\ tx[w].stamp \in Nat
      BY DEF TypeOK, WorkersOK, Transaction
    <3>2. \A r \in {NewAssessment(w)} :
             r.version \in Nat \ {0} /\ r.supersedes \in Nat /\ r.at \in Nat /\ r.basis \subseteq Key
      BY <2>1, <3>1, BasisTypes DEF NewAssessment
    <3>3. risk' = [risk EXCEPT ![c] = @ \cup {NewAssessment(w)}]
      BY <1>11 DEF Commit
    <3> QED
      BY <2>1, <3>2, <3>3 DEF TypeOK
  <2>10. commits' \in [Worker -> Seq(Cve)] /\ UNCHANGED <<clock, cache, overlap>>
    BY <1>11, <2>1 DEF Commit, TypeOK
  <2> QED
    BY <2>3, <2>4, <2>5, <2>6, <2>7, <2>8, <2>9, <2>10 DEF TypeOK
<1>12. ASSUME NEW w \in Worker, RollsBack(w) PROVE TypeOK'
  <2>1. /\ Active(w) /\ tx[w].cve \in Cve /\ todo[w] \in Seq(Cve) /\ todo[w] # <<>>
        /\ UNCHANGED <<clock, cache, db, commits, overlap>>
    BY <1>12 DEF RollsBack, TypeOK, WorkersOK, AtHand
  <2>2. CASE w = "pipeline" /\ report' = [report EXCEPT ![w].failed = Append(@, tx[w].cve)] /\ Finished(w)
    <3>1. WorkersOK'
      BY <1>10, <2>2, TypeTx DEF Finished
    <3>2. todo' \in [Worker -> Seq(Cve)]
      BY <2>1, <2>2 DEF TypeOK, Finished
    <3>3. report' \in [Worker -> Result]
      <4> DEFINE now == [report[w] EXCEPT !.failed = Append(@, tx[w].cve)]
      <4>1. report \in [Worker -> Result] /\ report[w] \in Result
        BY DEF TypeOK
      <4>2. now \in Result
        BY <2>1, <4>1, ResultSet
      <4>3. report' = [report EXCEPT ![w] = now]
        BY <2>2
      <4> HIDE DEF now
      <4> QED
        BY <4>1, <4>2, <4>3
    <3> QED
      BY <2>1, <3>1, <3>2, <3>3 DEF TypeOK, db
  <2>3. CASE w = "cli" /\ pc' = [pc EXCEPT ![w] = "done"] /\ tx' = [tx EXCEPT ![w] = NoTx]
             /\ UNCHANGED <<report, todo>>
    <3>1. WorkersOK'
      BY <1>10, <2>3, TypeTx
    <3> QED
      BY <2>1, <2>3, <3>1 DEF TypeOK, db
  <2> QED
    BY <1>12, <2>2, <2>3 DEF RollsBack, Degrade
<1>13. ASSUME NEW w \in Worker, StageDone(w) PROVE TypeOK'
  <2>1. /\ pc' = [pc EXCEPT ![w] = "done"] /\ UNCHANGED <<clock, todo, report, cache, tx, db, commits, overlap>>
    BY <1>13 DEF StageDone
  <2>2. WorkersOK'
    BY <2>1 DEF TypeOK, WorkersOK, Active, InTx
  <2> QED
    BY <2>1, <2>2 DEF TypeOK, db
<1> QED
  BY <1>1, <1>3, <1>4, <1>5, <1>6, <1>7, <1>8, <1>9, <1>11, <1>12, <1>13, StepCases

-----------------------------------------------------------------------------
(* What each kind of step changes and leaves alone.                        *)

\* A worker that begins has a list, a report and no transaction.
LEMMA BeginEffect ==
    ASSUME TypeOK, NEW w \in Worker, NEW work, NEW n, NEW b, Begin(w, work, n, b)
    PROVE  /\ pc[w] = "idle" /\ pc'[w] = "next" /\ todo'[w] = work
           /\ report'[w].attempted = n /\ report'[w].enriched = 0 /\ report'[w].failed = <<>>
           /\ report'[w].truncated = b
           /\ UNCHANGED <<clock, cache, tx, obs, canon, sel, risk, commits, overlap>>
           /\ \A u \in Worker \ {w} :
                pc'[u] = pc[u] /\ todo'[u] = todo[u] /\ report'[u] = report[u]
           /\ \A u \in Worker : (Active(u)' <=> Active(u)) /\ (InTx(u)' <=> InTx(u))
<1>1. /\ pc[w] = "idle" /\ pc' = [pc EXCEPT ![w] = "next"] /\ todo' = [todo EXCEPT ![w] = work]
      /\ report' = [report EXCEPT ![w] = [attempted |-> n, truncated |-> b,
                                          enriched |-> 0, failed |-> <<>>]]
      /\ UNCHANGED <<clock, cache, tx, obs, canon, sel, risk, commits, overlap>>
  BY Zenon DEF Begin, db
<1>2. pc'[w] = "next" /\ todo'[w] = work /\ \A u \in Worker \ {w} : pc'[u] = pc[u] /\ todo'[u] = todo[u]
  BY <1>1 DEF TypeOK, WorkersOK
<1>3. \A u \in Worker : (Active(u)' <=> Active(u)) /\ (InTx(u)' <=> InTx(u))
  BY <1>1, <1>2 DEF Active, InTx
<1>4. DOMAIN report = Worker
  BY DEF TypeOK
<1>5. /\ report'[w] = [attempted |-> n, truncated |-> b, enriched |-> 0, failed |-> <<>>]
      /\ \A u \in Worker \ {w} : report'[u] = report[u]
  BY <1>1, <1>4, Zenon
<1>6. /\ report'[w].attempted = n /\ report'[w].enriched = 0 /\ report'[w].failed = <<>>
      /\ report'[w].truncated = b
  BY <1>5
<1> QED
  BY <1>1, <1>2, <1>3, <1>5, <1>6, Zenon

\* A request opens the transaction of the next CVE with the time as its stamp.
LEMMA RequestEffect ==
    ASSUME TypeOK, NEW w \in Worker, EnrichCve(w)
    PROVE  /\ pc[w] = "next" /\ pc'[w] = "insert" /\ todo[w] # <<>>
           /\ tx'[w].cve = Head(todo[w]) /\ tx'[w].stamp = clock
           /\ clock' = clock + 1 /\ clock <= MaxClock
           /\ UNCHANGED <<todo, report, obs, canon, sel, risk, commits, overlap>>
           /\ \A u \in Worker \ {w} :
                pc'[u] = pc[u] /\ tx'[u] = tx[u] /\ (Active(u)' <=> Active(u))
           /\ ~Active(w) /\ Active(w)'
           /\ \A u \in Worker : InTx(u)' <=> InTx(u)
<1>1. PICK resp : tx' = [tx EXCEPT ![w] = [NoTx EXCEPT !.cve = Head(todo[w]), !.resp = resp,
                                                      !.stamp = clock]]
  BY DEF EnrichCve
<1>2. tx'[w].cve = Head(todo[w]) /\ tx'[w].stamp = clock /\ \A u \in Worker \ {w} : tx'[u] = tx[u]
  BY <1>1 DEF NoTx, TypeOK, WorkersOK
<1>3. pc[w] = "next" /\ pc'[w] = "insert" /\ \A u \in Worker \ {w} : pc'[u] = pc[u]
  BY DEF EnrichCve, TypeOK, WorkersOK
<1> QED
  BY <1>2, <1>3 DEF EnrichCve, db, Active, InTx

\* The statements before the commit work on the open transaction alone.
LEMMA StatementEffect ==
    ASSUME TypeOK, NEW w \in Worker, Insert(w) \/ Observe(w) \/ Select(w) \/ Assess(w)
    PROVE  /\ Active(w) /\ InTx(w)' /\ Active(w)'
           /\ tx'[w].cve = tx[w].cve /\ tx'[w].stamp = tx[w].stamp /\ tx'[w].resp = tx[w].resp
           /\ UNCHANGED <<clock, todo, report, cache, obs, canon, sel, risk, commits>>
           /\ pc'[w] \in {"observe", "select", "assess", "commit"}
           /\ \A u \in Worker \ {w} :
                pc'[u] = pc[u] /\ tx'[u] = tx[u] /\ (Active(u)' <=> Active(u)) /\ (InTx(u)' <=> InTx(u))
           /\ \A u \in Worker : Basis(u)' = Basis(u)
<1>1. DOMAIN tx[w] = {"cve", "stamp", "resp", "loaded", "choice", "latest"}
  BY TxFields
<1>2. /\ tx'[w].cve = tx[w].cve /\ tx'[w].stamp = tx[w].stamp /\ tx'[w].resp = tx[w].resp
      /\ \A u \in Worker \ {w} : tx'[u] = tx[u]
  <2>1. CASE Insert(w)
    BY <1>1, <2>1 DEF Insert, TypeOK, WorkersOK
  <2>2. CASE Observe(w)
    BY <1>1, <2>2 DEF Observe, TypeOK, WorkersOK
  <2>3. CASE Select(w)
    BY <2>3 DEF Select
  <2>4. CASE Assess(w)
    BY <1>1, <2>4 DEF Assess, TypeOK, WorkersOK
  <2> QED
    BY <2>1, <2>2, <2>3, <2>4
<1>3. /\ pc[w] \in {"insert", "observe", "select", "assess"}
      /\ pc'[w] \in {"observe", "select", "assess", "commit"}
      /\ \A u \in Worker \ {w} : pc'[u] = pc[u]
  BY DEF Insert, Observe, Select, Assess, TypeOK, WorkersOK
<1>4. UNCHANGED <<clock, todo, report, cache, obs, canon, sel, risk, commits>>
  BY DEF Insert, Observe, Select, Assess, db
<1>5. \A u \in Worker : tx'[u].resp = tx[u].resp
  BY <1>2
<1> QED
  BY <1>2, <1>3, <1>4, <1>5 DEF Active, InTx, Basis

\* A transaction that ends, committed or not, is closed.
LEMMA EndEffect ==
    ASSUME TypeOK, AtHand, NEW w \in Worker, Commit(w) \/ RollsBack(w)
    PROVE  /\ Active(w) /\ ~Active(w)' /\ ~InTx(w)' /\ pc'[w] \in {"next", "done"}
           /\ UNCHANGED <<clock, cache, overlap>>
           /\ \A u \in Worker \ {w} :
                /\ pc'[u] = pc[u] /\ tx'[u] = tx[u] /\ todo'[u] = todo[u]
                /\ commits'[u] = commits[u] /\ report'[u] = report[u]
                /\ (Active(u)' <=> Active(u)) /\ (InTx(u)' <=> InTx(u)) /\ Basis(u)' = Basis(u)
           /\ pc'[w] = "next" => todo'[w] = Tail(todo[w])
           /\ w = "pipeline" => pc'[w] = "next"
<1>1. /\ Active(w) /\ pc'[w] \in {"next", "done"}
      /\ \A u \in Worker \ {w} : pc'[u] = pc[u] /\ tx'[u] = tx[u] /\ todo'[u] = todo[u]
      /\ pc'[w] = "next" => todo'[w] = Tail(todo[w])
      /\ w = "pipeline" => pc'[w] = "next"
  BY DEF Commit, RollsBack, Degrade, Finished, Active, InTx, TypeOK, WorkersOK
<1>2. UNCHANGED <<clock, cache, overlap>>
  BY DEF Commit, RollsBack
<1>3. \A u \in Worker \ {w} : commits'[u] = commits[u] /\ report'[u] = report[u]
  BY DEF Commit, RollsBack, Degrade, TypeOK
<1> QED
  BY <1>1, <1>2, <1>3 DEF Active, InTx, Basis

\* A worker whose list is empty, or for which there are no more requests, stops.
LEMMA DoneEffect ==
    ASSUME TypeOK, NEW w \in Worker, StageDone(w)
    PROVE  /\ pc[w] = "next" /\ pc'[w] = "done" /\ (todo[w] = <<>> \/ clock > MaxClock)
           /\ \A u \in Worker \ {w} : pc'[u] = pc[u]
           /\ UNCHANGED <<clock, todo, report, cache, tx, obs, canon, sel, risk, commits, overlap>>
           /\ \A u \in Worker : (Active(u)' <=> Active(u)) /\ (InTx(u)' <=> InTx(u))
<1>1. pc[w] = "next" /\ pc'[w] = "done" /\ \A u \in Worker \ {w} : pc'[u] = pc[u]
  BY DEF StageDone, TypeOK, WorkersOK
<1> QED
  BY <1>1 DEF StageDone, db, Active, InTx

\* A commit stores the snapshots and appends the one next link to the chain of
\* its CVE: the version it read is the newest, since the next one is not taken.
LEMMA CommitEffect ==
    ASSUME TypeOK, AssessmentChain, StampsOnce, ReadsHold, FiniteRows, NEW w \in Worker, Commit(w)
    PROVE  /\ tx[w].cve \in Cve /\ tx[w].choice \in [Fields -> Key \cup {None}]
           /\ tx[w].latest = Cardinality(risk[tx[w].cve]) /\ tx[w].latest \in Nat
           /\ NewAssessment(w) \notin risk[tx[w].cve]
           /\ risk'[tx[w].cve] = risk[tx[w].cve] \cup {NewAssessment(w)}
           /\ IsFiniteSet(risk'[tx[w].cve])
           /\ Cardinality(risk'[tx[w].cve]) = Cardinality(risk[tx[w].cve]) + 1
           /\ \A c \in Cve \ {tx[w].cve} : risk'[c] = risk[c] /\ canon'[c] = canon[c] /\ sel'[c] = sel[c]
           /\ \A c \in Cve : \A k \in Key : obs[c][k] # None => obs'[c][k] # None
           /\ \A k \in Basis(w) : k \in Key /\ obs'[tx[w].cve][k] # None
<1> DEFINE c == tx[w].cve
<1>1. Active(w) /\ pc[w] = "commit" /\ c \in Cve /\ tx[w].choice \in [Fields -> Key \cup {None}]
  BY DEF Commit, Active, InTx, TypeOK, WorkersOK
<1>2. Cardinality(risk[c]) \in Nat /\ IsFiniteSet(risk[c]) /\ {r.version : r \in risk[c]} = 1..Cardinality(risk[c])
  BY <1>1, FS_CardinalityType DEF FiniteRows, AssessmentChain
<1>3. tx[w].latest \in Nat
  BY DEF TypeOK, WorkersOK, Transaction
<1>4. tx[w].latest = Cardinality(risk[c])
  <2>1. tx[w].latest <= Cardinality(risk[c])
    BY <1>1 DEF ReadsHold
  <2>2. ~(\E r \in risk[c] : r.version = tx[w].latest + 1)
    BY DEF Commit, VersionTaken
  <2>3. tx[w].latest + 1 \notin 1..Cardinality(risk[c])
    BY <1>2, <2>2
  <2> QED
    BY <1>2, <1>3, <2>1, <2>3
<1>5. NewAssessment(w) \notin risk[c]
  BY <1>1 DEF StampsOnce, NewAssessment
<1>6. risk' = [risk EXCEPT ![c] = @ \cup {NewAssessment(w)}]
  BY DEF Commit
<1>7. risk'[c] = risk[c] \cup {NewAssessment(w)} /\ \A d \in Cve \ {c} : risk'[d] = risk[d]
  BY <1>1, <1>6 DEF TypeOK
<1>8. IsFiniteSet(risk'[c]) /\ Cardinality(risk'[c]) = Cardinality(risk[c]) + 1
  BY <1>2, <1>5, <1>7, FS_AddElement
<1>9. \A d \in Cve \ {c} : canon'[d] = canon[d] /\ sel'[d] = sel[d]
  BY <1>1 DEF Commit, StoreFields, StoreSelections, TypeOK
<1>10. None \notin Row
  BY StageAssumption DEF Row
<1>11. \A k \in Key : obs'[c][k] = IF k \in Basis(w) THEN Snapshot(w, k) ELSE obs[c][k]
  BY <1>1 DEF Commit, StoreSnapshots, TypeOK
<1>12. \A d \in Cve \ {c} : obs'[d] = obs[d]
  BY <1>1 DEF Commit, StoreSnapshots, TypeOK
<1>13. \A k \in Basis(w) : k \in Key /\ obs'[c][k] # None
  BY <1>1, <1>10, <1>11, BasisTypes
<1>14. \A d \in Cve : \A k \in Key : obs[d][k] # None => obs'[d][k] # None
  BY <1>11, <1>12, <1>13
<1> QED
  BY <1>1, <1>3, <1>4, <1>5, <1>7, <1>8, <1>9, <1>13, <1>14

-----------------------------------------------------------------------------
(* The bookkeeping of the transactions.                                    *)

\* The CVE at hand stays the head of the worker's list.
LEMMA AtHandStep == TypeOK /\ AtHand /\ [Next]_vars => AtHand'
<1> SUFFICES ASSUME TypeOK, AtHand, [Next]_vars PROVE AtHand'
  OBVIOUS
<1>1. CASE UNCHANGED vars
  BY <1>1 DEF vars, AtHand, Active, InTx
<1>2. ASSUME NEW w \in Worker, NEW work, NEW n, NEW b, Begin(w, work, n, b) PROVE AtHand'
  BY <1>2, BeginEffect DEF AtHand, Active, InTx
<1>3. ASSUME NEW w \in Worker, EnrichCve(w) PROVE AtHand'
  BY <1>3, RequestEffect DEF AtHand
<1>4. ASSUME NEW w \in Worker, Insert(w) \/ Observe(w) \/ Select(w) \/ Assess(w) PROVE AtHand'
  BY <1>4, StatementEffect DEF AtHand
<1>5. ASSUME NEW w \in Worker, Commit(w) \/ RollsBack(w) PROVE AtHand'
  BY <1>5, EndEffect DEF AtHand
<1>6. ASSUME NEW w \in Worker, StageDone(w) PROVE AtHand'
  BY <1>6, DoneEffect DEF AtHand
<1> QED
  BY <1>1, <1>2, <1>3, <1>4, <1>5, <1>6, StepCases DEF EnrichRunCves, DbEnrich, Worker

\* Stamps stay unique: a request takes the time and the clock moves on.
LEMMA StampsOnceStep ==
    TypeOK /\ AtHand /\ StampsOnce /\ [Next]_vars => StampsOnce'
<1> SUFFICES ASSUME TypeOK, AtHand, StampsOnce, [Next]_vars PROVE StampsOnce'
  OBVIOUS
<1>0. clock \in Nat
  BY DEF TypeOK
<1>1. CASE UNCHANGED vars
  BY <1>1 DEF vars, db, StampsOnce, Active, InTx
<1>2. ASSUME NEW w \in Worker, NEW work, NEW n, NEW b, Begin(w, work, n, b) PROVE StampsOnce'
  BY <1>2, BeginEffect DEF StampsOnce
<1>3. ASSUME NEW w \in Worker, EnrichCve(w) PROVE StampsOnce'
  <2>1. \A u \in Worker : tx[u].stamp \in Nat
    BY DEF TypeOK, WorkersOK, Transaction
  <2>2. \A c \in Cve : \A r \in risk'[c] : r.at \in Nat /\ r.at < clock /\ r.at < clock' /\ r.at # clock
    BY <1>0, <1>3, RequestEffect DEF StampsOnce, TypeOK
  <2>3. \A u \in Worker \ {w} : Active(u)' => tx'[u].stamp < clock /\ tx'[u].stamp < clock' /\ tx'[u].stamp # clock
    BY <1>0, <1>3, <2>1, RequestEffect DEF StampsOnce
  <2>4. Active(w)' /\ tx'[w].stamp = clock /\ clock < clock'
    BY <1>0, <1>3, RequestEffect
  <2>5. \A u \in Worker \ {w} : Active(u)' => \A c \in Cve : \A r \in risk'[c] : r.at # tx'[u].stamp
    BY <1>3, RequestEffect DEF StampsOnce
  <2>6. \A u, v \in Worker \ {w} : u # v /\ Active(u)' /\ Active(v)' => tx'[u].stamp # tx'[v].stamp
    BY <1>3, RequestEffect DEF StampsOnce
  <2> QED
    BY <2>2, <2>3, <2>4, <2>5, <2>6 DEF StampsOnce
<1>4. ASSUME NEW w \in Worker, Insert(w) \/ Observe(w) \/ Select(w) \/ Assess(w) PROVE StampsOnce'
  BY <1>4, StatementEffect DEF StampsOnce
<1>5. ASSUME NEW w \in Worker, Commit(w) PROVE StampsOnce'
  <2>1. \A c \in Cve : \A r \in risk'[c] : r \in risk[c] \/ r.at = tx[w].stamp
    BY <1>5 DEF Commit, NewAssessment, TypeOK
  <2> QED
    BY <1>5, <2>1, EndEffect DEF StampsOnce
<1>6. ASSUME NEW w \in Worker, RollsBack(w) PROVE StampsOnce'
  <2>1. risk' = risk
    BY <1>6 DEF RollsBack, db
  <2> QED
    BY <1>6, <2>1, EndEffect DEF StampsOnce
<1>7. ASSUME NEW w \in Worker, StageDone(w) PROVE StampsOnce'
  BY <1>7, DoneEffect DEF StampsOnce
<1> QED
  BY <1>1, <1>2, <1>3, <1>4, <1>5, <1>6, <1>7, StepCases DEF EnrichRunCves, DbEnrich, Worker

\* Overlapping transactions stay known, and alone a transaction's loaded row
\* stays the committed one: only another transaction of the CVE could change it.
LEMMA OverlapKnownStep ==
    /\ TypeOK /\ AssessmentChain /\ AtHand /\ StampsOnce /\ ReadsHold /\ FiniteRows
    /\ OverlapKnown /\ [Next]_vars
    => OverlapKnown'
<1> SUFFICES ASSUME TypeOK, AssessmentChain, AtHand, StampsOnce, ReadsHold, FiniteRows,
                    OverlapKnown, [Next]_vars
             PROVE  OverlapKnown'
  OBVIOUS
<1>1. CASE UNCHANGED vars
  BY <1>1 DEF vars, db, OverlapKnown, InTx
<1>2. ASSUME NEW w \in Worker, NEW work, NEW n, NEW b, Begin(w, work, n, b) PROVE OverlapKnown'
  BY <1>2, BeginEffect DEF OverlapKnown
<1>3. ASSUME NEW w \in Worker, EnrichCve(w) PROVE OverlapKnown'
  <2>1. \A u \in Worker : InTx(u)' => InTx(u) /\ u # w /\ tx'[u] = tx[u]
    BY <1>3, RequestEffect DEF Active
  <2> QED
    BY <1>3, <2>1, RequestEffect DEF OverlapKnown
<1>4. ASSUME NEW w \in Worker, Insert(w) PROVE OverlapKnown'
  <2>1. tx'[w].loaded = canon[tx[w].cve]
    BY <1>4, TxFields DEF Insert, TypeOK, WorkersOK
  <2>2. overlap \subseteq overlap' /\ \A u \in Worker \ {w} : InTx(u) /\ tx[u].cve = tx[w].cve => tx[w].cve \in overlap'
    BY <1>4 DEF Insert, Others
  <2>3. ASSUME NEW u \in Worker, NEW v \in Worker, u # v, InTx(u)', InTx(v)', tx'[u].cve = tx'[v].cve
        PROVE  tx'[u].cve \in overlap'
    BY <1>4, <2>2, <2>3, StatementEffect DEF OverlapKnown
  <2>4. ASSUME NEW u \in Worker, InTx(u)', tx'[u].cve \notin overlap'
        PROVE  tx'[u].loaded = canon'[tx'[u].cve]
    BY <1>4, <2>1, <2>2, <2>4, StatementEffect DEF OverlapKnown
  <2> QED
    BY <2>3, <2>4 DEF OverlapKnown
<1>5. ASSUME NEW w \in Worker, Observe(w) \/ Select(w) \/ Assess(w) PROVE OverlapKnown'
  <2>1. tx'[w].loaded = tx[w].loaded
    BY <1>5, TxFields DEF Observe, Select, Assess, TypeOK, WorkersOK
  <2>2. overlap' = overlap /\ InTx(w)
    BY <1>5 DEF Observe, Select, Assess, InTx
  <2> QED
    BY <1>5, <2>1, <2>2, StatementEffect DEF OverlapKnown
<1>6. ASSUME NEW w \in Worker, Commit(w) PROVE OverlapKnown'
  <2>1. InTx(w)
    BY <1>6 DEF Commit, InTx
  <2>2. \A u \in Worker : InTx(u)' => u # w /\ InTx(u) /\ tx'[u] = tx[u]
    BY <1>6, EndEffect
  <2>3. \A u \in Worker : InTx(u) => tx[u].cve \in Cve
    BY DEF TypeOK, WorkersOK, Active
  <2>4. \A c \in Cve \ {tx[w].cve} : canon'[c] = canon[c]
    BY <1>6, CommitEffect
  <2>5. overlap' = overlap
    BY <1>6 DEF Commit
  <2> QED
    BY <2>1, <2>2, <2>3, <2>4, <2>5 DEF OverlapKnown
<1>7. ASSUME NEW w \in Worker, RollsBack(w) PROVE OverlapKnown'
  <2>1. canon' = canon
    BY <1>7 DEF RollsBack, db
  <2> QED
    BY <1>7, <2>1, EndEffect DEF OverlapKnown
<1>8. ASSUME NEW w \in Worker, StageDone(w) PROVE OverlapKnown'
  BY <1>8, DoneEffect DEF OverlapKnown
<1> QED
  BY <1>1, <1>2, <1>3, <1>4, <1>5, <1>6, <1>7, <1>8, StepCases DEF EnrichRunCves, DbEnrich, Worker

\* What a transaction has read is still usable after any step of the others.
LEMMA ReadsHoldStep ==
    TypeOK /\ AssessmentChain /\ AtHand /\ StampsOnce /\ ReadsHold /\ FiniteRows /\ [Next]_vars
    => ReadsHold'
<1> SUFFICES ASSUME TypeOK, AssessmentChain, AtHand, StampsOnce, ReadsHold, FiniteRows, [Next]_vars
             PROVE  ReadsHold'
  OBVIOUS
<1>0. \A c \in Cve : Cardinality(risk[c]) \in Nat
  BY FS_CardinalityType DEF FiniteRows
<1>1. CASE UNCHANGED vars
  BY <1>1 DEF vars, db, ReadsHold, Chosen, Basis
<1>2. ASSUME NEW w \in Worker, NEW work, NEW n, NEW b, Begin(w, work, n, b) PROVE ReadsHold'
  BY <1>2, BeginEffect DEF ReadsHold, Chosen, Basis
<1>3. ASSUME NEW w \in Worker, EnrichCve(w) PROVE ReadsHold'
  BY <1>3, RequestEffect DEF ReadsHold, Chosen, Basis
<1>4. ASSUME NEW w \in Worker, Insert(w) \/ Observe(w) \/ Select(w) \/ Assess(w),
             pc'[w] = "commit" => tx'[w].latest <= Cardinality(risk[tx[w].cve]),
             pc'[w] \in {"select", "assess", "commit"} => \A f \in Chosen(w)' :
                 tx'[w].choice[f] \in Basis(w) \/ obs[tx[w].cve][tx'[w].choice[f]] # None
      PROVE  ReadsHold'
  <2>1. \A u \in Worker \ {w} : Chosen(u)' = Chosen(u)
    BY <1>4, StatementEffect DEF Chosen
  <2> QED
    BY <1>4, <2>1, StatementEffect DEF ReadsHold
<1>5. ASSUME NEW w \in Worker, Insert(w) PROVE ReadsHold'
  <2>1. pc'[w] = "observe"
    BY <1>5 DEF Insert, TypeOK, WorkersOK
  <2> QED
    BY <1>4, <1>5, <2>1
<1>6. ASSUME NEW w \in Worker, Observe(w) PROVE ReadsHold'
  <2> DEFINE rows == [k \in Key |-> IF k \in Basis(w) THEN Snapshot(w, k) ELSE obs[tx[w].cve][k]]
             ch == [f \in Fields |-> Choice(rows, f)]
  <2>1. Active(w) /\ tx[w].cve \in Cve /\ pc'[w] = "select"
    BY <1>6 DEF Observe, Active, InTx, TypeOK, WorkersOK
  <2>2. rows \in [Key -> Row \cup {None}]
    BY <2>1, BasisTypes DEF TypeOK
  <2>3. tx'[w].choice = ch
    BY <1>6, TxFields DEF Observe, TypeOK, WorkersOK
  <2>4. ASSUME NEW f \in Fields, ch[f] # None
        PROVE  ch[f] \in Basis(w) \/ obs[tx[w].cve][ch[f]] # None
    <3> HIDE DEF rows
    <3>1. ch[f] \in Key /\ rows[ch[f]] # None
      BY <2>2, <2>4, ChoiceIsUsable DEF Usable
    <3> HIDE DEF ch
    <3> QED
      BY <3>1 DEF rows
  <2> HIDE DEF ch
  <2>5. \A f \in Chosen(w)' : f \in Fields /\ ch[f] # None
    BY <2>3 DEF Chosen
  <2> QED
    BY <1>4, <1>6, <2>1, <2>3, <2>4, <2>5
<1>7. ASSUME NEW w \in Worker, Select(w) PROVE ReadsHold'
  <2>1. pc[w] = "select" /\ pc'[w] = "assess" /\ tx' = tx
    BY <1>7 DEF Select, TypeOK, WorkersOK
  <2>2. Chosen(w)' = Chosen(w)
    BY <2>1 DEF Chosen
  <2> QED
    BY <1>4, <1>7, <2>1, <2>2 DEF ReadsHold
<1>8. ASSUME NEW w \in Worker, Assess(w) PROVE ReadsHold'
  <2>1. pc[w] = "assess" /\ tx[w].cve \in Cve /\ tx'[w].latest = Latest(tx[w].cve)
        /\ tx'[w].choice = tx[w].choice
    BY <1>8, TxFields DEF Assess, TypeOK, WorkersOK, Active, InTx
  <2>2. Chosen(w)' = Chosen(w)
    BY <2>1 DEF Chosen
  <2>3. tx'[w].latest <= Cardinality(risk[tx[w].cve])
    BY <2>1, LatestIsLength
  <2> QED
    BY <1>4, <1>8, <2>1, <2>2, <2>3 DEF ReadsHold
<1>9. ASSUME NEW w \in Worker, Commit(w) PROVE ReadsHold'
  <2>1. \A u \in Worker : pc'[u] \in {"select", "assess", "commit"} =>
            u # w /\ pc'[u] = pc[u] /\ tx'[u] = tx[u] /\ Basis(u)' = Basis(u)
    BY <1>9, EndEffect
  <2>2. \A u \in Worker : pc[u] \in {"select", "assess", "commit"} =>
            /\ tx[u].cve \in Cve /\ tx[u].choice \in [Fields -> Key \cup {None}]
            /\ tx[u].latest \in Nat
    BY DEF TypeOK, WorkersOK, Active, InTx, Transaction
  <2>3. \A c \in Cve : Cardinality(risk'[c]) \in Nat /\ Cardinality(risk[c]) <= Cardinality(risk'[c])
    BY <1>0, <1>9, CommitEffect
  <2>4. \A c \in Cve : \A k \in Key : obs[c][k] # None => obs'[c][k] # None
    BY <1>9, CommitEffect
  <2>5. ASSUME NEW u \in Worker, pc'[u] = "commit" PROVE tx'[u].latest <= Cardinality(risk'[tx'[u].cve])
    <3>1. tx[u].latest <= Cardinality(risk[tx[u].cve])
      BY <2>1, <2>5 DEF ReadsHold
    <3> QED
      BY <1>0, <2>1, <2>2, <2>3, <2>5, <3>1
  <2>6. ASSUME NEW u \in Worker, pc'[u] \in {"select", "assess", "commit"}, NEW f \in Chosen(u)'
        PROVE  tx'[u].choice[f] \in Basis(u)' \/ obs'[tx'[u].cve][tx'[u].choice[f]] # None
    <3>1. f \in Chosen(u) /\ f \in Fields /\ tx[u].choice[f] # None
      BY <2>1, <2>6 DEF Chosen
    <3>2. tx[u].choice[f] \in Basis(u) \/ obs[tx[u].cve][tx[u].choice[f]] # None
      BY <2>1, <2>6, <3>1 DEF ReadsHold
    <3> QED
      BY <2>1, <2>2, <2>4, <2>6, <3>1, <3>2
  <2> QED
    BY <2>5, <2>6 DEF ReadsHold
<1>10. ASSUME NEW w \in Worker, RollsBack(w) PROVE ReadsHold'
  <2>1. risk' = risk /\ obs' = obs
    BY <1>10 DEF RollsBack, db
  <2>2. \A u \in Worker : pc'[u] \in {"select", "assess", "commit"} =>
            u # w /\ pc'[u] = pc[u] /\ tx'[u] = tx[u] /\ Basis(u)' = Basis(u) /\ Chosen(u)' = Chosen(u)
    BY <1>10, EndEffect DEF Chosen
  <2> QED
    BY <2>1, <2>2 DEF ReadsHold
<1>11. ASSUME NEW w \in Worker, StageDone(w) PROVE ReadsHold'
  BY <1>11, DoneEffect DEF ReadsHold, Chosen, Basis
<1> QED
  BY <1>1, <1>2, <1>3, <1>5, <1>6, <1>7, <1>8, <1>9, <1>10, <1>11, StepCases
     DEF EnrichRunCves, DbEnrich, Worker

-----------------------------------------------------------------------------
(* The tables.                                                             *)

\* Only a commit changes the tables; everything else at most notes an overlap.
LEMMA QuietOrCommit ==
    ASSUME TypeOK, [Next]_vars
    PROVE  \/ UNCHANGED <<obs, canon, sel, risk, commits>> /\ overlap \subseteq overlap'
           \/ \E w \in Worker : Commit(w)
<1>1. \A w \in Worker : EnrichCve(w) \/ Observe(w) \/ Select(w) \/ Assess(w) \/ RollsBack(w) \/ StageDone(w)
        => UNCHANGED <<obs, canon, sel, risk, commits, overlap>>
  BY DEF EnrichCve, Observe, Select, Assess, RollsBack, StageDone, db
<1>2. \A w \in Worker : Insert(w) => UNCHANGED <<obs, canon, sel, risk, commits>> /\ overlap \subseteq overlap'
  BY DEF Insert, db
<1>3. EnrichRunCves \/ DbEnrich => UNCHANGED <<obs, canon, sel, risk, commits, overlap>>
  BY DEF EnrichRunCves, DbEnrich, Begin, db
<1>4. UNCHANGED vars => UNCHANGED <<obs, canon, sel, risk, commits, overlap>>
  BY DEF vars, db
<1> QED
  BY <1>1, <1>2, <1>3, <1>4, StepCases

\* A commit extends one chain by its next link and leaves the others alone.
LEMMA ChainStep ==
    TypeOK /\ AssessmentChain /\ StampsOnce /\ ReadsHold /\ FiniteRows /\ [Next]_vars
    => AssessmentChain'
<1> SUFFICES ASSUME TypeOK, AssessmentChain, StampsOnce, ReadsHold, FiniteRows, [Next]_vars
             PROVE  AssessmentChain'
  OBVIOUS
<1>1. CASE risk' = risk
  BY <1>1 DEF AssessmentChain
<1>2. ASSUME NEW w \in Worker, Commit(w) PROVE AssessmentChain'
  <2> DEFINE c == tx[w].cve
             n == Cardinality(risk[c])
             new == NewAssessment(w)
  <2>1. /\ c \in Cve /\ n \in Nat /\ risk'[c] = risk[c] \cup {new} /\ Cardinality(risk'[c]) = n + 1
        /\ \A d \in Cve \ {c} : risk'[d] = risk[d]
    BY <1>2, CommitEffect
  <2>2. new.version = n + 1 /\ new.supersedes = n
    BY <1>2, CommitEffect DEF NewAssessment
  <2> HIDE DEF new, c, n
  <2>3. /\ \A r, s \in risk[c] : r.version = s.version => r = s
        /\ {r.version : r \in risk[c]} = 1..n
        /\ \A r \in risk[c] : r.supersedes = r.version - 1
    BY <2>1 DEF AssessmentChain, n
  <2>4. \A r \in risk[c] : r.version \in 1..n /\ r.version # n + 1
    <3>1. \A r \in risk[c] : r.version \in 1..n
      BY <2>3
    <3> QED
      BY <2>1, <3>1
  <2>5. \A r, s \in risk'[c] : r.version = s.version => r = s
    BY <2>1, <2>2, <2>3, <2>4
  <2>6. {r.version : r \in risk'[c]} = 1..(n + 1)
    <3>1. {r.version : r \in risk'[c]} = {r.version : r \in risk[c]} \cup {n + 1}
      BY <2>1, <2>2
    <3>2. (1..n) \cup {n + 1} = 1..(n + 1)
      BY <2>1
    <3> QED
      BY <2>3, <3>1, <3>2
  <2>7. \A r \in risk'[c] : r.supersedes = r.version - 1
    BY <2>1, <2>2, <2>3
  <2> QED
    BY <2>1, <2>5, <2>6, <2>7 DEF AssessmentChain
<1> QED
  BY <1>1, <1>2, QuietOrCommit

\* The assessments a worker has written.
Mine(w) == {r \in UNION {risk[c] : c \in Cve} : r.by = w}

\* A commit adds one assessment to those of its worker.
LEMMA CommitIsMine ==
    ASSUME TypeOK, StampsOnce, NEW w \in Worker, Commit(w)
    PROVE  /\ Mine(w)' = Mine(w) \cup {NewAssessment(w)}
           /\ NewAssessment(w) \notin Mine(w)
           /\ \A u \in Worker \ {w} : Mine(u)' = Mine(u)
<1>1. Active(w) /\ tx[w].cve \in Cve
  BY DEF Commit, Active, InTx, TypeOK, WorkersOK
<1>2. NewAssessment(w).by = w /\ NewAssessment(w).at = tx[w].stamp
  BY DEF NewAssessment
<1>3. risk' = [risk EXCEPT ![tx[w].cve] = @ \cup {NewAssessment(w)}] /\ DOMAIN risk = Cve
  BY DEF Commit, TypeOK
<1>4. UNION {risk'[c] : c \in Cve} = (UNION {risk[c] : c \in Cve}) \cup {NewAssessment(w)}
  BY <1>1, <1>3
<1>5. NewAssessment(w) \notin UNION {risk[c] : c \in Cve}
  BY <1>1, <1>2 DEF StampsOnce
<1> DEFINE all == UNION {risk[c] : c \in Cve}
<1>6. /\ \A u \in Worker : Mine(u) = {r \in all : r.by = u}
      /\ \A u \in Worker : Mine(u)' = {r \in all \cup {NewAssessment(w)} : r.by = u}
  BY <1>4 DEF Mine
<1> HIDE DEF all
<1> QED
  BY <1>2, <1>5, <1>6 DEF all

\* Chains stay finite.
LEMMA FiniteRowsStep ==
    TypeOK /\ AssessmentChain /\ StampsOnce /\ ReadsHold /\ FiniteRows /\ [Next]_vars => FiniteRows'
<1> SUFFICES ASSUME TypeOK, AssessmentChain, StampsOnce, ReadsHold, FiniteRows, [Next]_vars
             PROVE  FiniteRows'
  OBVIOUS
<1>1. CASE risk' = risk
  BY <1>1 DEF FiniteRows
<1>2. ASSUME NEW w \in Worker, Commit(w) PROVE FiniteRows'
  <2>1. \A c \in Cve : IsFiniteSet(risk'[c])
    BY <1>2, CommitEffect DEF FiniteRows
  <2>2. \A u \in Worker : IsFiniteSet(Mine(u))
    BY DEF FiniteRows, Mine
  <2>3. IsFiniteSet(Mine(w) \cup {NewAssessment(w)})
    BY <2>2, FS_AddElement
  <2>4. \A u \in Worker : IsFiniteSet(Mine(u)')
    BY <1>2, <2>2, <2>3, CommitIsMine
  <2> QED
    BY <2>1, <2>4 DEF FiniteRows, Mine
<1> QED
  BY <1>1, <1>2, QuietOrCommit

\* Every commit stores the snapshots that its assessment and its fields rest on.
LEMMA EvidenceStep ==
    TypeOK /\ AssessmentChain /\ EvidenceStored /\ StampsOnce /\ ReadsHold /\ FiniteRows /\ [Next]_vars
    => EvidenceStored'
<1> SUFFICES ASSUME TypeOK, AssessmentChain, EvidenceStored, StampsOnce, ReadsHold, FiniteRows, [Next]_vars
             PROVE  EvidenceStored'
  OBVIOUS
<1>1. CASE UNCHANGED <<obs, canon, risk>>
  BY <1>1 DEF EvidenceStored
<1>2. ASSUME NEW w \in Worker, Commit(w) PROVE EvidenceStored'
  <2> DEFINE c == tx[w].cve
  <2>1. /\ c \in Cve /\ tx[w].choice \in [Fields -> Key \cup {None}]
        /\ \A d \in Cve : \A k \in Key : obs[d][k] # None => obs'[d][k] # None
        /\ \A k \in Basis(w) : k \in Key /\ obs'[c][k] # None
        /\ risk'[c] = risk[c] \cup {NewAssessment(w)}
        /\ \A d \in Cve \ {c} : risk'[d] = risk[d] /\ canon'[d] = canon[d]
    BY <1>2, CommitEffect
  <2>2. ASSUME NEW d \in Cve, NEW r \in risk'[d], NEW k \in r.basis PROVE obs'[d][k] # None
    <3>1. CASE r \in risk[d]
      BY <2>1, <2>2, <3>1 DEF TypeOK, EvidenceStored
    <3>2. CASE d = c /\ r = NewAssessment(w)
      BY <2>1, <2>2, <3>2 DEF NewAssessment
    <3> QED
      BY <2>1, <3>1, <3>2
  <2>3. ASSUME NEW f \in Fields, canon'[c][f] # None
        PROVE  \E k \in Key : obs'[c][k] # None /\ Value(k, f) = canon'[c][f]
    <3>1. canon'[c][f] = IF f \in Chosen(w) /\ Value(tx[w].choice[f], f) # tx[w].loaded[f]
                         THEN Value(tx[w].choice[f], f) ELSE canon[c][f]
      BY <1>2, <2>1 DEF Commit, StoreFields, TypeOK
    <3>2. CASE f \in Chosen(w) /\ canon'[c][f] = Value(tx[w].choice[f], f)
      <4>1. tx[w].choice[f] \in Key
        BY <2>1, <3>2 DEF Chosen
      <4>2. tx[w].choice[f] \in Basis(w) \/ obs[c][tx[w].choice[f]] # None
        BY <1>2, <3>2 DEF ReadsHold, Commit
      <4> QED
        BY <2>1, <3>2, <4>1, <4>2
    <3>3. CASE canon'[c][f] = canon[c][f]
      <4>1. PICK k \in Key : obs[c][k] # None /\ Value(k, f) = canon[c][f]
        BY <2>1, <2>3, <3>3 DEF EvidenceStored
      <4> QED
        BY <2>1, <3>3, <4>1
    <3> QED
      BY <3>1, <3>2, <3>3
  <2>4. ASSUME NEW d \in Cve \ {c}, NEW f \in Fields, canon'[d][f] # None
        PROVE  \E k \in Key : obs'[d][k] # None /\ Value(k, f) = canon'[d][f]
    <3>1. PICK k \in Key : obs[d][k] # None /\ Value(k, f) = canon[d][f]
      BY <2>1, <2>4 DEF EvidenceStored
    <3> QED
      BY <2>1, <2>4, <3>1
  <2> QED
    BY <2>2, <2>3, <2>4 DEF EvidenceStored
<1> QED
  BY <1>1, <1>2, QuietOrCommit

\* Alone, the field a commit writes is the value of the snapshot it names.
LEMMA ProvenanceStep ==
    /\ TypeOK /\ AssessmentChain /\ StampsOnce /\ ReadsHold /\ FiniteRows /\ OverlapKnown
    /\ ProvenanceExactAlone /\ [Next]_vars
    => ProvenanceExactAlone'
<1> SUFFICES ASSUME TypeOK, AssessmentChain, StampsOnce, ReadsHold, FiniteRows, OverlapKnown,
                    ProvenanceExactAlone, [Next]_vars
             PROVE  ProvenanceExactAlone'
  OBVIOUS
<1>1. CASE UNCHANGED <<canon, sel>> /\ overlap \subseteq overlap'
  BY <1>1 DEF ProvenanceExactAlone
<1>2. ASSUME NEW w \in Worker, Commit(w) PROVE ProvenanceExactAlone'
  <2> DEFINE c == tx[w].cve
  <2>1. c \in Cve /\ \A d \in Cve \ {c} : canon'[d] = canon[d] /\ sel'[d] = sel[d]
    BY <1>2, CommitEffect
  <2>2. overlap' = overlap /\ InTx(w)
    BY <1>2 DEF Commit, InTx
  <2>3. ASSUME NEW f \in Fields, c \notin overlap, sel'[c][f] # None
        PROVE  canon'[c][f] = Value(sel'[c][f], f)
    <3>1. tx[w].loaded = canon[c]
      BY <2>2, <2>3 DEF OverlapKnown
    <3>2. canon'[c][f] = IF f \in Chosen(w) /\ Value(tx[w].choice[f], f) # canon[c][f]
                         THEN Value(tx[w].choice[f], f) ELSE canon[c][f]
      BY <1>2, <2>1, <3>1 DEF Commit, StoreFields, TypeOK
    <3>3. sel'[c][f] = IF f \in Chosen(w) THEN tx[w].choice[f] ELSE sel[c][f]
      BY <1>2, <2>1 DEF Commit, StoreSelections, TypeOK
    <3> QED
      BY <2>1, <2>3, <3>2, <3>3 DEF ProvenanceExactAlone
  <2> QED
    BY <2>1, <2>2, <2>3 DEF ProvenanceExactAlone
<1> QED
  BY <1>1, <1>2, QuietOrCommit

-----------------------------------------------------------------------------
(* The result of the stage.                                                *)

\* The counts of a worker after its own commit, failure or start; the others'
\* are not touched.
LEMMA CountsStep ==
    TypeOK /\ AtHand /\ StampsOnce /\ FiniteRows /\ CountsAreTrue /\ [Next]_vars => CountsAreTrue'
<1> SUFFICES ASSUME TypeOK, AtHand, StampsOnce, FiniteRows, CountsAreTrue, [Next]_vars
             PROVE  CountsAreTrue'
  OBVIOUS
<1> DEFINE Agrees(u) ==
        /\ report[u].enriched = Len(commits[u])
        /\ Len(commits[u]) = Cardinality(Mine(u))
        /\ u = "pipeline" /\ pc[u] # "idle" =>
             Bounded(report[u].attempted, Cap) =
                 report[u].enriched + Len(report[u].failed) + Len(todo[u])
<1>a. (\A u \in Worker : Agrees(u)) /\ ((\A u \in Worker : Agrees(u)') => CountsAreTrue')
  BY DEF CountsAreTrue, Mine
<1>t. \A u \in Worker : /\ todo[u] \in Seq(Cve) /\ commits[u] \in Seq(Cve) /\ report[u] \in Result
                        /\ report[u].failed \in Seq(Cve) /\ report[u].enriched \in Nat
  BY DEF TypeOK, Result
<1>0. \A u \in Worker : /\ report'[u] = report[u] /\ commits'[u] = commits[u] /\ todo'[u] = todo[u]
                        /\ (pc'[u] = "idle" <=> pc[u] = "idle") /\ Mine(u)' = Mine(u)
        => Agrees(u)'
  BY <1>a
<1>1. CASE UNCHANGED vars
  <2>1. UNCHANGED <<report, commits, todo, pc, risk>>
    BY <1>1 DEF vars, db
  <2>2. \A u \in Worker : Mine(u)' = Mine(u)
    BY <2>1 DEF Mine
  <2>3. \A u \in Worker : Agrees(u)'
    BY <1>0, <2>1, <2>2
  <2> QED
    BY <1>a, <2>3
<1>2. ASSUME NEW w \in Worker, NEW work, NEW n, NEW b, Begin(w, work, n, b),
             w = "pipeline" => work \in Seq(Cve) /\ Bounded(n, Cap) = Len(work)
      PROVE  CountsAreTrue'
  <2>1. \A u \in Worker : Mine(u)' = Mine(u) /\ commits'[u] = commits[u]
    BY <1>2, BeginEffect DEF Mine
  <2>2. Agrees(w)'
    <3>1. /\ commits[w] = <<>> /\ report'[w].enriched = 0 /\ report'[w].failed = <<>>
          /\ report'[w].attempted = n /\ todo'[w] = work
      BY <1>2, BeginEffect DEF AtHand
    <3>2. commits'[w] = <<>> /\ Len(commits'[w]) = Cardinality(Mine(w)')
      BY <1>a, <2>1, <3>1
    <3>3. w = "pipeline" => Bounded(n, Cap) = 0 + Len(<<>>) + Len(work)
      BY <1>2
    <3> QED
      BY <3>1, <3>2, <3>3
  <2>3. \A u \in Worker \ {w} : Agrees(u)'
    BY <1>0, <1>2, <2>1, BeginEffect
  <2> QED
    BY <1>a, <2>2, <2>3
<1>3. CASE EnrichRunCves
  <2> DEFINE m == Bounded(Cap, Len(Claims))
  <2>1. Len(Claims) \in Nat /\ Cap \in Nat /\ Claims \in Seq(Cve)
    BY StageAssumption
  <2>2. m \in 0..Len(Claims) /\ Bounded(Len(Claims), Cap) = m
    BY <2>1 DEF Bounded
  <2> HIDE DEF m
  <2>3. SubSeq(Claims, 1, m) \in Seq(Cve) /\ Len(SubSeq(Claims, 1, m)) = m
    BY <2>1, <2>2
  <2> QED
    BY <1>2, <1>3, <2>2, <2>3 DEF EnrichRunCves, m, Worker
<1>4. CASE DbEnrich
  BY <1>2, <1>4 DEF DbEnrich, Worker
<1>5. ASSUME NEW w \in Worker, EnrichCve(w) PROVE CountsAreTrue'
  <2>1. \A u \in Worker : /\ report'[u] = report[u] /\ commits'[u] = commits[u] /\ todo'[u] = todo[u]
                          /\ (pc'[u] = "idle" <=> pc[u] = "idle")
    BY <1>5, RequestEffect
  <2>2. \A u \in Worker : Mine(u)' = Mine(u)
    BY <1>5, RequestEffect DEF Mine
  <2> QED
    BY <1>0, <1>a, <2>1, <2>2, Zenon
<1>6. ASSUME NEW w \in Worker, Insert(w) \/ Observe(w) \/ Select(w) \/ Assess(w) PROVE CountsAreTrue'
  <2>1. \A u \in Worker : pc'[u] = "idle" <=> pc[u] = "idle"
    BY <1>6, StatementEffect DEF Active, InTx
  <2>2. \A u \in Worker : /\ report'[u] = report[u] /\ commits'[u] = commits[u] /\ todo'[u] = todo[u]
                          /\ Mine(u)' = Mine(u)
    BY <1>6, StatementEffect DEF Mine
  <2> QED
    BY <1>0, <1>a, <2>1, <2>2, Zenon
<1>7. ASSUME NEW w \in Worker, Commit(w) PROVE CountsAreTrue'
  <2>1. /\ tx[w].cve \in Cve /\ todo[w] \in Seq(Cve) /\ todo[w] # <<>> /\ pc[w] = "commit"
        /\ todo'[w] = Tail(todo[w])
    BY <1>7 DEF Commit, Finished, TypeOK, WorkersOK, Active, InTx, AtHand
  <2>2. commits'[w] = Append(commits[w], tx[w].cve) /\ report'[w] = [report[w] EXCEPT !.enriched = @ + 1]
    BY <1>7 DEF Commit, TypeOK
  <2>3. /\ report'[w].enriched = report[w].enriched + 1 /\ report'[w].failed = report[w].failed
        /\ report'[w].attempted = report[w].attempted
    BY <1>t, <2>2, ResultSet
  <2>4. Cardinality(Mine(w)') = Cardinality(Mine(w)) + 1
    <3>1. IsFiniteSet(Mine(w))
      BY DEF FiniteRows, Mine
    <3> QED
      BY <1>7, <3>1, CommitIsMine, FS_AddElement
  <2>5. Agrees(w)'
    <3>1. Len(Tail(todo[w])) = Len(todo[w]) - 1 /\ Len(commits'[w]) = Len(commits[w]) + 1
      BY <1>t, <2>1, <2>2
    <3>2. Agrees(w)
      BY <1>a
    <3>3. Len(todo[w]) \in Nat /\ Len(report[w].failed) \in Nat /\ report[w].enriched \in Nat
      BY <1>t
    <3>4. report'[w].enriched = Len(commits'[w]) /\ Len(commits'[w]) = Cardinality(Mine(w)')
      BY <2>3, <2>4, <3>1, <3>2
    <3>a. \A x, y, z \in Nat : x + y + z = (x + 1) + y + (z - 1)
      OBVIOUS
    <3>5. report[w].enriched + Len(report[w].failed) + Len(todo[w])
            = (report[w].enriched + 1) + Len(report[w].failed) + (Len(todo[w]) - 1)
      BY <3>3, <3>a, Zenon
    <3>6. w = "pipeline" => Bounded(report'[w].attempted, Cap) =
              report'[w].enriched + Len(report'[w].failed) + Len(todo'[w])
      BY <2>1, <2>3, <3>1, <3>2, <3>5
    <3> QED
      BY <3>4, <3>6
  <2>6. \A u \in Worker \ {w} : Agrees(u)'
    BY <1>0, <1>7, CommitIsMine, EndEffect
  <2> QED
    BY <1>a, <2>5, <2>6
<1>8. ASSUME NEW w \in Worker, RollsBack(w) PROVE CountsAreTrue'
  <2>1. /\ Active(w) /\ tx[w].cve \in Cve /\ todo[w] \in Seq(Cve) /\ todo[w] # <<>>
        /\ UNCHANGED <<risk, commits>>
    BY <1>8 DEF RollsBack, TypeOK, WorkersOK, AtHand, db
  <2>2. \A u \in Worker : Mine(u)' = Mine(u)
    BY <2>1 DEF Mine
  <2>3. \A u \in Worker \ {w} : Agrees(u)'
    BY <1>0, <1>8, <2>2, EndEffect
  <2>4. CASE w = "pipeline" /\ report' = [report EXCEPT ![w].failed = Append(@, tx[w].cve)] /\ Finished(w)
    <3>1. todo'[w] = Tail(todo[w]) /\ report'[w] = [report[w] EXCEPT !.failed = Append(@, tx[w].cve)]
      BY <2>4 DEF Finished, TypeOK
    <3>2. /\ report'[w].enriched = report[w].enriched
          /\ report'[w].failed = Append(report[w].failed, tx[w].cve)
          /\ report'[w].attempted = report[w].attempted
      BY <1>t, <2>1, <3>1, ResultSet
    <3>3. Len(todo'[w]) = Len(todo[w]) - 1 /\ Len(report'[w].failed) = Len(report[w].failed) + 1
      BY <1>t, <2>1, <3>1, <3>2
    <3>4. Agrees(w) /\ pc[w] # "idle"
      BY <1>a, <2>1 DEF Active, InTx
    <3>5. report[w].enriched + Len(report[w].failed) + Len(todo[w])
            = report[w].enriched + (Len(report[w].failed) + 1) + (Len(todo[w]) - 1)
      <4>1. \A x, y, z \in Nat : x + y + z = x + (y + 1) + (z - 1)
        OBVIOUS
      <4>2. Len(todo[w]) \in Nat /\ Len(report[w].failed) \in Nat /\ report[w].enriched \in Nat
        BY <1>t
      <4> QED
        BY <4>1, <4>2, Zenon
    <3>6. /\ report'[w].enriched = Len(commits'[w]) /\ Len(commits'[w]) = Cardinality(Mine(w)')
          /\ Bounded(report'[w].attempted, Cap) =
                report'[w].enriched + Len(report'[w].failed) + Len(todo'[w])
      BY <2>1, <2>2, <2>4, <3>2, <3>3, <3>4, <3>5
    <3>7. Agrees(w)'
      BY <3>6
    <3> QED
      BY <1>a, <2>3, <3>7
  <2>5. CASE w = "cli" /\ UNCHANGED <<report, todo>>
    <3>1. Agrees(w)'
      BY <1>a, <2>1, <2>2, <2>5
    <3> QED
      BY <1>a, <2>3, <3>1
  <2> QED
    BY <1>8, <2>4, <2>5 DEF RollsBack, Degrade
<1>9. ASSUME NEW w \in Worker, StageDone(w) PROVE CountsAreTrue'
  <2>1. \A u \in Worker : /\ report'[u] = report[u] /\ commits'[u] = commits[u] /\ todo'[u] = todo[u]
                          /\ (pc'[u] = "idle" <=> pc[u] = "idle")
    BY <1>9, DoneEffect
  <2>2. \A u \in Worker : Mine(u)' = Mine(u)
    BY <1>9, DoneEffect DEF Mine
  <2> QED
    BY <1>0, <1>a, <2>1, <2>2, Zenon
<1> QED
  BY <1>1, <1>3, <1>4, <1>5, <1>6, <1>7, <1>8, <1>9, StepCases

\* The CVEs a list names, when one is appended and when the head is taken.
LEMMA NamedAppend ==
    ASSUME NEW s \in Seq(Cve), NEW c \in Cve
    PROVE  Named(Append(s, c)) = Named(s) \cup {c}
<1>1. \A i \in DOMAIN s : i \in DOMAIN Append(s, c) /\ Append(s, c)[i] = s[i]
  OBVIOUS
<1>2. \A i \in DOMAIN Append(s, c) : i \in DOMAIN s \/ Append(s, c)[i] = c
  OBVIOUS
<1>3. Len(s) + 1 \in DOMAIN Append(s, c) /\ Append(s, c)[Len(s) + 1] = c
  OBVIOUS
<1> QED
  BY <1>1, <1>2, <1>3 DEF Named

\* The CVEs of a list are its head and those of its tail.
LEMMA NamedTail ==
    ASSUME NEW s \in Seq(Cve), s # <<>>
    PROVE  Named(s) = {Head(s)} \cup Named(Tail(s))
<1>1. \A i \in DOMAIN s : i = 1 \/ (i - 1 \in DOMAIN Tail(s) /\ Tail(s)[i - 1] = s[i])
  OBVIOUS
<1>2. \A i \in DOMAIN Tail(s) : i + 1 \in DOMAIN s /\ s[i + 1] = Tail(s)[i]
  OBVIOUS
<1>3. 1 \in DOMAIN s /\ s[1] = Head(s)
  OBVIOUS
<1> QED
  BY <1>1, <1>2, <1>3 DEF Named

\* A claim leaves the list only into the commits or the failures.
LEMMA ClaimsStep ==
    TypeOK /\ AtHand /\ ClaimsAccounted /\ [Next]_vars => ClaimsAccounted'
<1> SUFFICES ASSUME TypeOK, AtHand, ClaimsAccounted, [Next]_vars PROVE ClaimsAccounted'
  OBVIOUS
<1> DEFINE P == "pipeline"
           Accounted == Named(Claims) \subseteq
               Named(commits[P]) \cup Named(report[P].failed) \cup Named(todo[P])
<1>p. /\ P \in Worker /\ clock \in Nat /\ todo[P] \in Seq(Cve) /\ commits[P] \in Seq(Cve)
      /\ report[P] \in Result /\ report[P].failed \in Seq(Cve)
  BY DEF Worker, TypeOK, Result
<1>q. clock' \in Nat /\ clock <= clock'
  <2>1. \A w \in Worker : EnrichCve(w) => clock' = clock + 1
    BY DEF EnrichCve
  <2>2. \A w \in Worker : Insert(w) \/ Observe(w) \/ Select(w) \/ Assess(w) \/ Commit(w)
            \/ RollsBack(w) \/ StageDone(w) => clock' = clock
    BY DEF Insert, Observe, Select, Assess, Commit, RollsBack, StageDone
  <2>3. EnrichRunCves \/ DbEnrich \/ UNCHANGED vars => clock' = clock
    BY DEF EnrichRunCves, DbEnrich, Begin, vars
  <2>4. clock' = clock \/ clock' = clock + 1
    BY <2>1, <2>2, <2>3, StepCases
  <2> QED
    BY <1>p, <2>4
<1>0. ASSUME report'[P] = report[P], commits'[P] = commits[P], todo'[P] = todo[P],
             pc'[P] = "idle" <=> pc[P] = "idle", pc'[P] = "done" => pc[P] = "done"
      PROVE  ClaimsAccounted'
  BY <1>0, <1>p, <1>q, StageAssumption DEF ClaimsAccounted
<1>1. CASE UNCHANGED vars
  BY <1>0, <1>1 DEF vars
<1>2. CASE EnrichRunCves
  <2>1. /\ report'[P].truncated = Truncated /\ pc'[P] = "next"
        /\ todo'[P] = SubSeq(Claims, 1, Bounded(Cap, Len(Claims)))
    BY <1>2, <1>p, BeginEffect DEF EnrichRunCves
  <2>2. CASE Truncated
    BY <2>1, <2>2 DEF ClaimsAccounted
  <2>3. CASE ~Truncated
    <3>1. Bounded(Cap, Len(Claims)) = Len(Claims) /\ Claims \in Seq(Cve)
      BY <2>3, StageAssumption DEF Truncated, Bounded
    <3>2. SubSeq(Claims, 1, Len(Claims)) = Claims
      BY <3>1
    <3>3. Named(Claims) \subseteq Named(todo'[P])
      BY <2>1, <3>1, <3>2
    <3> QED
      BY <2>1, <3>3 DEF ClaimsAccounted
  <2> QED
    BY <2>2, <2>3
<1>3. CASE DbEnrich
  BY <1>0, <1>3, <1>p, BeginEffect DEF DbEnrich, Worker
<1>4. ASSUME NEW w \in Worker, EnrichCve(w) PROVE ClaimsAccounted'
  BY <1>0, <1>4, <1>p, RequestEffect
<1>5. ASSUME NEW w \in Worker, Insert(w) \/ Observe(w) \/ Select(w) \/ Assess(w) PROVE ClaimsAccounted'
  <2>1. pc'[P] = "idle" <=> pc[P] = "idle"
    BY <1>5, <1>p, StatementEffect DEF Active, InTx
  <2> QED
    BY <1>0, <1>5, <1>p, <2>1, StatementEffect
<1>6. ASSUME NEW w \in Worker, Commit(w) \/ RollsBack(w) PROVE ClaimsAccounted'
  <2>1. CASE w # P
    BY <1>0, <1>6, <1>p, <2>1, EndEffect
  <2>2. CASE w = P
    <3> DEFINE c == tx[P].cve
    <3>1. /\ pc[P] # "idle" /\ pc'[P] = "next" /\ todo[P] # <<>> /\ c = Head(todo[P]) /\ c \in Cve
          /\ todo'[P] = Tail(todo[P])
      BY <1>6, <1>p, <2>2, EndEffect DEF AtHand, Active, InTx, TypeOK, WorkersOK
    <3>2. Named(todo[P]) = {c} \cup Named(todo'[P])
      BY <1>p, <3>1, NamedTail
    <3>3. /\ Named(commits[P]) \cup Named(report[P].failed) \cup {c}
               \subseteq Named(commits'[P]) \cup Named(report'[P].failed)
          /\ report'[P].truncated = report[P].truncated
      <4>1. CASE Commit(P)
        <5>1. commits'[P] = Append(commits[P], c) /\ report'[P] = [report[P] EXCEPT !.enriched = @ + 1]
          BY <1>p, <4>1 DEF Commit, TypeOK
        <5>2. report'[P].failed = report[P].failed /\ report'[P].truncated = report[P].truncated
          BY <1>p, <5>1 DEF Result
        <5> QED
          BY <1>p, <3>1, <5>1, <5>2, NamedAppend
      <4>2. CASE RollsBack(P)
        <5>1. commits' = commits /\ report'[P] = [report[P] EXCEPT !.failed = Append(@, c)]
          BY <1>p, <4>2 DEF RollsBack, Degrade, TypeOK
        <5>2. report'[P].failed = Append(report[P].failed, c) /\ report'[P].truncated = report[P].truncated
          BY <1>p, <5>1 DEF Result
        <5> QED
          BY <1>p, <3>1, <5>1, <5>2, NamedAppend
      <4> QED
        BY <1>6, <2>2, <4>1, <4>2
    <3>4. report[P].truncated \/ Accounted
      BY <3>1 DEF ClaimsAccounted
    <3>5. Accounted => Accounted'
      BY <3>2, <3>3
    <3> QED
      BY <3>1, <3>3, <3>4, <3>5 DEF ClaimsAccounted
  <2> QED
    BY <2>1, <2>2
<1>7. ASSUME NEW w \in Worker, StageDone(w) PROVE ClaimsAccounted'
  <2>1. CASE w # P
    BY <1>0, <1>7, <1>p, <2>1, DoneEffect
  <2>2. CASE w = P
    BY <1>7, <2>2, DoneEffect DEF ClaimsAccounted
  <2> QED
    BY <2>1, <2>2
<1> QED
  BY <1>1, <1>2, <1>3, <1>4, <1>5, <1>6, <1>7, StepCases

-----------------------------------------------------------------------------
(* The theorems.                                                           *)

\* Empty tables and idle workers satisfy the invariant.
LEMMA StageInvInit == Init => StageInv
<1> SUFFICES ASSUME Init PROVE StageInv
  OBVIOUS
<1>1. TypeOK
  BY TypeInit
<1>2. \A c \in Cve : risk[c] = {} /\ Cardinality(risk[c]) = 0 /\ IsFiniteSet(risk[c])
  BY FS_EmptySet DEF Init
<1>3. \A w \in Worker : ~Active(w) /\ ~InTx(w) /\ pc[w] = "idle" /\ commits[w] = <<>>
  BY DEF Init, Active, InTx
<1>4. \A w \in Worker : Mine(w) = {} /\ Cardinality(Mine(w)) = 0 /\ IsFiniteSet(Mine(w))
  BY <1>2, FS_EmptySet DEF Mine
<1>5. AssessmentChain
  BY <1>2 DEF AssessmentChain
<1>6. EvidenceStored /\ ProvenanceExactAlone
  BY <1>2 DEF EvidenceStored, ProvenanceExactAlone, Init
<1>7. CountsAreTrue
  BY <1>3, <1>4 DEF CountsAreTrue, Mine, Init, NoReport
<1>8. AtHand /\ StampsOnce /\ OverlapKnown /\ ReadsHold
  BY <1>2, <1>3 DEF AtHand, StampsOnce, OverlapKnown, ReadsHold
<1>9. FiniteRows
  BY <1>2, <1>4 DEF FiniteRows, Mine
<1>10. ClaimsAccounted
  BY <1>3 DEF ClaimsAccounted, Worker
<1> QED
  BY <1>1, <1>5, <1>6, <1>7, <1>8, <1>9, <1>10 DEF StageInv, StageBookkeeping

\* Every statement keeps every part of the invariant.
LEMMA StageInvStep == StageInv /\ [Next]_vars => StageInv'
  BY TypeStep, ChainStep, EvidenceStep, CountsStep, ProvenanceStep, AtHandStep, StampsOnceStep,
     OverlapKnownStep, ReadsHoldStep, FiniteRowsStep, ClaimsStep
     DEF StageInv, StageBookkeeping

\* After every statement of every transaction, whatever fails and however the
\* pipeline and `db enrich` interleave: the assessments of a CVE are one chain,
\* they and the canonical fields rest on stored snapshots, the counts of the result
\* are the transactions that took effect, and provenance is exact without overlap.
THEOREM StageInvariant == Spec => []StageInv
  BY StageInvInit, StageInvStep, PTL DEF Spec

\* A CVE of the run that was neither enriched nor reported as failed always goes
\* with truncated = True in the EnrichmentStageResult.
THEOREM ShortfallIsReported == Spec => []NoSilentShortfall
<1>1. StageInv => NoSilentShortfall
  <2> SUFFICES ASSUME StageInv, pc["pipeline"] = "done", clock <= MaxClock,
                      ~report["pipeline"].truncated, NEW i \in DOMAIN Claims
               PROVE  \/ \E n \in DOMAIN commits["pipeline"] : commits["pipeline"][n] = Claims[i]
                      \/ \E n \in DOMAIN report["pipeline"].failed :
                            report["pipeline"].failed[n] = Claims[i]
    BY DEF NoSilentShortfall
  <2>1. clock \in Nat /\ todo["pipeline"] = <<>>
    BY StageAssumption DEF StageInv, StageBookkeeping, ClaimsAccounted, TypeOK
  <2>2. Claims[i] \in Named(Claims) /\ Named(<<>>) = {}
    BY DEF Named
  <2>3. Claims[i] \in Named(commits["pipeline"]) \cup Named(report["pipeline"].failed)
    BY <2>1, <2>2 DEF StageInv, StageBookkeeping, ClaimsAccounted
  <2> QED
    BY <2>3 DEF Named
<1> QED
  BY <1>1, StageInvariant, PTL

\* persist_enrichment_run implements the history the assessments promise: every
\* step of the stage leaves all chains alone or appends the next link to one.
THEOREM StageImplementsHistory == Spec => RefinesHistory
<1>1. Init => History!Init
  BY DEF Init, History!Init
<1>2. StageInv /\ [Next]_vars => [History!Next]_risk
  <2> SUFFICES ASSUME StageInv, [Next]_vars, risk' # risk PROVE History!Next
    OBVIOUS
  <2>1. TypeOK /\ AssessmentChain /\ StampsOnce /\ ReadsHold /\ FiniteRows
    BY DEF StageInv, StageBookkeeping
  <2>2. PICK w \in Worker : Commit(w)
    BY <2>1, QuietOrCommit
  <2> DEFINE c == tx[w].cve
             r == NewAssessment(w)
  <2>3. /\ c \in Cve /\ tx[w].latest = Cardinality(risk[c]) /\ tx[w].latest \in Nat
        /\ r \in risk'[c]
    BY <2>1, <2>2, CommitEffect
  <2>4. risk' = [risk EXCEPT ![c] = @ \cup {r}]
    BY <2>2 DEF Commit
  <2>s. \A S : History!Cardinality(S) = Cardinality(S)
    BY DEF History!Cardinality, Cardinality, History!IsFiniteSet, IsFiniteSet
  <2>5. IsLink(Cardinality(risk[c]) + 1, r)
    BY <2>3 DEF IsLink, NewAssessment
  <2> QED
    BY <2>3, <2>4, <2>5, <2>s DEF History!Next, History!Extend
<1> QED
  BY <1>1, <1>2, StageInvariant, PTL DEF Spec, RefinesHistory, History!Spec
==============================================================================
