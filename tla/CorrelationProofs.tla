-------------------------- MODULE CorrelationProofs --------------------------
(***************************************************************************)
(* Theorems about what an enrichment provider answers, ProviderGate (for   *)
(* every cache lifetime, interval, cooldown, number of retries and length  *)
(* of a request's way), and about the correlation of what is known,        *)
(* Correlation (for every set of entities, snapshots, rules, workers,      *)
(* proposals and assessment histories).                                    *)
(***************************************************************************)
EXTENDS Correlation, ProviderGate, FiniteSetTheorems, NaturalsInduction, WellFoundedInduction, TLAPS

\* A non-empty set of naturals has a least element.
LEMMA LeastNatural ==
    ASSUME NEW T \in SUBSET Nat, T # {}
    PROVE  \E x \in T : \A y \in T : x <= y
<1> DEFINE R == OpToRel(<, Nat)
<1>1. \A x, y \in Nat : y < x => <<y, x>> \in R
  BY DEF OpToRel
<1>2. IsWellFoundedOn(R, Nat)
  BY NatLessThanWellFounded, Zenon
<1> HIDE DEF R
<1>3. PICK x \in T : \A y \in T : ~(<<y, x>> \in R)
  BY <1>2, WFMin
<1>4. \A y \in T : ~(y < x)
  BY <1>1, <1>3
<1>5. \A y \in T : x <= y
  BY <1>4
<1> QED
  BY <1>5

-----------------------------------------------------------------------------
(* The engine.                                                             *)

\* The score of a lead stays within its bounds however many names it shares.
LEMMA LeadScoreBounded ==
    ASSUME NEW a \in Lead, NEW n \in Nat \ {0}
    PROVE  LeadScore(a, n) \in 0..100
<1>1. \A x, y \in Int : Min({x, y}) = IF x <= y THEN x ELSE y
  BY DEF Min
<1>2. Base(a) \in 0..100
  BY CorrelationAssumption
<1>3. Min({15, 3 * (n - 1)}) \in 0..15
  BY <1>1
<1> DEFINE b == Base(a) + Min({15, 3 * (n - 1)})
<1>4. b \in Nat
  BY <1>2, <1>3
<1> HIDE DEF b
<1>5. Min({100, b}) \in 0..100
  <2>1. Min({100, b}) = IF 100 <= b THEN 100 ELSE b
    BY <1>1, <1>4
  <2> QED
    BY <1>4, <2>1
<1> QED
  BY <1>5 DEF LeadScore, b

\* A snapshot that has appeared is one of the entity's.
LEMMA SnapIsVersion ==
    ASSUME TypeOK, NEW e \in Entity
    PROVE  /\ \A l \in Lead : IsFiniteSet(Snap(e).names[l])
           /\ \A x \in Snap(e).similar : x.score \in 0..100
<1>1. ver[e] \in DOMAIN Versions(e)
  BY CorrelationAssumption DEF TypeOK
<1> QED
  BY <1>1, CorrelationAssumption DEF Snap

\* What correlate computes is sound, from whatever snapshots it sees.
LEMMA ResultIsSound ==
    ASSUME TypeOK, NEW e \in Subject
    PROVE  Sound(Result(e)) /\ Result(e).subject = e
<1>e. e \in Entity
  BY CorrelationAssumption
<1>1. ASSUME NEW r \in Result(e).relationships
      PROVE  /\ RelationshipRow(r.row) /\ r.key[4] = "phase6-v1"
             /\ r.row.model = None /\ r.row.review = "reviewed" /\ r.row.active = TRUE
  <2>1. PICK o \in Entity \ {e} : r \in ExactRelationships(e, o, Snap(e), Snap(o))
    BY <1>1 DEF Result
  <2>2. PICK a \in ExactRule :
          r = [key |-> <<e, a, o, "phase6-v1">>,
               row |-> [id |-> <<e, a, o>>, confidence |-> Base(a), first |-> First(Snap(e), Snap(o)),
                        last |-> Last(Snap(e), Snap(o)), review |-> "reviewed", active |-> TRUE,
                        model |-> None, evidence |-> Snap(e).evidence \cup Snap(o).evidence]]
    BY <2>1 DEF ExactRelationships
  <2> QED
    BY <2>2 DEF RelationshipRow
<1>2. ASSUME NEW o \in Entity, NEW r \in Candidates(e, o, Snap(e), Snap(o))
      PROVE  /\ r.row = [id |-> r.row.id, score |-> r.row.score, evidence |-> r.row.evidence]
             /\ r.row.score \in 0..100
  <2> DEFINE s == Snap(e)
             p == Snap(o)
  <2>1. ASSUME NEW type, NEW score \in 0..100, NEW evidence, r = Candidate(e, o, type, score, evidence)
        PROVE  /\ r.row = [id |-> r.row.id, score |-> r.row.score, evidence |-> r.row.evidence]
               /\ r.row.score \in 0..100
    BY <2>1 DEF Candidate
  <2>2. ASSUME NEW a \in Lead, s.names[a] \cap p.names[a] # {}
        PROVE  LeadScore(a, Cardinality(s.names[a] \cap p.names[a])) \in 0..100
    <3>1. IsFiniteSet(s.names[a] \cap p.names[a])
      BY <1>e, <2>2, SnapIsVersion, FS_Intersection
    <3>2. Cardinality(s.names[a] \cap p.names[a]) \in Nat \ {0}
      BY <2>2, <3>1, FS_CardinalityType, FS_EmptySet
    <3> QED
      BY <3>2, LeadScoreBounded
  <2>3. \A x \in s.similar : x.score \in 0..100
    BY <1>e, SnapIsVersion
  <2>4. \/ \E a \in {l \in Lead : s.names[l] \cap p.names[l] # {}} :
             r = Candidate(e, o, a, LeadScore(a, Cardinality(s.names[a] \cap p.names[a])),
                           s.evidence \cup p.evidence)
        \/ r = Candidate(e, o, "temporal", 30, s.evidence \cup p.evidence)
        \/ \E x \in s.similar :
             r = Candidate(e, o, "semantic", x.score, (s.evidence \cup p.evidence) \cup x.evidence)
    BY <1>2 DEF Candidates
  <2> HIDE DEF s, p
  <2>5. CASE r = Candidate(e, o, "temporal", 30, s.evidence \cup p.evidence)
    <3>1. 30 \in 0..100
      OBVIOUS
    <3> QED
      BY <2>1, <2>5, <3>1
  <2>6. ASSUME NEW a \in {l \in Lead : s.names[l] \cap p.names[l] # {}},
               r = Candidate(e, o, a, LeadScore(a, Cardinality(s.names[a] \cap p.names[a])),
                             s.evidence \cup p.evidence)
        PROVE  /\ r.row = [id |-> r.row.id, score |-> r.row.score, evidence |-> r.row.evidence]
               /\ r.row.score \in 0..100
    <3>1. LeadScore(a, Cardinality(s.names[a] \cap p.names[a])) \in 0..100
      BY <2>2, <2>6
    <3> QED
      BY <2>1, <2>6, <3>1
  <2>7. ASSUME NEW x \in s.similar,
               r = Candidate(e, o, "semantic", x.score, (s.evidence \cup p.evidence) \cup x.evidence)
        PROVE  /\ r.row = [id |-> r.row.id, score |-> r.row.score, evidence |-> r.row.evidence]
               /\ r.row.score \in 0..100
    BY <2>1, <2>3, <2>7
  <2> QED
    BY <2>4, <2>5, <2>6, <2>7
<1>3. ASSUME NEW snaps, NEW r \in Contradictions(e, snaps)
      PROVE  /\ r.row = [id |-> <<r.key[1], r.key[2], r.row.values>>, values |-> r.row.values,
                         evidence |-> r.row.evidence, review |-> r.row.review]
             /\ Cardinality(r.row.values) >= 2
  <2> DEFINE values(k) == {a.value : a \in Asserted(snaps, k)}
  <2>1. PICK k : /\ Cardinality(values(k)) >= 2
                 /\ r = [key |-> <<e, k>>,
                         row |-> [id |-> <<e, k, values(k)>>, values |-> values(k),
                                  evidence |-> UNION {a.evidence : a \in Asserted(snaps, k)},
                                  review |-> "proposed"]]
    BY <1>3 DEF Contradictions
  <2> HIDE DEF values
  <2> QED
    BY <2>1
<1>4. /\ \A r \in Result(e).candidates : \E o \in Entity : r \in Candidates(e, o, Snap(e), Snap(o))
      /\ Result(e).contradictions = Contradictions(e, {Snap(x) : x \in Entity})
      /\ Result(e).subject = e
  BY DEF Result
<1> QED
  BY <1>1, <1>2, <1>3, <1>4 DEF Sound

-----------------------------------------------------------------------------
(* The repository.                                                         *)

\* The row picked for a key is one of the rows with that key.
LEMMA PickedIs ==
    ASSUME NEW rows, NEW r \in rows
    PROVE  Picked(rows, r.key) \in rows /\ Picked(rows, r.key).key = r.key
  BY DEF Picked

\* The tables after a result is persisted: its keys have its rows, the existing
\* relationships merged with them, and all other rows are as they were.
LEMMA PersistEffect ==
    ASSUME CorrelationInv, NEW w \in Worker, PersistResult(w)
    PROVE  LET R == job[w].relationships
               C == job[w].candidates
               D == job[w].contradictions
           IN /\ job[w] # None /\ Sound(job[w])
              /\ DOMAIN rel' = DOMAIN rel \cup {r.key : r \in R}
              /\ \A r \in R : rel'[r.key] = MergedRelationship(r.key, Picked(R, r.key))
              /\ \A k \in DOMAIN rel : (\A r \in R : r.key # k) => rel'[k] = rel[k]
              /\ rel' = [k \in DOMAIN rel' |-> rel'[k]]
              /\ DOMAIN cand' = DOMAIN cand \cup {r.key : r \in C}
              /\ \A r \in C : cand'[r.key] = Picked(C, r.key).row
              /\ \A k \in DOMAIN cand : (\A r \in C : r.key # k) => cand'[k] = cand[k]
              /\ cand' = [k \in DOMAIN cand' |-> cand'[k]]
              /\ DOMAIN contra' = DOMAIN contra \cup {r.key : r \in D}
              /\ \A r \in D : contra'[r.key] = Picked(D, r.key).row
              /\ \A k \in DOMAIN contra : (\A r \in D : r.key # k) => contra'[k] = contra[k]
              /\ contra' = [k \in DOMAIN contra' |-> contra'[k]]
<1> DEFINE R == job[w].relationships
           C == job[w].candidates
           D == job[w].contradictions
<1>1. job[w] # None /\ Sound(job[w])
  BY DEF PersistResult, CorrelationInv, JobsSound
<1>2. rel' = [k \in DOMAIN rel \cup {r.key : r \in R} |->
                IF \E r \in R : r.key = k THEN MergedRelationship(k, Picked(R, k)) ELSE rel[k]]
  BY DEF PersistResult, Overlay
<1>3. cand' = [k \in DOMAIN cand \cup {r.key : r \in C} |->
                IF \E r \in C : r.key = k THEN MergedCandidate(k, Picked(C, k)) ELSE cand[k]]
  BY DEF PersistResult, Overlay
<1>4. contra' = [k \in DOMAIN contra \cup {r.key : r \in D} |->
                IF \E r \in D : r.key = k THEN MergedContradiction(k, Picked(D, k)) ELSE contra[k]]
  BY DEF PersistResult, Overlay
<1>5. ASSUME NEW r \in C PROVE MergedCandidate(r.key, Picked(C, r.key)) = Picked(C, r.key).row
  <2> DEFINE q == Picked(C, r.key)
  <2>1. q \in C /\ q.key = r.key
    BY <1>5, PickedIs
  <2>2. q.row = [id |-> q.row.id, score |-> q.row.score, evidence |-> q.row.evidence]
    BY <1>1, <2>1 DEF Sound
  <2>3. r.key \in DOMAIN cand => cand[r.key].id = q.row.id
    BY <2>1 DEF PersistResult, Found
  <2> HIDE DEF q
  <2>4. [q.row EXCEPT !.id = q.row.id] = q.row
    BY <2>2
  <2>5. MergedCandidate(r.key, q) = q.row
    BY <2>3, <2>4 DEF MergedCandidate
  <2> QED
    BY <2>5 DEF q
<1>6. ASSUME NEW r \in D PROVE MergedContradiction(r.key, Picked(D, r.key)) = Picked(D, r.key).row
  <2> DEFINE q == Picked(D, r.key)
  <2>1. q \in D /\ q.key = r.key
    BY <1>6, PickedIs
  <2>2. q.row = [id |-> <<q.key[1], q.key[2], q.row.values>>, values |-> q.row.values,
                 evidence |-> q.row.evidence, review |-> q.row.review]
    BY <1>1, <2>1 DEF Sound
  <2>3. r.key \in DOMAIN contra => contra[r.key].id = q.row.id
    BY <2>1 DEF PersistResult, Found
  <2> HIDE DEF q
  <2>4. [q.row EXCEPT !.id = q.row.id] = q.row
    BY <2>2
  <2>5. MergedContradiction(r.key, q) = q.row
    BY <2>3, <2>4 DEF MergedContradiction
  <2> QED
    BY <2>5 DEF q
<1> HIDE DEF R, C, D
<1>7. /\ DOMAIN rel' = DOMAIN rel \cup {r.key : r \in R}
      /\ \A r \in R : rel'[r.key] = MergedRelationship(r.key, Picked(R, r.key))
      /\ \A k \in DOMAIN rel : (\A r \in R : r.key # k) => rel'[k] = rel[k]
      /\ rel' = [k \in DOMAIN rel' |-> rel'[k]]
  BY <1>2
<1>8. /\ DOMAIN cand' = DOMAIN cand \cup {r.key : r \in C}
      /\ \A r \in C : cand'[r.key] = Picked(C, r.key).row
      /\ \A k \in DOMAIN cand : (\A r \in C : r.key # k) => cand'[k] = cand[k]
      /\ cand' = [k \in DOMAIN cand' |-> cand'[k]]
  BY <1>3, <1>5
<1>9. /\ DOMAIN contra' = DOMAIN contra \cup {r.key : r \in D}
      /\ \A r \in D : contra'[r.key] = Picked(D, r.key).row
      /\ \A k \in DOMAIN contra : (\A r \in D : r.key # k) => contra'[k] = contra[k]
      /\ contra' = [k \in DOMAIN contra' |-> contra'[k]]
  BY <1>4, <1>6
<1> QED
  BY <1>1, <1>7, <1>8, <1>9 DEF R, C, D

\* What the merge keeps and what it takes from the new row.
LEMMA MergeKeeps ==
    ASSUME NEW k, NEW q, RelationshipRow(q.row), k \in DOMAIN rel => RelationshipRow(rel[k])
    PROVE  LET m == MergedRelationship(k, q)
           IN /\ RelationshipRow(m)
              /\ m.confidence = q.row.confidence /\ m.last = q.row.last
              /\ m.active = q.row.active /\ m.review = q.row.review
              /\ q.row.evidence \subseteq m.evidence
              /\ m.model = IF k \in DOMAIN rel THEN rel[k].model ELSE q.row.model
              /\ k \in DOMAIN rel => rel[k].evidence \subseteq m.evidence
<1>1. CASE k \in DOMAIN rel
  BY <1>1 DEF MergedRelationship, RelationshipRow
<1>2. CASE k \notin DOMAIN rel
  BY <1>2 DEF MergedRelationship
<1> QED
  BY <1>1, <1>2

\* The tables after a proposal is accepted: its relationship names the proposal's
\* confidence and evidence, and is not one that a rule could have found.
LEMMA SubmitEffect ==
    ASSUME CorrelationInv, NEW p \in Submission, SubmitProposal(p)
    PROVE  LET key == ProposalKey(p)
           IN /\ key[4] = p.id /\ p.id # "phase6-v1"
              /\ DOMAIN rel' = DOMAIN rel \cup {key} /\ rel' = [k \in DOMAIN rel' |-> rel'[k]]
              /\ \A k \in DOMAIN rel \ {key} : rel'[k] = rel[k]
              /\ RelationshipRow(rel'[key]) /\ rel'[key].model # None
              /\ rel'[key].review \in {"proposed", "reviewed"} /\ rel'[key].active = TRUE
              /\ rel'[key].confidence = p.confidence /\ p.evidence \subseteq rel'[key].evidence
              /\ DOMAIN modelRun' = DOMAIN modelRun \cup {p.id}
              /\ modelRun'[p.id] = [output |-> p.confidence, evidence |-> p.evidence]
              /\ \A i \in DOMAIN modelRun \ {p.id} : modelRun'[i] = modelRun[i]
              /\ DOMAIN accepted' = DOMAIN accepted \cup {p.id} /\ accepted'[p.id] = p
              /\ \A i \in DOMAIN accepted \ {p.id} : accepted'[i] = accepted[i]
              /\ UNCHANGED <<ver, job, cand, contra, track, events, latest, done>>
<1> DEFINE key == ProposalKey(p)
           row == [id |-> p.id, confidence |-> p.confidence, first |-> None, last |-> None,
                   review |-> p.review, active |-> TRUE, model |-> p.model, evidence |-> p.evidence]
           q == [key |-> key, row |-> row]
           m == MergedRelationship(key, q)
<1>1. key[4] = p.id /\ p.id # "phase6-v1" /\ p.model # None
  BY CorrelationAssumption DEF ProposalKey
<1>2. rel' = Put(rel, q.key, MergedRelationship(q.key, q))
  BY DEF SubmitProposal
<1>3. q.key = key /\ q.row = row
  OBVIOUS
<1>4. /\ row.confidence = p.confidence /\ row.review = p.review /\ row.active = TRUE
      /\ row.model = p.model /\ row.evidence = p.evidence /\ RelationshipRow(row)
  BY DEF RelationshipRow
<1>5. p.review \in {"proposed", "reviewed"}
  BY DEF SubmitProposal, Admissible
<1>6. key \in DOMAIN rel => RelationshipRow(rel[key]) /\ rel[key].model # None
  BY <1>1 DEF CorrelationInv, OriginsApart
<1> HIDE DEF key, row, q
<1>7. /\ RelationshipRow(m) /\ m.confidence = row.confidence /\ m.active = row.active
      /\ m.review = row.review /\ row.evidence \subseteq m.evidence
      /\ m.model = IF key \in DOMAIN rel THEN rel[key].model ELSE row.model
  BY <1>3, <1>4, <1>6, MergeKeeps
<1> HIDE DEF m
<1>8. rel' = [k \in DOMAIN rel \cup {key} |-> IF k = key THEN m ELSE rel[k]]
  BY <1>2, <1>3 DEF Put, m
<1>9. /\ DOMAIN rel' = DOMAIN rel \cup {key} /\ rel' = [k \in DOMAIN rel' |-> rel'[k]]
      /\ \A k \in DOMAIN rel \ {key} : rel'[k] = rel[k]
      /\ rel'[key] = m
  BY <1>8
<1>10. /\ DOMAIN modelRun' = DOMAIN modelRun \cup {p.id}
       /\ modelRun'[p.id] = [output |-> p.confidence, evidence |-> p.evidence]
       /\ \A i \in DOMAIN modelRun \ {p.id} : modelRun'[i] = modelRun[i]
  BY DEF SubmitProposal, RunRecorded, Put
<1>11. /\ DOMAIN accepted' = DOMAIN accepted \cup {p.id} /\ accepted'[p.id] = p
       /\ \A i \in DOMAIN accepted \ {p.id} : accepted'[i] = accepted[i]
  BY DEF SubmitProposal, Put
<1>12. UNCHANGED <<ver, job, cand, contra, track, events, latest, done>>
  BY DEF SubmitProposal, assessed
<1>13. m.model # None /\ m.review \in {"proposed", "reviewed"} /\ m.active = TRUE
       /\ m.confidence = p.confidence /\ p.evidence \subseteq m.evidence
  BY <1>1, <1>4, <1>5, <1>6, <1>7
<1> QED
  BY <1>1, <1>7, <1>9, <1>10, <1>11, <1>12, <1>13 DEF key

-----------------------------------------------------------------------------
(* The invariant.                                                          *)

\* Empty tables hold whole results only.
LEMMA CorrelationInit == Init => CorrelationInv
<1> SUFFICES ASSUME Init PROVE CorrelationInv
  OBVIOUS
<1>1. DOMAIN <<>> = {} /\ <<>> = [k \in DOMAIN <<>> |-> <<>>[k]]
  OBVIOUS
<1>2. TypeOK
  BY <1>1, CorrelationAssumption DEF Init, TypeOK
<1>3. ContradictionNamesItsValues /\ ProposalIsReproducible /\ OriginsApart /\ EventsHaveReasons
  BY <1>1 DEF Init, ContradictionNamesItsValues, ProposalIsReproducible, OriginsApart, EventsHaveReasons
<1>4. ResultsAreWhole /\ JobsSound /\ LatestApplied
  BY <1>1 DEF Init, ResultsAreWhole, JobsSound, LatestApplied
<1> QED
  BY <1>2, <1>3, <1>4 DEF CorrelationInv

\* Persisting a result whole keeps every table true to what was persisted.
LEMMA PersistStep ==
    ASSUME CorrelationInv, NEW w \in Worker, PersistResult(w) PROVE CorrelationInv'
<1> DEFINE R == job[w].relationships
           C == job[w].candidates
           D == job[w].contradictions
<1>1. /\ job[w] # None /\ Sound(job[w])
      /\ DOMAIN rel' = DOMAIN rel \cup {r.key : r \in R}
      /\ \A r \in R : rel'[r.key] = MergedRelationship(r.key, Picked(R, r.key))
      /\ \A k \in DOMAIN rel : (\A r \in R : r.key # k) => rel'[k] = rel[k]
      /\ rel' = [k \in DOMAIN rel' |-> rel'[k]]
  BY PersistEffect
<1>2. /\ DOMAIN cand' = DOMAIN cand \cup {r.key : r \in C}
      /\ \A r \in C : cand'[r.key] = Picked(C, r.key).row
      /\ \A k \in DOMAIN cand : (\A r \in C : r.key # k) => cand'[k] = cand[k]
      /\ cand' = [k \in DOMAIN cand' |-> cand'[k]]
  BY PersistEffect
<1>3. /\ DOMAIN contra' = DOMAIN contra \cup {r.key : r \in D}
      /\ \A r \in D : contra'[r.key] = Picked(D, r.key).row
      /\ \A k \in DOMAIN contra : (\A r \in D : r.key # k) => contra'[k] = contra[k]
      /\ contra' = [k \in DOMAIN contra' |-> contra'[k]]
  BY PersistEffect
<1>4. /\ latest' = job[w] /\ done' = done \cup KeysOf(job[w]) /\ job' = [job EXCEPT ![w] = None]
      /\ UNCHANGED <<ver, modelRun, track, events, accepted>>
  BY DEF PersistResult, assessed
<1>5. /\ TypeOK /\ JobsSound /\ OriginsApart /\ ResultsAreWhole /\ ContradictionNamesItsValues
      /\ ProposalIsReproducible /\ EventsHaveReasons
  BY DEF CorrelationInv
\* The rows of the result, and what the merge makes of a relationship.
<1>6. ASSUME NEW r \in R
      PROVE  LET q == Picked(R, r.key).row
                 now == rel'[r.key]
             IN /\ r.key[4] = "phase6-v1" /\ RelationshipRow(now) /\ now.model = None
                /\ now.review = "reviewed" /\ now.active = TRUE
                /\ now.confidence = q.confidence /\ now.last = q.last
                /\ now.active = q.active /\ now.review = q.review /\ q.evidence \subseteq now.evidence
  <2> DEFINE q == Picked(R, r.key)
  <2>1. q \in R /\ q.key = r.key
    BY PickedIs
  <2>2. /\ RelationshipRow(q.row) /\ q.key[4] = "phase6-v1" /\ q.row.model = None
        /\ q.row.review = "reviewed" /\ q.row.active = TRUE
    BY <1>1, <2>1 DEF Sound
  <2>3. r.key \in DOMAIN rel => RelationshipRow(rel[r.key]) /\ rel[r.key].model = None
    BY <1>5, <2>1, <2>2 DEF OriginsApart
  <2> HIDE DEF q
  <2>4. LET m == MergedRelationship(r.key, q)
        IN /\ RelationshipRow(m)
           /\ m.confidence = q.row.confidence /\ m.last = q.row.last
           /\ m.active = q.row.active /\ m.review = q.row.review
           /\ q.row.evidence \subseteq m.evidence /\ m.model = None
    BY <2>2, <2>3, MergeKeeps
  <2>5. rel'[r.key] = MergedRelationship(r.key, q)
    BY <1>1 DEF q
  <2> QED
    BY <2>1, <2>2, <2>4, <2>5 DEF q
<1>7. ASSUME NEW r \in C PROVE cand'[r.key] = Picked(C, r.key).row /\ cand'[r.key].score \in 0..100
  <2>1. cand'[r.key] = Picked(C, r.key).row
    BY <1>2
  <2>2. Picked(C, r.key) \in C
    BY PickedIs
  <2>3. \A c \in C : c.row.score \in 0..100
    BY <1>1 DEF Sound
  <2>4. Picked(C, r.key).row.score \in 0..100
    BY <2>2, <2>3, Zenon
  <2> QED
    BY <2>1, <2>4, Zenon
<1>8. ASSUME NEW r \in D
      PROVE  /\ contra'[r.key] = Picked(D, r.key).row
             /\ contra'[r.key].id = <<r.key[1], r.key[2], contra'[r.key].values>>
             /\ Cardinality(contra'[r.key].values) >= 2
  <2> DEFINE q == Picked(D, r.key)
  <2>1. q \in D /\ q.key = r.key
    BY PickedIs
  <2>2. /\ q.row = [id |-> <<q.key[1], q.key[2], q.row.values>>, values |-> q.row.values,
                    evidence |-> q.row.evidence, review |-> q.row.review]
        /\ Cardinality(q.row.values) >= 2
    BY <1>1, <2>1 DEF Sound
  <2> HIDE DEF q
  <2>3. q.row.id = <<q.key[1], q.key[2], q.row.values>>
    BY <2>2
  <2> QED
    BY <1>3, <2>1, <2>2, <2>3 DEF q
<1> HIDE DEF R, C, D
<1>9. JobsSound'
  BY <1>1, <1>4, <1>5 DEF JobsSound, Sound
<1>10. TypeOK'
  <2>1. \A v \in Worker : job'[v] # None => job'[v].subject \in Subject
    BY <1>4, <1>5 DEF TypeOK, JobsSound
  <2>2. \A k \in DOMAIN rel' : rel'[k].review \in {"proposed", "reviewed"} /\ rel'[k].active \in BOOLEAN
    <3> SUFFICES ASSUME NEW k \in DOMAIN rel'
                 PROVE  rel'[k].review \in {"proposed", "reviewed"} /\ rel'[k].active \in BOOLEAN
      OBVIOUS
    <3>1. CASE \E r \in R : r.key = k
      BY <1>6, <3>1
    <3>2. CASE \A r \in R : r.key # k
      BY <1>1, <1>5, <3>2 DEF TypeOK, R
    <3> QED
      BY <3>1, <3>2
  <2>3. \A k \in DOMAIN cand' : cand'[k].score \in 0..100
    BY <1>2, <1>5, <1>7 DEF TypeOK, C
  <2>4. \A k \in DOMAIN contra' : Cardinality(contra'[k].values) >= 2
    BY <1>3, <1>5, <1>8 DEF TypeOK, D
  <2> QED
    BY <1>1, <1>2, <1>3, <1>4, <1>5, <2>1, <2>2, <2>3, <2>4 DEF TypeOK
<1>11. ContradictionNamesItsValues'
  BY <1>3, <1>5, <1>8 DEF ContradictionNamesItsValues, D
<1>12. OriginsApart'
  <2>1. ASSUME NEW k \in DOMAIN rel'
        PROVE  RelationshipRow(rel'[k]) /\ (rel'[k].model = None <=> k[4] = "phase6-v1")
    <3>1. CASE \E r \in R : r.key = k
      BY <1>6, <3>1
    <3>2. CASE \A r \in R : r.key # k
      BY <1>1, <1>5, <3>2 DEF OriginsApart, R
    <3> QED
      BY <3>1, <3>2
  <2>2. DOMAIN rel \subseteq DOMAIN rel'
    BY <1>1
  <2> QED
    BY <1>4, <1>5, <2>1, <2>2 DEF OriginsApart
<1>13. ResultsAreWhole'
  <2>1. KeysOf(job[w]) = {r.key : r \in R} \cup {r.key : r \in C} \cup {r.key : r \in D}
    BY DEF KeysOf, R, C, D
  <2>2. {k \in DOMAIN rel' : rel'[k].model = None} =
            {k \in DOMAIN rel : rel[k].model = None} \cup {r.key : r \in R}
    <3>1. ASSUME NEW k \in DOMAIN rel' PROVE rel'[k].model = None <=> k[4] = "phase6-v1"
      BY <1>12, <3>1 DEF OriginsApart
    <3>2. \A k \in DOMAIN rel : rel[k].model = None <=> k[4] = "phase6-v1"
      BY <1>5 DEF OriginsApart
    <3>3. \A r \in R : r.key[4] = "phase6-v1"
      BY <1>6
    <3> QED
      BY <1>1, <3>1, <3>2, <3>3 DEF R
  <2> QED
    BY <1>2, <1>3, <1>4, <1>5, <2>1, <2>2 DEF ResultsAreWhole, C, D
<1>14. ASSUME NEW i \in DOMAIN accepted PROVE rel'[ProposalKey(accepted[i])] = rel[ProposalKey(accepted[i])]
  <2>1. /\ accepted[i] \in Submission /\ accepted[i].id = i /\ ProposalKey(accepted[i]) \in DOMAIN rel
        /\ ProposalKey(accepted[i])[4] # "phase6-v1"
    BY <1>5, <1>14, CorrelationAssumption DEF OriginsApart, ProposalKey
  <2>2. \A r \in R : r.key # ProposalKey(accepted[i])
    BY <1>6, <2>1
  <2> QED
    BY <1>1, <2>1, <2>2 DEF R
<1>15. ProposalIsReproducible'
  BY <1>4, <1>5, <1>14 DEF ProposalIsReproducible, ProposalKey
<1>16. LatestApplied'
  <2>1. latest' = job[w] /\ latest'.relationships = R /\ latest'.candidates = C /\ latest'.contradictions = D
    BY <1>4 DEF R, C, D
  <2>2. \A r \in R : r.key \in DOMAIN rel'
    BY <1>1 DEF R
  <2>3. \A r \in C : r.key \in DOMAIN cand'
    BY <1>2 DEF C
  <2>4. \A r \in D : r.key \in DOMAIN contra'
    BY <1>3 DEF D
  <2> QED
    BY <1>6, <1>7, <1>8, <2>1, <2>2, <2>3, <2>4 DEF LatestApplied
<1>17. EventsHaveReasons'
  BY <1>4, <1>5 DEF EventsHaveReasons
<1> QED
  BY <1>9, <1>10, <1>11, <1>12, <1>13, <1>15, <1>16, <1>17 DEF CorrelationInv

\* Accepting a proposal leaves what the rules found alone, and the other
\* proposals too: a key names the proposal it comes from.
LEMMA SubmitStep ==
    ASSUME CorrelationInv, NEW p \in Submission, SubmitProposal(p) PROVE CorrelationInv'
<1> DEFINE key == ProposalKey(p)
<1>1. /\ key[4] = p.id /\ p.id # "phase6-v1"
      /\ DOMAIN rel' = DOMAIN rel \cup {key} /\ rel' = [k \in DOMAIN rel' |-> rel'[k]]
      /\ \A k \in DOMAIN rel \ {key} : rel'[k] = rel[k]
      /\ RelationshipRow(rel'[key]) /\ rel'[key].model # None
      /\ rel'[key].review \in {"proposed", "reviewed"} /\ rel'[key].active = TRUE
      /\ rel'[key].confidence = p.confidence /\ p.evidence \subseteq rel'[key].evidence
  BY SubmitEffect
<1>2. /\ DOMAIN modelRun' = DOMAIN modelRun \cup {p.id}
      /\ modelRun'[p.id] = [output |-> p.confidence, evidence |-> p.evidence]
      /\ \A i \in DOMAIN modelRun \ {p.id} : modelRun'[i] = modelRun[i]
      /\ DOMAIN accepted' = DOMAIN accepted \cup {p.id} /\ accepted'[p.id] = p
      /\ \A i \in DOMAIN accepted \ {p.id} : accepted'[i] = accepted[i]
      /\ UNCHANGED <<ver, job, cand, contra, track, events, latest, done>>
  BY SubmitEffect
<1>3. /\ TypeOK /\ JobsSound /\ OriginsApart /\ ResultsAreWhole /\ ContradictionNamesItsValues
      /\ ProposalIsReproducible /\ LatestApplied /\ EventsHaveReasons
  BY DEF CorrelationInv
<1>4. \A i \in DOMAIN accepted \ {p.id} :
        ProposalKey(accepted[i]) \in DOMAIN rel /\ ProposalKey(accepted[i]) # key
  BY <1>1, <1>3 DEF OriginsApart, ProposalKey
<1>5. \A k : k[4] = "phase6-v1" => k # key
  BY <1>1
<1>6. ProposalKey(p)' = ProposalKey(p)
  BY DEF ProposalKey
<1> HIDE DEF key
<1>7. TypeOK'
  <2>1. \A k \in DOMAIN rel' : rel'[k].review \in {"proposed", "reviewed"} /\ rel'[k].active \in BOOLEAN
    BY <1>1, <1>3 DEF TypeOK
  <2> QED
    BY <1>1, <1>2, <1>3, <2>1 DEF TypeOK
<1>8. ContradictionNamesItsValues' /\ JobsSound' /\ EventsHaveReasons'
  BY <1>2, <1>3 DEF ContradictionNamesItsValues, JobsSound, EventsHaveReasons, Sound
<1>9. OriginsApart'
  <2>1. \A k \in DOMAIN rel' : RelationshipRow(rel'[k]) /\ (rel'[k].model = None <=> k[4] = "phase6-v1")
    BY <1>1, <1>3 DEF OriginsApart
  <2>2. ASSUME NEW i \in DOMAIN accepted'
        PROVE  accepted'[i] \in Submission /\ accepted'[i].id = i /\ ProposalKey(accepted'[i]) \in DOMAIN rel'
    <3>1. CASE i = p.id
      BY <1>1, <1>2, <3>1 DEF key
    <3>2. CASE i # p.id
      BY <1>1, <1>2, <1>3, <1>4, <2>2, <3>2 DEF OriginsApart
    <3> QED
      BY <3>1, <3>2
  <2> QED
    BY <2>1, <2>2 DEF OriginsApart, ProposalKey
<1>10. ResultsAreWhole'
  <2>1. \A k \in DOMAIN rel' : rel'[k].model = None <=> k[4] = "phase6-v1"
    BY <1>9 DEF OriginsApart
  <2>2. \A k \in DOMAIN rel : rel[k].model = None <=> k[4] = "phase6-v1"
    BY <1>3 DEF OriginsApart
  <2>3. {k \in DOMAIN rel' : rel'[k].model = None} = {k \in DOMAIN rel : rel[k].model = None}
    BY <1>1, <2>1, <2>2
  <2> QED
    BY <1>2, <1>3, <2>3 DEF ResultsAreWhole
<1>11. ProposalIsReproducible'
  <2>1. ASSUME NEW i \in DOMAIN accepted'
        PROVE  LET r == rel'[ProposalKey(accepted'[i])]
               IN /\ i \in DOMAIN modelRun'
                  /\ modelRun'[i].output = r.confidence /\ modelRun'[i].evidence \subseteq r.evidence
    <3>1. CASE i = p.id
      BY <1>1, <1>2, <3>1 DEF key
    <3>2. CASE i # p.id
      <4>1. i \in DOMAIN accepted /\ accepted'[i] = accepted[i] /\ i \in DOMAIN modelRun
        BY <1>2, <1>3, <2>1, <3>2 DEF ProposalIsReproducible
      <4>2. rel'[ProposalKey(accepted[i])] = rel[ProposalKey(accepted[i])]
        BY <1>1, <1>4, <3>2, <4>1
      <4>3. modelRun'[i] = modelRun[i] /\ i \in DOMAIN modelRun'
        BY <1>2, <3>2, <4>1
      <4> QED
        BY <1>3, <4>1, <4>2, <4>3 DEF ProposalIsReproducible
    <3> QED
      BY <3>1, <3>2
  <2> QED
    BY <2>1 DEF ProposalIsReproducible, ProposalKey
<1>12. LatestApplied'
  <2> SUFFICES ASSUME latest # None PROVE LatestApplied'
    BY <1>2 DEF LatestApplied
  <2>1. \A r \in latest.relationships : r.key # key /\ r.key \in DOMAIN rel
    BY <1>3, <1>5 DEF JobsSound, Sound, LatestApplied
  <2>2. \A r \in latest.relationships : rel'[r.key] = rel[r.key] /\ r.key \in DOMAIN rel'
    BY <1>1, <2>1
  <2> QED
    BY <1>2, <1>3, <2>2 DEF LatestApplied
<1> QED
  BY <1>7, <1>8, <1>9, <1>10, <1>11, <1>12 DEF CorrelationInv

\* The steps that leave the three tables and the proposals as they are.
LEMMA OtherStep ==
    ASSUME CorrelationInv, UNCHANGED <<tables, modelRun, track, latest, done, accepted>>,
           TypeOK', \A w \in Worker : job'[w] # None => Sound(job'[w]), DOMAIN job' = Worker,
           EventsHaveReasons'
    PROVE  CorrelationInv'
<1>1. UNCHANGED <<rel, cand, contra>>
  BY DEF tables
<1>2. JobsSound'
  BY DEF CorrelationInv, JobsSound, Sound
<1>3. ContradictionNamesItsValues' /\ ResultsAreWhole' /\ ProposalIsReproducible'
  BY <1>1 DEF CorrelationInv, ContradictionNamesItsValues, ResultsAreWhole, ProposalIsReproducible, ProposalKey
<1>4. OriginsApart' /\ LatestApplied'
  BY <1>1 DEF CorrelationInv, OriginsApart, LatestApplied, ProposalKey, RelationshipRow
<1> QED
  BY <1>2, <1>3, <1>4 DEF CorrelationInv

\* Every step of workers, callers and the detector keeps the invariant.
LEMMA CorrelationStep == CorrelationInv /\ [Next]_vars => CorrelationInv'
<1> SUFFICES ASSUME CorrelationInv, [Next]_vars PROVE CorrelationInv'
  OBVIOUS
<1>1. /\ TypeOK /\ JobsSound /\ EventsHaveReasons
      /\ \A v \in Worker : job[v] # None => Sound(job[v])
      /\ DOMAIN job = Worker /\ track \in Tracks
  BY DEF CorrelationInv, JobsSound
<1>2. ASSUME NEW e \in Entity, NewSnapshot(e) PROVE CorrelationInv'
  <2>1. UNCHANGED <<job, tables, modelRun, track, events, latest, done, accepted>>
    BY <1>2 DEF NewSnapshot, assessed
  <2>2. ver' \in [Entity -> Nat \ {0}] /\ \A x \in Entity : ver'[x] <= Len(Versions(x))
    BY <1>1, <1>2, CorrelationAssumption DEF NewSnapshot, TypeOK
  <2>3. TypeOK'
    BY <1>1, <2>1, <2>2 DEF TypeOK, tables
  <2>4. EventsHaveReasons'
    BY <1>1, <2>1 DEF EventsHaveReasons
  <2> QED
    BY <1>1, <2>1, <2>3, <2>4, OtherStep
<1>3. ASSUME NEW w \in Worker, PersistResult(w) PROVE CorrelationInv'
  BY <1>3, PersistStep
<1>4. ASSUME NEW w \in Worker, PersistFails(w) PROVE CorrelationInv'
  <2>1. /\ UNCHANGED <<ver, tables, modelRun, track, events, latest, done, accepted>>
        /\ job' = [job EXCEPT ![w] = None]
    BY <1>4 DEF PersistFails, assessed
  <2>2. \A v \in Worker : job'[v] # None => job'[v] = job[v]
    BY <1>1, <2>1
  <2>3. TypeOK'
    BY <1>1, <2>1, <2>2 DEF TypeOK, tables
  <2>4. EventsHaveReasons'
    BY <1>1, <2>1 DEF EventsHaveReasons
  <2>5. \A v \in Worker : job'[v] # None => Sound(job'[v])
    BY <1>1, <2>2
  <2>6. DOMAIN job' = Worker
    BY <1>1, <2>1
  <2> QED
    BY <2>1, <2>3, <2>4, <2>5, <2>6, OtherStep
<1>5. ASSUME NEW w \in Worker, NEW e \in Subject, Correlate(w, e) PROVE CorrelationInv'
  <2>1. /\ UNCHANGED <<ver, tables, modelRun, track, events, latest, done, accepted>>
        /\ job' = [job EXCEPT ![w] = Result(e)]
    BY <1>5 DEF Correlate, assessed
  <2>2. Sound(Result(e)) /\ Result(e).subject = e
    BY <1>1, ResultIsSound
  <2>3. \A v \in Worker : job'[v] = Result(e) \/ job'[v] = job[v]
    BY <1>1, <2>1
  <2>4. TypeOK'
    BY <1>1, <2>1, <2>2, <2>3 DEF TypeOK, tables
  <2>5. EventsHaveReasons'
    BY <1>1, <2>1 DEF EventsHaveReasons
  <2>6. \A v \in Worker : job'[v] # None => Sound(job'[v])
    BY <1>1, <2>2, <2>3
  <2>7. DOMAIN job' = Worker
    BY <1>1, <2>1
  <2> QED
    BY <2>1, <2>4, <2>5, <2>6, <2>7, OtherStep
<1>6. ASSUME NEW p \in Submission, SubmitProposal(p) PROVE CorrelationInv'
  BY <1>6, SubmitStep
<1>7. ASSUME NEW i \in DOMAIN track, Resurface(i) PROVE CorrelationInv'
  <2>1. /\ UNCHANGED <<ver, job, tables, modelRun, track, latest, done, accepted>>
        /\ events' = Put(events, <<i, i + 1>>, Reasons(track[i], track[i + 1]))
    BY <1>7 DEF Resurface
  <2>2. TypeOK'
    BY <1>1, <2>1 DEF TypeOK, tables
  <2>3. EventsHaveReasons'
    <3>1. ASSUME NEW j \in 1..Len(track) - 1, <<j, j + 1>> \in DOMAIN events'
          PROVE  events'[<<j, j + 1>>] = Reasons(track[j], track[j + 1])
      <4>1. CASE j = i
        BY <2>1, <4>1 DEF Put
      <4>2. CASE j # i
        <5>1. <<j, j + 1>> # <<i, i + 1>>
          BY <4>2
        <5>2. <<j, j + 1>> \in DOMAIN events /\ events'[<<j, j + 1>>] = events[<<j, j + 1>>]
          BY <2>1, <3>1, <5>1 DEF Put
        <5> QED
          BY <1>1, <3>1, <5>2 DEF EventsHaveReasons
      <4> QED
        BY <4>1, <4>2
    <3> QED
      BY <2>1, <3>1 DEF EventsHaveReasons, Reasons, KevAddition, Changed, Distance
  <2>4. DOMAIN job' = Worker /\ \A v \in Worker : job'[v] # None => Sound(job'[v])
    BY <1>1, <2>1
  <2> QED
    BY <2>1, <2>2, <2>3, <2>4, OtherStep
<1>8. CASE UNCHANGED vars
  <2>1. UNCHANGED <<ver, job, tables, modelRun, track, events, latest, done, accepted>>
    BY <1>8 DEF vars, assessed
  <2>2. TypeOK' /\ EventsHaveReasons'
    BY <1>1, <2>1 DEF TypeOK, EventsHaveReasons, tables
  <2> QED
    BY <1>1, <2>1, <2>2, OtherStep
<1> QED
  BY <1>2, <1>3, <1>4, <1>5, <1>6, <1>7, <1>8 DEF Next

\* The tables always hold what whole results and accepted proposals put there:
\* contradictions keep the name of their values, rolled back results are nowhere,
\* and proposals agree with their model run, however many workers correlate
\* from snapshots that are out of date when they persist.
THEOREM CorrelationInvariant == Spec => []CorrelationInv
<1>1. Init => CorrelationInv
  BY CorrelationInit
<1>2. CorrelationInv /\ [Next]_vars => CorrelationInv'
  BY CorrelationStep
<1> QED
  BY <1>1, <1>2, PTL DEF Spec

\* No step takes the evidence of an attribution away.
LEMMA AttributionStep ==
    CorrelationInv /\ AttributionHasEvidence /\ [Next]_vars => AttributionHasEvidence'
<1> SUFFICES ASSUME CorrelationInv, AttributionHasEvidence, [Next]_vars PROVE AttributionHasEvidence'
  OBVIOUS
<1>1. OriginsApart
  BY DEF CorrelationInv
<1>2. ASSUME NEW p \in Submission, SubmitProposal(p) PROVE AttributionHasEvidence'
  <2> DEFINE key == ProposalKey(p)
  <2>1. /\ \A k \in DOMAIN rel \ {key} : rel'[k] = rel[k]
        /\ p.evidence \subseteq rel'[key].evidence
        /\ DOMAIN accepted' = DOMAIN accepted \cup {p.id} /\ accepted'[p.id] = p
        /\ \A i \in DOMAIN accepted \ {p.id} : accepted'[i] = accepted[i]
    BY <1>2, SubmitEffect
  <2>2. p.actor => p.evidence # {}
    BY <1>2 DEF SubmitProposal, Admissible
  <2>3. \A i \in DOMAIN accepted \ {p.id} :
          ProposalKey(accepted[i]) \in DOMAIN rel /\ ProposalKey(accepted[i]) # key
    BY <1>1 DEF OriginsApart, ProposalKey
  <2> HIDE DEF key
  <2>4. ASSUME NEW i \in DOMAIN accepted', accepted'[i].actor
        PROVE  rel'[ProposalKey(accepted'[i])].evidence # {}
    <3>1. CASE i = p.id
      <4>1. accepted'[i] = p /\ p.actor
        BY <2>1, <2>4, <3>1
      <4> QED
        BY <2>1, <2>2, <4>1 DEF key
    <3>2. CASE i # p.id
      <4>1. i \in DOMAIN accepted \ {p.id} /\ accepted'[i] = accepted[i] /\ accepted[i].actor
        BY <2>1, <2>4, <3>2
      <4>2. rel'[ProposalKey(accepted[i])] = rel[ProposalKey(accepted[i])]
        BY <2>1, <2>3, <4>1
      <4> QED
        BY <4>1, <4>2 DEF AttributionHasEvidence
    <3> QED
      BY <3>1, <3>2
  <2> QED
    BY <2>4 DEF AttributionHasEvidence, ProposalKey
<1>3. ASSUME NEW w \in Worker, PersistResult(w) PROVE AttributionHasEvidence'
  <2> DEFINE R == job[w].relationships
  <2>1. /\ Sound(job[w]) /\ \A k \in DOMAIN rel : (\A r \in R : r.key # k) => rel'[k] = rel[k]
    BY <1>3, PersistEffect
  <2>2. accepted' = accepted
    BY <1>3 DEF PersistResult
  <2>3. \A i \in DOMAIN accepted :
          ProposalKey(accepted[i]) \in DOMAIN rel /\ ProposalKey(accepted[i])[4] # "phase6-v1"
    BY <1>1, CorrelationAssumption DEF OriginsApart, ProposalKey
  <2>4. \A r \in R : r.key[4] = "phase6-v1"
    BY <2>1 DEF Sound
  <2> HIDE DEF R
  <2>5. \A i \in DOMAIN accepted : rel'[ProposalKey(accepted[i])] = rel[ProposalKey(accepted[i])]
    BY <2>1, <2>3, <2>4
  <2> QED
    BY <2>2, <2>5 DEF AttributionHasEvidence, ProposalKey
<1>4. CASE UNCHANGED <<rel, accepted>>
  BY <1>4 DEF AttributionHasEvidence, ProposalKey
<1>5. \/ \E p \in Submission : SubmitProposal(p)
      \/ \E w \in Worker : PersistResult(w)
      \/ UNCHANGED <<rel, accepted>>
  BY DEF Next, vars, tables, NewSnapshot, PersistFails, Correlate, Resurface
<1> QED
  BY <1>2, <1>3, <1>4, <1>5

\* Whatever is submitted again under the same proposal id and whatever is
\* correlated meanwhile, a stored attribution to an actor has evidence rows.
THEOREM AttributionsHaveEvidence == Spec => []AttributionHasEvidence
<1>1. Init => AttributionHasEvidence
  BY DEF Init, AttributionHasEvidence
<1> QED
  BY <1>1, AttributionStep, CorrelationInvariant, PTL DEF Spec

\* Merging a relationship with what it already says gives the same row.
LEMMA MergeRepeats ==
    ASSUME NEW k \in DOMAIN rel, NEW q, RelationshipRow(rel[k]),
           rel[k].confidence = q.row.confidence, rel[k].last = q.row.last,
           rel[k].active = q.row.active, rel[k].review = q.row.review,
           q.row.evidence \subseteq rel[k].evidence
    PROVE  MergedRelationship(k, q) = rel[k]
<1>1. rel[k].evidence \cup q.row.evidence = rel[k].evidence
  OBVIOUS
<1>2. rel[k] = [id |-> rel[k].id, confidence |-> rel[k].confidence, first |-> rel[k].first,
                last |-> rel[k].last, review |-> rel[k].review, active |-> rel[k].active,
                model |-> rel[k].model, evidence |-> rel[k].evidence]
  BY DEF RelationshipRow
<1> QED
  BY <1>1, <1>2 DEF MergedRelationship

\* Persisting the result that was persisted last leaves the tables alone.
LEMMA RepeatKeepsTables ==
    ASSUME CorrelationInv, NEW w \in Worker, PersistResult(w), job[w] = latest
    PROVE  UNCHANGED tables
<1> DEFINE R == job[w].relationships
           C == job[w].candidates
           D == job[w].contradictions
<1>1. /\ DOMAIN rel' = DOMAIN rel \cup {r.key : r \in R}
      /\ \A r \in R : rel'[r.key] = MergedRelationship(r.key, Picked(R, r.key))
      /\ \A k \in DOMAIN rel : (\A r \in R : r.key # k) => rel'[k] = rel[k]
      /\ rel' = [k \in DOMAIN rel' |-> rel'[k]]
  BY PersistEffect
<1>2. /\ DOMAIN cand' = DOMAIN cand \cup {r.key : r \in C}
      /\ \A r \in C : cand'[r.key] = Picked(C, r.key).row
      /\ \A k \in DOMAIN cand : (\A r \in C : r.key # k) => cand'[k] = cand[k]
      /\ cand' = [k \in DOMAIN cand' |-> cand'[k]]
  BY PersistEffect
<1>3. /\ DOMAIN contra' = DOMAIN contra \cup {r.key : r \in D}
      /\ \A r \in D : contra'[r.key] = Picked(D, r.key).row
      /\ \A k \in DOMAIN contra : (\A r \in D : r.key # k) => contra'[k] = contra[k]
      /\ contra' = [k \in DOMAIN contra' |-> contra'[k]]
  BY PersistEffect
<1>4. /\ rel = [k \in DOMAIN rel |-> rel[k]] /\ cand = [k \in DOMAIN cand |-> cand[k]]
      /\ contra = [k \in DOMAIN contra |-> contra[k]]
      /\ \A k \in DOMAIN rel : RelationshipRow(rel[k])
  BY DEF CorrelationInv, TypeOK, OriginsApart
<1>5. latest # None /\ latest.relationships = R /\ latest.candidates = C /\ latest.contradictions = D
  BY DEF PersistResult
<1>6. /\ \A r \in R : LET row == Picked(R, r.key).row
                          now == rel[r.key]
                      IN /\ r.key \in DOMAIN rel
                         /\ now.confidence = row.confidence /\ now.last = row.last
                         /\ now.active = row.active /\ now.review = row.review
                         /\ row.evidence \subseteq now.evidence
      /\ \A r \in C : r.key \in DOMAIN cand /\ cand[r.key] = Picked(C, r.key).row
      /\ \A r \in D : r.key \in DOMAIN contra /\ contra[r.key] = Picked(D, r.key).row
  BY <1>5 DEF CorrelationInv, LatestApplied
<1> HIDE DEF R, C, D
<1>7. rel' = rel
  <2>1. ASSUME NEW r \in R PROVE r.key \in DOMAIN rel /\ rel'[r.key] = rel[r.key]
    BY <1>1, <1>4, <1>6, MergeRepeats
  <2>2. DOMAIN rel' = DOMAIN rel
    BY <1>1, <2>1
  <2>3. \A k \in DOMAIN rel : rel'[k] = rel[k]
    BY <1>1, <2>1
  <2> QED
    BY <1>1, <1>4, <2>2, <2>3
<1>8. cand' = cand
  <2>1. DOMAIN cand' = DOMAIN cand
    BY <1>2, <1>6
  <2>2. \A k \in DOMAIN cand : cand'[k] = cand[k]
    BY <1>2, <1>6
  <2> QED
    BY <1>2, <1>4, <2>1, <2>2
<1>9. contra' = contra
  <2>1. DOMAIN contra' = DOMAIN contra
    BY <1>3, <1>6
  <2>2. \A k \in DOMAIN contra : contra'[k] = contra[k]
    BY <1>3, <1>6
  <2> QED
    BY <1>3, <1>4, <2>1, <2>2
<1> QED
  BY <1>7, <1>8, <1>9 DEF tables

\* CorrelationRepository is idempotent: persisting what was persisted last once
\* more changes no table, whichever worker does it and whatever was proposed in
\* between.
THEOREM RepeatIsIdempotent == Spec => RepeatChangesNothing
<1> DEFINE Repeat == \A w \in Worker : job[w] # None /\ job[w] = latest /\ job'[w] = None => UNCHANGED tables
<1>1. CorrelationInv /\ [Next]_vars => [Repeat]_vars
  <2> SUFFICES ASSUME CorrelationInv, Next, NEW w \in Worker, job[w] # None, job[w] = latest, job'[w] = None
               PROVE  UNCHANGED tables
    BY Zenon
  <2>1. DOMAIN job = Worker
    BY DEF CorrelationInv, JobsSound
  <2>2. ASSUME NEW v \in Worker, PersistResult(v) PROVE UNCHANGED tables
    <3>1. v = w
      BY <2>1, <2>2 DEF PersistResult
    <3> QED
      BY <2>2, <3>1, RepeatKeepsTables
  <2>3. ASSUME NEW p \in Submission, SubmitProposal(p) PROVE FALSE
    BY <2>3 DEF SubmitProposal
  <2>4. ASSUME NEW v \in Worker, PersistFails(v) PROVE UNCHANGED tables
    BY <2>4 DEF PersistFails, tables
  <2>5. ASSUME NEW v \in Worker, NEW e \in Subject, Correlate(v, e) PROVE UNCHANGED tables
    BY <2>5 DEF Correlate, tables
  <2>6. ASSUME NEW e \in Entity, NewSnapshot(e) PROVE UNCHANGED tables
    BY <2>6 DEF NewSnapshot, tables
  <2>7. ASSUME NEW i \in DOMAIN track, Resurface(i) PROVE UNCHANGED tables
    BY <2>7 DEF Resurface, tables
  <2> QED
    BY <2>2, <2>3, <2>4, <2>5, <2>6, <2>7 DEF Next
<1> QED
  BY <1>1, CorrelationInvariant, PTL DEF Spec, RepeatChangesNothing

-----------------------------------------------------------------------------
(* Resurfacing.                                                            *)

\* A history that ends exploited and did not begin so has a first assessment
\* that says so, and the one before it does not.
LEMMA FirstExploited ==
    ASSUME NEW t \in Tracks, t[1].exploited # "yes", t[Len(t)].exploited = "yes"
    PROVE  \E i \in 1..Len(t) - 1 : KevAddition(t[i], t[i + 1])
<1>1. Len(t) \in Nat \ {0}
  BY CorrelationAssumption
<1> DEFINE T == {n \in 1..Len(t) : t[n].exploited = "yes"}
<1>2. T \in SUBSET Nat /\ Len(t) \in T
  BY <1>1
<1>3. PICK x \in T : \A y \in T : x <= y
  BY <1>2, LeastNatural
<1>4. x \in 1..Len(t) /\ t[x].exploited = "yes" /\ x # 1
  BY <1>3
<1>5. x - 1 \in 1..Len(t) - 1 /\ (x - 1) + 1 = x
  BY <1>1, <1>4
<1>6. x - 1 \notin T
  BY <1>3, <1>4
<1>7. t[x - 1].exploited # "yes"
  BY <1>1, <1>5, <1>6
<1>8. KevAddition(t[x - 1], t[(x - 1) + 1])
  BY <1>4, <1>5, <1>7 DEF KevAddition
<1> QED
  BY <1>5, <1>8

\* An entity that becomes known to be exploited, also over assessments that could
\* not tell, resurfaces for that reason once every pair has been looked at, for
\* histories of any length.
THEOREM KevAdditionsResurface == Spec => []KevNeverMissed
<1>1. CorrelationInv => KevNeverMissed
  <2> SUFFICES ASSUME CorrelationInv,
                      \A i \in 1..Len(track) - 1 :
                        Reasons(track[i], track[i + 1]) = {} \/ <<i, i + 1>> \in DOMAIN events,
                      track[1].exploited # "yes", track[Len(track)].exploited = "yes"
               PROVE  \E k \in DOMAIN events : "kev_addition" \in events[k]
    BY DEF KevNeverMissed
  <2>1. PICK i \in 1..Len(track) - 1 : KevAddition(track[i], track[i + 1])
    BY FirstExploited DEF CorrelationInv, JobsSound
  <2>2. "kev_addition" \in Reasons(track[i], track[i + 1])
    BY <2>1 DEF Reasons
  <2>3. <<i, i + 1>> \in DOMAIN events
    BY <2>2
  <2>4. events[<<i, i + 1>>] = Reasons(track[i], track[i + 1])
    BY <2>3 DEF CorrelationInv, EventsHaveReasons
  <2> QED
    BY <2>2, <2>3, <2>4
<1> QED
  BY <1>1, CorrelationInvariant, PTL

-----------------------------------------------------------------------------
(* The gate of a provider.                                                 *)

\* The delay before a retry and the cooldown after a 429 are natural numbers.
LEMMA DelayTypes ==
    ASSUME GateInv, NEW header \in Headers
    PROVE  Delay(header) \in Nat /\ CooldownOf(header) \in Nat
<1>1. attempt \in 0..MaxRetries
  BY GateAssumption DEF GateInv, GateTypeOK
<1>2. header[2] \in Nat
  <2>1. CASE header \in {"seconds"} \X RetryAfter
    BY <2>1, GateAssumption
  <2>2. CASE header \in {"date"} \X RetryDate
    BY <2>2, GateAssumption
  <2>3. CASE header = <<"none", 0>>
    BY <2>3
  <2> QED
    BY <2>1, <2>2, <2>3 DEF Headers
<1> QED
  BY <1>1, <1>2, GateAssumption DEF Delay, CooldownOf

\* An answer of the service is well typed and as old as its status allows.
LEMMA DegradeAnswers ==
    ASSUME GateInv, NEW status \in {"unavailable", "disabled"}, Degrade(status)
    PROVE  /\ answer' \in Answers /\ pc' = "idle"
           /\ AnswerAgeBounded'
<1>1. /\ clock \in 0..MaxClock /\ stamp \in 0..MaxClock /\ cve \in Cve /\ cache[cve] \in 0..Never
      /\ MaxClock \in Nat
  BY GateAssumption DEF GateInv, GateTypeOK
<1>2. CASE Stale(cve)
  BY <1>1, <1>2, GateAssumption DEF Degrade, Answer, Answers, AnswerAgeBounded, Stale
<1>3. CASE ~Stale(cve)
  BY <1>1, <1>3, GateAssumption DEF Degrade, Answer, Answers, AnswerAgeBounded, Never
<1> QED
  BY <1>2, <1>3

\* A provider that was never asked satisfies the invariant.
LEMMA GateInit == ProviderInit => GateInv
<1> SUFFICES ASSUME ProviderInit PROVE GateInv
  OBVIOUS
<1>1. GateTypeOK
  <2>1. enabled \in BOOLEAN
    BY Zenon DEF ProviderInit
  <2>2. answer \in Answers \cup {NoAnswer}
    BY DEF ProviderInit
  <2>3. /\ clock \in 0..MaxClock /\ stamp \in 0..clock /\ attempt \in 0..retries
        /\ cache \in [Cve -> 0..Never] /\ sends \in (0..Never) \X (0..Never)
    BY GateAssumption DEF ProviderInit, Never
  <2> QED
    BY <2>1, <2>2, <2>3, GateAssumption DEF ProviderInit, GateTypeOK
<1>2. AnswerAgeBounded /\ GateEndsWithRefusal /\ MinIntervalKept /\ GateTiming
  BY GateAssumption DEF ProviderInit, AnswerAgeBounded, GateEndsWithRefusal, MinIntervalKept, GateTiming,
                        NoAnswer, Never
<1> QED
  BY <1>1, <1>2 DEF GateInv

\* Every step keeps the answers honest, the gate within the refusal and the
\* requests apart; the cases are the operations of the service and the replies.
LEMMA GateStep == GateInv /\ [ProviderNext]_providerVars => GateInv'
<1> SUFFICES ASSUME GateInv, [ProviderNext]_providerVars PROVE GateInv'
  OBVIOUS
<1> USE GateAssumption
<1>t. /\ clock \in Nat /\ clock <= MaxClock /\ stamp \in Nat /\ stamp <= clock /\ cve \in Cve
      /\ attempt \in Nat /\ retries \in Nat /\ wake \in Nat /\ lastRequest \in Nat
      /\ cooldown \in Nat /\ refusal \in Nat /\ failures \in Nat /\ Never = MaxClock + 1
      /\ sends[1] \in 0..Never /\ sends[2] \in 0..Never /\ cache[cve] \in 0..Never
  BY DEF GateInv, GateTypeOK, Never
<1>1. CASE UNCHANGED providerVars
  BY <1>1 DEF providerVars, gateVars, history, GateInv, GateTypeOK, AnswerAgeBounded, GateEndsWithRefusal,
              MinIntervalKept, GateTiming, Stale, Fresh
<1>2. CASE Request
  <2>1. GateTypeOK'
    BY <1>2, <1>t DEF Request, GateInv, GateTypeOK, gateVars, history
  <2>2. AnswerAgeBounded' /\ GateEndsWithRefusal' /\ MinIntervalKept'
    BY <1>2 DEF Request, GateInv, AnswerAgeBounded, GateEndsWithRefusal, MinIntervalKept, gateVars, history
  <2>3. GateTiming'
    BY <1>2, <1>t DEF Request, GateInv, GateTiming, gateVars, history
  <2> QED
    BY <2>1, <2>2, <2>3 DEF GateInv
<1>3. ASSUME answer' \in Answers, pc' = "idle", AnswerAgeBounded',
             UNCHANGED <<clock, cve, stamp, attempt, wake, gateVars, cache, history>>
      PROVE  GateInv'
  <2>1. GateTypeOK'
    BY <1>3 DEF GateInv, GateTypeOK, gateVars, history
  <2>2. GateEndsWithRefusal' /\ MinIntervalKept' /\ GateTiming'
    BY <1>3 DEF GateInv, GateEndsWithRefusal, MinIntervalKept, GateTiming, gateVars, history
  <2> QED
    BY <1>3, <2>1, <2>2 DEF GateInv
<1>4. CASE FromCache
  <2>1. answer' \in Answers /\ pc' = "idle" /\ AnswerAgeBounded'
    BY <1>4, <1>t DEF FromCache, Answer, Answers, Fresh, AnswerAgeBounded
  <2> QED
    BY <1>3, <1>4, <2>1 DEF FromCache
<1>5. CASE ProviderDisabled \/ RejectedByCooldown
  BY <1>3, <1>5, DegradeAnswers DEF ProviderDisabled, RejectedByCooldown
<1>6. CASE Admit
  <2>0. wake' = PauseUntil /\ pc = "queued" /\ pc' = "pacing" /\ ~InCooldown
        /\ UNCHANGED <<clock, cve, stamp, attempt, gateVars, cache, answer, history>>
    BY <1>6 DEF Admit
  <2>1. /\ wake' \in Nat /\ clock <= wake' /\ lastRequest + MinInterval <= wake'
        /\ wake' <= clock + MinInterval
    BY <1>t, <2>0 DEF PauseUntil, GateInv, GateTiming
  <2>2. cooldown <= stamp /\ clock <= stamp + MaxLag
    BY <1>t, <2>0 DEF InCooldown, GateInv, GateTiming
  <2>3. GateTypeOK'
    BY <2>0, <2>1 DEF GateInv, GateTypeOK, gateVars, history
  <2>4. AnswerAgeBounded' /\ GateEndsWithRefusal' /\ MinIntervalKept'
    BY <2>0 DEF GateInv, AnswerAgeBounded, GateEndsWithRefusal, MinIntervalKept, gateVars, history
  <2>5. GateTiming'
    BY <1>t, <2>0, <2>1, <2>2 DEF GateInv, GateTiming, gateVars, history
  <2> QED
    BY <2>3, <2>4, <2>5 DEF GateInv
<1>7. CASE Dispatch
  <2>0. /\ pc = "pacing" /\ clock >= wake /\ lastRequest' = clock /\ attempt' = 0 /\ pc' = "sent"
        /\ sends' = <<clock, sends[1]>>
        /\ UNCHANGED <<clock, cve, stamp, wake, enabled, retries, cooldown, failures, lastError,
                       cache, answer, refusal>>
    BY <1>7 DEF Dispatch, Sent
  <2>1. sends'[1] = clock /\ sends'[2] = sends[1] /\ sends' \in (0..Never) \X (0..Never)
    BY <1>t, <2>0
  <2>2. GateTypeOK'
    BY <1>t, <2>0, <2>1 DEF GateInv, GateTypeOK
  <2>3. AnswerAgeBounded' /\ GateEndsWithRefusal'
    BY <2>0 DEF GateInv, AnswerAgeBounded, GateEndsWithRefusal
  <2>4. MinIntervalKept'
    BY <1>t, <2>0, <2>1 DEF GateInv, GateTiming, MinIntervalKept
  <2>5. GateTiming'
    BY <1>t, <2>0, <2>1 DEF GateInv, GateTiming
  <2> QED
    BY <2>2, <2>3, <2>4, <2>5 DEF GateInv
<1>8. CASE Succeed
  <2>0. /\ pc' = "idle" /\ failures' = 0 /\ lastError' = "none" /\ cache' = [cache EXCEPT ![cve] = stamp]
        /\ answer' = [status |-> "success", cve |-> cve, at |-> stamp, data |-> stamp]
        /\ UNCHANGED <<clock, cve, stamp, attempt, wake, enabled, retries, lastRequest, cooldown,
                       sends, refusal>>
    BY <1>8 DEF Succeed, Answer, history
  <2>1. answer' \in Answers /\ AnswerAgeBounded'
    BY <1>t, <2>0 DEF Answers, AnswerAgeBounded
  <2>2. GateTypeOK'
    BY <1>t, <2>0, <2>1 DEF GateInv, GateTypeOK
  <2>3. GateEndsWithRefusal' /\ MinIntervalKept' /\ GateTiming'
    BY <2>0 DEF GateInv, GateEndsWithRefusal, MinIntervalKept, GateTiming
  <2> QED
    BY <2>1, <2>2, <2>3 DEF GateInv
<1>9. ASSUME NEW error \in Errors, pc = "sent", Fail(error), cooldown' \in Nat, refusal' \in Nat,
             cooldown' <= refusal', retries = 0 => refusal' <= cooldown' + 2 * MaxLag + MinInterval
      PROVE  GateInv'
  <2>0. /\ failures' = failures + 1 /\ lastError' = error
        /\ answer' \in Answers /\ pc' = "idle" /\ AnswerAgeBounded'
        /\ UNCHANGED <<clock, cve, stamp, attempt, wake, enabled, retries, lastRequest, cache, sends>>
    BY <1>9, DegradeAnswers DEF Fail
  <2>1. GateTypeOK'
    BY <1>9, <1>t, <2>0 DEF GateInv, GateTypeOK
  <2>2. GateEndsWithRefusal' /\ MinIntervalKept' /\ GateTiming'
    BY <1>9, <2>0 DEF GateInv, GateEndsWithRefusal, MinIntervalKept, GateTiming
  <2> QED
    BY <2>0, <2>1, <2>2 DEF GateInv
<1>10. ASSUME NEW header \in Headers, Retry(header), refusal' \in Nat, cooldown <= refusal'
       PROVE  GateInv'
  <2>0. /\ pc = "sent" /\ attempt < retries /\ wake' = clock + Delay(header) /\ pc' = "retrying"
        /\ UNCHANGED <<clock, cve, stamp, attempt, enabled, retries, lastRequest, cooldown,
                       failures, lastError, cache, answer, sends>>
    BY <1>10 DEF Retry, gateVars
  <2>1. wake' \in Nat /\ retries # 0
    BY <1>t, <2>0, DelayTypes
  <2>2. GateTypeOK'
    BY <1>10, <2>0, <2>1 DEF GateInv, GateTypeOK
  <2>3. AnswerAgeBounded' /\ GateEndsWithRefusal' /\ MinIntervalKept' /\ GateTiming'
    BY <1>10, <2>0, <2>1 DEF GateInv, AnswerAgeBounded, GateEndsWithRefusal, MinIntervalKept, GateTiming
  <2> QED
    BY <2>2, <2>3 DEF GateInv
<1>11. CASE RateLimited
  <2>1. PICK header \in Headers :
          /\ pc = "sent" /\ refusal' = clock + CooldownOf(header)
          /\ \/ Retry(header)
             \/ /\ attempt = retries /\ cooldown' = stamp + CooldownOf(header) /\ Fail("rate_limit")
    BY <1>11 DEF RateLimited
  <2> DEFINE d == CooldownOf(header)
  <2>2. d \in Nat
    BY DelayTypes
  <2>3. refusal' = clock + d
    BY <2>1
  <2> HIDE DEF d
  <2>4. CASE Retry(header)
    <3>1. cooldown <= refusal'
      BY <1>t, <2>1, <2>2, <2>3 DEF GateInv, GateTiming
    <3> QED
      BY <1>10, <1>t, <2>2, <2>3, <2>4, <3>1
  <2>5. CASE attempt = retries /\ cooldown' = stamp + d /\ Fail("rate_limit")
    <3>1. retries = 0 => clock <= stamp + 2 * MaxLag + MinInterval
      BY <1>t, <2>1 DEF GateInv, GateTiming
    <3>2. /\ cooldown' \in Nat /\ refusal' \in Nat /\ cooldown' <= refusal'
          /\ retries = 0 => refusal' <= cooldown' + 2 * MaxLag + MinInterval
      BY <1>t, <2>2, <2>3, <2>5, <3>1
    <3> QED
      BY <1>9, <2>1, <2>5, <3>2 DEF Errors
  <2> QED
    BY <2>1, <2>4, <2>5 DEF d
<1>12. /\ cooldown <= refusal /\ (retries = 0 => refusal <= cooldown + 2 * MaxLag + MinInterval)
  BY DEF GateInv, GateEndsWithRefusal, GateTiming
<1>13. CASE Transient \/ Permanent
  <2>1. refusal' = refusal
    BY <1>13 DEF Transient, Permanent
  <2>2. ASSUME NEW header \in Headers, Retry(header) PROVE GateInv'
    BY <1>10, <1>12, <1>t, <2>1, <2>2
  <2>3. ASSUME NEW error \in Errors, pc = "sent", Fail(error), cooldown' = cooldown PROVE GateInv'
    BY <1>9, <1>12, <1>t, <2>1, <2>3
  <2> QED
    BY <1>13, <2>2, <2>3 DEF Transient, Permanent, Errors
<1>14. CASE Resend
  <2>0. /\ pc = "retrying" /\ attempt' = attempt + 1 /\ pc' = "sent" /\ sends' = <<clock, sends[1]>>
        /\ UNCHANGED <<clock, cve, stamp, wake, enabled, retries, lastRequest, cooldown, failures,
                       lastError, cache, answer, refusal>>
    BY <1>14 DEF Resend, Sent, gateVars
  <2>1. /\ sends'[1] = clock /\ sends' \in (0..Never) \X (0..Never)
        /\ attempt' \in 0..retries /\ retries # 0
    BY <1>t, <2>0 DEF GateInv, GateTiming
  <2>2. GateTypeOK'
    BY <2>0, <2>1 DEF GateInv, GateTypeOK
  <2>3. AnswerAgeBounded' /\ GateEndsWithRefusal' /\ MinIntervalKept' /\ GateTiming'
    BY <1>t, <2>0, <2>1 DEF GateInv, AnswerAgeBounded, GateEndsWithRefusal, MinIntervalKept, GateTiming
  <2> QED
    BY <2>2, <2>3 DEF GateInv
<1>15. CASE Tick
  <2>0. /\ clock < MaxClock /\ clock' = clock + 1
        /\ pc = "queued" => clock < stamp + MaxLag
        /\ pc = "sent" => clock < sends[1] + MaxLag
        /\ pc \in {"pacing", "retrying"} => clock < wake
        /\ UNCHANGED <<pc, cve, stamp, attempt, wake, enabled, retries, lastRequest, cooldown,
                       failures, lastError, cache, answer, sends, refusal>>
    BY <1>15 DEF Tick, gateVars, history
  <2>1. clock' \in 0..MaxClock /\ stamp \in 0..clock'
    BY <1>t, <2>0
  <2>2. GateTypeOK'
    BY <2>0, <2>1 DEF GateInv, GateTypeOK
  <2>3. AnswerAgeBounded' /\ GateEndsWithRefusal' /\ MinIntervalKept'
    BY <2>0 DEF GateInv, AnswerAgeBounded, GateEndsWithRefusal, MinIntervalKept
  <2>4. GateTiming'
    BY <1>t, <2>0 DEF GateInv, GateTiming
  <2> QED
    BY <2>2, <2>3, <2>4 DEF GateInv
<1> QED
  BY <1>1, <1>2, <1>4, <1>5, <1>6, <1>7, <1>8, <1>11, <1>13, <1>14, <1>15 DEF ProviderNext

\* Whatever a provider replies, and however long requests queue: no response is
\* older than its status claims, the gate never outlives the refusal it stands
\* for, and without HTTP retries requests keep the minimum interval.
THEOREM GateInvariant == ProviderSpec => []GateInv
  BY GateInit, GateStep, PTL DEF ProviderSpec

\* Without HTTP retries, no request is sent before the cooldown of the last 429
\* but for the time the refused request itself was on its way.
THEOREM CooldownIsRespected == ProviderSpec => CooldownNearlyRespected
<1>1. GateInv /\ [ProviderNext]_providerVars =>
        [retries = 0 /\ pc # "sent" /\ pc' = "sent" => clock + 2 * MaxLag + MinInterval >= refusal]_providerVars
  <2> SUFFICES ASSUME GateInv, ProviderNext, retries = 0, pc # "sent", pc' = "sent"
               PROVE  clock + 2 * MaxLag + MinInterval >= refusal
    OBVIOUS
  <2>1. Dispatch \/ Resend
    BY DEF ProviderNext, Request, FromCache, ProviderDisabled, RejectedByCooldown, Degrade, Answer, Admit,
           Succeed, RateLimited, Retry, Fail, Transient, Permanent, Tick
  <2>2. ~Resend
    BY DEF GateInv, GateTypeOK, GateTiming, Resend
  <2>3. cooldown <= stamp
    BY <2>1, <2>2 DEF Dispatch, GateInv, GateTiming
  <2> QED
    BY <2>3, GateAssumption DEF GateInv, GateTypeOK, GateTiming
<1> QED
  BY <1>1, GateInvariant, PTL DEF ProviderSpec, CooldownNearlyRespected
===============================================================================
