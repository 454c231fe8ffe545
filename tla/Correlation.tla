----------------------------- MODULE Correlation -----------------------------
(***************************************************************************)
(* Historical correlation: CorrelationEngine compares snapshots of         *)
(* entities, CorrelationRepository upserts what it finds by natural key,   *)
(* model proposals become relationships, and ResurfacingDetector turns     *)
(* pairs of assessments into events.                                       *)
(*                                                                         *)
(* A correlation is computed from the snapshots of one moment and          *)
(* persisted, in one transaction, at a later one; several may be under     *)
(* way. Identifiers are uuid5 of what the code passes to _stable_id and    *)
(* stand here for exactly that tuple.                                      *)
(***************************************************************************)
EXTENDS Integers, Sequences, FiniteSets, FiniteSetsExt

CONSTANTS
    Entity,
    Subject,            \* the entities that correlations are run for
    Versions(_),        \* the successive CorrelationEntity snapshots of an entity
    ExactRule,          \* attributes of _exact_rules
    Lead,               \* attributes of _candidate_fields
    Base(_),            \* confidence or base score of an attribute, in hundredths
    Window,             \* the 180 days of _overlap_or_near
    Worker,
    Submission,         \* model proposals that may be submitted, also again
    Tracks,             \* the sequences of AssessmentSnapshots an entity may have
    EpssDelta, CvssDelta,
    None

ASSUME CorrelationAssumption ==
    /\ Subject \subseteq Entity /\ Window \in Nat
    /\ EpssDelta \in Nat \ {0} /\ CvssDelta \in Nat \ {0}
    /\ \A a \in Lead : Base(a) \in 0..100
    /\ \A e \in Entity :
        /\ Len(Versions(e)) \in Nat \ {0} /\ DOMAIN Versions(e) = 1..Len(Versions(e))
        /\ \A i \in DOMAIN Versions(e) :
            /\ \A l \in Lead : IsFiniteSet(Versions(e)[i].names[l])
            /\ \A x \in Versions(e)[i].similar : x.score \in 0..100
    /\ \A p \in Submission : p.model # None /\ p.id # "phase6-v1"
    /\ \A t \in Tracks : Len(t) \in Nat \ {0} /\ DOMAIN t = 1..Len(t)

VARIABLES
    ver,         \* per entity: how many of its snapshots have appeared
    job,         \* per worker: the result it is about to persist
    rel,         \* table relationship, by natural key
    cand,        \* table correlation_candidate, by natural key
    contra,      \* table correlation_contradiction, by natural key
    modelRun,    \* table model_run, by proposal
    track,       \* the AssessmentSnapshots of one entity
    events,      \* table resurfacing_event, by pair of assessments
    latest,      \* history: the result persisted last
    done,        \* history: the natural keys of all the results persisted
    accepted     \* history: per proposal id, the submission stored last

tables == <<rel, cand, contra>>
assessed == <<track, events>>
vars == <<ver, job, tables, modelRun, assessed, latest, done, accepted>>

Snap(e) == Versions(e)[ver[e]]

Init ==
    /\ ver = [e \in Entity |-> 1]
    /\ job = [w \in Worker |-> None]
    /\ rel = <<>> /\ cand = <<>> /\ contra = <<>> /\ modelRun = <<>> /\ events = <<>> /\ track \in Tracks
    /\ latest = None /\ done = {} /\ accepted = <<>>

-----------------------------------------------------------------------------
(* The engine.                                                             *)

\* _bounds; None stands for an entity that was never dated.
First(s, p) == LET d == {s.first, p.first} \ {None} IN IF d = {} THEN None ELSE Min(d)
Last(s, p) == LET d == {s.last, p.last} \ {None} IN IF d = {} THEN None ELSE Max(d)

OverlapOrNear(s, p) ==
    /\ s.first # None /\ p.first # None
    /\ LET until(x) == IF x.last = None THEN x.first ELSE x.last
       IN Max({s.first, p.first}) <= Min({until(s), until(p)}) + Window

\* Rows are records with their natural key, so that a table is a function of it.
ExactRelationships(e, o, s, p) ==
    {[key |-> <<e, a, o, "phase6-v1">>,
      row |-> [id |-> <<e, a, o>>, confidence |-> Base(a), first |-> First(s, p),
               last |-> Last(s, p), review |-> "reviewed", active |-> TRUE, model |-> None,
               evidence |-> s.evidence \cup p.evidence]] :
        a \in {r \in ExactRule : s.keys[r] \cap p.keys[r] # {}}}

LeadScore(a, n) == Min({100, Base(a) + Min({15, 3 * (n - 1)})})

Candidate(e, o, type, score, evidence) ==
    [key |-> <<e, o, type>>, row |-> [id |-> <<e, o, type>>, score |-> score, evidence |-> evidence]]

Candidates(e, o, s, p) ==
    LET both == s.evidence \cup p.evidence
    IN {Candidate(e, o, a, LeadScore(a, Cardinality(s.names[a] \cap p.names[a])), both) :
            a \in {l \in Lead : s.names[l] \cap p.names[l] # {}}}
       \cup (IF OverlapOrNear(s, p) THEN {Candidate(e, o, "temporal", 30, both)} ELSE {})
       \cup {Candidate(e, o, "semantic", x.score, both \cup x.evidence) :
               x \in {y \in s.similar : y.to = o /\ \A z \in s.similar : z.to = o => z.score <= y.score}}

\* Claims that the subject and the history together give two values.
Asserted(snaps, k) == {a \in UNION {s.asserts : s \in snaps} : a.claim = k}

Contradictions(e, snaps) ==
    LET claims == {a.claim : a \in UNION {s.asserts : s \in snaps}}
        values(k) == {a.value : a \in Asserted(snaps, k)}
    IN {[key |-> <<e, k>>,
         row |-> [id |-> <<e, k, values(k)>>, values |-> values(k),
                  evidence |-> UNION {a.evidence : a \in Asserted(snaps, k)},
                  review |-> "proposed"]] :
            k \in {c \in claims : Cardinality(values(c)) >= 2}}

\* ContradictionEvidence demands two pieces of evidence; with fewer the
\* contract refuses it and correlate raises.
Acceptable(found) == \A c \in found : Cardinality(c.row.evidence) >= 2

Result(e) ==
    LET s == Snap(e)
        others == Entity \ {e}
    IN [subject |-> e,
        relationships |-> UNION {ExactRelationships(e, o, s, Snap(o)) : o \in others},
        candidates |-> UNION {Candidates(e, o, s, Snap(o)) : o \in others},
        contradictions |-> Contradictions(e, {Snap(x) : x \in Entity})]

NewSnapshot(e) ==
    /\ ver[e] < Len(Versions(e))
    /\ ver' = [ver EXCEPT ![e] = @ + 1]
    /\ UNCHANGED <<job, tables, modelRun, assessed, latest, done, accepted>>

Correlate(w, e) ==
    /\ job[w] = None
    /\ Acceptable(Contradictions(e, {Snap(x) : x \in Entity}))
    /\ job' = [job EXCEPT ![w] = Result(e)]
    /\ UNCHANGED <<ver, tables, modelRun, assessed, latest, done, accepted>>

-----------------------------------------------------------------------------
(* The repository.                                                         *)

Put(table, key, row) == [k \in DOMAIN table \cup {key} |-> IF k = key THEN row ELSE table[k]]

Picked(rows, k) == CHOOSE r \in rows : r.key = k

Overlay(table, rows, Merge(_, _)) ==
    [k \in DOMAIN table \cup {r.key : r \in rows} |->
        IF \E r \in rows : r.key = k THEN Merge(k, Picked(rows, k)) ELSE table[k]]

\* Mutant: a repeated observation starts the relationship anew.
MergedRelationship_Restarted(k, r) ==
    IF k \in DOMAIN rel
    THEN [rel[k] EXCEPT !.first = r.row.last, !.last = r.row.last, !.evidence = @ \cup r.row.evidence]
    ELSE r.row

\* persist_relationship: an existing row keeps its id, its first_seen_at and the
\* model it names; evidence rows are added.
MergedRelationship(k, r) ==
    IF k \in DOMAIN rel
    THEN [id |-> rel[k].id, first |-> rel[k].first, model |-> rel[k].model,
          confidence |-> r.row.confidence, last |-> r.row.last, active |-> r.row.active,
          review |-> r.row.review, evidence |-> rel[k].evidence \cup r.row.evidence]
    ELSE r.row

\* persist_candidate and persist_contradiction: the row keeps its id.
MergedCandidate(k, r) ==
    IF k \in DOMAIN cand THEN [r.row EXCEPT !.id = cand[k].id] ELSE r.row

MergedContradiction(k, r) ==
    IF k \in DOMAIN contra THEN [r.row EXCEPT !.id = contra[k].id] ELSE r.row

KeysOf(result) ==
    {r.key : r \in result.relationships \cup result.candidates \cup result.contradictions}

\* Mutant: the contradiction is looked up by its natural key.
Found_ByKey(table, r) == TRUE

\* The row is looked up again by the id of the new contract.
Found(table, r) == r.key \in DOMAIN table => table[r.key].id = r.row.id

PersistResult(w) ==
    /\ job[w] # None
    /\ \A r \in job[w].candidates : Found(cand, r)
    /\ \A r \in job[w].contradictions : Found(contra, r)
    /\ rel' = Overlay(rel, job[w].relationships, MergedRelationship)
    /\ cand' = Overlay(cand, job[w].candidates, MergedCandidate)
    /\ contra' = Overlay(contra, job[w].contradictions, MergedContradiction)
    /\ latest' = job[w] /\ done' = done \cup KeysOf(job[w])
    /\ job' = [job EXCEPT ![w] = None]
    /\ UNCHANGED <<ver, modelRun, assessed, accepted>>

\* RuntimeError: the transaction is rolled back.
PersistFails(w) ==
    /\ job[w] # None
    /\ \E r \in job[w].contradictions : ~Found(contra, r)
    /\ job' = [job EXCEPT ![w] = None]
    /\ UNCHANGED <<ver, tables, modelRun, assessed, latest, done, accepted>>

-----------------------------------------------------------------------------
(* Model proposals: `db submit-proposal` and POST /proposals.              *)

\* Mutant: an attribution to an actor passes without evidence.
Admissible_NoGate(p) == p.review \in {"proposed", "reviewed"}

\* RelationshipProposal and validate_model_proposal.
Admissible(p) ==
    /\ p.review \in {"proposed", "reviewed"}
    /\ p.actor => p.evidence # {} /\ p.quality \in {"explicit_source", "corroborated_sources"}

ProposalKey(p) == <<p.source, p.type, p.target, p.id>>

\* ModelRunRepository.persist; the output stands for what the proposal says.
RunRecorded(p) ==
    modelRun' = Put(modelRun, p.id, [output |-> p.confidence, evidence |-> p.evidence])

\* A proposal id that names another relationship is a primary key conflict.
SubmitProposal(p) ==
    /\ Admissible(p)
    /\ \A k \in DOMAIN rel : rel[k].id = p.id => k = ProposalKey(p)
    /\ RunRecorded(p)
    /\ LET r == [key |-> ProposalKey(p),
                 row |-> [id |-> p.id, confidence |-> p.confidence, first |-> None, last |-> None,
                          review |-> p.review, active |-> TRUE, model |-> p.model,
                          evidence |-> p.evidence]]
       IN rel' = Put(rel, r.key, MergedRelationship(r.key, r))
    /\ accepted' = Put(accepted, p.id, p)
    /\ UNCHANGED <<ver, job, cand, contra, assessed, latest, done>>

-----------------------------------------------------------------------------
(* Resurfacing.                                                            *)

Distance(x, y) == IF x > y THEN x - y ELSE y - x
Changed(x, y, delta) == x # None /\ y # None /\ Distance(x, y) >= delta

\* Mutant: only a change from "not exploited" counts, not from "unknown".
KevAddition_Known(prev, cur) == prev.exploited = "no" /\ cur.exploited = "yes"

KevAddition(prev, cur) == prev.exploited # "yes" /\ cur.exploited = "yes"

Reasons(prev, cur) ==
    {r \in {"kev_addition", "material_epss_change", "material_cvss_change",
            "affected_surface_expanded"} \cup cur.flags :
        CASE r = "kev_addition" -> KevAddition(prev, cur)
          [] r = "material_epss_change" -> Changed(prev.epss, cur.epss, EpssDelta)
          [] r = "material_cvss_change" -> Changed(prev.cvss, cur.cvss, CvssDelta)
          [] r = "affected_surface_expanded" -> cur.products \ prev.products # {}
          [] OTHER -> TRUE}

Resurface(i) ==
    /\ i + 1 \in DOMAIN track
    /\ LET prev == track[i]
           cur == track[i + 1]
       IN /\ Reasons(prev, cur) # {} /\ cur.evidence # {}
          /\ <<i, i + 1>> \notin DOMAIN events
          /\ events' = Put(events, <<i, i + 1>>, Reasons(prev, cur))
    /\ UNCHANGED <<ver, job, tables, modelRun, track, latest, done, accepted>>

Next ==
    \/ \E e \in Entity : NewSnapshot(e)
    \/ \E w \in Worker : PersistResult(w) \/ PersistFails(w) \/ \E e \in Subject : Correlate(w, e)
    \/ \E p \in Submission : SubmitProposal(p)
    \/ \E i \in DOMAIN track : Resurface(i)

Spec == Init /\ [][Next]_vars

-----------------------------------------------------------------------------
(* Properties.                                                             *)

TypeOK ==
    /\ ver \in [Entity -> Nat \ {0}] /\ \A e \in Entity : ver[e] <= Len(Versions(e))
    /\ \A w \in Worker : job[w] # None => job[w].subject \in Subject
    /\ \A k \in DOMAIN rel : rel[k].review \in {"proposed", "reviewed"} /\ rel[k].active \in BOOLEAN
    /\ \A k \in DOMAIN cand : cand[k].score \in 0..100
    /\ \A k \in DOMAIN contra : Cardinality(contra[k].values) >= 2
    /\ rel = [k \in DOMAIN rel |-> rel[k]] /\ cand = [k \in DOMAIN cand |-> cand[k]]
    /\ contra = [k \in DOMAIN contra |-> contra[k]]

\* A stored contradiction is named by the values it holds: late, repeated or
\* overtaken results never leave values of one correlation under another's id.
ContradictionNamesItsValues ==
    \A k \in DOMAIN contra : contra[k].id = <<k[1], k[2], contra[k].values>>

\* What a correlation that is rolled back found is nowhere stored: the rows of
\* the three tables are those of the results that were persisted as a whole,
\* and of accepted proposals.
ResultsAreWhole ==
    {k \in DOMAIN rel : rel[k].model = None} \cup DOMAIN cand \cup DOMAIN contra = done

\* No stored relationship attributes anything to an actor without evidence rows,
\* whatever is submitted again under the same proposal id.
AttributionHasEvidence ==
    \A i \in DOMAIN accepted : accepted[i].actor => rel[ProposalKey(accepted[i])].evidence # {}

\* The model run kept for a proposal is the one that its relationship's current
\* confidence and evidence come from, also after it was submitted again.
ProposalIsReproducible ==
    \A i \in DOMAIN accepted :
        LET r == rel[ProposalKey(accepted[i])]
        IN /\ i \in DOMAIN modelRun
           /\ modelRun[i].output = r.confidence /\ modelRun[i].evidence \subseteq r.evidence

RelationshipRow(r) ==
    r = [id |-> r.id, confidence |-> r.confidence, first |-> r.first, last |-> r.last,
         review |-> r.review, active |-> r.active, model |-> r.model, evidence |-> r.evidence]

\* What the engine hands to the repository: exact relationships of the rules'
\* version, scores within bounds, contradictions named by their values.
Sound(result) ==
    /\ \A r \in result.relationships :
        /\ RelationshipRow(r.row) /\ r.key[4] = "phase6-v1"
        /\ r.row.model = None /\ r.row.review = "reviewed" /\ r.row.active = TRUE
    /\ \A r \in result.candidates :
        /\ r.row = [id |-> r.row.id, score |-> r.row.score, evidence |-> r.row.evidence]
        /\ r.row.score \in 0..100
    /\ \A r \in result.contradictions :
        /\ r.row = [id |-> <<r.key[1], r.key[2], r.row.values>>, values |-> r.row.values,
                    evidence |-> r.row.evidence, review |-> r.row.review]
        /\ Cardinality(r.row.values) >= 2

JobsSound ==
    /\ \A w \in Worker : job[w] # None => Sound(job[w])
    /\ latest # None => Sound(latest)
    /\ DOMAIN job = Worker /\ track \in Tracks

\* The rows of rules and of proposals never meet under one natural key.
OriginsApart ==
    /\ \A k \in DOMAIN rel : RelationshipRow(rel[k]) /\ (rel[k].model = None <=> k[4] = "phase6-v1")
    /\ \A i \in DOMAIN accepted :
        /\ accepted[i] \in Submission /\ accepted[i].id = i
        /\ ProposalKey(accepted[i]) \in DOMAIN rel

\* What was persisted last is what the tables say about its keys, evidence that
\* was added since aside.
LatestApplied ==
    latest # None =>
        /\ \A r \in latest.relationships :
             LET row == Picked(latest.relationships, r.key).row
                 now == rel[r.key]
             IN /\ r.key \in DOMAIN rel
                /\ now.confidence = row.confidence /\ now.last = row.last
                /\ now.active = row.active /\ now.review = row.review /\ row.evidence \subseteq now.evidence
        /\ \A r \in latest.candidates :
             r.key \in DOMAIN cand /\ cand[r.key] = Picked(latest.candidates, r.key).row
        /\ \A r \in latest.contradictions :
             r.key \in DOMAIN contra /\ contra[r.key] = Picked(latest.contradictions, r.key).row

\* An event of a pair of assessments holds the reasons of that pair.
EventsHaveReasons ==
    \A i \in 1..Len(track) - 1 :
        <<i, i + 1>> \in DOMAIN events => events[<<i, i + 1>>] = Reasons(track[i], track[i + 1])

\* The tables hold what whole results and accepted proposals put there, under
\* the identifiers derived from it.
CorrelationInv ==
    /\ TypeOK /\ ContradictionNamesItsValues /\ ResultsAreWhole /\ ProposalIsReproducible
    /\ JobsSound /\ OriginsApart /\ LatestApplied /\ EventsHaveReasons

\* CorrelationRepository is idempotent: persisting what was persisted last once
\* more changes nothing, whichever worker does it and whatever was proposed
\* meanwhile.
RepeatChangesNothing ==
    [][\A w \in Worker : job[w] # None /\ job[w] = latest /\ job'[w] = None => UNCHANGED tables]_vars

\* Once every consecutive pair has been looked at, an entity that was not known
\* to be exploited and now is has resurfaced for that reason, also where the
\* answer was unknown in between.
KevNeverMissed ==
    (\A i \in 1..Len(track) - 1 :
        Reasons(track[i], track[i + 1]) = {} \/ <<i, i + 1>> \in DOMAIN events)
    => (track[1].exploited # "yes" /\ track[Len(track)].exploited = "yes"
        => \E k \in DOMAIN events : "kev_addition" \in events[k])
=============================================================================
