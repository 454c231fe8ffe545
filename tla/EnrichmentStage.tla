--------------------------- MODULE EnrichmentStage ---------------------------
(***************************************************************************)
(* The enrichment of CVEs and its persistence: the stage the daily         *)
(* pipeline runs over the CVEs of a run (DailyPipeline._enrich_run_cves)   *)
(* and the command `db enrich`, which takes no lock and may run beside it. *)
(*                                                                         *)
(* Each CVE is one transaction of PersistenceRepository                    *)
(* .persist_enrichment_run at READ COMMITTED. Its statements are the steps *)
(* Insert, Observe, Select, Assess and Commit: what a statement reads is   *)
(* what is committed at that moment, what it writes locks the row until    *)
(* the transaction ends, and nothing is visible before Commit.             *)
(***************************************************************************)
EXTENDS Naturals, Sequences, FiniteSets, FiniteSetsExt

CONSTANTS
    Cve,
    Providers,            \* the applicable providers, in dispatch order
    Fields,               \* the canonical fields of a vulnerability
    Payload,              \* what a provider may publish about a CVE, at any time
    Content(_, _, _),     \* field f of payload h of provider p, or None
    Claims,               \* the run's evidence claims as CVEs, ordered by CVE
    Selected,             \* the CVEs named to `db enrich`, in its order
    Cap,                  \* the setting enrichment_max_cves_per_run
    Ttl, StaleFor,        \* the cache: fresh for Ttl, then stale for StaleFor
    MaxClock,             \* bound: number of requests
    None

Worker == {"pipeline", "cli"}
Provider == {Providers[i] : i \in DOMAIN Providers}

ASSUME StageAssumption ==
    /\ Claims \in Seq(Cve) /\ Selected \in Seq(Cve) /\ Cap \in Nat
    /\ Ttl \in Nat /\ StaleFor \in Nat /\ MaxClock \in Nat
    /\ None \notin Cve /\ None \notin Payload
    /\ None \notin [status: {"success", "stale"}, at: 1..MaxClock]
    /\ None \notin [payload: Payload, at: 1..MaxClock]

VARIABLES
    clock,        \* requested_at of the next request
    pc,           \* per worker: the next statement, or "idle", "next", "done"
    todo,         \* the CVEs still to process
    report,       \* EnrichmentStageResult
    cache,        \* EnrichmentCache of the worker's service
    tx,           \* the CVE at hand: responses, loaded row, choice, latest
    obs,          \* vulnerability_provider_observation, by CVE, provider, payload
    canon,        \* the canonical fields of vulnerability
    sel,          \* vulnerability_attribute_selection
    risk,         \* risk_assessment
    commits,      \* history: the transactions each worker committed
    overlap       \* history: CVEs two transactions have overlapped on

db == <<obs, canon, sel, risk>>
vars == <<clock, pc, todo, report, cache, tx, db, commits, overlap>>

Key == Provider \X Payload
Value(k, f) == Content(k[1], k[2], f)
Row == [status: {"success", "stale"}, at: 1..MaxClock]
Response == [status: {"success", "stale"}, payload: Payload, at: 1..MaxClock]
            \cup {[status |-> s, payload |-> None, at |-> 0] : s \in {"unavailable", "disabled"}}
Assessment == [version: Nat, supersedes: Nat, by: Worker, at: Nat,
               score: Nat, severity: STRING, basis: SUBSET Key]

InTx(w) == pc[w] \in {"observe", "select", "assess", "commit"}

\* The transaction at hand; what is loaded are field values of any type.
Transaction(loaded) ==
    [cve: Cve \cup {None}, stamp: Nat, resp: [Provider -> Response] \cup {None},
     loaded: {loaded}, choice: [Fields -> Key \cup {None}] \cup {None}, latest: Nat]

\* EnrichmentStageResult.
Result == [attempted: Nat, truncated: BOOLEAN, enriched: Nat, failed: Seq(Cve)]

Active(w) == pc[w] = "insert" \/ InTx(w)

WorkersOK ==
    /\ pc \in [Worker -> {"idle", "next", "insert", "observe", "select", "assess", "commit", "done"}]
    /\ DOMAIN tx = Worker
    /\ \A w \in Worker :
        /\ tx[w] \in Transaction(tx[w].loaded)
        /\ Active(w) => tx[w].cve \in Cve /\ tx[w].resp \in [Provider -> Response]
        /\ pc[w] \in {"select", "assess", "commit"} => tx[w].choice \in [Fields -> Key \cup {None}]

TypeOK ==
    /\ WorkersOK
    /\ clock \in 1..MaxClock + 1
    /\ todo \in [Worker -> Seq(Cve)]
    /\ report \in [Worker -> Result]
    /\ cache \in [Worker -> [Cve -> [Provider -> [payload: Payload, at: 1..MaxClock] \cup {None}]]]
    /\ obs \in [Cve -> [Key -> Row \cup {None}]]
    /\ sel \in [Cve -> [Fields -> Key \cup {None}]]
    /\ canon = [c \in Cve |-> [f \in Fields |-> canon[c][f]]]
    /\ DOMAIN risk = Cve
    /\ \A c \in Cve : \A r \in risk[c] :
        r.version \in Nat \ {0} /\ r.supersedes \in Nat /\ r.at \in Nat /\ r.basis \subseteq Key
    /\ commits \in [Worker -> Seq(Cve)] /\ overlap \subseteq Cve

NoTx == [cve |-> None, stamp |-> 0, resp |-> None, loaded |-> None, choice |-> None, latest |-> 0]
NoReport == [attempted |-> 0, truncated |-> FALSE, enriched |-> 0, failed |-> <<>>]
EmptyCache == [c \in Cve |-> [p \in Provider |-> None]]

Init ==
    /\ clock = 1
    /\ pc = [w \in Worker |-> "idle"]
    /\ todo = [w \in Worker |-> <<>>]
    /\ report = [w \in Worker |-> NoReport]
    /\ cache = [w \in Worker |-> EmptyCache]
    /\ tx = [w \in Worker |-> NoTx]
    /\ obs = [c \in Cve |-> [k \in Key |-> None]]
    /\ canon = [c \in Cve |-> [f \in Fields |-> None]]
    /\ sel = [c \in Cve |-> [f \in Fields |-> None]]
    /\ risk = [c \in Cve |-> {}]
    /\ commits = [w \in Worker |-> <<>>]
    /\ overlap = {}

-----------------------------------------------------------------------------
(* Merging, scoring and selection.                                         *)

\* _merge_results: the first provider in order that answered with a value.
Answered(resp, p, f) ==
    /\ resp[p].status \notin {"disabled", "unavailable"}
    /\ Content(p, resp[p].payload, f) # None

Merged(resp, f) ==
    LET hits == {i \in DOMAIN Providers : Answered(resp, Providers[i], f)}
    IN IF hits = {} THEN None
       ELSE LET p == Providers[Min(hits)] IN Content(p, resp[p].payload, f)

Bounded(v, max) == IF v < max THEN v ELSE max
Number(v) == IF v = None THEN 0 ELSE v

\* calculate_priority_score; EPSS in tenths. The factors enrich_cve has no
\* evidence for (product, reliability, corroboration) contribute zero.
Components(resp) ==
    << IF Merged(resp, "known_exploited") = TRUE THEN 25 ELSE 0,
       Bounded(2 * Number(Merged(resp, "cvss_score")), 20),
       2 * Bounded(Number(Merged(resp, "epss_score")), 10) >>

Score(resp) == LET s == Components(resp) IN s[1] + s[2] + s[3]

Severity(cvss) ==
    IF cvss = None THEN "info" ELSE
    IF cvss >= 9 THEN "critical" ELSE IF cvss >= 7 THEN "high" ELSE
    IF cvss >= 4 THEN "medium" ELSE IF cvss > 0 THEN "low" ELSE "info"

\* _provider_rank.
Owner == [known_exploited |-> "cisa_kev", epss_score |-> "epss", cvss_score |-> "nvd"]
Rank(p, f) == IF p = Owner[f] THEN 0 ELSE 1

Usable(row) == row # None /\ row.status = "success"

\* select_canonical_fields: best rank first, then the newest.
Choice(rows, f) ==
    LET candidates == {k \in Key : Usable(rows[k]) /\ Value(k, f) # None}
        Before(j, k) == \/ Rank(j[1], f) < Rank(k[1], f)
                        \/ Rank(j[1], f) = Rank(k[1], f) /\ rows[j].at >= rows[k].at
    IN IF candidates = {} THEN None
       ELSE CHOOSE k \in candidates : \A j \in candidates : Before(k, j)

-----------------------------------------------------------------------------
(* Starting.                                                               *)

\* Mutant: the truncation is judged by distinct CVEs.
Truncated_Distinct == Cardinality({Claims[i] : i \in DOMAIN Claims}) > Cap

Truncated == Len(Claims) > Cap

Begin(w, work, attempted, truncated) ==
    /\ pc[w] = "idle"
    /\ todo' = [todo EXCEPT ![w] = work]
    /\ report' = [report EXCEPT ![w] = [attempted |-> attempted, truncated |-> truncated,
                                       enriched |-> 0, failed |-> <<>>]]
    /\ pc' = [pc EXCEPT ![w] = "next"]
    /\ UNCHANGED <<clock, cache, tx, db, commits, overlap>>

\* vulnerability_ids_for_run returns one pair per claim; the cap cuts pairs, and
\* attempted counts what there was before it. The settings have the stage on.
EnrichRunCves ==
    Begin("pipeline", SubSeq(Claims, 1, Bounded(Cap, Len(Claims))), Len(Claims), Truncated)

DbEnrich == Begin("cli", Selected, Len(Selected), FALSE)

-----------------------------------------------------------------------------
(* EnrichmentService.enrich for one CVE: every provider in order, through  *)
(* the cache.                                                              *)

Fresh(w, c, p) == cache[w][c][p] # None /\ clock < cache[w][c][p].at + Ttl
Stale(w, c, p) ==
    /\ cache[w][c][p] # None /\ ~Fresh(w, c, p)
    /\ clock <= cache[w][c][p].at + Ttl + StaleFor

Cached(w, c, p, status) ==
    [status |-> status, payload |-> cache[w][c][p].payload, at |-> cache[w][c][p].at]

Answers(w, c, p) ==
    IF Fresh(w, c, p) THEN {Cached(w, c, p, "success")}
    ELSE [status: {"success"}, payload: Payload, at: {clock}]
         \cup {IF Stale(w, c, p) THEN Cached(w, c, p, "stale")
               ELSE [status |-> "unavailable", payload |-> None, at |-> 0]}

Put(w, c, p, answer) ==
    IF answer.status = "success" /\ answer.at = clock
    THEN [payload |-> answer.payload, at |-> clock] ELSE cache[w][c][p]

EnrichCve(w) ==
    /\ pc[w] = "next" /\ todo[w] # <<>> /\ clock <= MaxClock
    /\ LET c == Head(todo[w]) IN
       \E resp \in [Provider -> UNION {Answers(w, c, p) : p \in Provider}] :
         /\ \A p \in Provider : resp[p] \in Answers(w, c, p)
         /\ cache' = [cache EXCEPT ![w][c] = [p \in Provider |-> Put(w, c, p, resp[p])]]
         /\ tx' = [tx EXCEPT ![w] = [NoTx EXCEPT !.cve = c, !.resp = resp, !.stamp = clock]]
    /\ clock' = clock + 1
    /\ pc' = [pc EXCEPT ![w] = "insert"]
    /\ UNCHANGED <<todo, report, db, commits, overlap>>

-----------------------------------------------------------------------------
(* persist_enrichment_run, statement by statement.                         *)

\* The snapshots of a transaction: only a response with a payload has a row
\* that can be selected or met again.
Basis(w) == {<<p, tx[w].resp[p].payload>> : p \in {q \in Provider : tx[w].resp[q].payload # None}}

Snapshot(w, k) == [status |-> tx[w].resp[k[1]].status, at |-> tx[w].resp[k[1]].at]

Others(w) == {u \in Worker \ {w} : InTx(u) /\ tx[u].cve = tx[w].cve}

\* enrichment_result rows are inserted and the vulnerability is read; the same
\* new row of another transaction is waited for.
Insert(w) ==
    /\ pc[w] = "insert"
    /\ \A u \in Others(w) : \A k \in Basis(w) \cap Basis(u) : obs[tx[w].cve][k] # None
    /\ tx' = [tx EXCEPT ![w].loaded = canon[tx[w].cve]]
    /\ overlap' = IF Others(w) = {} THEN overlap ELSE overlap \cup {tx[w].cve}
    /\ pc' = [pc EXCEPT ![w] = "observe"]
    /\ UNCHANGED <<clock, todo, report, cache, db, commits>>

\* The observations are upserted and all of the vulnerability's are read.
Observe(w) ==
    /\ pc[w] = "observe"
    /\ \A u \in Others(w) : pc[u] # "observe" => Basis(w) \cap Basis(u) = {}
    /\ LET rows == [k \in Key |-> IF k \in Basis(w) THEN Snapshot(w, k) ELSE obs[tx[w].cve][k]]
       IN tx' = [tx EXCEPT ![w].choice = [f \in Fields |-> Choice(rows, f)]]
    /\ pc' = [pc EXCEPT ![w] = "select"]
    /\ UNCHANGED <<clock, todo, report, cache, db, commits, overlap>>

Chosen(w) == {f \in Fields : tx[w].choice[f] # None}

\* The attribute selections are upserted, locking their rows.
Select(w) ==
    /\ pc[w] = "select"
    /\ \A u \in Others(w) : pc[u] \in {"assess", "commit"} => Chosen(w) \cap Chosen(u) = {}
    /\ pc' = [pc EXCEPT ![w] = "assess"]
    /\ UNCHANGED <<clock, todo, report, cache, tx, db, commits, overlap>>

Latest(c) == Max({0} \cup {r.version : r \in risk[c]})

Assess(w) ==
    /\ pc[w] = "assess"
    /\ tx' = [tx EXCEPT ![w].latest = Latest(tx[w].cve)]
    /\ pc' = [pc EXCEPT ![w] = "commit"]
    /\ UNCHANGED <<clock, todo, report, cache, db, commits, overlap>>

NewAssessment(w) ==
    [version |-> tx[w].latest + 1, supersedes |-> tx[w].latest, by |-> w, at |-> tx[w].stamp,
     score |-> Score(tx[w].resp), severity |-> Severity(Merged(tx[w].resp, "cvss_score")),
     basis |-> Basis(w)]

\* Mutant: the table has no uq_risk_assessment_version.
VersionTaken_Never(w) == FALSE

VersionTaken(w) == \E r \in risk[tx[w].cve] : r.version = tx[w].latest + 1

\* Mutant: the fields are written outside the transaction's snapshots.
StoreSnapshots_Lost(w) == obs' = obs

StoreSnapshots(w) ==
    obs' = [obs EXCEPT ![tx[w].cve] =
                [k \in Key |-> IF k \in Basis(w) THEN Snapshot(w, k) ELSE @[k]]]

\* The ORM writes only the attributes that differ from the row it loaded.
StoreFields(w) ==
    canon' = [canon EXCEPT ![tx[w].cve] =
        [f \in Fields |->
            IF f \in Chosen(w) /\ Value(tx[w].choice[f], f) # tx[w].loaded[f]
            THEN Value(tx[w].choice[f], f) ELSE @[f]]]

StoreSelections(w) ==
    sel' = [sel EXCEPT ![tx[w].cve] =
                [f \in Fields |-> IF f \in Chosen(w) THEN tx[w].choice[f] ELSE @[f]]]

Finished(w) ==
    /\ tx' = [tx EXCEPT ![w] = NoTx]
    /\ todo' = [todo EXCEPT ![w] = Tail(@)]
    /\ pc' = [pc EXCEPT ![w] = "next"]

Commit(w) ==
    /\ pc[w] = "commit" /\ ~VersionTaken(w)
    /\ StoreSnapshots(w) /\ StoreFields(w) /\ StoreSelections(w)
    /\ risk' = [risk EXCEPT ![tx[w].cve] = @ \cup {NewAssessment(w)}]
    /\ commits' = [commits EXCEPT ![w] = Append(@, tx[w].cve)]
    /\ report' = [report EXCEPT ![w].enriched = @ + 1]
    /\ Finished(w)
    /\ UNCHANGED <<clock, cache, overlap>>

\* The except clause of the stage: the transaction is rolled back, the CVE is
\* reported as failed and the next one is taken. `db enrich` has none and ends.
Degrade(w) ==
    \/ /\ w = "pipeline"
       /\ report' = [report EXCEPT ![w].failed = Append(@, tx[w].cve)]
       /\ Finished(w)
    \/ /\ w = "cli"
       /\ pc' = [pc EXCEPT ![w] = "done"]
       /\ tx' = [tx EXCEPT ![w] = NoTx]
       /\ UNCHANGED <<report, todo>>

\* Mutant: the insert is repeated with the version that was refused.
Conflicted_Repeats(w) == pc[w] = "commit" /\ VersionTaken(w) /\ UNCHANGED vars

Conflicted(w) ==
    /\ pc[w] = "commit" /\ VersionTaken(w)
    /\ Degrade(w)
    /\ UNCHANGED <<clock, cache, db, commits, overlap>>

\* The database refuses a statement, the connection or the transaction.
DatabaseFails(w) ==
    /\ Active(w)
    /\ Degrade(w)
    /\ UNCHANGED <<clock, cache, db, commits, overlap>>

StageDone(w) ==
    /\ pc[w] = "next" /\ (todo[w] = <<>> \/ clock > MaxClock)
    /\ pc' = [pc EXCEPT ![w] = "done"]
    /\ UNCHANGED <<clock, todo, report, cache, tx, db, commits, overlap>>

Process(w) ==
    \/ EnrichCve(w) \/ Insert(w) \/ Observe(w) \/ Select(w) \/ Assess(w)
    \/ Commit(w) \/ Conflicted(w) \/ StageDone(w)

Next ==
    \/ EnrichRunCves \/ DbEnrich
    \/ \E w \in Worker : Process(w) \/ DatabaseFails(w)

\* A worker that has begun goes on; a row lock is handed to its first waiter.
Spec == Init /\ [][Next]_vars /\ \A w \in Worker : SF_vars(Process(w))

-----------------------------------------------------------------------------
(* Properties.                                                             *)

\* The assessments of a CVE form one chain without gap or fork, whoever wrote
\* them: versions are unique and each supersedes the one before it.
AssessmentChain ==
    \A c \in Cve :
        /\ \A r, s \in risk[c] : r.version = s.version => r = s
        /\ {r.version : r \in risk[c]} = 1..Cardinality(risk[c])
        /\ \A r \in risk[c] : r.supersedes = r.version - 1

\* Transactions are all or nothing: every assessment and every canonical value
\* rests on provider snapshots that are stored, also when steps fail or another
\* enrichment of the same CVE runs in between.
EvidenceStored ==
    \A c \in Cve :
        /\ \A r \in risk[c] : \A k \in r.basis : obs[c][k] # None
        /\ \A f \in Fields : canon[c][f] # None =>
             \E k \in Key : obs[c][k] # None /\ Value(k, f) = canon[c][f]

\* EnrichmentStageResult is never silent about a CVE of the run: one that was
\* neither enriched nor reported as failed goes with truncated = True.
NoSilentShortfall ==
    pc["pipeline"] = "done" /\ clock <= MaxClock =>
        \A i \in DOMAIN Claims :
            \/ report["pipeline"].truncated
            \/ \E n \in DOMAIN commits["pipeline"] : commits["pipeline"][n] = Claims[i]
            \/ \E n \in DOMAIN report["pipeline"].failed : report["pipeline"].failed[n] = Claims[i]

\* The counts of the result are the transactions that really took effect, and
\* with the failures they account for everything attempted within the cap.
CountsAreTrue ==
    \A w \in Worker :
        /\ report[w].enriched = Len(commits[w])
        /\ Len(commits[w]) = Cardinality({r \in UNION {risk[c] : c \in Cve} : r.by = w})
        /\ w = "pipeline" /\ pc[w] # "idle" =>
             Bounded(report[w].attempted, Cap) =
                 report[w].enriched + Len(report[w].failed) + Len(todo[w])

\* As long as no two transactions of a CVE overlap, the provenance kept for a
\* field names the snapshot that the canonical value was taken from.
ProvenanceExactAlone ==
    \A c \in Cve \ overlap : \A f \in Fields :
        sel[c][f] # None => canon[c][f] = Value(sel[c][f], f)

\* The CVE of a transaction is the next one of the worker's list, and a worker
\* has committed nothing before it begins.
AtHand ==
    \A w \in Worker :
        /\ Active(w) => todo[w] # <<>> /\ tx[w].cve = Head(todo[w])
        /\ pc[w] = "idle" => commits[w] = <<>>

\* No two requests have one stamp, so no two transactions write one assessment.
StampsOnce ==
    /\ \A c \in Cve : \A r \in risk[c] : r.at < clock
    /\ \A w \in Worker : Active(w) =>
        /\ tx[w].stamp < clock
        /\ \A c \in Cve : \A r \in risk[c] : r.at # tx[w].stamp
        /\ \A u \in Worker \ {w} : Active(u) => tx[u].stamp # tx[w].stamp

\* Transactions that work on one CVE at the same time are known as such; alone, a
\* transaction finds the row as it loaded it.
OverlapKnown ==
    /\ \A w, u \in Worker :
        w # u /\ InTx(w) /\ InTx(u) /\ tx[u].cve = tx[w].cve => tx[w].cve \in overlap
    /\ \A w \in Worker :
        InTx(w) /\ tx[w].cve \notin overlap => tx[w].loaded = canon[tx[w].cve]

\* What was read before other transactions committed: the latest version is at
\* most what it is now, and a chosen snapshot is the transaction's own or stored.
ReadsHold ==
    \A w \in Worker :
        /\ pc[w] = "commit" => tx[w].latest <= Cardinality(risk[tx[w].cve])
        /\ pc[w] \in {"select", "assess", "commit"} => \A f \in Chosen(w) :
             tx[w].choice[f] \in Basis(w) \/ obs[tx[w].cve][tx[w].choice[f]] # None

\* The rows and the counters are finite.
FiniteRows ==
    /\ \A c \in Cve : IsFiniteSet(risk[c])
    /\ \A w \in Worker : IsFiniteSet({r \in UNION {risk[c] : c \in Cve} : r.by = w})

Named(s) == {s[i] : i \in DOMAIN s}

\* Every claim of a run that is not truncated is enriched, failed or still to do,
\* and a stage that is done within the horizon has nothing to do.
ClaimsAccounted ==
    /\ pc["pipeline"] # "idle" =>
        \/ report["pipeline"].truncated
        \/ Named(Claims) \subseteq Named(commits["pipeline"])
               \cup Named(report["pipeline"].failed) \cup Named(todo["pipeline"])
    /\ pc["pipeline"] = "done" => todo["pipeline"] = <<>> \/ clock > MaxClock

\* What the steps of the transactions rely on about each other.
StageBookkeeping ==
    AtHand /\ StampsOnce /\ OverlapKnown /\ ReadsHold /\ FiniteRows /\ ClaimsAccounted

\* After every statement of every transaction: assessments are a chain with
\* stored evidence, counts are true, provenance is exact where it can be.
StageInv ==
    /\ TypeOK /\ AssessmentChain /\ EvidenceStored /\ CountsAreTrue /\ ProvenanceExactAlone
    /\ StageBookkeeping

IsLink(n, r) == r.version = n /\ r.supersedes = n - 1
History == INSTANCE AssessmentHistory WITH chain <- risk, Link <- IsLink

\* No assessment is ever changed or removed: the chain that persist_enrichment_run
\* writes only grows, one next link per transaction, under every interleaving.
RefinesHistory == History!Spec

\* A stage that has begun comes to its end, whatever fails and whoever holds
\* the rows it needs.
StageEnds == \A w \in Worker : pc[w] = "next" ~> pc[w] = "done"
=============================================================================
