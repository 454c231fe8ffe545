----------------------------- MODULE AnalystDesk -----------------------------
(***************************************************************************)
(* What the analyst profile writes through the private API: candidates of  *)
(* the publication ledger (PUT /candidates), public identifiers taken from *)
(* `analyst next-public-id`, and the reports submitted under them.         *)
(*                                                                         *)
(* An identifier is not reserved: it is read here and used in a later      *)
(* request, and ReportRepository.persist_bundle takes a bundle with an     *)
(* unknown report id for a version of the report that has its public id.   *)
(***************************************************************************)
EXTENDS Naturals, Sequences, FiniteSets, FiniteSetsExt

CONSTANTS
    Analyst,
    Named(_),         \* the entities an analyst's report names
    MaxSeq,           \* the largest number that \d{3} matches
    MaxVersions,      \* bound: versions of a report
    Run, Event,
    Known,            \* the ingestion runs that exist
    Request,          \* CandidateRecords that clients may put, in any order
    None

ASSUME DeskAssumption ==
    /\ MaxSeq \in Nat \ {0} /\ MaxVersions \in Nat /\ None \notin Nat
    /\ Known \subseteq Run /\ IsFiniteSet(Event)

VARIABLES
    report,     \* table report: public number -> row
    held,       \* per analyst: the number it was given
    ledger,     \* table publication_candidate, by (run, event)
    counted,    \* summary: what the first statement read
    summary,    \* summary: the CandidateLedgerSummary returned last
    exposed,    \* history: analysts whose number was not known to be free
    moved       \* history: the ledger changed between the two statements

desk == <<report, held, ledger, counted, summary, exposed, moved>>

Number == 1..MaxSeq + 1

DeskInit ==
    /\ report = [n \in Number |-> None]
    /\ held = [a \in Analyst |-> None]
    /\ ledger = [k \in Run \X Event |-> None]
    /\ counted = None /\ summary = None
    /\ exposed = {} /\ moved = FALSE

Taken == {n \in Number : report[n] # None}
Public == {n \in Taken : report[n].state = "published"}

-----------------------------------------------------------------------------
(* next-public-id.                                                         *)

\* Mutant: only what is public is looked at.
Stored_Public == Public

\* The query of report.public_id, drafts included.
Stored == Taken

\* Numbers past three digits do not match and are not counted.
Following(numbers) == Max({0} \cup {n \in numbers : n <= MaxSeq}) + 1

Waiting(a) == {b \in Analyst \ {a} : held[b] # None /\ ~\E n \in Taken :
                                        \E i \in DOMAIN report[n].versions : report[n].versions[i] = b}

Give(a, n, sure) ==
    /\ held[a] = None
    /\ held' = [held EXCEPT ![a] = n]
    /\ exposed' = IF sure /\ n <= MaxSeq /\ Waiting(a) = {} THEN exposed ELSE exposed \cup {a}
    /\ UNCHANGED <<report, ledger, counted, summary, moved>>

\* The database answers and knows a report of the year.
NextFromDatabase(a) == Stored \cap 1..MaxSeq # {} /\ Give(a, Following(Stored), TRUE)

\* No answer in time, or no report yet: the public pages (the first five of
\* them), or nothing at all.
NextFromPortal(a) ==
    \/ Give(a, Following(Public), Taken = {})
    \/ Public # {} /\ Give(a, Following({}), FALSE)

-----------------------------------------------------------------------------
(* submit_report, as far as the report row goes; ReportPublication has the *)
(* rest of it.                                                             *)

Own(a) == {n \in Taken : report[n].id = a}

\* The row persist_bundle finds: by report id, else by public id.
Place(a) == IF Own(a) # {} THEN CHOOSE n \in Own(a) : TRUE ELSE held[a]

Submit(a, publish) ==
    /\ held[a] # None
    /\ LET n == Place(a)
           old == IF report[n] = None THEN [id |-> a, state |-> "draft", versions |-> <<>>] ELSE report[n]
       IN /\ Len(old.versions) < MaxVersions
          /\ report' = [report EXCEPT ![n] =
                [id |-> old.id, state |-> IF publish THEN "published" ELSE old.state,
                 versions |-> Append(old.versions, a)]]
    /\ UNCHANGED <<held, ledger, counted, summary, exposed, moved>>

\* The entities of every version of a public report, as ReportEntity has them.
Listed == UNION {UNION {Named(report[n].versions[i]) : i \in DOMAIN report[n].versions} : n \in Public}

-----------------------------------------------------------------------------
(* The candidate ledger.                                                   *)

\* candidate_identity, demanded by the route and by the repository.
Genuine(r) == r.id = <<r.run, r.event>>

\* A row keeps the candidate_id it was inserted with.
upsert_candidate(r) ==
    /\ Genuine(r) /\ r.run \in Known
    /\ LET k == <<r.run, r.event>>
           id == IF ledger[k] = None THEN r.id ELSE ledger[k].id
       IN ledger' = [ledger EXCEPT ![k] =
            [id |-> id, lifecycle |-> r.lifecycle, public |-> r.public, retry |-> r.retry]]
    /\ moved' = (moved \/ counted # None)
    /\ UNCHANGED <<report, held, counted, summary, exposed>>

Rows(run, stage) ==
    {k \in {run} \X Event : ledger[k] # None /\ ledger[k].lifecycle = stage}

CountCandidates(run) ==
    /\ counted = None
    /\ counted' = [run |-> run, published |-> Cardinality(Rows(run, "published")),
                   total |-> Cardinality({k \in {run} \X Event : ledger[k] # None})]
    /\ moved' = FALSE
    /\ UNCHANGED <<report, held, ledger, summary, exposed>>

PublishedIds(run) == {k \in Rows(run, "published") : ledger[k].public # None}

candidate_summary ==
    /\ counted # None
    /\ summary' = [total |-> counted.total, published |-> counted.published,
                   ids |-> PublishedIds(counted.run), torn |-> moved]
    /\ counted' = None /\ moved' = FALSE
    /\ UNCHANGED <<report, held, ledger, exposed>>

ReportsNext ==
    \E a \in Analyst : \/ NextFromDatabase(a) \/ NextFromPortal(a)
                       \/ \E publish \in BOOLEAN : Submit(a, publish)

LedgerNext ==
    \/ \E r \in Request : upsert_candidate(r)
    \/ \E run \in Known : CountCandidates(run)
    \/ candidate_summary

DeskSpec == DeskInit /\ [][ReportsNext \/ LedgerNext]_desk

-----------------------------------------------------------------------------
(* Properties.                                                             *)

\* A report takes in another analyst's version only where a number was given
\* out blindly: past the three digits, without the database, or while the same
\* number was already held by somebody who had not submitted yet.
MergedOnlyIfExposed ==
    \A n \in Taken : \A i \in DOMAIN report[n].versions :
        report[n].versions[i] # report[n].id => {report[n].versions[i], report[n].id} \cap exposed # {}

\* Whatever is put, in whatever order and however often, every candidate of the
\* ledger stays reachable under the id derived from its run and event.
LedgerConverges == \A k \in DOMAIN ledger : ledger[k] # None => ledger[k].id = k

\* The terminal accounting agrees with itself: it never lists more published ids
\* than it counts, unless a candidate moved between its two statements.
SummaryAgrees ==
    summary # None /\ ~summary.torn =>
        Cardinality(summary.ids) <= summary.published /\ summary.published <= summary.total

\* An analyst's number is a number, and the number under which its report, or its
\* version of another's report, is stored.
NumbersKept ==
    /\ held \in [Analyst -> Number \cup {None}] /\ DOMAIN report = Number
    /\ \A n \in Taken :
        /\ report[n].id \in Analyst /\ held[report[n].id] = n
        /\ \A i \in DOMAIN report[n].versions :
             report[n].versions[i] \in Analyst /\ held[report[n].versions[i]] = n
        /\ report[n].versions \in Seq(Analyst)

\* Who shares a number with another analyst got it blindly, or the other did.
SharedOnlyIfExposed ==
    \A a, b \in Analyst : a # b /\ held[a] = held[b] /\ held[a] # None => {a, b} \cap exposed # {}

\* Until the ledger moves, the first statement's counts are those of its rows.
CountsHold ==
    /\ moved \in BOOLEAN /\ DOMAIN ledger = Run \X Event
    /\ counted # None /\ ~moved =>
        /\ counted.published = Cardinality(Rows(counted.run, "published"))
        /\ counted.total = Cardinality({k \in {counted.run} \X Event : ledger[k] # None})

\* Reports and candidates stay with the identifiers they were created under:
\* nothing is mixed up by clients that work at the same time.
DeskInv ==
    /\ MergedOnlyIfExposed /\ LedgerConverges /\ SummaryAgrees
    /\ NumbersKept /\ SharedOnlyIfExposed /\ CountsHold
=============================================================================
