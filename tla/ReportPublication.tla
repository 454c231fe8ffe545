-------------------------- MODULE ReportPublication --------------------------
(***************************************************************************)
(* Report submissions: analyst/routes.submit_report, ReportPipeline and    *)
(* ReportRepository.persist_bundle, called concurrently by analyst clients *)
(* that save drafts and publish versions of the same reports.              *)
(*                                                                         *)
(* A submission is one READ COMMITTED transaction of three steps: the      *)
(* version is looked up (a different content is refused), the report row   *)
(* is loaded, everything is written. The write begins with the UPDATE of   *)
(* the report row, so writes to one report come one after the other; what  *)
(* the ORM read before is not read again.                                  *)
(*                                                                         *)
(* Data abstracted: a bundle is its content, a member of Content; headline *)
(* and slug are those of the content. The rows written with a version are  *)
(* the subject of ReportArtifacts.                                         *)
(***************************************************************************)
EXTENDS Naturals, FiniteSets

CONSTANTS
    Report, Version,
    ReportOf,      \* the report each version identifier belongs to
    NoVersion,
    Content,
    Supported,     \* contents ReportValidator accepts
    Client,        \* analyst clients submitting at the same time
    MaxClock       \* bound: transactions that load a report

ASSUME PublicationAssumption ==
    /\ ReportOf \in [Version -> Report]
    /\ NoVersion \notin Version
    /\ "none" \notin Content
    /\ Supported \subseteq Content
    /\ MaxClock \in Nat

VARIABLES
    report,    \* report rows
    stored,    \* report_version rows: structured_content, which holds the state
    pub,       \* publication rows
    pc, sub,   \* per client: where its transaction is, what it submits
    snap, at,  \* per client: the report row it loaded and its now
    clock

dbVars == <<report, stored, pub>>
vars == <<report, stored, pub, pc, sub, snap, at, clock>>

NoContent == "none"

ReportRow == [state: {"draft", "published"}, headline: Content,
              first: Nat, current: Version]
NoReport == [state |-> "absent", headline |-> NoContent, first |-> 0,
             current |-> NoVersion]
Text == [content: Content, approved: BOOLEAN]
NoText == [content |-> NoContent, approved |-> FALSE]
Publication == [at: Nat \ {0}, rollback: Version \cup {NoVersion}]
NoPub == [at |-> 0, rollback |-> NoVersion]

Submission == [version: Version, content: Content, publish: BOOLEAN]
NoSub == [version |-> NoVersion, content |-> NoContent, publish |-> FALSE]

TypeOK ==
    /\ report \in [Report -> ReportRow \cup {NoReport}]
    /\ stored \in [Version -> Text \cup {NoText}]
    /\ pub \in [Version -> Publication \cup {NoPub}]
    /\ pc \in [Client -> {"idle", "check", "load", "write"}]
    /\ sub \in [Client -> Submission \cup {NoSub}]
    /\ \A c \in Client : pc[c] # "idle" => sub[c] \in Submission
    /\ snap \in [Client -> ReportRow \cup {NoReport}]
    /\ at \in [Client -> Nat]
    /\ \A c \in Client : pc[c] = "write" => at[c] # 0
    /\ clock \in Nat

Init ==
    /\ report = [r \in Report |-> NoReport]
    /\ stored = [v \in Version |-> NoText]
    /\ pub = [v \in Version |-> NoPub]
    /\ pc = [c \in Client |-> "idle"]
    /\ sub = [c \in Client |-> NoSub]
    /\ snap = [c \in Client |-> NoReport]
    /\ at = [c \in Client |-> 0]
    /\ clock = 0

-----------------------------------------------------------------------------
\* The checks before the transaction: a draft is stored as it is, a version to
\* publish becomes approved and must pass validation. A refused submission
\* touches nothing.
Accepted(s) == s \in Submission /\ (s.publish => s.content \in Supported)

TextOf(s) == [content |-> s.content, approved |-> s.publish]

submit_report(c) ==
    /\ pc[c] = "idle"
    /\ \E s \in Submission : Accepted(s) /\ sub' = [sub EXCEPT ![c] = s]
    /\ pc' = [pc EXCEPT ![c] = "check"]
    /\ UNCHANGED <<dbVars, snap, at, clock>>

\* The transaction ends; its client may submit again.
Ended(c) ==
    /\ pc' = [pc EXCEPT ![c] = "idle"]
    /\ sub' = [sub EXCEPT ![c] = NoSub]
    /\ snap' = [snap EXCEPT ![c] = NoReport]
    /\ at' = [at EXCEPT ![c] = 0]
    /\ UNCHANGED clock

\* The version identifier already holds a different content: 409.
Conflict(c) ==
    /\ pc[c] = "check"
    /\ stored[sub[c].version] \notin {NoText, TextOf(sub[c])}
    /\ Ended(c)
    /\ UNCHANGED dbVars

CheckVersion(c) ==
    /\ pc[c] = "check"
    /\ stored[sub[c].version] \in {NoText, TextOf(sub[c])}
    /\ pc' = [pc EXCEPT ![c] = "load"]
    /\ UNCHANGED <<dbVars, sub, snap, at, clock>>

Target(c) == ReportOf[sub[c].version]

LoadReport(c) ==
    /\ pc[c] = "load"
    /\ clock < MaxClock
    /\ snap' = [snap EXCEPT ![c] = report[Target(c)]]
    /\ clock' = clock + 1
    /\ at' = [at EXCEPT ![c] = clock + 1]
    /\ pc' = [pc EXCEPT ![c] = "write"]
    /\ UNCHANGED <<dbVars, sub>>

-----------------------------------------------------------------------------
(* persist_bundle, from the flush of the report row to the commit.         *)

\* A new row. Its first version is current even as a draft.
InsertedReport(c) ==
    [state    |-> IF sub[c].publish THEN "published" ELSE "draft",
     headline |-> sub[c].content,
     first    |-> IF sub[c].publish THEN at[c] ELSE 0,
     current  |-> sub[c].version]

\* Only attributes that differ from the loaded row are in the UPDATE. A draft
\* leaves the state, the first publication and the current version alone, but
\* writes its headline.
UpdatedReport(c, row) ==
    [state    |-> IF sub[c].publish THEN "published" ELSE row.state,
     headline |-> IF sub[c].content = snap[c].headline THEN row.headline
                  ELSE sub[c].content,
     first    |-> IF sub[c].publish /\ snap[c].first = 0 THEN at[c] ELSE row.first,
     current  |-> IF sub[c].publish THEN sub[c].version ELSE row.current]

Siblings(v) == {u \in Version \ {v} : ReportOf[u] = ReportOf[v] /\ pub[u] # NoPub}

\* Mutant: the previous publication is looked up with the loaded report.
Previous_Loaded(c) ==
    IF snap[c].state = "published" THEN snap[c].current ELSE NoVersion

\* The latest other publication of the report.
Previous(c) ==
    LET others == Siblings(sub[c].version)
    IN  IF others = {} THEN NoVersion
        ELSE CHOOSE u \in others : \A w \in others : pub[w].at <= pub[u].at

\* Mutant: the stored text is replaced.
NewText_Replaced(c) == TextOf(sub[c])

\* A version that exists by now is kept as it is.
NewText(c) ==
    LET v == sub[c].version IN IF stored[v] = NoText THEN TextOf(sub[c]) ELSE stored[v]

\* Publishing a version again keeps its publication row.
NewPublication(c) ==
    LET v == sub[c].version
    IN  IF sub[c].publish /\ pub[v] = NoPub
        THEN [at |-> at[c], rollback |-> Previous(c)] ELSE pub[v]

persist_bundle(c) ==
    LET v == sub[c].version
        r == Target(c)
    IN /\ pc[c] = "write"
       /\ (snap[c] = NoReport) <=> (report[r] = NoReport)
       /\ report' = [report EXCEPT ![r] = IF @ = NoReport THEN InsertedReport(c)
                                          ELSE UpdatedReport(c, @)]
       /\ stored' = [stored EXCEPT ![v] = NewText(c)]
       /\ pub' = [pub EXCEPT ![v] = NewPublication(c)]
       /\ Ended(c)

\* A unique constraint, a database error or the end of the process: everything
\* is rolled back.
RolledBack(c) ==
    /\ pc[c] # "idle"
    /\ Ended(c)
    /\ UNCHANGED dbVars

Next ==
    \E c \in Client :
        \/ submit_report(c) \/ Conflict(c) \/ CheckVersion(c) \/ LoadReport(c)
        \/ persist_bundle(c) \/ RolledBack(c)

Spec == Init /\ [][Next]_vars

-----------------------------------------------------------------------------
(* Properties.                                                             *)

Public(r) == report[r].state = "published"

\* The portal joins a public report with its current version: that version is
\* stored, was published and belongs to the report, whatever drafts and
\* publications ran at the same time.
CurrentIsPublished ==
    \A r \in Report : Public(r) =>
        /\ pub[report[r].current] # NoPub
        /\ stored[report[r].current] # NoText
        /\ ReportOf[report[r].current] = r

\* Publications of one report form a chain of rollback targets with one end,
\* also when two versions are published at the same time: the target is read
\* after the lock on the report row, so nobody misses a publication.
OneRollbackRoot ==
    \A u, v \in Version :
        /\ pub[u] # NoPub /\ pub[v] # NoPub
        /\ ReportOf[u] = ReportOf[v]
        /\ pub[u].rollback = NoVersion /\ pub[v].rollback = NoVersion
        => u = v

\* No timestamp is ahead of the clock: with it a latest publication exists.
ClockAhead ==
    /\ \A v \in Version : pub[v].at <= clock
    /\ \A c \in Client : at[c] <= clock

\* The inductive invariant of the proofs.
PublicationInv == TypeOK /\ ClockAhead /\ CurrentIsPublished /\ OneRollbackRoot

Catalog == INSTANCE PublicCatalog WITH
    text <- stored,
    published <- {v \in Version : pub[v] # NoPub},
    shown <- [r \in Report |-> IF Public(r) THEN report[r].current ELSE NoVersion]

\* Publication implements the catalog its readers rely on.
ImplementsCatalog == Catalog!CatalogSpec
=============================================================================
