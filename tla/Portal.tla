------------------------------- MODULE Portal -------------------------------
(***************************************************************************)
(* The public read side while analysts write: PortalService over           *)
(* SqlPortalReadRepository and SqlEntityReadRepository, and the routes in  *)
(* front of them. A request that needs several statements reads a          *)
(* different database with each of them (READ COMMITTED): the CVE listing  *)
(* counts and fetches page by page, the vulnerability page looks reports   *)
(* up by the slugs a search returned, the relationship list resolves its   *)
(* endpoints one by one, a client revalidates what it holds by ETag.       *)
(*                                                                         *)
(* One request is modelled at a time: requests only read, so what one sees *)
(* depends on the writes between its statements and on nothing else. What  *)
(* ORDER BY with OFFSET and LIMIT returns is a set: the rows with so many  *)
(* rows ahead of them.                                                     *)
(***************************************************************************)
EXTENDS Naturals, FiniteSets, FiniteSetsExt

CONSTANTS
    Report,
    Severity,      \* [Report -> rank]: set when the row is created, never after
    Content,       \* bundles of report versions
    Cve,           \* numbers, in the order of the ids
    Query,         \* filters of the CVE listing
    CvePage,       \* its page_size
    Finding,       \* [Content -> [Cve -> the bundle's vulnerability, or None]]
    Entity,
    Mentions,      \* [Content -> SUBSET Entity]
    Hidden,        \* indicators without public_visibility
    Relation,      \* the reviewed and active relationships
    PageSize,      \* 100
    Limit,         \* 100, of the relationship list
    MaxWrites,     \* bound: report submissions
    None

Vulnerability == [cvss : 0..10 \cup {None}, epss : 0..100 \cup {None}, kev : BOOLEAN]

ASSUME PortalInputs ==
    /\ IsFiniteSet(Report) /\ Severity \in [Report -> 1..4]
    /\ Finding \in [Content -> [Cve -> Vulnerability \cup {None}]]
    /\ Mentions \in [Content -> SUBSET Entity]
    /\ Hidden \subseteq Entity
    /\ Relation \subseteq [id : Nat, from : Entity, to : Entity]
    /\ IsFiniteSet(Cve) /\ Cve \subseteq Nat /\ CvePage \in Nat
    /\ Query \subseteq [kev : BOOLEAN, min_cvss : 0..10 \cup {None}, severities : SUBSET (0..4)]
    /\ PageSize \in Nat \ {0} /\ Limit \in Nat /\ MaxWrites \in Nat
    /\ None \notin Nat \cup Content \cup Vulnerability \cup (Report \X Content)

VARIABLES
    rows,     \* reports: state, head (what the row's headline and slug come
              \* from), current version, versions saved, versions published,
              \* last_updated_at as the number of the write
    writes,   \* submissions so far
    job,      \* the request at hand
    touched,  \* ghost: reports written since the request, or its last answer
    arrived   \* ghost: a report became public between a count and its fetch

vars == <<rows, writes, job, touched, arrived>>
tables == <<rows, writes>>

Row ==
    [state : {"absent", "draft", "published"}, head : Content \cup {None},
     current : Content \cup {None}, saved : SUBSET Content, issued : SUBSET Content,
     updated : 0..MaxWrites]

Absent ==
    [state |-> "absent", head |-> None, current |-> None, saved |-> {}, issued |-> {},
     updated |-> 0]
Idle == [kind |-> "none"]

-----------------------------------------------------------------------------
(* The writer: ReportRepository.persist_bundle as one step *)

Inserted(c, publish) ==
    [state |-> IF publish THEN "published" ELSE "draft", head |-> c, current |-> c,
     saved |-> {c}, issued |-> IF publish THEN {c} ELSE {}, updated |-> writes + 1]

(* A draft moves the headline, the slug and last_updated_at of a public    *)
(* report and leaves its current version                                   *)
Updated(row, c, publish) ==
    [state |-> IF publish THEN "published" ELSE row.state, head |-> c,
     current |-> IF publish THEN c ELSE row.current, saved |-> row.saved \cup {c},
     issued |-> IF publish THEN row.issued \cup {c} ELSE row.issued, updated |-> writes + 1]

Save(r, c, publish) ==
    /\ writes < MaxWrites
    /\ writes' = writes + 1
    /\ rows' = [rows EXCEPT ![r] = IF @ = Absent THEN Inserted(c, publish)
                                   ELSE Updated(@, c, publish)]
    /\ touched' = IF job = Idle THEN touched ELSE touched \cup {r}
    /\ arrived' = (arrived \/ (/\ job.kind = "cves" /\ job.pc = "counted"
                               /\ publish /\ rows[r].state # "published"))
    /\ UNCHANGED job

-----------------------------------------------------------------------------
(* SqlPortalReadRepository *)

Public(r) == rows[r].state = "published"

Published == {r \in Report : Public(r)}

(* The order PRIORITY: severity, then last update                          *)
Sooner(q, r) ==
    \/ Severity[q] > Severity[r]
    \/ Severity[q] = Severity[r] /\ rows[q].updated > rows[r].updated
Ahead(reports, r) == {q \in reports : Sooner(q, r)}

PageOf(reports, n) ==
    {r \in reports : Cardinality(Ahead(reports, r)) \in (n - 1) * PageSize..n * PageSize - 1}

-----------------------------------------------------------------------------
(* list_cves *)

Begin(j) == job = Idle /\ job' = j /\ touched' = {} /\ arrived' = FALSE /\ UNCHANGED tables

ListCves(q) ==
    Begin([kind |-> "cves", query |-> q, pc |-> "start", page |-> 1, total |-> 0,
           listed |-> {}, entries |-> [x \in Cve |-> None]])

CountReports ==
    /\ job.kind = "cves" /\ job.pc = "start"
    /\ job' = [job EXCEPT !.pc = "counted", !.total = Cardinality(Published)]
    /\ UNCHANGED <<tables, touched, arrived>>

Highest(scores) == IF scores \subseteq {None} THEN None ELSE Max(scores \ {None})

Record(r, x) == Finding[rows[r].current][x]
Recording(page, x) == {r \in page : Record(r, x) # None}
LastOf(page) == CHOOSE r \in page : \A q \in page : ~Sooner(r, q)

(* Mutant: the report read last decides about exploitation.                *)
Merge_LastKev(entry, page, x) ==
    LET told == Recording(page, x)
        old == IF entry = None THEN {} ELSE {entry}
        scored == {r \in told : Record(r, x).epss # None}
    IN  IF told = {} THEN entry ELSE
            [cvss |-> Highest({v.cvss : v \in old} \cup {Record(r, x).cvss : r \in told}),
             epss |-> IF scored # {} THEN Record(LastOf(scored), x).epss
                      ELSE IF entry = None THEN None ELSE entry.epss,
             kev |-> Record(LastOf(told), x).kev]

(* The records of a CVE in the reports of a page, merged into its entry in *)
(* the order of the page: the highest CVSS, the EPSS met last, exploited   *)
(* if any report says so                                                   *)
Merge(entry, page, x) ==
    LET told == Recording(page, x)
        old == IF entry = None THEN {} ELSE {entry}
        scored == {r \in told : Record(r, x).epss # None}
    IN  IF told = {} THEN entry ELSE
            [cvss |-> Highest({v.cvss : v \in old} \cup {Record(r, x).cvss : r \in told}),
             epss |-> IF scored # {} THEN Record(LastOf(scored), x).epss
                      ELSE IF entry = None THEN None ELSE entry.epss,
             kev |-> (\E v \in old : v.kev) \/ \E r \in told : Record(r, x).kev]

MergeAll(entries, page) == [x \in Cve |-> Merge(entries[x], page, x)]

AtLeast(a, bound) == a # None /\ a >= bound

(* The severity shown for a CVE: 4 critical, 3 high, 2 medium, 1 low, 0    *)
(* none; EPSS in hundredths                                                *)
SeverityOf(e) ==
    CASE e.kev \/ AtLeast(e.cvss, 9) \/ AtLeast(e.epss, 50) -> 4
      [] ~e.kev /\ ~AtLeast(e.cvss, 9) /\ ~AtLeast(e.epss, 50)
         /\ (AtLeast(e.cvss, 7) \/ AtLeast(e.epss, 20)) -> 3
      [] OTHER -> IF e.cvss = None THEN 0 ELSE IF e.cvss >= 4 THEN 2 ELSE 1

Matches(q, e) ==
    /\ q.kev => e.kev
    /\ q.min_cvss # None => AtLeast(e.cvss, q.min_cvss)
    /\ q.severities # {} => SeverityOf(e) \in q.severities

OrZero(v) == IF v = None THEN 0 ELSE v

(* The sort PRIORITY: exploited, CVSS, EPSS, then the id                   *)
Key(e) == <<IF e.kev THEN 1 ELSE 0, OrZero(e.cvss), OrZero(e.epss)>>
Precedes(es, x, y) ==
    LET k == Key(es[x])
        l == Key(es[y])
    IN  \/ k = l /\ x < y
        \/ \E i \in 1..3 : k[i] > l[i] /\ \A n \in 1..i - 1 : k[n] = l[n]

(* Mutant: the pages are counted from one too many.                        *)
LastPage_Counted(items) == items = {} \/ (job.page + 1) * PageSize >= job.total

LastPage(items) == Cardinality(items) < PageSize \/ job.page * PageSize >= job.total

NextPage(n) == n + 1

FetchReports ==
    /\ job.kind = "cves" /\ job.pc = "counted"
    /\ LET items == PageOf(Published, job.page)
           last == LastPage(items)
       IN  job' = [job EXCEPT !.listed = @ \cup {<<r, rows[r].current>> : r \in items},
                              !.entries = MergeAll(@, items),
                              !.pc = IF last THEN "done" ELSE "start",
                              !.page = IF last THEN @ ELSE NextPage(@)]
    /\ UNCHANGED <<tables, touched, arrived>>

(* The answer: the first page of the entries that pass the filters         *)
Passing == {x \in Cve : job.entries[x] # None /\ Matches(job.query, job.entries[x])}
Before(x) == {y \in Passing : Precedes(job.entries, y, x)}
Shown == {x \in Passing : Cardinality(Before(x)) < CvePage}

-----------------------------------------------------------------------------
(* vulnerability_page: the reports a search for the CVE returns, then each *)
(* looked up by its slug, in a session of its own, until one has a record. *)
(* A report that only mentions the CVE is passed over like a moved slug.   *)

Lists(r, x) == Finding[rows[r].current][x] # None
SlugOf(r) == <<r, rows[r].head>>

VulnerabilityPage(x) ==
    LET hits == PageOf({r \in Published : Lists(r, x)}, 1)
    IN  Begin([kind |-> "vulnerability", cve |-> x, hits |-> hits, found |-> None,
               queue |-> {[place |-> Cardinality(Ahead(hits, r)), slug |-> SlugOf(r)] :
                             r \in hits}])

First(queue) == CHOOSE h \in queue : \A g \in queue : h.place <= g.place

GetReport ==
    /\ job.kind = "vulnerability" /\ job.queue # {}
    /\ LET hit == First(job.queue)
           match == {r \in Report : Public(r) /\ SlugOf(r) = hit.slug /\ Lists(r, job.cve)}
       IN  \/ /\ match = {}
              /\ job' = [job EXCEPT !.queue = @ \ {hit}]
           \/ \E r \in match :
                 job' = [job EXCEPT !.queue = {}, !.found = <<r, rows[r].current>>]
    /\ UNCHANGED <<tables, touched, arrived>>

-----------------------------------------------------------------------------
(* public_relationships *)

(* _published_membership: some version of a published report names it      *)
Member(e) == \E r \in Report : Public(r) /\ \E c \in rows[r].saved : e \in Mentions[c]

(* An endpoint is resolved by its id, the entity asked for by its key:     *)
(* only the second looks at the visibility of an indicator                 *)
GetPublicEntityById(e) == Member(e)
GetPublicEntity(e) == Member(e) /\ e \notin Hidden

(* The select, after the entity asked for, if any, was resolved            *)
PublicRelationships(about) ==
    LET rels == {l \in Relation :
                    /\ Member(l.from) /\ Member(l.to)
                    /\ about # None => about \in {l.from, l.to} /\ GetPublicEntity(about)}
        page == {l \in rels : Cardinality({k \in rels : k.id < l.id}) < Limit}
    IN  Begin([kind |-> "graph", left |-> page, picked |-> page, shown |-> {}])

(* Both endpoints resolved again, each by a statement of its own           *)
ResolveEndpoints ==
    /\ job.kind = "graph" /\ job.left # {}
    /\ LET l == CHOOSE x \in job.left : \A y \in job.left : x.id <= y.id
       IN  job' = [job EXCEPT !.left = @ \ {l},
                      !.shown = IF GetPublicEntityById(l.from) /\ GetPublicEntityById(l.to)
                                THEN @ \cup {l} ELSE @]
    /\ UNCHANGED <<tables, touched, arrived>>

-----------------------------------------------------------------------------
(* A client of the report detail: the body it holds and revalidates *)

Detail(r) == [head |-> rows[r].head, version |-> rows[r].current]

(* Mutant: the tag is that of the version alone.                           *)
Etag_Version(body) == body.version

(* A hash of the whole payload                                             *)
Etag(body) == body

GetDetail(r) ==
    /\ Public(r)
    /\ Begin([kind |-> "client", report |-> r, body |-> Detail(r)])

(* 304 when the ETag is the one sent, else the new body                    *)
Revalidate ==
    /\ job.kind = "client"
    /\ job' = IF Etag(Detail(job.report)) = Etag(job.body) THEN job
              ELSE [job EXCEPT !.body = Detail(job.report)]
    /\ touched' = {}
    /\ UNCHANGED <<tables, arrived>>

(* report_section_partial reads the report twice, by its identifier: once  *)
(* for the header, once for the section; the second read may find nothing  *)
SectionPartial(r) ==
    /\ Public(r)
    /\ Begin([kind |-> "section", report |-> r, slug |-> SlugOf(r), pc |-> "detail",
              header |-> rows[r].current, section |-> None])

GetSection ==
    /\ job.kind = "section" /\ job.pc = "detail"
    /\ LET match == {r \in Report : Public(r) /\ SlugOf(r) = job.slug}
       IN  job' = [job EXCEPT !.pc = "done",
                      !.section = IF match = {} THEN None
                                  ELSE rows[CHOOSE r \in match : TRUE].current]
    /\ UNCHANGED <<tables, touched, arrived>>

Answered ==
    \/ job.kind = "cves" /\ job.pc = "done"
    \/ job.kind = "vulnerability" /\ job.queue = {}
    \/ job.kind = "graph" /\ job.left = {}
    \/ job.kind = "section" /\ job.pc = "done"
    \/ job.kind = "client"

Close == Answered /\ job' = Idle /\ touched' = {} /\ arrived' = FALSE /\ UNCHANGED tables

-----------------------------------------------------------------------------
Init ==
    /\ rows = [r \in Report |-> Absent]
    /\ writes = 0
    /\ job = Idle /\ touched = {} /\ arrived = FALSE

Step == CountReports \/ FetchReports \/ GetReport \/ ResolveEndpoints \/ GetSection \/ Close

Next ==
    \/ \E r \in Report, c \in Content, publish \in BOOLEAN : Save(r, c, publish)
    \/ \E q \in Query : ListCves(q)
    \/ Step \/ Revalidate
    \/ \E x \in Cve : VulnerabilityPage(x)
    \/ \E about \in Entity \cup {None} : PublicRelationships(about)
    \/ \E r \in Report : GetDetail(r) \/ SectionPartial(r)

Spec == Init /\ [][Next]_vars

-----------------------------------------------------------------------------
(* Properties *)

CveJob ==
    [kind : {"cves"}, query : Query, pc : {"start", "counted", "done"}, page : Nat \ {0},
     total : Nat, listed : SUBSET (Report \X Content),
     entries : [Cve -> Vulnerability \cup {None}]]
VulnerabilityJob ==
    [kind : {"vulnerability"}, cve : Cve, hits : SUBSET Report,
     found : (Report \X Content) \cup {None},
     queue : SUBSET [place : Nat, slug : Report \X Content]]
GraphJob ==
    [kind : {"graph"}, left : SUBSET Relation, picked : SUBSET Relation, shown : SUBSET Relation]
ClientJob == [kind : {"client"}, report : Report, body : [head : Content, version : Content]]
SectionJob ==
    [kind : {"section"}, report : Report, slug : Report \X Content, pc : {"detail", "done"},
     header : Content, section : Content \cup {None}]

(* The state has its type.                                                 *)
TypeOK ==
    /\ rows \in [Report -> Row] /\ writes \in 0..MaxWrites
    /\ job \in {Idle} \cup CveJob \cup VulnerabilityJob \cup GraphJob \cup ClientJob \cup SectionJob
    /\ touched \subseteq Report /\ arrived \in BOOLEAN

(* The version a public row shows was published, and no two rows were      *)
(* written at the same time (persist_bundle): the order is total.          *)
RowsSound ==
    \A r \in Report :
        /\ rows[r].issued \subseteq rows[r].saved /\ rows[r].updated <= writes
        /\ rows[r] # Absent => {rows[r].head, rows[r].current} \subseteq rows[r].saved
        /\ rows[r] = Absent <=> rows[r].updated = 0
        /\ Public(r) => rows[r] # Absent /\ rows[r].current \in rows[r].issued
        /\ \A q \in Report : rows[q] # Absent /\ rows[q].updated = rows[r].updated => q = r

ListingDone == job.kind = "cves" /\ job.pc = "done"

(* The CVE listing, which reads the reports page by page while others      *)
(* write, counts every public report that was not written meanwhile. The   *)
(* one exception is a report that becomes public between the count and the *)
(* fetch of a page: it may push the last report over the end of a page     *)
(* that the count says is the last. Updates only move reports forward,     *)
(* severity and publication being final.                                   *)
ListingComplete ==
    ListingDone /\ ~arrived =>
        \A r \in Published \ touched : <<r, rows[r].current>> \in job.listed

(* Why: a report the listing has not met has at least the rows of all the  *)
(* pages read so far ahead of it, for writes only add to them; and a count *)
(* is true until a report becomes public (list_cves, list_reports).        *)
ListingAdvances ==
    job.kind = "cves" =>
        /\ job.pc # "done" =>
              \A r \in Published \ touched :
                  \/ <<r, rows[r].current>> \in job.listed
                  \/ Cardinality(Ahead(Published, r)) >= (job.page - 1) * PageSize
        /\ job.pc = "counted" /\ ~arrived => Cardinality(Published) = job.total

(* However the reports are ordered, the entry of a CVE is as bad as every  *)
(* report it was merged from makes it: exploited if one says so, and then  *)
(* critical, past every filter on severity or exploitation and on the      *)
(* first page before any CVE that is not; and its CVSS score is no lower   *)
(* than any report's.                                                      *)
WorstKept ==
    ListingDone =>
        \A p \in job.listed, x \in Cve : Finding[p[2]][x] # None =>
            /\ job.entries[x] # None
            /\ Finding[p[2]][x].cvss # None =>
                  AtLeast(job.entries[x].cvss, Finding[p[2]][x].cvss)
            /\ Finding[p[2]][x].kev =>
                  /\ job.entries[x].kev /\ SeverityOf(job.entries[x]) = 4
                  /\ job.query.min_cvss = None /\ job.query.severities \in {{}, {4}} =>
                        \/ x \in Shown
                        \/ /\ Cardinality(Shown) = CvePage
                           /\ \A y \in Shown : job.entries[y].kev

(* The entries so far are as bad as the reports read so far make them.     *)
EntriesWorst ==
    job.kind = "cves" =>
        \A p \in job.listed, x \in Cve : Finding[p[2]][x] # None =>
            /\ job.entries[x] # None
            /\ Finding[p[2]][x].cvss # None =>
                  AtLeast(job.entries[x].cvss, Finding[p[2]][x].cvss)
            /\ Finding[p[2]][x].kev => job.entries[x].kev

(* What the listing, the vulnerability page, the sections and the detail   *)
(* show of a report was published: never the draft an analyst is saving on *)
(* top of it.                                                              *)
DraftsStayPrivate ==
    /\ job.kind = "cves" => \A p \in job.listed : p[2] \in rows[p[1]].issued
    /\ job.kind = "vulnerability" /\ job.found # None => job.found[2] \in rows[job.found[1]].issued
    /\ job.kind = "section" => {job.header, job.section} \subseteq rows[job.report].issued \cup {None}
    /\ job.kind = "client" => Public(job.report) /\ job.body.version \in rows[job.report].issued

(* The vulnerability page finds a record if one of the reports the search  *)
(* returned still has the slug it had: slugs that moved in between are     *)
(* passed over. Until then such a report waits in the queue.               *)
VulnerabilityShown ==
    job.kind = "vulnerability" =>
        \A r \in job.hits \ touched :
            /\ Public(r) /\ Lists(r, job.cve)
            /\ job.found # None \/ \E h \in job.queue : h.slug = SlugOf(r)

(* Every relationship the select returned is shown: an endpoint that was   *)
(* public then is public when it is resolved, whatever versions were       *)
(* published meanwhile.                                                    *)
GraphComplete ==
    job.kind = "graph" =>
        /\ job.shown \cup job.left = job.picked
        /\ \A l \in job.picked : Member(l.from) /\ Member(l.to)

(* A client that was answered, with a body or with 304, holds what the     *)
(* server would send now, unless the report was written since; a section   *)
(* stands under the header of its own version, unless the report was       *)
(* written between the two reads.                                          *)
CopyCurrent ==
    /\ job.kind = "section" =>
          /\ job.slug[1] = job.report
          /\ job.report \notin touched =>
                /\ Public(job.report) /\ job.slug = SlugOf(job.report)
                /\ job.header = rows[job.report].current
                /\ job.pc = "done" => job.section = job.header
    /\ job.kind = "client" /\ job.report \notin touched => job.body = Detail(job.report)

(* Whatever is saved between the statements of a request, it shows what is *)
(* public, loses none of it, and confirms no copy that is out of date.     *)
PortalInv ==
    /\ TypeOK /\ RowsSound /\ DraftsStayPrivate /\ ListingAdvances /\ EntriesWorst
    /\ VulnerabilityShown /\ GraphComplete /\ CopyCurrent
=============================================================================
