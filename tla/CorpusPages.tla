----------------------------- MODULE CorpusPages -----------------------------
(***************************************************************************)
(* GET /api/v1/analyst/corpus/{resource}: keyset pages over a corpus that  *)
(* is written while a client walks it. The reports that decide the filter  *)
(* "published" are those of AnalystDesk.                                   *)
(*                                                                         *)
(* updated_at is the start of the transaction that wrote the row, so rows  *)
(* of one transaction tie and a long transaction commits an old time; an   *)
(* INSERT ... ON CONFLICT that does not name updated_at leaves it alone.   *)
(* A page takes two statements: the rows, then their provenance.           *)
(***************************************************************************)
EXTENDS AnalystDesk

CONSTANTS
    Entry,           \* ids of corpus rows, ordered as numbers
    Kind(_),         \* the CorpusResource an entry belongs to
    Ends(_),         \* the two entities a relationship connects
    Query,           \* CorpusQuery with its resource
    Writes,          \* the sets of entries a transaction may write
    Writer, Limit,
    Scenes,          \* which kinds of client are at work together
    MaxClock         \* bound: transactions

CorpusResource == {"cves", "iocs", "products", "actors", "malware", "tools", "campaigns",
                   "techniques", "urls", "evidence", "relationships", "contradictions"}

ASSUME PagesAssumption ==
    /\ Entry \subseteq Nat /\ IsFiniteSet(Entry)
    /\ Limit \in Nat \ {0} /\ MaxClock \in Nat \ {0}
    /\ None \notin [resource: CorpusResource, id: Entry, at: 1..MaxClock]
    /\ None \notin Query /\ \A q \in Query : q.resource \in CorpusResource

VARIABLES
    clock,     \* the time of the next transaction
    row,       \* the corpus: updated_at, searched attributes, dated by its source
    links,     \* the evidence linked to an entry
    tx,        \* open transactions
    walk,      \* the client
    issued,    \* the last cursor the client was given
    scene      \* the clients at work

corpus == <<clock, row, links, tx, issued, scene>>
vars == <<desk, corpus, walk>>

NoWalk == [phase |-> "idle", query |-> None, cursor |-> None, page |-> {}, items |-> {},
           at |-> None, base |-> None, stable |-> {}, seen |-> [e \in Entry |-> 0]]

Init ==
    /\ DeskInit
    /\ clock = 2
    /\ row = [e \in Entry |-> [at |-> 1, text |-> "old", dated |-> e % 2 = 0]]
    /\ links = [e \in Entry |-> {1}]
    /\ tx = [w \in Writer |-> None]
    /\ walk = NoWalk /\ issued = None
    /\ scene \in Scenes

-----------------------------------------------------------------------------
(* The query.                                                              *)

\* validate_for: contradictions cannot be filtered by publication.
Supported(q) == q.published # None => q.resource # "contradictions"

\* The filters, over a state d of the tables: d.row, and d.listed for what
\* _published_membership finds. Only the handlers of entities ask for the latter.
Common(kind, q, d) ==
    {e \in Entry : Kind(e) = kind /\ (q.search # None => d.row[e].text = q.search)}

Where(q, entries, published) ==
    {e \in entries : q.published # None => (e \in published) = q.published}

Entities(kind, q, d) == Where(q, Common(kind, q, d), d.listed)

cves(q, d) == Entities("cves", q, d)
iocs(q, d) == Entities("iocs", q, d)
products(q, d) == Entities("products", q, d)
actors(q, d) == Entities("actors", q, d)
malware(q, d) == Entities("malware", q, d)
tools(q, d) == Entities("tools", q, d)
campaigns(q, d) == Entities("campaigns", q, d)
techniques(q, d) == Entities("techniques", q, d)

\* Documents and claims count as published when the source dated them.
Dated(d) == {e \in Entry : d.row[e].dated}
urls(q, d) == Where(q, Common("urls", q, d), Dated(d))
evidence(q, d) == Where(q, Common("evidence", q, d), Dated(d))

\* Both ends must be in published reports.
relationships(q, d) ==
    Where(q, Common("relationships", q, d), {e \in Entry : Ends(e) \subseteq d.listed})

contradictions(q, d) == Common("contradictions", q, d)

\* CorpusRepository.query
Matching(q, d) ==
    CASE q.resource = "cves" -> cves(q, d)             [] q.resource = "iocs" -> iocs(q, d)
      [] q.resource = "products" -> products(q, d)     [] q.resource = "actors" -> actors(q, d)
      [] q.resource = "malware" -> malware(q, d)       [] q.resource = "tools" -> tools(q, d)
      [] q.resource = "campaigns" -> campaigns(q, d)   [] q.resource = "techniques" -> techniques(q, d)
      [] q.resource = "urls" -> urls(q, d)             [] q.resource = "evidence" -> evidence(q, d)
      [] q.resource = "relationships" -> relationships(q, d)
      [] q.resource = "contradictions" -> contradictions(q, d)

Tables == [row |-> row, listed |-> Listed]

\* _decode_cursor
Decodes(cursor, q) == cursor = None \/ cursor.resource = q.resource

\* Mutant: the tie of equal times is not broken.
AfterCursor_NoTie(cursor, at, e) == cursor = None \/ at[e] < cursor.at

\* Mutant: the page begins with the row of the cursor.
AfterCursor_Inclusive(cursor, at, e) ==
    cursor = None \/ at[e] < cursor.at \/ (at[e] = cursor.at /\ e >= cursor.id)

\* _keyset
AfterCursor(cursor, at, e) ==
    cursor = None \/ at[e] < cursor.at \/ (at[e] = cursor.at /\ e > cursor.id)

\* ORDER BY updated_at DESC, id and LIMIT n: the rows with fewer than n before them.
InOrder(at, e, f) == at[e] > at[f] \/ (at[e] = at[f] /\ e < f)
Ahead(at, entries, e) == {f \in entries : InOrder(at, f, e)}
Foremost(n, at, entries) == {e \in entries : Cardinality(Ahead(at, entries, e)) < n}

\* _rows: one row more than the limit tells whether there is a next page.
Times == [e \in Entry |-> row[e].at]
Remaining(q, cursor) == {e \in Matching(q, Tables) : AfterCursor(cursor, Times, e)}
Fetch(q, cursor) == Foremost(Limit + 1, Times, Remaining(q, cursor))

\* _page: the rows a client sees, and the last of them.
Visible == Foremost(Limit, walk.at, walk.page)
Marker == CHOOSE e \in Visible : \A f \in Visible : ~InOrder(walk.at, e, f)

-----------------------------------------------------------------------------
(* The client walks: it sends the cursor of each page to get the next.     *)

\* A new walk starts without a cursor, or with one left over from another
\* resource, which is refused with 422.
StartWalk(q, cursor) ==
    /\ walk.phase \in {"idle", "done", "refused"}
    /\ cursor # None => cursor.resource # q.resource
    /\ walk' = [phase |-> IF Supported(q) /\ Decodes(cursor, q) THEN "ask" ELSE "refused",
                query |-> q, cursor |-> cursor, page |-> {}, items |-> {}, at |-> None,
                base |-> None, stable |-> Matching(q, Tables), seen |-> [e \in Entry |-> 0]]
    /\ UNCHANGED <<desk, corpus>>

ReadRows ==
    /\ walk.phase = "ask"
    /\ walk' = [phase |-> "rows", query |-> walk.query, cursor |-> walk.cursor,
                page |-> Fetch(walk.query, walk.cursor), items |-> {}, at |-> Times,
                base |-> links, stable |-> walk.stable, seen |-> walk.seen]
    /\ UNCHANGED <<desk, corpus>>

\* _provenance reads the links of the visible rows in a statement of its own;
\* documents, claims and contradictions carry theirs in the row.
LinksOf(e) ==
    IF walk.query.resource \in {"urls", "evidence", "contradictions"}
    THEN walk.base[e] ELSE links[e]

Items == {[id |-> e, links |-> LinksOf(e)] : e \in Visible}

\* The page answers; seen counts once and more than once.
ReturnPage ==
    /\ walk.phase = "rows"
    /\ LET more == Cardinality(walk.page) > Limit
           cursor == IF more THEN [resource |-> walk.query.resource, id |-> Marker,
                                   at |-> walk.at[Marker]] ELSE None
       IN /\ walk' = [phase |-> IF more THEN "ask" ELSE "done", query |-> walk.query,
                      cursor |-> cursor, page |-> walk.page, items |-> Items, at |-> walk.at,
                      base |-> walk.base, stable |-> walk.stable,
                      seen |-> [e \in Entry |-> IF e \notin Visible THEN walk.seen[e]
                                                ELSE IF walk.seen[e] = 0 THEN 1 ELSE 2]]
          /\ issued' = IF more THEN cursor ELSE issued
    /\ UNCHANGED <<desk, clock, row, links, tx, scene>>

-----------------------------------------------------------------------------
(* Writers: collection, enrichment, correlation and lifecycle transactions.*)

BeginWrite(w) ==
    /\ tx[w] = None /\ clock <= MaxClock
    /\ \E set \in Writes, text \in {"old", "new"}, touch \in BOOLEAN :
        tx' = [tx EXCEPT ![w] = [stamp |-> clock, set |-> set, text |-> text, touch |-> touch]]
    /\ clock' = clock + 1
    /\ UNCHANGED <<desk, row, links, walk, issued, scene>>

\* What a walk may rely on: rows that nobody wrote and that match all along.
Settle ==
    walk' = IF walk.query = None THEN walk ELSE
            [walk EXCEPT !.stable =
                {e \in @ \cap Matching(walk.query, Tables') : row'[e] = row[e]}]

CommitWrite(w) ==
    /\ tx[w] # None
    /\ row' = [e \in Entry |->
                IF e \notin tx[w].set THEN row[e]
                ELSE [at |-> IF tx[w].touch THEN tx[w].stamp ELSE row[e].at,
                      text |-> tx[w].text, dated |-> row[e].dated]]
    /\ links' = [e \in Entry |-> IF e \in tx[w].set THEN links[e] \cup {tx[w].stamp} ELSE links[e]]
    /\ tx' = [tx EXCEPT ![w] = None]
    /\ UNCHANGED <<desk, clock, issued, scene>>
    /\ Settle

Client == ReadRows \/ ReturnPage

Next ==
    \/ "analysts" \in scene /\ ReportsNext /\ UNCHANGED corpus /\ Settle
    \/ "ledger" \in scene /\ LedgerNext /\ UNCHANGED <<corpus, walk>>
    \/ "reader" \in scene /\ \E q \in Query, cursor \in {None, issued} : StartWalk(q, cursor)
    \/ Client
    \/ "writer" \in scene /\ \E w \in Writer : BeginWrite(w) \/ CommitWrite(w)

\* A client that has started a walk asks for the next page in the end.
Spec == Init /\ [][Next]_vars /\ WF_vars(Client)

-----------------------------------------------------------------------------
(* Properties.                                                             *)

Stamp == 1..MaxClock
Row == [at: Stamp, text: {"old", "new"}, dated: BOOLEAN]
Cursor == [resource: CorpusResource, id: Entry, at: Stamp]

TypeOK ==
    /\ clock \in 2..MaxClock + 1 /\ row \in [Entry -> Row] /\ DOMAIN links = Entry
    /\ DOMAIN tx = Writer /\ \A w \in Writer : tx[w] # None => tx[w].stamp \in Stamp /\ tx[w].text \in {"old", "new"}
    /\ walk = [phase |-> walk.phase, query |-> walk.query, cursor |-> walk.cursor,
               page |-> walk.page, items |-> walk.items, at |-> walk.at, base |-> walk.base,
               stable |-> walk.stable, seen |-> walk.seen]
    /\ walk.phase \in {"idle", "ask", "rows", "done", "refused"}
    /\ walk.query \in Query \cup {None} /\ walk.cursor \in Cursor \cup {None}
    /\ walk.page \subseteq Entry /\ Cardinality(walk.page) <= Limit + 1
    /\ Cardinality(walk.items) <= Limit
    /\ walk.stable \subseteq Entry /\ walk.seen \in [Entry -> 0..2]
    /\ issued \in Cursor \cup {None}

\* A walk that has come to its end returned every row that matched throughout
\* and that nobody wrote, whatever was written around it.
WalkComplete == walk.phase = "done" => \A e \in walk.stable : walk.seen[e] > 0

\* A row returned twice in one walk was written, or ceased to match, in between.
NoRepeats == \A e \in walk.stable : walk.seen[e] < 2

\* The provenance of an item is never older than its row: it has at least the
\* evidence that was linked when the rows of the page were read.
ProvenanceComplete == \A x \in walk.items : walk.base[x.id] \subseteq x.links

\* What a walk relies on still matches; only a walk that was never begun has no
\* query, and it relies on nothing.
StableMatch ==
    IF walk.query = None THEN walk.phase = "idle" /\ walk.stable = {}
    ELSE walk.stable \subseteq Matching(walk.query, Tables)

\* Between two pages, the rows that stay and were not returned are those after the
\* cursor.
CursorDivides ==
    walk.phase = "ask" =>
        \A e \in walk.stable : walk.seen[e] = (IF AfterCursor(walk.cursor, Times, e) THEN 0 ELSE 1)

\* Between the two statements of a page: its rows come after the cursor at the
\* times they had, and a row that stays and is not among them has a full page
\* before it.
PageIsForemost ==
    walk.phase = "rows" =>
        /\ walk.at \in [Entry -> Stamp]
        /\ \A e \in walk.page : AfterCursor(walk.cursor, walk.at, e)
        /\ \A e \in walk.stable :
            /\ walk.at[e] = row[e].at
            /\ walk.seen[e] = (IF AfterCursor(walk.cursor, walk.at, e) THEN 0 ELSE 1)
            /\ AfterCursor(walk.cursor, walk.at, e) /\ e \notin walk.page =>
                 /\ Cardinality(walk.page) > Limit
                 /\ \A f \in walk.page : InOrder(walk.at, f, e)

\* Links are only added after the rows of a page were read.
LinksGrow ==
    /\ walk.phase = "rows" => \A e \in Entry : walk.base[e] \subseteq links[e]
    /\ walk.phase \notin {"ask", "done"} => walk.items = {}

\* A client that walks the pages gets every row that stays as it is exactly once,
\* with its evidence.
PagesInv ==
    /\ TypeOK /\ WalkComplete /\ NoRepeats /\ ProvenanceComplete
    /\ StableMatch /\ CursorDivides /\ PageIsForemost /\ LinksGrow

\* A walk ends: the pages do not chase the rows that are written meanwhile.
WalkEnds == walk.phase = "ask" ~> walk.phase = "done"
=============================================================================
