------------------------------- MODULE Intake -------------------------------
(***************************************************************************)
(* From what a source serves to the evidence rows the rest of the system   *)
(* reads: the bounded HTTP attempts of AsyncHTTPClient.fetch, the          *)
(* normalizers, the conditional validators a process remembers, and the    *)
(* one transaction of DailyPipeline.run_once that stores the source        *)
(* configuration, the raw artifact, the document chain and the             *)
(* observations, or nothing at all.                                        *)
(*                                                                         *)
(* A body stands for the bytes a source serves: a layout and its entries.  *)
(* Hashes are modelled by the value hashed, UUIDv5 ids by the tuple they   *)
(* are computed from.                                                      *)
(***************************************************************************)
EXTENDS Naturals, Sequences, FiniteSets, FiniteSetsExt, TLC

CONSTANTS
    Source,          \* source ids of the registry
    Registry,        \* the possible registries: [Source -> Parser]
    Config,          \* configurations a source may be given
    Settings,        \* the registry files: [Source -> Config]
    Enabled,         \* the configurations with enabled = true
    Body,            \* bodies of answers
    Offers,          \* [Source -> the bodies the source may serve]
    Layout,          \* [Body -> layout of the bytes]
    Entries,         \* [Body -> Seq(entry)]
    Landing,         \* [Source -> final URLs its requests may be redirected to]
    Label,           \* ids and links of entries
    Text,            \* normalized texts
    TooLong,         \* the texts longer than max_input_chars
    Matches,         \* [Text -> what the patterns match in it, refanged]
    Normal,          \* [matched string -> its normal form, or None]
    Suppressed,      \* normal forms the extraction policy suppresses
    MaxRetries,      \* min of the source's and the client's max_retries
    MaxConcurrency,  \* settings.max_concurrency
    None             \* no value

Parser == {"rss", "atom", "json", "html", "pdf"}
Layouts == {"rss", "feed", "xml", "nvd", "kev", "urls", "data", "list", "other"}

(* An item of a body: its id, its link, is it well-formed, its place in    *)
(* the order of publication, its normalized text                           *)
Entry ==
    [ext : Label \cup {None}, link : Label \cup {None}, ok : BOOLEAN, rank : Nat, text : Text]

(* What ExtractionConfig() extracts by default: no email addresses         *)
Extracting == {"url", "path", "ipv4", "domain", "md5"}

Url == UNION {Landing[s] : s \in Source}
Result ==
    {r \in [status : {"completed", "failed", "skipped"}, body : Body \cup {None},
            url : Url \cup {None}] : r.body # None => r.status = "completed" /\ r.url # None}

ASSUME Bounds == MaxRetries \in Nat /\ MaxConcurrency \in Nat
ASSUME Inputs ==
    /\ IsFiniteSet(Source) /\ Registry \subseteq [Source -> Parser]
    /\ Settings \subseteq [Source -> Config] /\ Enabled \subseteq Config
    /\ Layout \in [Body -> Layouts] /\ Offers \in [Source -> SUBSET Body]
    /\ Entries \in [Body -> Seq(Entry)]
    /\ TooLong \subseteq Text
    /\ None \notin Config \cup Body \cup Url \cup Result
ASSUME TextInputs ==
    \A t \in Text :
        /\ IsFiniteSet(Matches[t])
        /\ \A m \in Matches[t] :
              m.type \in Extracting \cup {"cve", "email"} /\ m.start \in Nat /\ m.end \in Nat
        /\ \A m, n \in Matches[t] :
              m.type = n.type /\ m.start = n.start /\ m.end = n.end => m.raw = n.raw

VARIABLES
    parser,      \* the registry: the parser adapter of each source
    config,      \* the configuration of each source in the registry file
    validators,  \* [Source -> the body whose ETag the process remembers]
    phase,       \* "idle" or "collecting"
    row,         \* the run's row: did a source fail, does it count findings
    stage,       \* [Source -> "waiting", "fetching" or "done"]
    attempt,     \* [Source -> attempts made for the source in this run]
    result,      \* [Source -> SourceRunResult of this run, or None]
    sources,     \* the sources table
    history,     \* the source_configuration_history table
    artifacts,   \* the raw_artifacts table
    docs,        \* the source_documents table
    observations,\* the indicator_observation table
    claims,      \* the evidence_claim table: the CVEs documents mention
    unsaved      \* ghost: sources whose remembered body its run did not store
                 \* (rolled back, or the run was already complete)

process == <<validators, phase, stage, attempt, result>>
tables == <<row, sources, history, artifacts, docs, observations, claims>>
vars == <<parser, config, process, tables, unsaved>>

-----------------------------------------------------------------------------
(* Normalization *)

SourceUrl == "source url"

(* external_source_id, else the link of the item, else the source's URL    *)
IdentityKey(e) ==
    IF e.ext # None THEN e.ext ELSE IF e.link # None THEN e.link ELSE SourceUrl

Document(key, e) == [key |-> key, text |-> e.text, rank |-> e.rank]

(* sorted() by publication, of the kept positions of a list: stable        *)
ByRank(ds, kept) ==
    LET Sooner(i, j) == ds[i].rank < ds[j].rank \/ (ds[i].rank = ds[j].rank /\ i < j)
        Place(i) == Cardinality({j \in kept : Sooner(j, i)})
    IN  [n \in 1..Cardinality(kept) |-> ds[CHOOSE i \in kept : Place(i) = n - 1]]

(* Of the items with one identity and one content hash the normalizers     *)
(* keep one, the last in the place of the first, and order what is left by *)
(* publication.                                                            *)
SortDocuments(ds, usable) ==
    LET Same(i) == {j \in usable : ds[j].key = ds[i].key /\ ds[j].text = ds[i].text}
        last == [i \in usable |-> ds[CHOOSE j \in Same(i) : \A k \in Same(i) : k <= j]]
    IN  ByRank(last, {i \in usable : \A j \in Same(i) : i <= j})

Parsed(ds) == [error |-> None, docs |-> ds]
Refused(class) == [error |-> class, docs |-> <<>>]

Items(es) == [i \in 1..Len(es) |-> Document(IdentityKey(es[i]), es[i])]
Usable(es) == {i \in 1..Len(es) : es[i].ok}

(* normalize_feed: the root element must fit the source type               *)
NormalizeFeed(p, b) ==
    IF Layout[b] \notin {"rss", "feed", "xml"} THEN Refused("malformed_xml")
    ELSE IF Layout[b] = "feed" \/ (p = "rss" /\ Layout[b] = "rss")
    THEN Parsed(SortDocuments(Items(Entries[b]), 1..Len(Entries[b])))
    ELSE Refused("schema_error")

(* normalize_kev: one malformed entry refuses the whole catalogue          *)
NormalizeKev(b) ==
    IF Usable(Entries[b]) # 1..Len(Entries[b])
    THEN Refused("schema_error")
    ELSE Parsed(Items(Entries[b]))

(* normalize_nvd skips an entry without a usable id                        *)
NormalizeNvd(b) == Parsed(SortDocuments(Items(Entries[b]), Usable(Entries[b])))

(* So do the branches for URLhaus and ThreatFox                            *)
NormalizeIocs(b) == Parsed(SortDocuments(Items(Entries[b]), Usable(Entries[b])))

(* In a plain list the position stands in for a missing id                 *)
NormalizeList(b) ==
    LET Numbered(i) == IF Entries[b][i].ext # None THEN Entries[b][i].ext
                       ELSE "item-" \o ToString(i - 1)
        items == [i \in 1..Len(Entries[b]) |-> Document(Numbered(i), Entries[b][i])]
    IN  Parsed(SortDocuments(items, Usable(Entries[b])))

(* normalize_json dispatches on the payload                                *)
NormalizeJson(b) ==
    CASE Layout[b] = "nvd" -> NormalizeNvd(b)
      [] Layout[b] = "kev" -> NormalizeKev(b)
      [] Layout[b] \in {"urls", "data"} -> NormalizeIocs(b)
      [] Layout[b] = "list" -> NormalizeList(b)
      [] OTHER -> Refused("invalid_json")

(* normalize_html and normalize_pdf: one document of the visible text, for *)
(* which the first entry stands                                            *)
NormalizePage(p, b) ==
    IF Len(Entries[b]) = 0 THEN Refused(IF p = "html" THEN "empty_html" ELSE "empty_pdf")
    ELSE Parsed(<<Document(SourceUrl, Entries[b][1])>>)

Normalize(p, b) ==
    CASE p \in {"rss", "atom"} -> NormalizeFeed(p, b)
      [] p = "json" -> NormalizeJson(b)
      [] p \in {"html", "pdf"} -> NormalizePage(p, b)

Normalized == [p \in Parser |-> [b \in Body |-> Normalize(p, b)]]

-----------------------------------------------------------------------------
(* Extraction *)

Within(c, d) == d.start <= c.start /\ c.end <= d.end
Overlap(c, d) == c.start < d.end /\ d.start < c.end
SameValue(c, d) == c.type = d.type /\ c.value = d.value

(* _candidate_value: the normal form, and whether the policy suppresses it *)
CandidateValue(m) ==
    [type |-> m.type, value |-> Normal[m.raw], start |-> m.start, end |-> m.end,
     suppressed |-> Normal[m.raw] \in Suppressed]

(* A match whose string has no normal form is passed over                  *)
CollectCandidates(t) ==
    {CandidateValue(m) : m \in {x \in Matches[t] : x.type \in Extracting /\ Normal[x.raw] # None}}
Collectable == [t \in Text |-> CollectCandidates(t)]

Priority == [url |-> 0, path |-> 3, ipv4 |-> 5, domain |-> 6, md5 |-> 9]

Earlier(c, d) ==
    \/ c.start < d.start
    \/ c.start = d.start /\ Priority[c.type] < Priority[d.type]
    \/ /\ c.start = d.start /\ Priority[c.type] = Priority[d.type]
       /\ c.end > d.end

(* Mutant: a repeated value is not looked for.                             *)
Redundant_OverlapOnly(c, taken) == \E d \in taken : Overlap(c, d) /\ c.type # d.type

Redundant(c, taken) ==
    \/ \E d \in taken : SameValue(c, d)
    \/ \E d \in taken : Overlap(c, d) /\ c.type # d.type

(* _select_candidates: in order of position; nothing inside a URL, one per *)
(* value, and nothing that overlaps a match of another type taken before   *)
SelectCandidates(cs) ==
    LET InUrl(c) == \E u \in cs : u.type = "url" /\ u # c /\ Within(c, u)
    IN  CHOOSE taken \in SUBSET cs :
            \A c \in cs :
                c \in taken <=> ~InUrl(c) /\ ~Redundant(c, {d \in taken : Earlier(d, c)})

(* extract_document: the suppressed matches take part in the selection and *)
(* are not stored                                                          *)
Extract(t) == {c \in SelectCandidates(Collectable[t]) : ~c.suppressed}
Extracted == [t \in Text |-> Extract(t)]

(* _extract_cves: each CVE once, wherever it stands                        *)
ExtractCves(t) == {Normal[m.raw] : m \in {x \in Matches[t] : x.type = "cve"}}

-----------------------------------------------------------------------------
(* One HTTP attempt of a source, AsyncHTTPClient.fetch *)

Transient == {"http_429", "http_5xx", "connect", "timeout", "network"}
Permanent == {"http_4xx", "redirects", "scheme", "tls", "bad_length"}

(* Mutant: the attempts are not counted.                                   *)
CanRetry_Always(s) == TRUE

CanRetry(s) == attempt[s] < MaxRetries

(* A full answer: is its media type listed, does it fit, before and after  *)
(* it is unpacked                                                          *)
Answer == [listed : BOOLEAN, size : {"fits", "over", "inflates", "corrupt"}]

BodyIsXmlFeed(b) == Layout[b] \in {"rss", "feed"}

(* An unlisted media type is let through for a feed parser and a feed      *)
Degraded(p, b) == p \in {"rss", "atom"} /\ BodyIsXmlFeed(b)

(* An archive must unpack, and within the bound                            *)
Decompresses(a) == a.size \notin {"inflates", "corrupt"}

(* Is the answer kept? The read is bounded first                           *)
Accepted(p, b, a) ==
    /\ a.size # "over"
    /\ a.listed \/ Degraded(p, b)
    /\ Decompresses(a)

Completed(b, url) == [status |-> "completed", body |-> b, url |-> url]
Outcome(status) == [status |-> status, body |-> None, url |-> None]

Settle(s, r) ==
    /\ result' = [result EXCEPT ![s] = r]
    /\ stage' = [stage EXCEPT ![s] = "done"]
    /\ attempt' = [attempt EXCEPT ![s] = 0]

(* The semaphore admits a source; a disabled one is recorded and done      *)
StartSource(s) ==
    /\ phase = "collecting" /\ stage[s] = "waiting"
    /\ Cardinality({t \in Source : stage[t] = "fetching"}) < MaxConcurrency
    /\ \/ /\ config[s] \notin Enabled
          /\ Settle(s, Outcome("skipped"))
       \/ /\ config[s] \in Enabled
          /\ stage' = [stage EXCEPT ![s] = "fetching"]
          /\ UNCHANGED <<attempt, result>>
    /\ UNCHANGED <<parser, config, validators, phase, tables, unsaved>>

(* An attempt the server or the network fails: tried again, or the end     *)
AttemptFails(s) ==
    /\ stage[s] = "fetching"
    /\ \E fault \in Transient \cup Permanent :
          \/ /\ fault \in Transient /\ CanRetry(s)
             /\ attempt' = [attempt EXCEPT ![s] = (@ + 1) % (MaxRetries + 2)]
             /\ UNCHANGED <<stage, result>>
          \/ /\ fault \in Permanent \/ ~CanRetry(s)
             /\ Settle(s, Outcome("failed"))
    /\ UNCHANGED <<parser, config, validators, phase, tables, unsaved>>

(* 304: the source serves what the remembered validators name              *)
NotModified(s) ==
    /\ stage[s] = "fetching"
    /\ validators[s] # None
    /\ Settle(s, Outcome("completed"))
    /\ UNCHANGED <<parser, config, validators, phase, tables, unsaved>>

(* Mutant: validators are remembered before the body is parsed.            *)
Remembers_AtOnce(p, b) == TRUE

(* The validators are remembered once the body is parsed                   *)
Remembers(p, b) == Normalized[p][b].error = None

(* A body arrives, whichever the source serves at this moment: it is       *)
(* refused, it cannot be normalized, or it is kept                         *)
Receive(s) ==
    /\ stage[s] = "fetching"
    /\ \/ /\ {x \in Offers[s] : \E a \in Answer : ~Accepted(parser[s], x, a)} # {}
          /\ Settle(s, Outcome("failed"))
          /\ UNCHANGED validators
       \/ \E url \in Landing[s],
             b \in {x \in Offers[s] : \E a \in Answer : Accepted(parser[s], x, a)} :
             /\ Settle(s, IF Normalized[parser[s]][b].error = None
                          THEN Completed(b, url) ELSE Outcome("failed"))
             /\ validators' = IF Remembers(parser[s], b)
                              THEN [validators EXCEPT ![s] = b] ELSE validators
    /\ UNCHANGED <<parser, config, phase, tables, unsaved>>

-----------------------------------------------------------------------------
(* The transaction of run_once *)

Fresh == {s \in Source : result[s].status = "completed" /\ result[s].body # None}

(* collect_once orders the documents of every source by publication        *)
Ordered ==
    [p \in Parser |-> [b \in Body |->
        ByRank(Normalized[p][b].docs, 1..Len(Normalized[p][b].docs))]]
DocsOf(s) == Ordered[parser[s]][result[s].body]
ArtifactOf(s) ==
    [id |-> <<s, result[s].url, result[s].body>>, source |-> s, body |-> result[s].body]

(* upsert_source: a configuration seen before keeps its version            *)
NextVersion(s) ==
    LET past == {h.version : h \in {x \in history : x.source = s}}
        known == {h \in history : h.source = s /\ h.config = config[s]}
        stored == {x.version : x \in {y \in sources : y.source = s}}
    IN  IF known # {} THEN (CHOOSE h \in known : TRUE).version
        ELSE Max({v + 1 : v \in past \cup stored} \cup {1})

UpsertedSources ==
    {[source |-> s, config |-> config[s], version |-> NextVersion(s)] : s \in Source}

(* ON CONFLICT (source, configuration hash) DO NOTHING                     *)
UpsertedHistory ==
    history \cup {x \in UpsertedSources :
                     ~\E h \in history : h.source = x.source /\ h.config = x.config}

(* persist_raw_artifact: ON CONFLICT (source, canonical url, hash) DO NOTHING *)
StoredArtifacts ==
    artifacts \cup {a \in {ArtifactOf(s) : s \in Fresh} :
                       ~\E x \in artifacts : x.source = a.source /\ x.body = a.body}

(* persist_source_document: the row with this identity and hash, or a new  *)
(* version that supersedes the latest                                      *)
DocId(d) == <<d.source, d.key, d.text>>

(* Mutant: the lookup sees only what was stored before this transaction.   *)
StoreDocument_NoFlush(s, art, table, d) ==
    LET chain == {x \in docs : x.source = s /\ x.key = d.key}
        latest == Max({x.version : x \in chain} \cup {0})
    IN  IF \E x \in chain : x.text = d.text THEN table
        ELSE table \cup {[source |-> s, key |-> d.key, text |-> d.text,
                          version |-> latest + 1, artifact |-> art,
                          supersedes |-> {DocId(x) : x \in {y \in chain : y.version = latest}}]}

StoreDocument(s, art, table, d) ==
    LET chain == {x \in table : x.source = s /\ x.key = d.key}
        latest == Max({x.version : x \in chain} \cup {0})
    IN  IF \E x \in chain : x.text = d.text THEN table
        ELSE table \cup {[source |-> s, key |-> d.key, text |-> d.text,
                          version |-> latest + 1, artifact |-> art,
                          supersedes |-> {DocId(x) : x \in {y \in chain : y.version = latest}}]}

(* The documents of a source one after the other: the table after each of  *)
(* them                                                                    *)
TableAfter(table, s, ds) ==
    LET After[n \in 0..Len(ds)] ==
            IF n = 0 THEN table ELSE StoreDocument(s, ArtifactOf(s).id, After[n - 1], ds[n])
    IN  After
StoredFor(table, s) == TableAfter(table, s, DocsOf(s))[Len(DocsOf(s))]
StoredDocs == docs \cup UNION {StoredFor(docs, s) : s \in Fresh}

(* persist_extraction for every document of the run, the ones that were    *)
(* already stored included                                                 *)
Collected == UNION {{[source |-> s, key |-> DocsOf(s)[i].key, text |-> DocsOf(s)[i].text] :
                        i \in 1..Len(DocsOf(s))} : s \in Fresh}
Findings(ds) ==
    UNION {{[doc |-> DocId(d), type |-> c.type, value |-> c.value,
             start |-> c.start, end |-> c.end] : c \in Extracted[d.text]} : d \in ds}
Mentioned(ds) == UNION {{[doc |-> DocId(d), cve |-> v] : v \in ExtractCves(d.text)} : d \in ds}

(* What makes the transaction raise: a document over the extraction limit, *)
(* or a new document whose artifact row has another id                     *)
Raises ==
    \/ \E d \in Collected : d.text \in TooLong
    \/ \E d \in StoredDocs \ docs : d.artifact \notin {a.id : a \in StoredArtifacts}

NewRow == [failed |-> FALSE, found |-> FALSE]
Complete == ~row.failed /\ row.found

EndRun ==
    /\ phase' = "idle"
    /\ stage' = [s \in Source |-> "waiting"]
    /\ result' = [s \in Source |-> None]
    /\ UNCHANGED <<parser, config, validators, attempt>>

AllSettled == phase = "collecting" /\ \A s \in Source : stage[s] = "done"

(* The commit; a run whose row is complete with findings stores nothing    *)
Commit ==
    /\ AllSettled
    /\ \/ /\ Complete
          /\ unsaved' = unsaved \cup Fresh
          /\ UNCHANGED tables
       \/ /\ ~Complete /\ ~Raises
          /\ sources' = UpsertedSources
          /\ history' = UpsertedHistory
          /\ artifacts' = StoredArtifacts
          /\ docs' = StoredDocs
          /\ observations' = observations \cup Findings(Collected)
          /\ claims' = claims \cup Mentioned(Collected)
          /\ row' = [failed |-> \E s \in Source : result[s].status = "failed",
                     found |-> IF Collected = {} THEN row.found
                               ELSE Findings(Collected) # {} \/ Mentioned(Collected) # {}]
          /\ unsaved' = unsaved \ Fresh
    /\ EndRun

(* Mutant: the artifacts are committed on their own.                       *)
RolledBack_ArtifactsKept == StoredArtifacts

(* What a rolled-back transaction leaves                                   *)
RolledBack == artifacts

(* The transaction raises, or the database connection fails under it       *)
Rollback ==
    /\ AllSettled
    /\ artifacts' = RolledBack
    /\ unsaved' = unsaved \cup Fresh
    /\ EndRun
    /\ UNCHANGED <<row, sources, history, docs, observations, claims>>

-----------------------------------------------------------------------------
(* The environment *)

(* The run of a new period, or the one at hand tried again                 *)
BeginRun ==
    /\ phase = "idle"
    /\ phase' = "collecting"
    /\ row' \in {row, NewRow}
    /\ UNCHANGED <<parser, config, validators, stage, attempt, result,
                   sources, history, artifacts, docs, observations, claims, unsaved>>

(* The process ends at any point; a new one reads the registry file again  *)
Restart(c) ==
    /\ config' = c
    /\ validators' = [s \in Source |-> None]
    /\ attempt' = [s \in Source |-> 0]
    /\ phase' = "idle"
    /\ stage' = [s \in Source |-> "waiting"]
    /\ result' = [s \in Source |-> None]
    /\ unsaved' = {}
    /\ UNCHANGED <<parser, tables>>

Init ==
    /\ parser \in Registry
    /\ config \in Settings
    /\ validators = [s \in Source |-> None]
    /\ phase = "idle" /\ row = NewRow
    /\ stage = [s \in Source |-> "waiting"]
    /\ attempt = [s \in Source |-> 0]
    /\ result = [s \in Source |-> None]
    /\ sources = {} /\ history = {} /\ artifacts = {} /\ docs = {}
    /\ observations = {} /\ claims = {} /\ unsaved = {}

SourceStep(s) == StartSource(s) \/ AttemptFails(s) \/ NotModified(s) \/ Receive(s)

Next ==
    \/ BeginRun \/ Commit \/ Rollback
    \/ \E s \in Source : SourceStep(s)
    \/ \E c \in Settings : Restart(c)

(* The event loop runs every started task and the coordinator awaiting     *)
(* them; a source answers, or the client times out.                        *)
Spec ==
    /\ Init /\ [][Next]_vars
    /\ \A s \in Source : WF_vars(SourceStep(s))
    /\ WF_vars(Commit \/ Rollback)
-----------------------------------------------------------------------------
(* Properties *)

Configured == [source : Source, config : Config, version : Nat \ {0}]

(* The state has its type.                                                 *)
TypeOK ==
    /\ parser \in Registry /\ config \in Settings
    /\ validators \in [Source -> Body \cup {None}]
    /\ phase \in {"idle", "collecting"}
    /\ row \in [failed : BOOLEAN, found : BOOLEAN]
    /\ stage \in [Source -> {"waiting", "fetching", "done"}]
    /\ attempt \in [Source -> 0..MaxRetries + 1]
    /\ result \in [Source -> Result \cup {None}]
    /\ \A s \in Source : stage[s] = "done" <=> result[s] # None
    /\ sources \subseteq Configured /\ history \subseteq Configured /\ IsFiniteSet(history)
    /\ artifacts \subseteq [id : Source \X Url \X Body, source : Source, body : Body]
    /\ IsFiniteSet(docs) /\ \A d \in docs : d.source \in Source /\ d.text \in Text
    /\ unsaved \subseteq Source

(* The versions of one document identity are 1..n, no text occurs twice    *)
(* among them, and each supersedes the one before it, also when a source   *)
(* goes back to a text it served before (persist_source_document).         *)
DocumentChain ==
    \A d \in docs :
        LET chain == {x \in docs : x.source = d.source /\ x.key = d.key}
        IN  /\ {x.version : x \in chain} = 1..Cardinality(chain)
            /\ Cardinality({DocId(x) : x \in chain}) = Cardinality(chain)
            /\ d.supersedes = {DocId(x) : x \in {y \in chain : y.version = d.version - 1}}

HoldsAll(s, ds) ==
    \A i \in 1..Len(ds) : \E d \in docs : d.source = s /\ d.key = ds[i].key /\ d.text = ds[i].text

(* No transaction is ever refused because a document names an artifact id  *)
(* that is not there. The artifact's id holds the final URL and its        *)
(* conflict key does not, so the same bytes seen through another redirect  *)
(* keep the first row's id; the documents of those bytes are then all      *)
(* stored already, because artifact and documents commit together.         *)
EvidenceAnchored ==
    /\ \A d \in docs : \E a \in artifacts : a.id = d.artifact
    /\ \A a \in artifacts : HoldsAll(a.source, Ordered[parser[a.source]][a.body])
    /\ AllSettled =>
          \A d \in StoredDocs \ docs : \E a \in StoredArtifacts : a.id = d.artifact

(* The version a source row carries is the one its history gives to the    *)
(* configuration in force, and the configurations of a source have the     *)
(* versions 1..n, each its own, also after a change was taken back         *)
(* (upsert_source).                                                        *)
ConfigurationNamed ==
    /\ sources \subseteq history
    /\ \A s \in Source :
          LET past == {h \in history : h.source = s}
          IN  {h.version : h \in past} = 1..Cardinality(past)
    /\ \A g, h \in history : g.source = h.source /\ g.version = h.version => g = h

(* Observations and claims are those of the texts of stored documents, all *)
(* of them, under the id of the row that holds the text, whichever         *)
(* collection found it (persist_extraction).                               *)
EvidenceExact ==
    /\ \A o \in observations \cup claims : \E d \in docs : o.doc = DocId(d)
    /\ \A d \in docs :
          /\ {o \in observations : o.doc = DocId(d)} = Findings({d})
          /\ {c \in claims : c.doc = DocId(d)} = Mentioned({d})

(* Identities and versions of sources and documents stay in order under    *)
(* rollbacks, restarts and changed registries, and so does what was found  *)
(* in them: the conjunction of the above.                                  *)
IntakeInv == TypeOK /\ DocumentChain /\ ConfigurationNamed /\ EvidenceExact

(* A body whose validators the process sends, and for which a 304 would    *)
(* end the collection with nothing to store, was parsed, and its documents *)
(* are in the database or in the run at hand, whichever other sources of   *)
(* its run failed; the exceptions are the bodies of a run that was rolled  *)
(* back or already complete.                                               *)
RememberedIsStored ==
    \A s \in Source : validators[s] # None =>
        LET parsed == Normalized[parser[s]][validators[s]]
        IN  /\ parsed.error = None
            /\ \/ s \in unsaved
               \/ result[s] # None /\ result[s].body = validators[s]
               \/ HoldsAll(s, parsed.docs)
            /\ result[s] # None /\ result[s].body # None => result[s].body = validators[s]

(* The observations of a stored document are those of its text: one per    *)
(* type and value, none inside a URL, no two of different types over the   *)
(* same characters, and whatever match is left out repeats or overlaps one *)
(* that was taken. The CVEs it mentions are claimed, all of them, those    *)
(* inside a URL too (_select_candidates, _extract_cves).                   *)
ObservationsOfText ==
    \A d \in docs :
        LET seen == {o \in observations : o.doc = DocId(d)}
            found == Collectable[d.text]
            Urls == {c \in found : c.type = "url"}
            Stored(c) == \E o \in seen : o.type = c.type /\ o.value = c.value
            Blocks(c, e) == SameValue(c, e) \/ (c.type # e.type /\ Overlap(c, e))
            InUrl(c) == \E u \in Urls : u # c /\ Within(c, u)
        IN  /\ \A o, p \in seen : o # p => ~SameValue(o, p) /\ (o.type = p.type \/ ~Overlap(o, p))
            /\ \A o \in seen : o.type # "url" => \A u \in Urls : ~Within(o, u)
            /\ {c.cve : c \in {x \in claims : x.doc = DocId(d)}} =
                  {Normal[m.raw] : m \in {x \in Matches[d.text] : x.type = "cve"}}
            /\ \A c \in found :
                  \/ c.suppressed \/ Stored(c) \/ InUrl(c)
                  \/ \E e \in found :
                        ~InUrl(e) /\ Blocks(c, e) /\ (Stored(e) \/ e.suppressed)

(* Every collection ends, whatever the sources answer: the retries of a    *)
(* source are bounded and a waiting source gets its turn.                  *)
RunEnds == phase = "collecting" ~> phase = "idle"
=============================================================================
