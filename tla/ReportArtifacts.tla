--------------------------- MODULE ReportArtifacts ---------------------------
(***************************************************************************)
(* What a submission writes besides the report, its version and its        *)
(* publication: ReportPublication with the bundle's structure, the checks  *)
(* of ReportValidator, and the rows for provenance, entities, hunt,        *)
(* remediation and detections. They are written in the same transaction,   *)
(* most of them with ON CONFLICT DO NOTHING or after a lookup, so what a   *)
(* row says depends on what other submissions wrote before.                *)
(*                                                                         *)
(* Data abstracted: of a text only the evidence it cites is kept; evidence *)
(* and documents are numbers, in the order of their identifiers. Products  *)
(* and techniques are upserted alike and are one table here.               *)
(***************************************************************************)
EXTENDS ReportPublication

CONSTANTS
    Evidence,      \* evidence identifiers
    Document,      \* source documents; 0 stands for no document
    DocumentOf,    \* the document an evidence item names, or 0
    BundleOf       \* the bundle of a version with a content

\* What the constructor of a ReportBundle insists on.
WellFormed(b) ==
    /\ b.evidence \subseteq Evidence
    /\ b.headline # {} /\ b.headline \subseteq b.evidence
    /\ Cardinality(b.hunt) <= 1 /\ Cardinality(b.remediation) <= 1

ASSUME ArtifactAssumption ==
    /\ \A v \in Version, c \in Content : WellFormed(BundleOf[v][c])
    /\ Evidence \subseteq Nat \ {0} /\ Document \subseteq Nat \ {0}
    /\ DocumentOf \in [Evidence -> Document \cup {0}]

VARIABLES
    known,       \* source_document rows
    links,       \* entity_evidence rows of origin report_generation
    sections,    \* hunt and remediation rows: kind, id, version
    rules,       \* detection rows: id, version
    mentions,    \* report_entity rows: version, entity
    catalogue,   \* product and attack_technique rows: id, natural key
    knownAt      \* history: the documents there when a version was stored

artifactVars == <<links, sections, rules, mentions, catalogue, knownAt>>
allVars == <<vars, known, artifactVars>>

ArtifactInit ==
    /\ Init
    /\ known = {} /\ links = {} /\ sections = {} /\ rules = {} /\ mentions = {}
    /\ catalogue = {} /\ knownAt = [v \in Version |-> {}]

-----------------------------------------------------------------------------
(* ReportValidator.                                                        *)

\* Every part that is there cites evidence the bundle carries.
CitesWithin(parts, b) == \A x \in parts : x.cites \subseteq b.evidence

\* Mutant: the sections must be there, what they cite is not looked at.
Covered_HeadlineOnly(b) ==
    /\ b.hunt # {} /\ b.remediation # {} /\ b.detections # {}
    /\ b.timeline /\ b.caveats
    /\ ~b.overclaims /\ b.headline \subseteq b.evidence

\* validate_coverage: the required sections, a headline whose words occur in
\* the evidence, and no citation of evidence that is not there. Indicators,
\* vulnerabilities, timeline and relationships are not compared.
Covered(b) ==
    /\ b.hunt # {} /\ b.remediation # {} /\ b.detections # {}
    /\ b.timeline /\ b.caveats
    /\ ~b.overclaims /\ b.headline \subseteq b.evidence
    /\ CitesWithin(b.hunt, b) /\ CitesWithin(b.detections, b)
    /\ CitesWithin(b.remediation, b)
    /\ \A m \in b.remediation : m.cites # {} /\ ~m.blank

\* validate: Sigma and YARA rules compile, queries name their evidence.
Validated(b) ==
    /\ \A d \in b.detections : IF d.query THEN d.cites # {} ELSE d.compiles
    /\ Covered(b)

-----------------------------------------------------------------------------
(* _persist_provenance.                                                    *)

\* A document is linked only if its row is there.
StoredDocument(d) == IF d \in known THEN d ELSE 0

\* The links of one subject before they are numbered; evidence the bundle does
\* not carry is skipped, and 0 stands for a link without evidence.
LinkSet(b, cites, docs, urls) ==
    {[evidence |-> e, doc |-> StoredDocument(DocumentOf[e])] : e \in cites \cap b.evidence}
    \cup {[evidence |-> 0, doc |-> StoredDocument(d)] : d \in docs}
    \cup IF urls THEN {[evidence |-> 0, doc |-> 0]} ELSE {}

Before(k, l) == k.doc < l.doc \/ (k.doc = l.doc /\ k.evidence < l.evidence)

\* Mutant: the links are numbered in the order the set happens to have.
Numbered_Unsorted(entity, set, t) ==
    {[entity |-> entity, evidence |-> k.evidence, doc |-> k.doc,
      index |-> Cardinality({l \in set : IF t % 2 = 0 THEN Before(l, k) ELSE Before(k, l)})]
     : k \in set}

\* Rows of one subject: the identifier is made of the subject, the place among
\* the sorted links, the evidence and the document. t is the time of the call.
Numbered(entity, set, t) ==
    {[entity |-> entity, evidence |-> k.evidence, doc |-> k.doc,
      index |-> Cardinality({l \in set : Before(l, k)})] : k \in set}

Provenance(v, b, t) ==
    Numbered(<<"report", ReportOf[v]>>, LinkSet(b, b.evidence, {}, b.references), t)
    \cup Numbered(<<"version", v>>, LinkSet(b, b.evidence, {}, FALSE), t)
    \cup UNION {Numbered(<<x.kind, x.id>>, LinkSet(b, x.cites, {}, FALSE), t)
                : x \in b.subjects \cup b.detections \cup b.hunt \cup b.remediation}
    \cup UNION {Numbered(<<"technique", x.id>>, LinkSet(b, {}, x.docs, FALSE), t)
                : x \in b.techniques}

-----------------------------------------------------------------------------
(* The rows with identifiers of their own.                                 *)

Entry(x) == [id |-> x.id, key |-> x.key]

\* Upserted rows: a known natural key keeps its row, identifier included.
NewEntries(b) ==
    {Entry(x) : x \in {y \in b.products \cup b.techniques :
                         \A row \in catalogue : row.key # y.key}}

\* Rows that belong to one version: at most one hunt and one remediation each.
Section(x, v) == [kind |-> x.kind, id |-> x.id, version |-> v]
Has(v, kind) == \E row \in sections : row.kind = kind /\ row.version = v

\* Mutant: the row is looked up by its identifier, like a detection.
NewHunt_ById(v, b) ==
    {Section(x, v) : x \in {y \in b.hunt : \A row \in sections :
                               ~(row.kind = y.kind /\ row.id = y.id)}}

\* _persist_hunt, _persist_remediation: nothing if the version has one.
NewHunt(v, b) == {Section(x, v) : x \in {y \in b.hunt : ~Has(v, y.kind)}}
NewRemediation(v, b) == {Section(x, v) : x \in {y \in b.remediation : ~Has(v, y.kind)}}
NewSections(v, b) == NewHunt(v, b) \cup NewRemediation(v, b)

\* _persist_detection: an identifier that is known keeps its row and version.
Rule(d, v) == [id |-> d.id, version |-> v]
NewRules(v, b) ==
    {Rule(d, v) : d \in {e \in b.detections : \A row \in rules : row.id # e.id}}

\* _entities, with the roles left out.
Entities(b) == {<<x.kind, x.id>> : x \in b.subjects \cup b.products}
               \cup {<<"technique", x.id>> : x \in b.techniques}

\* A primary key that is taken: a hunt or remediation of another version, a
\* product or technique with another natural key. The INSERT fails.
KeyTaken(v, b) ==
    \/ \E new \in NewSections(v, b), row \in sections :
          new.kind = row.kind /\ new.id = row.id
    \/ \E new \in NewEntries(b), row \in catalogue : new.id = row.id

PersistArtifacts(c) ==
    LET v == sub[c].version
        b == BundleOf[v][sub[c].content]
    IN /\ persist_bundle(c)
       /\ ~KeyTaken(v, b)
       /\ links' = links \cup Provenance(v, b, at[c])
       /\ sections' = sections \cup NewSections(v, b)
       /\ rules' = rules \cup NewRules(v, b)
       /\ mentions' = mentions \cup ({v} \X Entities(b))
       /\ catalogue' = catalogue \cup NewEntries(b)
       /\ knownAt' = IF stored[v] = NoText THEN [knownAt EXCEPT ![v] = known] ELSE knownAt
       /\ UNCHANGED known

\* The pipeline stores a document meanwhile.
DocumentStored ==
    /\ \E d \in Document \ known : known' = known \cup {d}
    /\ UNCHANGED <<vars, artifactVars>>

\* The steps of a submission that write nothing.
OtherStep(c) ==
    /\ \/ submit_report(c) \/ Conflict(c) \/ CheckVersion(c) \/ LoadReport(c)
       \/ RolledBack(c)
    /\ UNCHANGED <<known, artifactVars>>

ArtifactNext == DocumentStored \/ \E c \in Client : OtherStep(c) \/ PersistArtifacts(c)

ArtifactSpec == ArtifactInit /\ [][ArtifactNext]_allVars

-----------------------------------------------------------------------------
(* Properties.                                                             *)

Bundle(v) == BundleOf[v][stored[v].content]

LinkedTo(entity) == {row.evidence : row \in {l \in links : l.entity = entity}}

\* The rows a stored version stands for are there, whatever other versions and
\* concurrent submissions of the same version wrote: a link for each piece of
\* its evidence, its hunt and remediation under its own identifier, a row for
\* each detection, its entities, and a row under the natural key of each of its
\* products and techniques.
TextHasItsRows ==
    \A v \in Version : stored[v] # NoText =>
        LET b == Bundle(v)
        IN /\ b.evidence \subseteq LinkedTo(<<"version", v>>)
           /\ \A x \in b.hunt \cup b.remediation : Has(v, x.kind)
           /\ {d.id : d \in b.detections} \subseteq {row.id : row \in rules}
           /\ {v} \X Entities(b) \subseteq mentions
           /\ \A x \in b.products \cup b.techniques :
                 \E row \in catalogue : row.key = x.key

Cited(b) == b.headline \cup UNION {x.cites : x \in b.hunt \cup b.remediation \cup b.detections}

\* A text stored as approved cites, in its headline, hunt, remediation and
\* detections, only evidence a reader can follow from the version.
ApprovedIsBacked ==
    \A v \in Version : stored[v].approved =>
        Cited(Bundle(v)) \subseteq LinkedTo(<<"version", v>>)

\* Sending a stored version again, as a client does that saw no answer, adds no
\* link unless documents have been stored in between.
RepeatAddsNothing ==
    [][\A c \in Client :
         /\ pc[c] = "write" /\ links' # links
         /\ sub'[c] = NoSub /\ stored[sub[c].version] = TextOf(sub[c])
         => knownAt[sub[c].version] # known]_allVars
==============================================================================
