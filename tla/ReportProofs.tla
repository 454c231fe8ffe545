---------------------------- MODULE ReportProofs ----------------------------
(***************************************************************************)
(* Theorems about ReportPublication and, after them, ReportArtifacts, for  *)
(* every set of reports, versions, contents, clients and documents: the    *)
(* publication of reports by clients that interleave, and the rows that    *)
(* stand behind the text of a report.                                      *)
(***************************************************************************)
EXTENDS ReportArtifacts, WellFoundedInduction, TLAPS

\* A non-empty set of naturals has a least element.
LEMMA LeastNatural ==
    ASSUME NEW T \in SUBSET Nat, T # {}
    PROVE  \E x \in T : \A y \in T : x <= y
<1> DEFINE R == OpToRel(<, Nat)
<1>1. \A x, y \in Nat : y < x => <<y, x>> \in R
  BY DEF OpToRel
<1>2. IsWellFoundedOn(R, Nat)
  BY NatLessThanWellFounded, Zenon
<1> HIDE DEF R
<1>3. PICK x \in T : \A y \in T : ~(<<y, x>> \in R)
  BY <1>2, WFMin
<1>4. \A y \in T : ~(y < x)
  BY <1>1, <1>3
<1>5. \A y \in T : x <= y
  BY <1>4
<1> QED
  BY <1>5

\* The lookup of the previous publication finds one whenever there is one.
LEMMA PreviousExists ==
    ASSUME TypeOK, ClockAhead, NEW c \in Client, sub[c] \in Submission
    PROVE  LET others == Siblings(sub[c].version)
           IN  /\ others = {} => Previous(c) = NoVersion
               /\ others # {} => Previous(c) \in others
<1> DEFINE others == Siblings(sub[c].version)
           age == {clock - pub[u].at : u \in others}
<1>1. others \subseteq Version
  BY DEF Siblings
<1>2. \A u \in Version : pub[u].at \in Nat /\ pub[u].at <= clock
  BY DEF TypeOK, ClockAhead, Publication, NoPub
<1>3. CASE others = {}
  BY <1>3 DEF Previous
<1>4. CASE others # {}
  <2>1. age \in SUBSET Nat /\ age # {}
    BY <1>1, <1>2, <1>4 DEF TypeOK
  <2>2. PICK x \in age : \A y \in age : x <= y
    BY <2>1, LeastNatural
  <2>3. PICK u \in others : x = clock - pub[u].at
    BY <2>2
  <2>4. \A w \in others : clock - pub[u].at <= clock - pub[w].at
    BY <2>2, <2>3
  <2>5. \A w \in others : pub[w].at <= pub[u].at
    BY <1>1, <1>2, <2>4 DEF TypeOK
  <2> QED
    BY <1>4, <2>5 DEF Previous
<1> QED
  BY <1>3, <1>4

\* What persist_bundle writes is well typed.
LEMMA WrittenTypes ==
    ASSUME TypeOK, ClockAhead, NEW c \in Client, pc[c] = "write"
    PROVE  /\ sub[c] \in Submission
           /\ Target(c) \in Report
           /\ InsertedReport(c) \in ReportRow
           /\ \A row \in ReportRow : UpdatedReport(c, row) \in ReportRow
           /\ NewText(c) \in Text
           /\ NewPublication(c) \in Publication \cup {NoPub}
<1>1. sub[c] \in Submission
  BY DEF TypeOK
<1>2. sub[c].version \in Version /\ sub[c].content \in Content /\ sub[c].publish \in BOOLEAN
  BY <1>1 DEF Submission
<1>3. at[c] \in Nat \ {0}
  BY DEF TypeOK
<1>4. Previous(c) \in Version \cup {NoVersion}
  BY <1>1, PreviousExists DEF Siblings
<1>5. Target(c) \in Report
  BY <1>2, PublicationAssumption DEF Target
<1>6. InsertedReport(c) \in ReportRow
  BY <1>2, <1>3 DEF InsertedReport, ReportRow
<1>7. ASSUME NEW row \in ReportRow PROVE UpdatedReport(c, row) \in ReportRow
  BY <1>2, <1>3, <1>7 DEF UpdatedReport, ReportRow
<1>8. NewText(c) \in Text
  BY <1>2 DEF TypeOK, NewText, TextOf, Text
<1>9. NewPublication(c) \in Publication \cup {NoPub}
  BY <1>2, <1>3, <1>4 DEF TypeOK, NewPublication, Publication
<1> QED
  BY <1>1, <1>5, <1>6, <1>7, <1>8, <1>9

\* Every step keeps the types and no timestamp runs ahead of the clock.
LEMMA TypeStep ==
    TypeOK /\ ClockAhead /\ [Next]_vars => TypeOK' /\ ClockAhead'
<1> SUFFICES ASSUME TypeOK, ClockAhead, [Next]_vars PROVE TypeOK' /\ ClockAhead'
  OBVIOUS
<1>0. \A c \in Client : Ended(c) /\ UNCHANGED dbVars => TypeOK' /\ ClockAhead'
  BY DEF TypeOK, ClockAhead, Ended, dbVars
<1>1. CASE UNCHANGED vars
  BY <1>1 DEF TypeOK, ClockAhead, vars
<1>2. ASSUME NEW c \in Client, submit_report(c) PROVE TypeOK' /\ ClockAhead'
  BY <1>2 DEF TypeOK, ClockAhead, submit_report, dbVars
<1>3. ASSUME NEW c \in Client, Conflict(c) PROVE TypeOK' /\ ClockAhead'
  BY <1>0, <1>3 DEF Conflict
<1>4. ASSUME NEW c \in Client, CheckVersion(c) PROVE TypeOK' /\ ClockAhead'
  BY <1>4 DEF TypeOK, ClockAhead, CheckVersion, dbVars
<1>5. ASSUME NEW c \in Client, LoadReport(c) PROVE TypeOK' /\ ClockAhead'
  <2>1. Target(c) \in Report
    BY <1>5, PublicationAssumption DEF LoadReport, TypeOK, Target, Submission
  <2>2. TypeOK'
    BY <1>5, <2>1 DEF TypeOK, LoadReport, dbVars
  <2>3. \A v \in Version : pub[v].at \in Nat
    BY DEF TypeOK, Publication, NoPub
  <2>4. ClockAhead'
    BY <1>5, <2>3 DEF TypeOK, ClockAhead, LoadReport, dbVars
  <2> QED
    BY <2>2, <2>4
<1>6. ASSUME NEW c \in Client, persist_bundle(c) PROVE TypeOK' /\ ClockAhead'
  <2>1. pc[c] = "write"
    BY <1>6 DEF persist_bundle
  <2>2. /\ sub[c].version \in Version
        /\ Target(c) \in Report
        /\ InsertedReport(c) \in ReportRow
        /\ \A row \in ReportRow : UpdatedReport(c, row) \in ReportRow
        /\ NewText(c) \in Text
        /\ NewPublication(c) \in Publication \cup {NoPub}
    BY <2>1, WrittenTypes DEF Submission
  <2>3. report' \in [Report -> ReportRow \cup {NoReport}]
    BY <1>6, <2>2 DEF TypeOK, persist_bundle
  <2>4. stored' \in [Version -> Text \cup {NoText}]
    BY <1>6, <2>2 DEF TypeOK, persist_bundle
  <2>5. pub' \in [Version -> Publication \cup {NoPub}]
    BY <1>6, <2>2 DEF TypeOK, persist_bundle
  <2>6. TypeOK'
    BY <1>6, <2>3, <2>4, <2>5 DEF TypeOK, persist_bundle, Ended
  <2>7. NewPublication(c).at <= clock
    BY <2>2 DEF TypeOK, ClockAhead, NewPublication
  <2>8. ClockAhead'
    BY <1>6, <2>2, <2>7 DEF TypeOK, ClockAhead, persist_bundle, Ended
  <2> QED
    BY <2>6, <2>8
<1>7. ASSUME NEW c \in Client, RolledBack(c) PROVE TypeOK' /\ ClockAhead'
  BY <1>0, <1>7 DEF RolledBack
<1> QED
  BY <1>1, <1>2, <1>3, <1>4, <1>5, <1>6, <1>7 DEF Next

\* Only persist_bundle writes reports, versions and publications.
LEMMA WriteStep ==
    [Next]_vars => UNCHANGED dbVars \/ \E c \in Client : persist_bundle(c)
  BY DEF Next, vars, dbVars, submit_report, Conflict, CheckVersion, LoadReport, RolledBack

\* What a write leaves in the rows of its version: a text, and a publication
\* when it publishes; other versions keep theirs.
LEMMA WrittenVersion ==
    ASSUME TypeOK, ClockAhead, NEW c \in Client, persist_bundle(c)
    PROVE  LET v == sub[c].version
           IN  /\ v \in Version
               /\ stored'[v] # NoText /\ stored'[v] \in Text
               /\ stored[v] # NoText => stored'[v] = stored[v]
               /\ sub[c].publish => pub'[v] # NoPub
               /\ ~sub[c].publish => pub'[v] = pub[v]
               /\ pub[v] # NoPub => pub'[v] = pub[v]
               /\ \A u \in Version \ {v} : stored'[u] = stored[u] /\ pub'[u] = pub[u]
<1>1. pc[c] = "write" /\ at[c] # 0 /\ at[c] \in Nat
  BY DEF persist_bundle, TypeOK
<1>2. sub[c].version \in Version /\ NewText(c) \in Text
  BY <1>1, WrittenTypes DEF Submission
<1>3. NewText(c) # NoText
  BY <1>2, PublicationAssumption DEF Text, NoText, NoContent
<1>4. /\ stored'[sub[c].version] = NewText(c)
      /\ pub'[sub[c].version] = NewPublication(c)
      /\ \A u \in Version \ {sub[c].version} : stored'[u] = stored[u] /\ pub'[u] = pub[u]
  BY <1>2 DEF persist_bundle, TypeOK
<1>5. sub[c].publish => NewPublication(c) # NoPub
  BY <1>1 DEF NewPublication, NoPub
<1>6. /\ ~sub[c].publish => NewPublication(c) = pub[sub[c].version]
      /\ pub[sub[c].version] # NoPub => NewPublication(c) = pub[sub[c].version]
  BY DEF NewPublication
<1>7. stored[sub[c].version] # NoText => NewText(c) = stored[sub[c].version]
  BY DEF NewText
<1> QED
  BY <1>2, <1>3, <1>4, <1>5, <1>6, <1>7

\* What a write leaves in the report row: a row that becomes or stays public by
\* this write shows its version, one that was public and is only redrafted
\* shows what it showed.
LEMMA WrittenReport ==
    ASSUME TypeOK, ClockAhead, NEW c \in Client, persist_bundle(c)
    PROVE  LET r == Target(c)
           IN  /\ r \in Report
               /\ sub[c].publish => report'[r].state = "published"
                                    /\ report'[r].current = sub[c].version
               /\ ~sub[c].publish => /\ report'[r].state = "published" <=> Public(r)
                                     /\ Public(r) => report'[r].current = report[r].current
               /\ \A q \in Report \ {r} : report'[q] = report[q]
<1>1. Target(c) \in Report
  BY WrittenTypes DEF persist_bundle
<1>2. CASE report[Target(c)] = NoReport
  BY <1>1, <1>2 DEF persist_bundle, TypeOK, InsertedReport, Public, NoReport
<1>3. CASE report[Target(c)] # NoReport
  BY <1>1, <1>3 DEF persist_bundle, TypeOK, UpdatedReport, Public
<1> QED
  BY <1>2, <1>3

\* A public report shows a published version of its own after every step.
LEMMA CurrentStep ==
    TypeOK /\ ClockAhead /\ CurrentIsPublished /\ [Next]_vars => CurrentIsPublished'
<1> SUFFICES ASSUME TypeOK, ClockAhead, CurrentIsPublished, [Next]_vars
             PROVE  CurrentIsPublished'
  OBVIOUS
<1>1. CASE UNCHANGED dbVars
  BY <1>1 DEF CurrentIsPublished, Public, dbVars
<1>2. ASSUME NEW c \in Client, persist_bundle(c) PROVE CurrentIsPublished'
  <2> DEFINE v == sub[c].version
             r == Target(c)
  <2>1. /\ v \in Version
        /\ stored'[v] # NoText
        /\ sub[c].publish => pub'[v] # NoPub
        /\ \A u \in Version : /\ stored[u] # NoText => stored'[u] # NoText
                              /\ pub[u] # NoPub => pub'[u] # NoPub
    BY <1>2, WrittenVersion
  <2>2. ReportOf[v] = r
    BY DEF Target
  <2>3. ASSUME NEW q \in Report, Public(q)'
        PROVE  /\ pub'[report'[q].current] # NoPub
               /\ stored'[report'[q].current] # NoText
               /\ ReportOf[report'[q].current] = q
    <3>1. CASE q = r /\ sub[c].publish
      BY <1>2, <2>1, <2>2, <3>1, WrittenReport
    <3>2. CASE ~(q = r /\ sub[c].publish)
      <4>1. Public(q) /\ report'[q].current = report[q].current
        BY <1>2, <2>3, <3>2, WrittenReport DEF Public
      <4>2. report[q].current \in Version
        BY <4>1 DEF TypeOK, Public, ReportRow, NoReport
      <4> QED
        BY <2>1, <4>1, <4>2 DEF CurrentIsPublished
    <3> QED
      BY <3>1, <3>2
  <2> QED
    BY <2>3 DEF CurrentIsPublished
<1> QED
  BY <1>1, <1>2, WriteStep

\* A publication gets no rollback target only when no other version of the
\* report is published.
LEMMA RootStep ==
    TypeOK /\ ClockAhead /\ OneRollbackRoot /\ [Next]_vars => OneRollbackRoot'
<1> SUFFICES ASSUME TypeOK, ClockAhead, OneRollbackRoot, [Next]_vars
             PROVE  OneRollbackRoot'
  OBVIOUS
<1>1. CASE UNCHANGED dbVars
  BY <1>1 DEF OneRollbackRoot, dbVars
<1>2. ASSUME NEW c \in Client, persist_bundle(c) PROVE OneRollbackRoot'
  <2> DEFINE v == sub[c].version
  <2>1. sub[c] \in Submission /\ v \in Version
    BY <1>2, WrittenTypes DEF persist_bundle, Submission
  <2>2. pub' = [pub EXCEPT ![v] = NewPublication(c)]
    BY <1>2 DEF persist_bundle
  <2>3. CASE NewPublication(c) = pub[v]
    <3>1. \A u \in Version : pub'[u] = pub[u]
      BY <2>2, <2>3 DEF TypeOK
    <3> QED
      BY <3>1 DEF OneRollbackRoot
  <2>4. CASE NewPublication(c) # pub[v]
    <3>1. pub'[v].rollback = Previous(c)
      BY <2>1, <2>2, <2>4 DEF NewPublication, TypeOK
    <3>2. \A u \in Version \ {v} : pub'[u] = pub[u]
      BY <2>2 DEF TypeOK
    <3>3. Previous(c) = NoVersion => Siblings(v) = {}
      BY <2>1, PreviousExists, PublicationAssumption DEF Siblings
    <3>4. Siblings(v) = {} =>
            \A u \in Version \ {v} : ReportOf[u] = ReportOf[v] => pub[u] = NoPub
      BY DEF Siblings
    <3>5. ASSUME NEW u \in Version, NEW w \in Version,
                 pub'[u] # NoPub, pub'[w] # NoPub, ReportOf[u] = ReportOf[w],
                 pub'[u].rollback = NoVersion, pub'[w].rollback = NoVersion
          PROVE  u = w
      <4>1. CASE u # v /\ w # v
        BY <3>2, <3>5, <4>1 DEF OneRollbackRoot
      <4>2. CASE u = v \/ w = v
        BY <3>1, <3>2, <3>3, <3>4, <3>5, <4>2
      <4> QED
        BY <4>1, <4>2
    <3> QED
      BY <3>5 DEF OneRollbackRoot
  <2> QED
    BY <2>3, <2>4
<1> QED
  BY <1>1, <1>2, WriteStep

\* The inductive invariant holds in every reachable state.
THEOREM PublicationInvariant == Spec => []PublicationInv
<1>1. Init => PublicationInv
  BY PublicationAssumption
     DEF Init, PublicationInv, TypeOK, ClockAhead, CurrentIsPublished, OneRollbackRoot,
         Public, NoReport, NoPub, NoText, NoSub
<1>2. PublicationInv /\ [Next]_vars => PublicationInv'
  BY TypeStep, CurrentStep, RootStep DEF PublicationInv
<1> QED
  BY <1>1, <1>2, PTL DEF Spec

\* Whatever submissions run at the same time, a public report shows a stored,
\* published version of its own.
THEOREM PublicReportsShowPublished == Spec => []CurrentIsPublished
<1>1. PublicationInv => CurrentIsPublished
  BY DEF PublicationInv
<1> QED
  BY <1>1, PublicationInvariant, PTL

\* Concurrent publications of a report never both miss the other: the rollback
\* targets of a report have one root.
THEOREM RollbackHasOneRoot == Spec => []OneRollbackRoot
<1>1. PublicationInv => OneRollbackRoot
  BY DEF PublicationInv
<1> QED
  BY <1>1, PublicationInvariant, PTL

\* A step of a submission is a step of the catalog, or changes nothing in it.
LEMMA CatalogStep ==
    PublicationInv /\ [Next]_vars => [Catalog!CatalogNext]_(Catalog!catalogVars)
<1> SUFFICES ASSUME PublicationInv, [Next]_vars
             PROVE  [Catalog!CatalogNext]_(Catalog!catalogVars)
  OBVIOUS
<1> USE DEF PublicationInv
<1> DEFINE published == {u \in Version : pub[u] # NoPub}
           shown == [q \in Report |-> IF Public(q) THEN report[q].current ELSE NoVersion]
<1>1. CASE UNCHANGED dbVars
  BY <1>1 DEF dbVars, Public, Catalog!catalogVars
<1>2. ASSUME NEW c \in Client, persist_bundle(c)
      PROVE  [Catalog!CatalogNext]_(Catalog!catalogVars)
  <2>0. PICK v \in Version : v = sub[c].version
    BY <1>2, WrittenVersion
  <2>1. /\ stored'[v] \in Text
        /\ stored' = [stored EXCEPT ![v] = stored'[v]]
        /\ stored[v] # NoText => stored' = stored
    <3>1. /\ stored'[v] \in Text
          /\ stored[v] # NoText => stored'[v] = stored[v]
      BY <1>2, <2>0, WrittenVersion DEF PublicationInv
    <3>2. stored \in [Version -> Text \cup {NoText}] /\ v \in Version
      BY <2>0 DEF PublicationInv, TypeOK
    <3>3. stored' = [stored EXCEPT ![v] = NewText(c)]
      BY <1>2, <2>0 DEF persist_bundle
    <3> QED
      BY <3>1, <3>2, <3>3
  <2>2. ReportOf[v] = Target(c) /\ Target(c) \in Report
    BY <1>2, <2>0, WrittenReport DEF Target
  <2>3. CASE sub[c].publish
    <3>1. published' = published \cup {v}
      BY <1>2, <2>0, <2>3, WrittenVersion
    <3>2. \A q \in Report : shown'[q] = IF q = ReportOf[v] THEN v ELSE shown[q]
      BY <1>2, <2>0, <2>2, <2>3, WrittenReport DEF Public
    <3>3. shown' = [shown EXCEPT ![ReportOf[v]] = v]
      BY <2>2, <3>2
    <3>4. \/ stored[v] # NoText /\ UNCHANGED stored
          \/ stored[v] = NoText /\ \E t \in Text : stored' = [stored EXCEPT ![v] = t]
      BY <2>1
    <3>5. Catalog!Publish(v)
      BY <3>1, <3>3, <3>4 DEF Catalog!Publish
    <3> QED
      BY <3>5 DEF Catalog!CatalogNext
  <2>4. CASE ~sub[c].publish
    <3>1. published' = published
      BY <1>2, <2>0, <2>4, WrittenVersion
    <3>2. \A q \in Report : shown'[q] = shown[q]
      BY <1>2, <2>2, <2>4, WrittenReport DEF Public
    <3>3. shown' = shown
      BY <3>2
    <3>4. CASE stored[v] # NoText
      BY <2>1, <3>1, <3>3, <3>4 DEF Catalog!catalogVars
    <3>5. CASE stored[v] = NoText
      <4>1. Catalog!Store(v)
        BY <2>1, <3>1, <3>3, <3>5 DEF Catalog!Store
      <4> QED
        BY <4>1 DEF Catalog!CatalogNext
    <3> QED
      BY <3>4, <3>5
  <2> QED
    BY <2>3, <2>4
<1> QED
  BY <1>1, <1>2, WriteStep

\* Report publication implements the public catalog.
THEOREM PublicationImplementsCatalog == Spec => ImplementsCatalog
<1>1. Init => Catalog!CatalogInit
  BY DEF Init, Catalog!CatalogInit, Public, NoReport
<1> QED
  BY <1>1, CatalogStep, PublicationInvariant, PTL
     DEF Spec, ImplementsCatalog, Catalog!CatalogSpec
-----------------------------------------------------------------------------
(* The artifacts.                                                          *)

\* Writing the rows of provenance, entities, hunt, remediation and detections
\* changes nothing of what persist_bundle does to the report, the version and
\* the publication.
THEOREM ArtifactsImplementPublication == ArtifactSpec => Spec
  <1>1. ArtifactInit => Init
    BY DEF ArtifactInit
  <1>2. [ArtifactNext]_allVars => [Next]_vars
    <2> SUFFICES ASSUME [ArtifactNext]_allVars PROVE [Next]_vars
      OBVIOUS
    <2>1. ASSUME NEW c \in Client, OtherStep(c) PROVE Next
      BY <2>1 DEF OtherStep, Next
    <2>2. ASSUME NEW c \in Client, PersistArtifacts(c) PROVE Next
      BY <2>2 DEF PersistArtifacts, Next
    <2>3. CASE DocumentStored
      BY <2>3 DEF DocumentStored
    <2>4. CASE UNCHANGED allVars
      BY <2>4 DEF allVars
    <2> QED
      BY <2>1, <2>2, <2>3, <2>4 DEF ArtifactNext
  <1> QED
    BY <1>1, <1>2, PTL DEF ArtifactSpec, Spec

-----------------------------------------------------------------------------
\* The conjuncts of TextHasItsRows for one version with the text t, as state
\* predicates of the tables: everything a version needs is an element that, once
\* there, stays.
HasRows(v, t, ln, se, ru, me, ca) ==
    LET b == BundleOf[v][t.content]
    IN /\ \A e \in b.evidence : \E row \in ln : row.entity = <<"version", v>> /\ row.evidence = e
       /\ \A x \in b.hunt \cup b.remediation :
             \E row \in se : row.kind = x.kind /\ row.version = v
       /\ \A d \in b.detections : \E row \in ru : row.id = d.id
       /\ \A n \in Entities(b) : <<v, n>> \in me
       /\ \A x \in b.products \cup b.techniques : \E row \in ca : row.key = x.key

RowsInv ==
    \A v \in Version : stored[v] # NoText =>
        HasRows(v, stored[v], links, sections, rules, mentions, catalogue)

\* The invariant on rows is the property the run checks, and more.
LEMMA RowsAreWhatIsStated == RowsInv => TextHasItsRows
  <1> SUFFICES ASSUME RowsInv, NEW v \in Version, stored[v] # NoText,
                      NEW b, b = Bundle(v)
               PROVE  /\ b.evidence \subseteq LinkedTo(<<"version", v>>)
                      /\ \A x \in b.hunt \cup b.remediation : Has(v, x.kind)
                      /\ {d.id : d \in b.detections} \subseteq {row.id : row \in rules}
                      /\ {v} \X Entities(b) \subseteq mentions
                      /\ \A x \in b.products \cup b.techniques :
                            \E row \in catalogue : row.key = x.key
    BY DEF TextHasItsRows
  <1>1. HasRows(v, stored[v], links, sections, rules, mentions, catalogue)
    BY DEF RowsInv
  <1>2. b = BundleOf[v][stored[v].content]
    BY DEF Bundle
  <1>3. \A e \in b.evidence : \E row \in links : row.entity = <<"version", v>> /\ row.evidence = e
    BY <1>1, <1>2 DEF HasRows
  <1>4. b.evidence \subseteq LinkedTo(<<"version", v>>)
    BY <1>3 DEF LinkedTo
  <1>5. {d.id : d \in b.detections} \subseteq {row.id : row \in rules}
    BY <1>1, <1>2 DEF HasRows
  <1>6. {v} \X Entities(b) \subseteq mentions
    BY <1>1, <1>2 DEF HasRows
  <1> QED
    BY <1>1, <1>2, <1>4, <1>5, <1>6 DEF HasRows, Has

\* Rows are never removed, so what a version has it keeps.
LEMMA RowsStay ==
    ASSUME NEW v, NEW t, NEW ln, NEW se, NEW ru, NEW me, NEW ca,
           NEW ln2, NEW se2, NEW ru2, NEW me2, NEW ca2,
           HasRows(v, t, ln, se, ru, me, ca),
           ln \subseteq ln2, se \subseteq se2, ru \subseteq ru2, me \subseteq me2, ca \subseteq ca2
    PROVE  HasRows(v, t, ln2, se2, ru2, me2, ca2)
  BY DEF HasRows

\* Every evidence item of the bundle gets a link of the version.
LEMMA EvidenceIsLinked ==
    ASSUME NEW v, NEW b, NEW t, NEW e \in b.evidence
    PROVE  \E row \in Provenance(v, b, t) : row.entity = <<"version", v>> /\ row.evidence = e
  <1> DEFINE set == LinkSet(b, b.evidence, {}, FALSE)
             k == [evidence |-> e, doc |-> StoredDocument(DocumentOf[e])]
             row == [entity |-> <<"version", v>>, evidence |-> k.evidence, doc |-> k.doc,
                     index |-> Cardinality({l \in set : Before(l, k)})]
  <1>1. k \in set
    BY DEF LinkSet
  <1>2. row \in Numbered(<<"version", v>>, set, t)
    BY <1>1 DEF Numbered
  <1>3. row \in Provenance(v, b, t)
    BY <1>2 DEF Provenance
  <1> QED
    BY <1>3

\* A hunt or remediation of the bundle is there after the write: the version had
\* one of the kind, or this one is new.
LEMMA SectionIsStored ==
    ASSUME NEW v, NEW b, NEW x \in b.hunt \cup b.remediation
    PROVE  \E row \in sections \cup NewSections(v, b) : row.kind = x.kind /\ row.version = v
  <1>1. CASE Has(v, x.kind)
    BY <1>1 DEF Has
  <1>2. CASE ~Has(v, x.kind)
    <2>1. Section(x, v) \in NewSections(v, b)
      BY <1>2 DEF NewSections, NewHunt, NewRemediation
    <2>2. Section(x, v).kind = x.kind /\ Section(x, v).version = v
      BY DEF Section
    <2> QED
      BY <2>1, <2>2
  <1> QED
    BY <1>1, <1>2

\* The rows of the bundle a submission writes are in the tables afterwards.
LEMMA BundleIsStored ==
    ASSUME NEW v, NEW b, NEW t, NEW text, b = BundleOf[v][text.content]
    PROVE  HasRows(v, text, links \cup Provenance(v, b, t), sections \cup NewSections(v, b),
                   rules \cup NewRules(v, b), mentions \cup ({v} \X Entities(b)),
                   catalogue \cup NewEntries(b))
  <1>1. \A e \in b.evidence : \E row \in links \cup Provenance(v, b, t) :
            row.entity = <<"version", v>> /\ row.evidence = e
    <2> TAKE e \in b.evidence
    <2>1. PICK row \in Provenance(v, b, t) : row.entity = <<"version", v>> /\ row.evidence = e
      BY EvidenceIsLinked
    <2> QED
      BY <2>1
  <1>2. \A x \in b.hunt \cup b.remediation :
            \E row \in sections \cup NewSections(v, b) : row.kind = x.kind /\ row.version = v
    BY SectionIsStored
  <1>3. \A d \in b.detections : \E row \in rules \cup NewRules(v, b) : row.id = d.id
    <2> TAKE d \in b.detections
    <2>1. CASE \A row \in rules : row.id # d.id
      <3>1. Rule(d, v) \in NewRules(v, b)
        BY <2>1 DEF NewRules
      <3>2. Rule(d, v).id = d.id
        BY DEF Rule
      <3> QED
        BY <3>1, <3>2
    <2> QED
      BY <2>1
  <1>4. \A n \in Entities(b) : <<v, n>> \in mentions \cup ({v} \X Entities(b))
    OBVIOUS
  <1>5. \A x \in b.products \cup b.techniques :
            \E row \in catalogue \cup NewEntries(b) : row.key = x.key
    <2> TAKE x \in b.products \cup b.techniques
    <2>1. CASE \A row \in catalogue : row.key # x.key
      <3>1. Entry(x) \in NewEntries(b)
        BY <2>1 DEF NewEntries
      <3>2. Entry(x).key = x.key
        BY DEF Entry
      <3> QED
        BY <3>1, <3>2
    <2> QED
      BY <2>1
  <1> QED
    BY <1>1, <1>2, <1>3, <1>4, <1>5 DEF HasRows

\* Every step keeps the rows of the stored texts.
LEMMA RowsStep ==
    ASSUME TypeOK, RowsInv, [ArtifactNext]_allVars
    PROVE  RowsInv'
  <1>1. ASSUME NEW c \in Client, PersistArtifacts(c) PROVE RowsInv'
    <2> DEFINE v == sub[c].version
               b == BundleOf[v][sub[c].content]
    <2>1. /\ links' = links \cup Provenance(v, b, at[c])
          /\ sections' = sections \cup NewSections(v, b)
          /\ rules' = rules \cup NewRules(v, b)
          /\ mentions' = mentions \cup ({v} \X Entities(b))
          /\ catalogue' = catalogue \cup NewEntries(b)
      BY <1>1 DEF PersistArtifacts
    <2>2. stored' = [stored EXCEPT ![v] = NewText(c)]
      BY <1>1 DEF PersistArtifacts, persist_bundle
    <2>3. \A u \in Version : stored[u] # NoText =>
              HasRows(u, stored[u], links', sections', rules', mentions', catalogue')
      BY <2>1, RowsStay DEF RowsInv
    <2>4. HasRows(v, TextOf(sub[c]), links', sections', rules', mentions', catalogue')
      <3>1. b = BundleOf[v][TextOf(sub[c]).content]
        BY DEF TextOf
      <3> HIDE DEF v, b
      <3> QED
        BY <2>1, <3>1, BundleIsStored
    <2>5. \A u \in Version : u # v => stored'[u] = stored[u]
      BY <2>2 DEF TypeOK
    <2>6. v \in Version => stored'[v] = IF stored[v] = NoText THEN TextOf(sub[c]) ELSE stored[v]
      BY <2>2 DEF TypeOK, NewText
    <2> QED
      BY <2>3, <2>4, <2>5, <2>6 DEF RowsInv
  <1>2. CASE UNCHANGED <<stored, links, sections, rules, mentions, catalogue>>
    BY <1>2 DEF RowsInv
  <1>3. ASSUME NEW c \in Client, OtherStep(c)
        PROVE  UNCHANGED <<stored, links, sections, rules, mentions, catalogue>>
    BY <1>3 DEF OtherStep, artifactVars, submit_report, Conflict, CheckVersion, LoadReport,
                RolledBack, dbVars
  <1>4. CASE DocumentStored
    BY <1>2, <1>4 DEF DocumentStored, artifactVars, vars
  <1>5. CASE UNCHANGED allVars
    BY <1>2, <1>5 DEF allVars, artifactVars, vars
  <1> QED
    BY <1>1, <1>2, <1>3, <1>4, <1>5 DEF ArtifactNext

\* Every stored version has the rows persist_bundle owes it, whatever else was
\* submitted before, after or at the same time.
THEOREM StoredTextHasItsRows == ArtifactSpec => []TextHasItsRows
  <1>1. ArtifactInit => RowsInv
    BY DEF ArtifactInit, Init, RowsInv
  <1>2. PublicationInv => TypeOK
    BY DEF PublicationInv
  <1> QED
    BY <1>1, <1>2, RowsStep, RowsAreWhatIsStated, ArtifactsImplementPublication,
       PublicationInvariant, PTL DEF ArtifactSpec

-----------------------------------------------------------------------------
\* Only texts that ReportValidator accepts are stored as approved, or are on
\* their way to be.
ApprovedInv ==
    /\ \A v \in Version : stored[v].approved => stored[v].content \in Supported
    /\ \A c \in Client : sub[c].publish => sub[c].content \in Supported

\* Every step keeps the evidence of the approved texts.
LEMMA ApprovedStep ==
    ASSUME TypeOK, ApprovedInv, [Next]_vars
    PROVE  ApprovedInv'
  <1>1. ASSUME NEW c \in Client, submit_report(c) PROVE ApprovedInv'
    BY <1>1 DEF ApprovedInv, submit_report, Accepted, dbVars, TypeOK
  <1>2. ASSUME NEW c \in Client, Ended(c), stored' = stored PROVE ApprovedInv'
    BY <1>2 DEF ApprovedInv, Ended, NoSub, TypeOK
  <1>3. ASSUME NEW c \in Client, persist_bundle(c) PROVE ApprovedInv'
    <2>1. stored' = [stored EXCEPT ![sub[c].version] = NewText(c)]
      BY <1>3 DEF persist_bundle
    <2>2. \A v \in Version : stored'[v] = stored[v] \/ stored'[v] = TextOf(sub[c])
      BY <2>1 DEF TypeOK, NewText
    <2>3. \A v \in Version : stored'[v].approved => stored'[v].content \in Supported
      BY <2>2 DEF ApprovedInv, TextOf
    <2>4. \A d \in Client : sub'[d] = sub[d] \/ sub'[d] = NoSub
      BY <1>3 DEF persist_bundle, Ended, TypeOK
    <2>5. \A d \in Client : sub'[d].publish => sub'[d].content \in Supported
      BY <2>4 DEF ApprovedInv, NoSub
    <2> QED
      BY <2>3, <2>5 DEF ApprovedInv
  <1>4. ASSUME NEW c \in Client, CheckVersion(c) \/ LoadReport(c) PROVE ApprovedInv'
    BY <1>4 DEF ApprovedInv, CheckVersion, LoadReport, dbVars
  <1>5. CASE UNCHANGED vars
    BY <1>5 DEF ApprovedInv, vars
  <1> QED
    BY <1>1, <1>2, <1>3, <1>4, <1>5 DEF Next, Conflict, RolledBack, dbVars

\* When Supported are contents ReportValidator accepts, what is stored as approved
\* cites only evidence linked to its version: the validator compares the
\* citations with the bundle, and the bundle's evidence is all linked.
THEOREM ApprovedTextIsBacked ==
    ASSUME \A v \in Version : \A c \in Supported : Validated(BundleOf[v][c])
    PROVE  ArtifactSpec => []ApprovedIsBacked
  <1>1. Init => ApprovedInv
    BY DEF Init, ApprovedInv, NoText, NoSub
  <1>2. TypeOK /\ ApprovedInv /\ TextHasItsRows => ApprovedIsBacked
    <2> SUFFICES ASSUME TypeOK, ApprovedInv, TextHasItsRows,
                        NEW v \in Version, stored[v].approved
                 PROVE  Cited(Bundle(v)) \subseteq LinkedTo(<<"version", v>>)
      BY DEF ApprovedIsBacked
    <2> DEFINE b == BundleOf[v][stored[v].content]
    <2>1. stored[v] # NoText
      BY DEF NoText
    <2>2. Validated(b)
      BY DEF ApprovedInv
    <2>3. b.evidence \subseteq LinkedTo(<<"version", v>>)
      BY <2>1 DEF TextHasItsRows, Bundle
    <2>4. /\ b.headline \subseteq b.evidence
          /\ \A x \in b.hunt \cup b.remediation \cup b.detections : x.cites \subseteq b.evidence
      BY <2>2 DEF Validated, Covered, CitesWithin
    <2> HIDE DEF b
    <2>5. Cited(b) \subseteq b.evidence
      BY <2>4 DEF Cited
    <2> QED
      BY <2>3, <2>5 DEF Bundle, b
  <1>3. PublicationInv => TypeOK
    BY DEF PublicationInv
  <1> QED
    BY <1>1, <1>2, <1>3, ApprovedStep, StoredTextHasItsRows, ArtifactsImplementPublication,
       PublicationInvariant, PTL DEF Spec

-----------------------------------------------------------------------------
\* Provenance as a function of the documents that are known: nothing else of the
\* state enters it, and the time of the call does not either.
LinksIn(documents, v, b) ==
    LET Doc(d) == IF d \in documents THEN d ELSE 0
        Set(cites, docs, urls) ==
            {[evidence |-> e, doc |-> Doc(DocumentOf[e])] : e \in cites \cap b.evidence}
            \cup {[evidence |-> 0, doc |-> Doc(d)] : d \in docs}
            \cup IF urls THEN {[evidence |-> 0, doc |-> 0]} ELSE {}
        Rows(entity, set) ==
            {[entity |-> entity, evidence |-> k.evidence, doc |-> k.doc,
              index |-> Cardinality({l \in set : Before(l, k)})] : k \in set}
    IN Rows(<<"report", ReportOf[v]>>, Set(b.evidence, {}, b.references))
       \cup Rows(<<"version", v>>, Set(b.evidence, {}, FALSE))
       \cup UNION {Rows(<<x.kind, x.id>>, Set(x.cites, {}, FALSE))
                   : x \in b.subjects \cup b.detections \cup b.hunt \cup b.remediation}
       \cup UNION {Rows(<<"technique", x.id>>, Set({}, x.docs, FALSE)) : x \in b.techniques}

\* What a submission writes is LinksIn of the documents known to it.
LEMMA LinksOfKnown ==
    ASSUME NEW v, NEW b, NEW t
    PROVE  Provenance(v, b, t) = LinksIn(known, v, b)
  BY DEF Provenance, Numbered, LinkSet, StoredDocument, LinksIn

\* The links of a stored text are all there as long as the documents are those
\* that were known when it was stored; documents are never removed.
LinksInv ==
    /\ DOMAIN knownAt = Version
    /\ \A v \in Version : stored[v] # NoText =>
        /\ knownAt[v] \subseteq known
        /\ knownAt[v] = known => LinksIn(known, v, BundleOf[v][stored[v].content]) \subseteq links

\* Every step keeps the links of the stored texts.
LEMMA LinksStep ==
    ASSUME TypeOK, LinksInv, [ArtifactNext]_allVars
    PROVE  LinksInv'
  <1>1. ASSUME NEW c \in Client, PersistArtifacts(c) PROVE LinksInv'
    <2> DEFINE v == sub[c].version
               b == BundleOf[v][sub[c].content]
    <2>1. /\ links' = links \cup Provenance(v, b, at[c])
          /\ knownAt' = IF stored[v] = NoText THEN [knownAt EXCEPT ![v] = known] ELSE knownAt
          /\ known' = known /\ stored' = [stored EXCEPT ![v] = NewText(c)] /\ pc[c] = "write"
      BY <1>1 DEF PersistArtifacts, persist_bundle
    <2>2. v \in Version
      BY <2>1 DEF TypeOK, Submission
    <2>3. DOMAIN knownAt' = Version
      BY <2>1 DEF LinksInv
    <2>4. ASSUME NEW u \in Version, stored'[u] # NoText, u # v \/ stored[u] # NoText
          PROVE  /\ knownAt'[u] \subseteq known'
                 /\ knownAt'[u] = known' =>
                      LinksIn(known', u, BundleOf[u][stored'[u].content]) \subseteq links'
      <3>1. stored'[u] = stored[u] /\ knownAt'[u] = knownAt[u]
        BY <2>1, <2>4 DEF NewText, TypeOK, LinksInv
      <3> QED
        BY <2>1, <2>4, <3>1 DEF LinksInv
    <2>5. CASE stored[v] = NoText
      <3>1. stored'[v] = TextOf(sub[c]) /\ knownAt'[v] = known
        BY <2>1, <2>2, <2>5 DEF NewText, TypeOK, LinksInv
      <3>2. BundleOf[v][stored'[v].content] = b
        BY <3>1 DEF TextOf
      <3>3. Provenance(v, b, at[c]) = LinksIn(known, v, b)
        BY LinksOfKnown
      <3> HIDE DEF v, b
      <3> QED
        BY <2>1, <2>3, <2>4, <3>1, <3>2, <3>3 DEF LinksInv
    <2>6. CASE stored[v] # NoText
      BY <2>3, <2>4, <2>6 DEF LinksInv
    <2> QED
      BY <2>5, <2>6
  <1>2. CASE UNCHANGED <<stored, known, knownAt, links>>
    BY <1>2 DEF LinksInv
  <1>3. ASSUME NEW c \in Client, OtherStep(c)
        PROVE  UNCHANGED <<stored, known, knownAt, links>>
    BY <1>3 DEF OtherStep, artifactVars, submit_report, Conflict, CheckVersion, LoadReport,
                RolledBack, dbVars
  <1>4. CASE DocumentStored
    <2>1. PICK d \in Document \ known : known' = known \cup {d}
      BY <1>4 DEF DocumentStored
    <2>2. UNCHANGED <<stored, knownAt>>
      BY <1>4 DEF DocumentStored, artifactVars, vars
    <2>3. \A v \in Version : stored[v] # NoText => knownAt[v] \subseteq known' /\ knownAt[v] # known'
      BY <2>1 DEF LinksInv
    <2> QED
      BY <2>2, <2>3 DEF LinksInv
  <1>5. CASE UNCHANGED allVars
    BY <1>2, <1>5 DEF allVars, artifactVars, vars
  <1> QED
    BY <1>1, <1>2, <1>3, <1>4, <1>5 DEF ArtifactNext

\* A client that sends a stored version again adds no provenance link, whatever
\* was submitted in between, unless the pipeline has stored a document since the
\* version was written.
THEOREM RepeatedSubmissionAddsNoLink == ArtifactSpec => RepeatAddsNothing
  <1>1. ArtifactInit => LinksInv
    BY DEF ArtifactInit, Init, LinksInv
  <1>2. PublicationInv => TypeOK
    BY DEF PublicationInv
  <1>3. TypeOK /\ LinksInv /\ [ArtifactNext]_allVars =>
          [\A c \in Client :
             /\ pc[c] = "write" /\ links' # links
             /\ sub'[c] = NoSub /\ stored[sub[c].version] = TextOf(sub[c])
             => knownAt[sub[c].version] # known]_allVars
    <2> SUFFICES ASSUME TypeOK, LinksInv, ArtifactNext, NEW c \in Client,
                        pc[c] = "write", links' # links, sub'[c] = NoSub,
                        stored[sub[c].version] = TextOf(sub[c])
                 PROVE  knownAt[sub[c].version] # known
      OBVIOUS
    <2> DEFINE v == sub[c].version
               b == BundleOf[v][sub[c].content]
    <2>1. sub[c] \in Submission /\ sub[c] # NoSub
      BY PublicationAssumption DEF TypeOK, Submission, NoSub
    <2>2. \A d \in Client : ~OtherStep(d)
      BY DEF OtherStep, artifactVars
    <2>3. ~DocumentStored
      BY DEF DocumentStored, artifactVars
    <2>4. PICK d \in Client : PersistArtifacts(d)
      BY <2>2, <2>3 DEF ArtifactNext
    <2>5. d = c
      BY <2>1, <2>4 DEF PersistArtifacts, persist_bundle, Ended, TypeOK
    <2>6. links' = links \cup Provenance(v, b, at[c])
      BY <2>4, <2>5 DEF PersistArtifacts
    <2>7. v \in Version /\ stored[v] # NoText /\ BundleOf[v][stored[v].content] = b
      BY <2>1, PublicationAssumption DEF Submission, TextOf, NoText, NoContent
    <2>8. Provenance(v, b, at[c]) = LinksIn(known, v, b)
      BY LinksOfKnown
    <2> HIDE DEF v, b
    <2>9. knownAt[v] # known
      BY <2>6, <2>7, <2>8 DEF LinksInv
    <2> QED
      BY <2>9 DEF v
  <1> QED
    BY <1>1, <1>2, <1>3, LinksStep, ArtifactsImplementPublication, PublicationInvariant, PTL
       DEF ArtifactSpec, RepeatAddsNothing
=============================================================================
