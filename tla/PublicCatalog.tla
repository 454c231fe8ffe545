---------------------------- MODULE PublicCatalog ----------------------------
(***************************************************************************)
(* What report publication promises the readers of the portal: the text of *)
(* a version never changes once it is stored, a published version stays    *)
(* published, a public report shows one of its own published versions, and *)
(* a report that is public stays public.                                   *)
(***************************************************************************)
CONSTANTS Report, Version, ReportOf, NoVersion, Text, NoText

VARIABLES text, published, shown

catalogVars == <<text, published, shown>>

CatalogInit ==
    /\ text = [v \in Version |-> NoText]
    /\ published = {}
    /\ shown = [r \in Report |-> NoVersion]

Store(v) ==
    /\ text[v] = NoText
    /\ \E t \in Text : text' = [text EXCEPT ![v] = t]
    /\ UNCHANGED <<published, shown>>

Publish(v) ==
    /\ \/ text[v] # NoText /\ UNCHANGED text
       \/ text[v] = NoText /\ \E t \in Text : text' = [text EXCEPT ![v] = t]
    /\ published' = published \cup {v}
    /\ shown' = [shown EXCEPT ![ReportOf[v]] = v]

CatalogNext == \E v \in Version : Store(v) \/ Publish(v)

CatalogSpec == CatalogInit /\ [][CatalogNext]_catalogVars
=============================================================================
