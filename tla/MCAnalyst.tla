---- MODULE MCAnalyst ----
(* Three vulnerabilities of one transaction, a relationship of two of them *)
(* and a document, walked page by page of one while they are written.      *)
EXTENDS CorpusPages

MCKind(e) == IF e <= 3 THEN "cves" ELSE IF e = 4 THEN "relationships" ELSE "urls"
MCEnds(e) == {1, 2}
MCNamed(a) == IF a = "x" THEN {1, 2} ELSE {3}
MCQuery == [resource: {"cves"}, search: {None, "old"}, published: {None, TRUE}]
           \cup {[resource |-> "relationships", search |-> None, published |-> FALSE],
                 [resource |-> "urls", search |-> None, published |-> TRUE],
                 [resource |-> "contradictions", search |-> None, published |-> TRUE]}
MCWrites == {{1}, {2, 3}, {4}}
Record(run, event, id, stage, public) ==
    [run |-> run, event |-> event, id |-> id, lifecycle |-> stage, public |-> public, retry |-> TRUE]
\* The ledger shares no table with the pages, and pages read reports only.
MCScenes == {{"reader", "writer"}, {"reader", "analysts"}, {"ledger"}}
MCRequest == { Record("r", "e", <<"r", "e">>, "submitted", "PUB"),
               Record("r", "e", <<"r", "e">>, "published", "PUB"),
               Record("r", "e", <<"r", "f">>, "identified", None),
               Record("r", "f", <<"r", "f">>, "published", None),
               Record("s", "e", <<"s", "e">>, "identified", None) }
====
