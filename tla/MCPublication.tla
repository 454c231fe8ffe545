---------------------------- MODULE MCPublication ----------------------------
(* Small instances of ReportPublication and ReportArtifacts: up to three      *)
(* versions of one report, two clients and two contents. v3 reuses the hunt   *)
(* of v1; "good" and "rough" name the same product with different ids.        *)
EXTENDS ReportArtifacts

CONSTANTS r1, v1, v2, v3, good, rough, x, y

OneReport == [v \in Version |-> r1]

OneDocument == [e \in Evidence |-> IF e = 1 THEN 1 ELSE 0]

HuntId(v) == IF v = v3 THEN v1 ELSE v

Good(v) ==
    [evidence |-> {1, 2}, headline |-> {1}, overclaims |-> FALSE,
     hunt |-> {[kind |-> "hunt", id |-> HuntId(v), cites |-> {2}]},
     remediation |-> {[kind |-> "remediation", id |-> v, cites |-> {1}, blank |-> FALSE]},
     detections |-> {[kind |-> "detection", id |-> "d1", cites |-> {1, 2},
                      query |-> FALSE, compiles |-> TRUE]},
     timeline |-> TRUE, caveats |-> TRUE, references |-> TRUE,
     subjects |-> {[kind |-> "vulnerability", id |-> "cve", cites |-> {2}]},
     products |-> {[kind |-> "product", id |-> "p1", key |-> "acme"]},
     techniques |-> {[id |-> "t1", key |-> "T1059", docs |-> {1}]}]

\* Complete, but its hunt cites evidence it does not carry.
Rough(v) ==
    [Good(v) EXCEPT !.evidence = {1}, !.subjects = {},
                    !.products = {[kind |-> "product", id |-> "p2", key |-> "acme"]}]

Bundles == [v \in Version |-> [c \in Content |-> IF c = good THEN Good(v) ELSE Rough(v)]]

\* What the validator accepts, in whatever version it is submitted.
Accepts == {c \in Content : \A v \in Version : Validated(Bundles[v][c])}
=============================================================================
