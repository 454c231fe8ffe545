------------------------------ MODULE MCPortal ------------------------------
(* Three reports of two severities, pages of two, and two bundles that     *)
(* disagree about one CVE and name different entities.                     *)
EXTENDS Portal, TLC

CONSTANTS r1, r2, r3, c1, c2, a, b

V(cvss, epss, kev) == [cvss |-> cvss, epss |-> epss, kev |-> kev]

MCSeverity == (r1 :> 3) @@ (r2 :> 1) @@ (r3 :> 1)
MCFinding ==
    (c1 :> ((1 :> V(5, 60, TRUE)) @@ (2 :> None))) @@
    (c2 :> ((1 :> V(8, 10, FALSE)) @@ (2 :> V(None, None, FALSE))))
MCQuery ==
    {[kev |-> FALSE, min_cvss |-> None, severities |-> {}],
     [kev |-> TRUE, min_cvss |-> None, severities |-> {4}],
     [kev |-> FALSE, min_cvss |-> 7, severities |-> {}]}
MCMentions == (c1 :> {a, b}) @@ (c2 :> {a})
MCRelation == {[id |-> 1, from |-> a, to |-> b], [id |-> 2, from |-> a, to |-> a]}
=============================================================================
