------------------------- MODULE AssessmentHistory -------------------------
(***************************************************************************)
(* What the risk assessments of a vulnerability promise: per entity one    *)
(* chain, longer by one link at a time and never rewritten.                *)
(***************************************************************************)
EXTENDS Naturals, FiniteSets

CONSTANTS Cve, Link(_, _)     \* Link(n, r): r may stand as link n of a chain

VARIABLE chain                \* per CVE the set of its assessments

Init == chain = [c \in Cve |-> {}]

Extend(c) ==
    \E r \in chain'[c] :
        /\ Link(Cardinality(chain[c]) + 1, r)
        /\ chain' = [chain EXCEPT ![c] = @ \cup {r}]

Next == \E c \in Cve : Extend(c)

Spec == Init /\ [][Next]_chain
=============================================================================
