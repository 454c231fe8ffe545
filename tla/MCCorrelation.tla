---- MODULE MCCorrelation ----
(* Two entities, one of which is correlated while both gain observations.  *)
EXTENDS Correlation

Entities == {"a", "b"}
Rules == {"same_cve"}
Leads == {"malware"}
MCBase(x) == IF x = "same_cve" THEN 100 ELSE 70

Claim(v, ev) == [claim |-> "actor", value |-> v, evidence |-> ev]
Entry(cves, malware, first, last, ev, asserts, similar) ==
    [keys |-> [r \in Rules |-> cves], names |-> [l \in Leads |-> malware],
     first |-> first, last |-> last, evidence |-> ev, asserts |-> asserts, similar |-> similar]

\* b is first undated, then far from a, then near it and with a third value of
\* the claim that a and b disagree about.
MCVersions(e) ==
    IF e = "a"
    THEN << Entry({1}, {1}, 1, None, {"e1"}, {Claim("x", {"e1"})}, {}),
            Entry({1}, {1, 2}, 1, 4, {"e1", "e2"}, {Claim("x", {"e1"})},
                  {[to |-> "b", score |-> 80, evidence |-> {"e2"}],
                   [to |-> "b", score |-> 60, evidence |-> {}]}) >>
    ELSE << Entry({2}, {1}, None, None, {"e3"}, {Claim("y", {"e1"})}, {}),
            Entry({1}, {1, 2}, 4, None, {"e3"}, {Claim("y", {"e3"})}, {}),
            Entry({1}, {2}, 3, 6, {"e3", "e4"}, {Claim("y", {"e3"}), Claim("z", {"e4"})}, {}) >>

Proposal(id, target, actor, quality, ev, confidence, review) ==
    [id |-> id, source |-> "a", type |-> "related", target |-> target, actor |-> actor,
     quality |-> quality, evidence |-> ev, confidence |-> confidence, review |-> review, model |-> "m"]

\* An attribution without evidence, the same with it, a second submission under
\* its id, one that uses the id for another relationship, and a rejected one.
MCSubmission ==
    { Proposal("p", "b", TRUE, "explicit_source", {}, 50, "proposed"),
      Proposal("p", "b", TRUE, "explicit_source", {"e1"}, 50, "proposed"),
      Proposal("p", "b", TRUE, "corroborated_sources", {"e3"}, 60, "reviewed"),
      Proposal("p", "a", FALSE, "none", {}, 10, "proposed"),
      Proposal("q", "b", FALSE, "none", {"e1"}, 40, "rejected"),
      Proposal("q", "b", TRUE, "none", {"e1"}, 40, "proposed") }

Assess(exploited, epss, cvss, products, flags) ==
    [exploited |-> exploited, epss |-> epss, cvss |-> cvss, products |-> products,
     flags |-> flags, evidence |-> {"e1"}]

\* Every history of exploitation over three assessments, with a score that is
\* missing in the middle.
MCTracks ==
    {<<Assess(x, 10, 50, {1}, {}), Assess(y, None, 55, {1}, {}), Assess(z, 30, 65, {1, 2}, {"active"})>> :
        x, y, z \in {"no", "unknown", "yes"}}
====
