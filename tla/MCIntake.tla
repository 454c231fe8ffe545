------------------------------ MODULE MCIntake ------------------------------
(* Two sources: a feed and a JSON or page source. The bodies revisit an    *)
(* identity with another text, repeat an entry, lack ids, fail to parse    *)
(* and exceed the extraction limit; the texts hold overlapping matches.    *)
EXTENDS Intake

CONSTANTS s1, s2, c1, c2

MCSettings == {(s1 :> c) @@ (s2 :> c1) : c \in {c1, c2}}
MCLanding == (s1 :> {"direct", "moved"}) @@ (s2 :> {"direct"})
MCRegistry == {(s1 :> "rss") @@ (s2 :> "json"), (s1 :> "atom") @@ (s2 :> "html")}

E(ext, link, ok, rank, text) ==
    [ext |-> ext, link |-> link, ok |-> ok, rank |-> rank, text |-> text]

MCLayout == [f1 |-> "feed", f2 |-> "rss", k1 |-> "kev", l1 |-> "list", e1 |-> "other"]
MCOffers == (s1 :> {"f1", "f2"}) @@ (s2 :> {"k1", "l1", "e1"})
MCBody == DOMAIN MCLayout
MCEntries ==
    [f1 |-> <<E("x", None, TRUE, 1, "t1")>>,
     f2 |-> <<E("x", None, TRUE, 2, "t2"), E("x", "y", TRUE, 1, "t1"), E(None, None, TRUE, 3, "t1")>>,
     k1 |-> <<E("x", None, TRUE, 2, "t1"), E("x", None, TRUE, 1, "t1")>>,
     l1 |-> <<E(None, None, TRUE, 1, "t2"), E("x", None, TRUE, 2, "long")>>,
     e1 |-> <<>>]
MCText == {"t1", "t2", "long"}

M(type, raw, start, end) == [type |-> type, raw |-> raw, start |-> start, end |-> end]
MCMatches ==
    [t1 |-> {M("url", "u", 0, 4), M("domain", "d", 1, 3), M("cve", "v", 2, 3),
             M("domain", "d", 5, 7), M("domain", "D", 8, 9), M("email", "m", 10, 11)},
     t2 |-> {M("path", "p", 0, 4), M("path", "q", 2, 6), M("domain", "d", 5, 8),
             M("ipv4", "i", 9, 10), M("ipv4", "bad", 11, 12), M("cve", "v", 13, 14)},
     long |-> {}]
MCNormal ==
    [u |-> "u", d |-> "d", D |-> "d", m |-> "m", p |-> "p", q |-> "q", i |-> "i",
     bad |-> None, v |-> "v"]
=============================================================================
