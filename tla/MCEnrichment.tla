--------------------------- MODULE MCEnrichment ---------------------------
(* Two providers, one of them silent on one field; the same CVE claimed    *)
(* twice and named to the command as well.                                 *)
EXTENDS EnrichmentStage

MCProviders == <<"cisa_kev", "nvd">>
MCFields == {"known_exploited", "cvss_score"}
MCContent(p, h, f) ==
    IF f = "known_exploited" THEN h = 2
    ELSE IF p = "nvd" /\ f = "cvss_score" THEN 3 * h + 1 ELSE None
MCClaims == <<"c1", "c1", "c2">>
MCSelected == <<"c1">>
=============================================================================
