----------------------------- MODULE MCPipeline -----------------------------
(* Small instances of DailyPipeline for TLC: two sources, two contents, one *)
(* worker of each kind; every configuration picks the ones it needs.        *)
EXTENDS DailyPipeline

CONSTANTS a, b, c0, c1, s1, k1, t1
=============================================================================
