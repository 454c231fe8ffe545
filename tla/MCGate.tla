------------------------------- MODULE MCGate -------------------------------
(* Small instances of ProviderGate: two query keys, a clock of a few units. *)
EXTENDS ProviderGate

CONSTANTS c1, c2

MCBackoff == [n \in 0..MaxRetries |-> 2^n]
=============================================================================
