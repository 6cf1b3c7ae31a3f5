------------------------------ MODULE MCSummary ------------------------------
(* Instances of Summary for TLC.                                            *)
EXTENDS Summary, TLC

Callbacks == Permutations(Adders) \cup Permutations(Exporters)
=============================================================================
