----------------------------- MODULE MCCosmosTx -----------------------------
(* Instances of CosmosTx for TLC. *)
EXTENDS CosmosTx

Symmetry == Permutations(Transfers) \cup Permutations(Relays)
=============================================================================
