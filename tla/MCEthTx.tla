------------------------------ MODULE MCEthTx ------------------------------
(* Instances of EthTx for TLC. *)
EXTENDS EthTx, TLC

Symmetry == Permutations(Transfers) \cup Permutations(Relays)
=============================================================================
