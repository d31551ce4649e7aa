-------------------------- MODULE MCGenerateWallet --------------------------
(* Instances of GenerateWallet for TLC. *)
EXTENDS GenerateWallet, TLC

Symmetry == Permutations(Procs) \cup Permutations(ChainIDs) \cup Permutations(WalletIDs)
=============================================================================
