----------------------------- MODULE MCLocalnet -----------------------------
(* Instances of Localnet for TLC.                                          *)
EXTENDS Localnet
=============================================================================
