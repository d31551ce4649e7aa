---------------------------- MODULE MCDistribute ----------------------------
(* Instances of Distribute for TLC. *)
EXTENDS Distribute
=============================================================================
