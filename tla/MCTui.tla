------------------------------- MODULE MCTui -------------------------------
(* The instance of Tui for TLC. *)
EXTENDS Tui
=============================================================================
