----------------------------- MODULE MCPackets -----------------------------
(* Instances of Packets for TLC.                                           *)
EXTENDS Packets

CONSTANTS c1, c2

\* The IDs of the two ends of a connection are those of another one, swapped.
Swapped == [c \in Clients |-> IF c = c1 THEN c2 ELSE c1]
=============================================================================
