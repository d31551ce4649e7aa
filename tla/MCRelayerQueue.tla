--------------------------- MODULE MCRelayerQueue ---------------------------
(* Instances of RelayerQueue for TLC. *)
EXTENDS RelayerQueue, TLC

Symmetry == Permutations(Packets) \cup Permutations(Clients)

\* The guards that NobodyIsStuck is about are those of the actions.
CanStepIsEnabled ==
  /\ \A g \in Clients : CanStep(g) => ENABLED CallStep(g)
  /\ BatchCanStep => ENABLED BatchStep
=============================================================================
