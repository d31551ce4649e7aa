---------------------------- MODULE MCLoadScript ----------------------------
(* Instances of LoadScript for TLC. *)
EXTENDS LoadScript, TLC

Symmetry == Permutations(Packets) \cup Permutations(Workers)

\* The guards that ScriptIsNotStuck is about are those of the actions.
CanStepIsEnabled ==
  /\ \A g \in Clients :
       ScriptCanStep(g) =>
         \/ ENABLED QueueCallStep(g)
         \/ IF g = Main THEN ENABLED MainStep ELSE ENABLED WorkerStep(g)
  /\ BatchCanStep => ENABLED (BatchStep /\ UNCHANGED scriptVars)
=============================================================================
