----------------------------- MODULE Submission -----------------------------
(***************************************************************************)
(* What the callers of SendTransfer and SubmitRelayTx can rely on: a call  *)
(* returns once, a call that returns nil has taken effect on the chain,    *)
(* and no call takes effect twice.  A call that returns an error may have  *)
(* taken effect, or may still do so.  EthTx and CosmosTx implement this    *)
(* specification; LoadScript is written against it (SendTransferErr).      *)
(***************************************************************************)
CONSTANT Ops

VARIABLES
  outcome,  \* outcome[o]: what call o has returned
  effect    \* the calls that have taken effect on the chain

submissionVars == <<outcome, effect>>

Init ==
  /\ outcome = [o \in Ops |-> "none"]
  /\ effect = {}

Returns(o, r) == outcome' = [outcome EXCEPT ![o] = r]

Call(o) ==
  /\ outcome[o] = "none"
  /\ Returns(o, "running")
  /\ UNCHANGED effect

TakeEffect(o) ==
  /\ outcome[o] # "none"
  /\ o \notin effect
  /\ effect' = effect \cup {o}
  /\ UNCHANGED outcome

Succeed(o) ==
  /\ outcome[o] = "running"
  /\ o \in effect
  /\ Returns(o, "ok")
  /\ UNCHANGED effect

Fail(o) ==
  /\ outcome[o] = "running"
  /\ Returns(o, "error")
  /\ UNCHANGED effect

Next == \E o \in Ops : Call(o) \/ TakeEffect(o) \/ Succeed(o) \/ Fail(o)

Spec == Init /\ [][Next]_submissionVars
=============================================================================
