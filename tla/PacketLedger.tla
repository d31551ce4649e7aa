---------------------------- MODULE PacketLedger ----------------------------
(***************************************************************************)
(* What a relay queue promises about the packets handed to it, without any *)
(* goroutine, mutex or batch.  A packet is accepted once; it is then       *)
(* either reported as relayed, together with others of its batch, which    *)
(* is only done for packets the destination chain really received, or it   *)
(* is abandoned by a relay that failed.  Every packet is reported at most  *)
(* once.  RelayerQueue implements this specification.                      *)
(***************************************************************************)
EXTENDS Naturals, FiniteSets

CONSTANT Packets

VARIABLES
  status,     \* status[p]: how far packet p got
  delivered,  \* packets with a receipt on the destination chain
  reported    \* the number of packets reported as relayed

ledgerVars == <<status, delivered, reported>>

Statuses == {"unsent", "pending", "relayed", "abandoned"}

WithStatus(s) == {p \in Packets : status[p] = s}

LedgerTypeOK ==
  /\ status \in [Packets -> Statuses]
  /\ delivered \subseteq Packets
  /\ reported \in Nat

Init ==
  /\ status = [p \in Packets |-> "unsent"]
  /\ delivered = {}
  /\ reported = 0

Mark(S, s) == [p \in Packets |-> IF p \in S THEN s ELSE status[p]]

Accept(p) ==
  /\ status[p] = "unsent"
  /\ status' = Mark({p}, "pending")
  /\ UNCHANGED <<delivered, reported>>

Deliver(p) ==
  /\ delivered' = delivered \cup {p}
  /\ UNCHANGED <<status, reported>>

Complete(S) ==
  /\ S \subseteq WithStatus("pending")
  /\ S \subseteq delivered
  /\ status' = Mark(S, "relayed")
  /\ reported' = reported + Cardinality(S)
  /\ UNCHANGED delivered

Abandon(S) ==
  /\ S \subseteq WithStatus("pending")
  /\ status' = Mark(S, "abandoned")
  /\ UNCHANGED <<delivered, reported>>

Next ==
  \/ \E p \in Packets : Accept(p) \/ Deliver(p)
  \/ \E S \in SUBSET Packets : Complete(S) \/ Abandon(S)

Spec == Init /\ [][Next]_ledgerVars
=============================================================================
