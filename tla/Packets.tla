------------------------------ MODULE Packets ------------------------------
(***************************************************************************)
(* How the packets of a transaction are found and their receipts queried:  *)
(* GetPackets and IsPacketReceived of chains/cosmos and chains/ethereum,   *)
(* and the relay command (cmd/ibc/cmd/relay.go), which uses the first, and *)
(* Network.TransferWithRelay (chains/network/network.go), which relays a   *)
(* transfer and then its acknowledgement through Relayer.Relay             *)
(* (cmd/ibc/relayer/relayer.go).                                           *)
(*                                                                         *)
(* A transaction is the sequence of its IBC messages.  Each of them tells  *)
(* its IBC version in a "message" event; a message that sends a packet has *)
(* a "send_packet" event as well.  The chains are external: what they emit *)
(* is modelled from what the parsers look for.                             *)
(***************************************************************************)
EXTENDS Naturals, Sequences, FiniteSets

CONSTANTS
  Clients,      \* the client IDs of either chain
  Counterparty, \* the client on the other chain of a client on this one
  Port,         \* the port of every IBC v1 packet
  Empty,        \* a field that no attribute sets
  MaxTxs,       \* bound on the transactions
  MaxMsgs       \* bound on the messages of a transaction

ASSUME ClientsAssumption ==
  /\ Counterparty \in [Clients -> Clients]
  /\ \A c, d \in Clients : Counterparty[c] = Counterparty[d] => c = d
  /\ Port \notin Clients /\ Empty \notin Clients \cup {Port}

VARIABLES
  source,    \* the kind of the chain that sends
  txs,       \* the transactions, in the order they landed
  parsed,    \* parsed[t]: what GetPackets returned for transaction t
  received,  \* packets the destination has received
  seen,      \* packets that IsPacketReceived has reported as received
  relayed,   \* transactions the relay command has relayed successfully
  acked,     \* packets the source has an acknowledgement of
  transfer,  \* transfer[t]: how far TransferWithRelay is with transaction t
  written    \* written[t]: packets its relay of t received and acknowledged

vars == <<source, txs, parsed, received, seen, relayed, acked, transfer, written>>

ackVars == <<acked, transfer, written>>

\* The IBC versions that are in use: Ethereum has version 2 only.
Versions == IF source = "cosmos" THEN {1, 2} ELSE {2}

\* A packet as the chain has it.  The channels of IBC v1 are named like the
\* clients here, they are never confused.
Packet(version, src, seq) ==
  [version |-> version, src |-> src, dst |-> Counterparty[src], seq |-> seq]

SendMsg(packet) == [sends |-> TRUE, packet |-> packet]
OtherMsg(version) ==
  [sends |-> FALSE, packet |-> [version |-> version, src |-> Empty, dst |-> Empty, seq |-> 1]]

\* The members of a sequence at the places I, in their order.
Picked(s, I) ==
  [k \in 1..Cardinality(I) |->
     s[CHOOSE i \in I : Cardinality({j \in I : j <= i}) = k]]

Sends(tx) == Picked(tx, {i \in DOMAIN tx : tx[i].sends})
Sent(tx) == [i \in DOMAIN Sends(tx) |-> Sends(tx)[i].packet]

SentIn(tx, version, src) ==
  {i \in DOMAIN Sent(tx) : Sent(tx)[i].version = version /\ Sent(tx)[i].src = src}

SentOn(version, src) ==
  UNION {SentIn(txs[t], version, src) \X {t} : t \in DOMAIN txs}

Init ==
  /\ source \in {"cosmos", "ethereum"}
  /\ txs = <<>>
  /\ parsed = <<>>
  /\ received = {}
  /\ seen = {}
  /\ relayed = {}
  /\ acked = {}
  /\ transfer = <<>>
  /\ written = <<>>
-----------------------------------------------------------------------------
(* The chains *)

\* The next message of a transaction with the messages tx so far.
NextMsgs(tx) ==
  {OtherMsg(v) : v \in Versions}
    \cup {SendMsg(Packet(v, src,
            1 + Cardinality(SentOn(v, src)) + Cardinality(SentIn(tx, v, src)))) :
          v \in Versions, src \in Clients}

Land ==
  /\ Len(txs) < MaxTxs
  /\ \E m \in NextMsgs(<<>>) :
       \E tx \in {<<m>>} \cup (IF MaxMsgs > 1 THEN {<<m, n>> : n \in NextMsgs(<<m>>)} ELSE {}) :
         txs' = Append(txs, tx)
  /\ parsed' = Append(parsed, <<>>)
  /\ transfer' = Append(transfer, "none")
  /\ written' = Append(written, {})
  /\ UNCHANGED <<source, received, seen, relayed, acked>>

\* Any other relayer brings a packet, or an acknowledgement back.
Receive(t) ==
  /\ \E i \in DOMAIN Sent(txs[t]) : received' = received \cup {Sent(txs[t])[i]}
  /\ UNCHANGED <<source, txs, parsed, seen, relayed, ackVars>>

Acknowledge(p) ==
  /\ p \in received
  /\ acked' = acked \cup {p}
  /\ UNCHANGED <<source, txs, parsed, received, seen, relayed, transfer, written>>
-----------------------------------------------------------------------------
(* GetPackets *)

determineIBCVersion(tx) == tx[1].packet.version

\* Mutant: the ends of a packet are swapped.
IbcPacketSwapped(p) == [version |-> 2, src |-> p.dst, dst |-> p.src, seq |-> p.seq]

IbcPacket(p) == [version |-> 2, src |-> p.src, dst |-> p.dst, seq |-> p.seq]

\* Only IBC v2 events have the attribute encoded_packet_hex.
parseIBCV2Packet(tx) ==
  LET sent == Picked(Sent(tx), {i \in DOMAIN Sent(tx) : Sent(tx)[i].version = 2})
  IN [i \in DOMAIN sent |-> IbcPacket(sent[i])]

\* The ports stand for the clients; an IBC v2 event has none.
parseIBCV1Packets(tx) ==
  [i \in DOMAIN Sent(tx) |->
     LET port == IF Sent(tx)[i].version = 1 THEN Port ELSE Empty
     IN [version |-> 1, src |-> port, dst |-> port, seq |-> Sent(tx)[i].seq]]

ParsePackets(tx) ==
  IF determineIBCVersion(tx) = 1 THEN parseIBCV1Packets(tx) ELSE parseIBCV2Packet(tx)

\* GetEvmEvent finds the first SendPacket event.
FirstPacket(tx) == <<IbcPacket(Sent(tx)[1])>>

PacketsOf(tx) == IF source = "cosmos" THEN ParsePackets(tx) ELSE FirstPacket(tx)

\* No packet is an error, and so is a failed query: nothing is returned.
GetPackets(t) ==
  /\ Sends(txs[t]) # <<>>
  /\ parsed' = [parsed EXCEPT ![t] = PacketsOf(txs[t])]
  /\ UNCHANGED <<source, txs, received, seen, relayed, ackVars>>
-----------------------------------------------------------------------------
Found == UNION {{parsed[t][i] : i \in DOMAIN parsed[t]} : t \in DOMAIN parsed}

\* Mutant: the receipt is looked up under the source's client.
IsPacketReceivedAtSource(p) ==
  /\ \E q \in received : q.version = 2 /\ q.dst = p.src /\ q.seq = p.seq
  /\ seen' = seen \cup {p}
  /\ UNCHANGED <<source, txs, parsed, received, relayed, ackVars>>

\* The destination finds a receipt of IBC v2.  A negative answer, or an error,
\* leaves everything as it is.
IsPacketReceived(p) ==
  /\ \E q \in received : q.version = 2 /\ q.dst = p.dst /\ q.seq = p.seq
  /\ seen' = seen \cup {p}
  /\ UNCHANGED <<source, txs, parsed, received, relayed, ackVars>>

\* Mutant: the number of packets is not checked.
AnyNumber(t) == parsed[t] # <<>>

OnePacket(t) == Len(parsed[t]) = 1

\* Relayer.Relay: the relayer relays what the transaction sent between the two
\* clients it is given, those of the packet that was found.
RelayerRelays(t) ==
  LET p == parsed[t][1]
  IN {q \in {Sent(txs[t])[i] : i \in DOMAIN Sent(txs[t])} :
        q.version = 2 /\ q.src = p.src /\ q.dst = p.dst}

\* The relay command.
Relay(t) ==
  /\ OnePacket(t)
  /\ RelayerRelays(t) # {}
  /\ received' = received \cup RelayerRelays(t)
  /\ relayed' = relayed \cup {t}
  /\ UNCHANGED <<source, txs, parsed, seen, ackVars>>
-----------------------------------------------------------------------------
(* TransferWithRelay *)

\* SendTransfer, which looks the packet up.  An error leaves what Land leaves.
SendTransfer ==
  /\ Len(txs) < MaxTxs
  /\ \E m \in {n \in NextMsgs(<<>>) : n.sends /\ n.packet.version = 2} :
       /\ txs' = Append(txs, <<m>>)
       /\ parsed' = Append(parsed, PacketsOf(<<m>>))
  /\ transfer' = Append(transfer, "sent")
  /\ written' = Append(written, {})
  /\ UNCHANGED <<source, received, seen, relayed, acked>>

\* The first Relay.  Receiving a packet again has no effect: its transaction
\* writes no acknowledgement of it.
RelayTransfer(t) ==
  /\ transfer[t] = "sent"
  /\ RelayerRelays(t) # {}
  /\ written' = [written EXCEPT ![t] = RelayerRelays(t) \ received]
  /\ received' = received \cup RelayerRelays(t)
  /\ transfer' = [transfer EXCEPT ![t] = "relayed"]
  /\ UNCHANGED <<source, txs, parsed, seen, relayed, acked>>

\* What the relayer finds in the first Relay's transaction, between the same
\* clients the other way round.
AcksOf(t) ==
  LET p == parsed[t][1]
  IN {q \in written[t] : q.dst = p.dst /\ q.src = txs[t][1].packet.src}

\* Mutant: the relayer is given the hash of the transfer again.
RelayTransferAgain(t) ==
  /\ transfer[t] = "relayed"
  /\ RelayerRelays(t) # {}
  /\ transfer' = [transfer EXCEPT ![t] = "done"]
  /\ UNCHANGED <<source, txs, parsed, received, seen, relayed, acked, written>>

\* The second Relay, with the transaction of the first.
RelayAck(t) ==
  /\ transfer[t] = "relayed"
  /\ AcksOf(t) # {}
  /\ acked' = acked \cup AcksOf(t)
  /\ transfer' = [transfer EXCEPT ![t] = "done"]
  /\ UNCHANGED <<source, txs, parsed, received, seen, relayed, written>>

\* Either Relay fails, the second one always if the packet had been received.
TransferFails(t) ==
  /\ transfer[t] \in {"sent", "relayed"}
  /\ transfer' = [transfer EXCEPT ![t] = "failed"]
  /\ UNCHANGED <<source, txs, parsed, received, seen, relayed, acked, written>>
-----------------------------------------------------------------------------
Next ==
  \/ Land
  \/ SendTransfer
  \/ \E t \in DOMAIN txs :
       \/ Receive(t) \/ GetPackets(t) \/ Relay(t)
       \/ RelayTransfer(t) \/ RelayAck(t) \/ TransferFails(t)
  \/ \E p \in received : Acknowledge(p)
  \/ \E p \in Found : IsPacketReceived(p)

Spec == Init /\ [][Next]_vars
-----------------------------------------------------------------------------
(* Properties *)

\* The transactions GetPackets is made for: those of one IBC version
\* (cosmos_test.go:39, 63), and on Ethereum with one packet.
Supported(tx) ==
  /\ \A i, j \in DOMAIN tx : tx[i].packet.version = tx[j].packet.version
  /\ source = "ethereum" => Len(Sends(tx)) = 1

\* The packets of such a transaction are found in the order they were sent and
\* none is missing; IBC v2 packets with both their clients.
ParsedIsSent ==
  \A t \in DOMAIN txs :
    (parsed[t] # <<>> /\ Supported(txs[t])) =>
      /\ Len(parsed[t]) = Len(Sent(txs[t]))
      /\ \A i \in DOMAIN parsed[t] :
           /\ parsed[t][i].seq = Sent(txs[t])[i].seq
           /\ parsed[t][i].version = Sent(txs[t])[i].version
           /\ parsed[t][i].version = 2 => parsed[t][i] = Sent(txs[t])[i]

\* No packet is reported as received that the destination has not received,
\* whatever packets of other clients have the same sequence.
SeenIsReceived == seen \subseteq received

\* When the relay command says "Relay successful" (relay.go:60), what the
\* transaction sent has been received.
RelayedIsReceived ==
  \A t \in relayed : Supported(txs[t]) =>
    \A i \in DOMAIN Sent(txs[t]) : Sent(txs[t])[i] \in received

\* When TransferWithRelay returns nil (network.go:116), the packet of its
\* transfer has been received and the source has the acknowledgement, whatever
\* other relayers do; the clients of the two ends may have each other's names.
TransferredIsAcked ==
  \A t \in DOMAIN txs : transfer[t] = "done" =>
    \A i \in DOMAIN Sent(txs[t]) : Sent(txs[t])[i] \in received \cap acked
-----------------------------------------------------------------------------
(* The inductive invariant behind the properties. *)

AllPackets == {Packet(v, src, n) : v \in Versions, src \in Clients, n \in Nat}
Messages == {SendMsg(p) : p \in AllPackets} \cup {OtherMsg(v) : v \in Versions}
SentSet(tx) == {Sent(tx)[i] : i \in DOMAIN Sent(tx)}

\* What is found is a packet of IBC v2 as it was sent, or has no client.
Findings == {p \in AllPackets : p.version = 2}
              \cup [version : {1}, src : {Port, Empty}, dst : {Port, Empty}, seq : Nat]

TypeOK ==
  /\ source \in {"cosmos", "ethereum"}
  /\ txs \in Seq(Seq(Messages) \ {<<>>})
  /\ parsed \in Seq(Seq(Findings)) /\ Len(parsed) = Len(txs)
  /\ transfer \in Seq({"none", "sent", "relayed", "done", "failed"})
  /\ Len(transfer) = Len(txs)
  /\ written \in Seq(SUBSET AllPackets) /\ Len(written) = Len(txs)
  /\ received \subseteq AllPackets /\ acked \subseteq received
  /\ relayed \subseteq DOMAIN txs

ParsedAgrees ==
  \A t \in DOMAIN txs : parsed[t] # <<>> =>
    Sends(txs[t]) # <<>> /\ parsed[t] = PacketsOf(txs[t])

\* A transfer of TransferWithRelay has one packet, and is relayed when that
\* has been received, by which only its own acknowledgement can be found.
TransfersAgree ==
  \A t \in DOMAIN txs :
    /\ transfer[t] \in {"sent", "relayed", "done"} =>
         /\ \E p \in AllPackets : p.version = 2 /\ txs[t] = <<SendMsg(p)>>
         /\ parsed[t] # <<>>
    /\ transfer[t] \in {"relayed", "done"} => SentSet(txs[t]) \subseteq received
    /\ written[t] \subseteq SentSet(txs[t])
    /\ transfer[t] = "done" => SentSet(txs[t]) \subseteq acked

IInv ==
  /\ TypeOK /\ ParsedAgrees /\ TransfersAgree
  /\ SeenIsReceived /\ RelayedIsReceived
=============================================================================
