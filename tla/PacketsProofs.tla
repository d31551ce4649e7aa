---------------------------- MODULE PacketsProofs ----------------------------
(***************************************************************************)
(* Proofs about Packets for any clients and bounds: what GetPackets finds  *)
(* is what was sent, and what is reported as received, relayed or          *)
(* transferred is.                                                         *)
(***************************************************************************)
EXTENDS Packets, SequenceTheorems, FiniteSetTheorems, TLAPS

-----------------------------------------------------------------------------
(* The members of a sequence at some places *)

\* The k-th place exists: the numbers of the places, from the first to the
\* last, are different and not more than there are places.
LEMMA PlaceExists ==
  ASSUME NEW I \in SUBSET Nat, IsFiniteSet(I), NEW k \in 1..Cardinality(I)
  PROVE  \E i \in I : Cardinality({j \in I : j <= i}) = k
<1> DEFINE To(i) == {j \in I : j <= i}
           n == Cardinality(I)
           f == [i \in I |-> Cardinality(To(i))]
<1>1. n \in Nat
  BY FS_CardinalityType
<1>2. ASSUME NEW i \in I
      PROVE  IsFiniteSet(To(i)) /\ Cardinality(To(i)) \in 1..n
  <2>1. IsFiniteSet(To(i)) /\ Cardinality(To(i)) <= n /\ Cardinality(To(i)) \in Nat
    BY FS_Subset, FS_CardinalityType
  <2>2. Cardinality(To(i)) # 0
    <3>1. i \in To(i)
      OBVIOUS
    <3> QED
      BY <2>1, <3>1, FS_EmptySet
  <2> QED
    BY <1>1, <2>1, <2>2
<1>3. ASSUME NEW i \in I, NEW j \in I, i < j
      PROVE  Cardinality(To(i)) # Cardinality(To(j))
  <2>1. To(i) \subseteq To(j) /\ j \in To(j) /\ j \notin To(i)
    <3>1. i \in Nat /\ j \in Nat /\ i <= j /\ j <= j /\ ~(j <= i)
      BY <1>3
    <3>2. ASSUME NEW m \in I, m <= i PROVE m <= j
      <4>1. m \in Nat
        OBVIOUS
      <4> QED
        BY <3>1, <3>2, <4>1
    <3> QED
      BY <3>1, <3>2
  <2> QED
    BY <1>2, <2>1, FS_Subset
<1>4. f \in Injection(I, 1..n)
  <2>1. f \in [I -> 1..n]
    BY <1>2
  <2>2. ASSUME NEW i \in I, NEW j \in I, f[i] = f[j] PROVE i = j
    <3>1. ~(i < j) /\ ~(j < i) /\ i \in Nat /\ j \in Nat
      BY <1>3, <2>2
    <3> QED
      BY <3>1
  <2> HIDE DEF f
  <2> QED
    BY <2>1, <2>2 DEF Injection, IsInjective
<1>5. IsFiniteSet(1..n) /\ Cardinality(1..n) = n
  BY <1>1, FS_Interval
<1>6. f \in Surjection(I, 1..n)
  BY <1>4, <1>5, FS_Injection
<1> QED
  BY <1>6 DEF Surjection

\* What is picked are members of the sequence.
LEMMA PickedFrom ==
  ASSUME NEW S, NEW s \in Seq(S), NEW I \in SUBSET DOMAIN s
  PROVE  /\ Cardinality(I) \in Nat /\ Picked(s, I) \in Seq(S)
         /\ Len(Picked(s, I)) = Cardinality(I)
         /\ DOMAIN Picked(s, I) = 1..Cardinality(I)
         /\ \A k \in 1..Cardinality(I) : \E i \in I : Picked(s, I)[k] = s[i]
<1>1. /\ Len(s) \in Nat /\ DOMAIN s = 1..Len(s)
      /\ \A i \in DOMAIN s : s[i] \in S
  BY LenProperties, ElementOfSeq
<1>2. IsFiniteSet(I) /\ I \in SUBSET Nat
  <2>1. IsFiniteSet(1..Len(s)) /\ I \in SUBSET (1..Len(s))
    BY <1>1, FS_Interval
  <2> QED
    BY <2>1, FS_Subset
<1>3. Cardinality(I) \in Nat
  BY <1>2, FS_CardinalityType
<1>4. ASSUME NEW k \in 1..Cardinality(I)
      PROVE  \E i \in I : Picked(s, I)[k] = s[i]
  BY <1>2, PlaceExists DEF Picked
<1>5. Picked(s, I) \in [1..Cardinality(I) -> S]
  BY <1>1, <1>4 DEF Picked
<1> QED
  BY <1>3, <1>4, <1>5, SeqDef, LenProperties

\* The numbers up to n are n.
LEMMA SizeOfInterval ==
  ASSUME NEW n \in Nat
  PROVE  Cardinality(1..n) = n
<1>1. n \in Int /\ 1 \in Int /\ (1 > n => n = 0) /\ n - 1 + 1 = n
  OBVIOUS
<1> QED
  BY <1>1, FS_Interval

\* If all places are picked, the sequence is.
LEMMA PickedAll ==
  ASSUME NEW S, NEW s \in Seq(S)
  PROVE  Picked(s, DOMAIN s) = s
<1>1. Len(s) \in Nat /\ DOMAIN s = 1..Len(s)
  BY LenProperties
<1>2. ASSUME NEW i \in 1..Len(s)
      PROVE  Cardinality({j \in DOMAIN s : j <= i}) = i
  <2>1. {j \in DOMAIN s : j <= i} = 1..i
    BY <1>1
  <2>2. Cardinality(1..i) = i
    BY <1>1, SizeOfInterval
  <2> QED
    BY <2>1, <2>2
<1>3. Cardinality(DOMAIN s) = Len(s)
  BY <1>1, SizeOfInterval
<1>4. ASSUME NEW k \in 1..Len(s) PROVE Picked(s, DOMAIN s)[k] = s[k]
  <2>1. (CHOOSE i \in DOMAIN s : Cardinality({j \in DOMAIN s : j <= i}) = k) = k
    BY <1>1, <1>2
  <2> QED
    BY <1>3, <2>1 DEF Picked
<1>5. /\ Picked(s, DOMAIN s) = [k \in 1..Len(s) |-> Picked(s, DOMAIN s)[k]]
      /\ s = [k \in 1..Len(s) |-> s[k]]
  BY <1>1, <1>3 DEF Picked
<1> QED
  BY <1>4, <1>5

-----------------------------------------------------------------------------
(* What a transaction sends, and what is found of it *)

\* A packet is determined by its version, its source and its sequence.
LEMMA PacketFields ==
  ASSUME NEW p \in AllPackets
  PROVE  /\ p.version \in Versions /\ p.src \in Clients /\ p.seq \in Nat
         /\ p = [version |-> p.version, src |-> p.src,
                 dst |-> Counterparty[p.src], seq |-> p.seq]
         /\ p.dst = Counterparty[p.src] /\ p.dst \in Clients
         /\ p.version = 2 => IbcPacket(p) = p
<1>1. PICK v \in Versions, src \in Clients, n \in Nat :
        p = [version |-> v, src |-> src, dst |-> Counterparty[src], seq |-> n]
  BY DEF AllPackets, Packet
<1>2. Counterparty[src] \in Clients
  BY ClientsAssumption
<1> QED
  BY <1>1, <1>2 DEF IbcPacket

\* A message that sends has a packet.
LEMMA MessageFields ==
  ASSUME NEW m \in Messages
  PROVE  /\ m.sends \in BOOLEAN /\ m.packet.version \in Versions
         /\ m.sends => m.packet \in AllPackets /\ m = SendMsg(m.packet)
<1>1. CASE \E p \in AllPackets : m = SendMsg(p)
  BY <1>1, PacketFields DEF SendMsg
<1>2. CASE \E v \in Versions : m = OtherMsg(v)
  BY <1>2 DEF OtherMsg
<1> QED
  BY <1>1, <1>2 DEF Messages

\* The packets of a transaction are those of its messages.
LEMMA SentFrom ==
  ASSUME NEW tx \in Seq(Messages)
  PROVE  /\ Sent(tx) \in Seq(AllPackets) /\ Len(Sent(tx)) \in Nat
         /\ Len(Sends(tx)) = Len(Sent(tx)) /\ DOMAIN Sent(tx) = 1..Len(Sent(tx))
         /\ Sends(tx) = <<>> <=> Len(Sent(tx)) = 0
         /\ \A k \in DOMAIN Sent(tx) :
              \E i \in DOMAIN tx : tx[i].sends /\ Sent(tx)[k] = tx[i].packet
<1> DEFINE I == {i \in DOMAIN tx : tx[i].sends}
<1>1. /\ Sends(tx) \in Seq(Messages)
      /\ \A k \in 1..Len(Sends(tx)) : \E i \in I : Sends(tx)[k] = tx[i]
  <2>1. I \in SUBSET DOMAIN tx
    OBVIOUS
  <2> HIDE DEF I
  <2>2. /\ Picked(tx, I) \in Seq(Messages) /\ Len(Picked(tx, I)) = Cardinality(I)
        /\ \A k \in 1..Cardinality(I) : \E i \in I : Picked(tx, I)[k] = tx[i]
    BY <2>1, PickedFrom
  <2>3. Sends(tx) = Picked(tx, I)
    BY DEF Sends, I
  <2> QED
    BY <2>2, <2>3
<1>2. /\ Len(Sends(tx)) \in Nat /\ DOMAIN Sends(tx) = 1..Len(Sends(tx))
      /\ Sends(tx) = <<>> <=> Len(Sends(tx)) = 0
  BY <1>1, LenProperties, EmptySeq
<1>3. ASSUME NEW k \in 1..Len(Sends(tx))
      PROVE  /\ Sends(tx)[k].packet \in AllPackets
             /\ \E i \in DOMAIN tx : tx[i].sends /\ Sends(tx)[k].packet = tx[i].packet
  <2>1. PICK i \in I : Sends(tx)[k] = tx[i]
    BY <1>1
  <2>2. tx[i] \in Messages /\ tx[i].sends
    BY ElementOfSeq
  <2> QED
    BY <2>1, <2>2, MessageFields
<1>4. Sent(tx) \in [1..Len(Sends(tx)) -> AllPackets]
  BY <1>2, <1>3 DEF Sent
<1>5. Sent(tx) \in Seq(AllPackets) /\ Len(Sent(tx)) = Len(Sends(tx))
  BY <1>2, <1>4, SeqDef, LenProperties
<1>6. \A k \in 1..Len(Sends(tx)) : Sent(tx)[k] = Sends(tx)[k].packet
  BY <1>2 DEF Sent
<1> QED
  BY <1>2, <1>3, <1>4, <1>5, <1>6

\* A transaction of one message that sends has its packet.
LEMMA SentOfOne ==
  ASSUME NEW p \in AllPackets
  PROVE  /\ <<SendMsg(p)>> \in Seq(Messages) /\ Sends(<<SendMsg(p)>>) # <<>>
         /\ Sent(<<SendMsg(p)>>) = <<p>> /\ SentSet(<<SendMsg(p)>>) = {p}
<1> DEFINE tx == <<SendMsg(p)>>
<1>1. tx \in Seq(Messages) /\ DOMAIN tx = {1} /\ tx[1] = SendMsg(p)
  BY DEF Messages
<1>2. {i \in DOMAIN tx : tx[i].sends} = DOMAIN tx
  BY <1>1 DEF SendMsg
<1>3. Sends(tx) = tx
  <2> HIDE DEF tx
  <2> QED
    BY <1>1, <1>2, PickedAll DEF Sends
<1>4. Sent(tx) = <<p>>
  <2>1. DOMAIN <<SendMsg(p)>> = {1} /\ <<SendMsg(p)>>[1].packet = p
    BY DEF SendMsg
  <2>2. Sent(tx) = [i \in {1} |-> p]
    BY <1>3, <2>1 DEF Sent
  <2> QED
    BY <2>2
<1> QED
  BY <1>1, <1>3, <1>4 DEF SentSet

\* What GetPackets finds are packets as they were sent, or have no client.
LEMMA FoundFrom ==
  ASSUME source \in {"cosmos", "ethereum"}, NEW tx \in Seq(Messages),
         Sends(tx) # <<>>
  PROVE  PacketsOf(tx) \in Seq(Findings)
<1>0. /\ Sent(tx) \in Seq(AllPackets) /\ Len(Sent(tx)) \in Nat
      /\ DOMAIN Sent(tx) = 1..Len(Sent(tx)) /\ Len(Sent(tx)) # 0
      /\ \A k \in DOMAIN Sent(tx) : Sent(tx)[k] \in AllPackets
  BY SentFrom, ElementOfSeq
<1>1. CASE source = "cosmos" /\ determineIBCVersion(tx) = 1
  <2>1. ASSUME NEW i \in DOMAIN Sent(tx)
        PROVE  parseIBCV1Packets(tx)[i] \in Findings
    <3>1. Sent(tx)[i].seq \in Nat
      BY <1>0, PacketFields
    <3> QED
      BY <3>1 DEF parseIBCV1Packets, Findings
  <2>2. parseIBCV1Packets(tx) \in [1..Len(Sent(tx)) -> Findings]
    BY <1>0, <2>1 DEF parseIBCV1Packets
  <2>3. PacketsOf(tx) = parseIBCV1Packets(tx)
    BY <1>1 DEF PacketsOf, ParsePackets
  <2> QED
    BY <1>0, <2>2, <2>3, SeqDef
<1>2. CASE source = "cosmos" /\ determineIBCVersion(tx) # 1
  <2> DEFINE I == {i \in DOMAIN Sent(tx) : Sent(tx)[i].version = 2}
             sent == Picked(Sent(tx), I)
  <2>1. I \in SUBSET DOMAIN Sent(tx)
    OBVIOUS
  <2>2. /\ Cardinality(I) \in Nat /\ DOMAIN sent = 1..Cardinality(I)
        /\ \A k \in 1..Cardinality(I) : \E i \in I : sent[k] = Sent(tx)[i]
    <3> HIDE DEF I
    <3> QED
      BY <1>0, <2>1, PickedFrom
  <2>3. ASSUME NEW k \in 1..Cardinality(I)
        PROVE  IbcPacket(sent[k]) \in Findings
    <3>1. PICK i \in I : sent[k] = Sent(tx)[i]
      BY <2>2
    <3>2. sent[k] \in AllPackets /\ sent[k].version = 2
      BY <1>0, <3>1
    <3> QED
      BY <3>2, PacketFields DEF Findings
  <2>4. [k \in DOMAIN sent |-> IbcPacket(sent[k])] \in Seq(Findings)
    <3> HIDE DEF sent, I
    <3> QED
      BY <2>2, <2>3, SeqDef
  <2>5. PacketsOf(tx) = [k \in DOMAIN sent |-> IbcPacket(sent[k])]
    BY <1>2 DEF PacketsOf, ParsePackets, parseIBCV2Packet
  <2> QED
    BY <2>4, <2>5
<1>3. CASE source = "ethereum"
  <2>1. Sent(tx)[1] \in AllPackets /\ Sent(tx)[1].version = 2
    BY <1>0, <1>3, PacketFields DEF Versions
  <2>2. IbcPacket(Sent(tx)[1]) \in Findings
    BY <2>1, PacketFields DEF Findings
  <2> QED
    BY <1>3, <2>2 DEF PacketsOf, FirstPacket
<1> QED
  BY <1>1, <1>2, <1>3

\* Of a transaction GetPackets is made for it finds all packets, in order, and
\* those of IBC v2 as they were sent.
LEMMA FoundIsSent ==
  ASSUME source \in {"cosmos", "ethereum"}, NEW tx \in Seq(Messages),
         tx # <<>>, Sends(tx) # <<>>, Supported(tx)
  PROVE  /\ Len(PacketsOf(tx)) = Len(Sent(tx))
         /\ DOMAIN PacketsOf(tx) = DOMAIN Sent(tx)
         /\ \A i \in DOMAIN Sent(tx) :
              /\ PacketsOf(tx)[i].seq = Sent(tx)[i].seq
              /\ PacketsOf(tx)[i].version = Sent(tx)[i].version
              /\ Sent(tx)[i].version = 2 => PacketsOf(tx)[i] = Sent(tx)[i]
<1>0. /\ Sent(tx) \in Seq(AllPackets) /\ Len(Sent(tx)) \in Nat
      /\ DOMAIN Sent(tx) = 1..Len(Sent(tx)) /\ Len(Sent(tx)) # 0
      /\ Len(Sends(tx)) = Len(Sent(tx))
      /\ \A k \in DOMAIN Sent(tx) : Sent(tx)[k] \in AllPackets
      /\ PacketsOf(tx) \in Seq(Findings)
  BY SentFrom, FoundFrom, ElementOfSeq
<1>1. \A k \in DOMAIN Sent(tx) : Sent(tx)[k].version = determineIBCVersion(tx)
  <2>1. 1 \in DOMAIN tx
    BY EmptySeq, LenProperties
  <2>2. ASSUME NEW k \in DOMAIN Sent(tx)
        PROVE  Sent(tx)[k].version = determineIBCVersion(tx)
    <3>1. PICK i \in DOMAIN tx : Sent(tx)[k] = tx[i].packet
      BY SentFrom
    <3> QED
      BY <2>1, <3>1 DEF Supported, determineIBCVersion
  <2> QED
    BY <2>2
<1>2. CASE source = "cosmos" /\ determineIBCVersion(tx) = 1
  <2>1. PacketsOf(tx) = parseIBCV1Packets(tx)
    BY <1>2 DEF PacketsOf, ParsePackets
  <2>2. DOMAIN PacketsOf(tx) = DOMAIN Sent(tx)
    BY <2>1 DEF parseIBCV1Packets
  <2>3. Len(PacketsOf(tx)) = Len(Sent(tx))
    BY <1>0, <2>2, LenProperties
  <2>4. \A i \in DOMAIN Sent(tx) :
          /\ PacketsOf(tx)[i].seq = Sent(tx)[i].seq
          /\ PacketsOf(tx)[i].version = 1 /\ Sent(tx)[i].version = 1
    BY <1>1, <1>2, <2>1 DEF parseIBCV1Packets
  <2> QED
    BY <2>2, <2>3, <2>4
<1>3. CASE source = "cosmos" /\ determineIBCVersion(tx) # 1
  <2>1. determineIBCVersion(tx) = 2
    BY <1>0, <1>1, <1>3, PacketFields DEF Versions
  <2>2. {i \in DOMAIN Sent(tx) : Sent(tx)[i].version = 2} = DOMAIN Sent(tx)
    BY <1>1, <2>1
  <2>3. PacketsOf(tx) = [i \in DOMAIN Sent(tx) |-> IbcPacket(Sent(tx)[i])]
    BY <1>0, <1>3, <2>2, PickedAll DEF PacketsOf, ParsePackets, parseIBCV2Packet
  <2>4. \A i \in DOMAIN Sent(tx) : PacketsOf(tx)[i] = Sent(tx)[i]
    BY <1>0, <1>1, <2>1, <2>3, PacketFields
  <2> QED
    BY <1>0, <2>3, <2>4, LenProperties
<1>4. CASE source = "ethereum"
  <2>1. Len(Sent(tx)) = 1 /\ DOMAIN Sent(tx) = {1}
    BY <1>0, <1>4 DEF Supported
  <2>2. Sent(tx)[1] \in AllPackets /\ Sent(tx)[1].version = 2
    BY <1>0, <1>4, <2>1, PacketFields DEF Versions
  <2>3. PacketsOf(tx) = <<Sent(tx)[1]>>
    BY <1>4, <2>2, PacketFields DEF PacketsOf, FirstPacket
  <2> QED
    BY <2>1, <2>3
<1> QED
  BY <1>2, <1>3, <1>4

-----------------------------------------------------------------------------
(* The invariant *)

\* What TypeOK says of one transaction.
LEMMA TxTypes ==
  ASSUME TypeOK
  PROVE  /\ Len(txs) \in Nat /\ DOMAIN txs = 1..Len(txs)
         /\ DOMAIN parsed = DOMAIN txs /\ DOMAIN transfer = DOMAIN txs
         /\ DOMAIN written = DOMAIN txs
         /\ \A t \in DOMAIN txs :
              /\ txs[t] \in Seq(Messages) /\ txs[t] # <<>>
              /\ parsed[t] \in Seq(Findings) /\ written[t] \subseteq AllPackets
              /\ SentSet(txs[t]) \subseteq AllPackets
              /\ RelayerRelays(t) \subseteq SentSet(txs[t])
<1>1. /\ Len(txs) \in Nat /\ DOMAIN txs = 1..Len(txs)
      /\ DOMAIN parsed = DOMAIN txs /\ DOMAIN transfer = DOMAIN txs
      /\ DOMAIN written = DOMAIN txs
  BY LenProperties DEF TypeOK
<1>2. ASSUME NEW t \in DOMAIN txs
      PROVE  /\ txs[t] \in Seq(Messages) /\ txs[t] # <<>>
             /\ parsed[t] \in Seq(Findings) /\ written[t] \subseteq AllPackets
  <2>1. txs[t] \in Seq(Messages) \ {<<>>}
    BY ElementOfSeq DEF TypeOK
  <2>2. parsed[t] \in Seq(Findings)
    BY <1>1, ElementOfSeq DEF TypeOK
  <2>3. written[t] \in SUBSET AllPackets
    BY <1>1, ElementOfSeq DEF TypeOK
  <2> QED
    BY <2>1, <2>2, <2>3
<1>3. ASSUME NEW t \in DOMAIN txs
      PROVE  /\ SentSet(txs[t]) \subseteq AllPackets
             /\ RelayerRelays(t) \subseteq SentSet(txs[t])
  <2>1. Sent(txs[t]) \in Seq(AllPackets)
    BY <1>2, SentFrom
  <2> QED
    BY <2>1, ElementOfSeq DEF SentSet, RelayerRelays
<1> QED
  BY <1>1, <1>2, <1>3

\* The next sequence is a number, as there are finitely many packets before it.
LEMMA NextMsgsTypes ==
  ASSUME TypeOK, NEW tx \in Seq(Messages), NEW m \in NextMsgs(tx)
  PROVE  m \in Messages
<1>1. ASSUME NEW u \in Seq(Messages), NEW v, NEW src
      PROVE  IsFiniteSet(SentIn(u, v, src)) /\ Cardinality(SentIn(u, v, src)) \in Nat
  <2>1. SentIn(u, v, src) \in SUBSET (1..Len(Sent(u))) /\ Len(Sent(u)) \in Nat
    BY SentFrom DEF SentIn
  <2>2. IsFiniteSet(1..Len(Sent(u)))
    BY <2>1, FS_Interval
  <2> QED
    BY <2>1, <2>2, FS_Subset, FS_CardinalityType
<1>2. ASSUME NEW v, NEW src
      PROVE  Cardinality(SentOn(v, src)) \in Nat
  <2> DEFINE f == [t \in DOMAIN txs |-> SentIn(txs[t], v, src) \X {t}]
             S == {SentIn(txs[t], v, src) \X {t} : t \in DOMAIN txs}
  <2>1. IsFiniteSet(DOMAIN txs)
    BY TxTypes, FS_Interval
  <2>2. f \in Surjection(DOMAIN txs, S)
    BY DEF Surjection
  <2>3. IsFiniteSet(S)
    BY <2>1, <2>2, FS_Surjection
  <2>4. ASSUME NEW t \in DOMAIN txs
        PROVE  IsFiniteSet(SentIn(txs[t], v, src) \X {t})
    BY <1>1, TxTypes, FS_Singleton, FS_Product
  <2>5. \A T \in S : IsFiniteSet(T)
    BY <2>4
  <2>6. IsFiniteSet(SentOn(v, src))
    BY <2>3, <2>5, FS_UNION DEF SentOn
  <2> QED
    BY <2>6, FS_CardinalityType
<1>3. ASSUME NEW v \in Versions, NEW src \in Clients, NEW n \in Nat
      PROVE  SendMsg(Packet(v, src, n)) \in Messages
  BY DEF Messages, AllPackets
<1>4. CASE \E v \in Versions : m = OtherMsg(v)
  BY <1>4 DEF Messages
<1>5. ASSUME NEW v \in Versions, NEW src \in Clients,
             m = SendMsg(Packet(v, src,
                   1 + Cardinality(SentOn(v, src)) + Cardinality(SentIn(tx, v, src))))
      PROVE  m \in Messages
  <2>1. 1 + Cardinality(SentOn(v, src)) + Cardinality(SentIn(tx, v, src)) \in Nat
    BY <1>1, <1>2
  <2> QED
    BY <1>3, <1>5, <2>1
<1> QED
  BY <1>4, <1>5 DEF NextMsgs

\* The invariant holds before the first transaction.
LEMMA InitIInv == Init => IInv
<1> SUFFICES ASSUME Init PROVE IInv
  OBVIOUS
<1>1. /\ txs = <<>> /\ parsed = <<>> /\ transfer = <<>> /\ written = <<>>
      /\ DOMAIN txs = {}
  BY DEF Init
<1>2. TypeOK
  BY <1>1, EmptySeq DEF Init, TypeOK
<1>3. ParsedAgrees /\ TransfersAgree
  BY <1>1 DEF ParsedAgrees, TransfersAgree
<1>4. SeenIsReceived /\ RelayedIsReceived
  BY DEF Init, SeenIsReceived, RelayedIsReceived
<1> QED
  BY <1>2, <1>3, <1>4 DEF IInv

\* The sets of packets and messages depend on the source chain alone, which
\* never changes.
LEMMA SourceIsFixed ==
  ASSUME [Next]_vars
  PROVE  /\ source' = source /\ Versions' = Versions /\ AllPackets' = AllPackets
         /\ Messages' = Messages /\ Findings' = Findings
         /\ \A tx : /\ PacketsOf(tx)' = PacketsOf(tx)
                    /\ Supported(tx)' = Supported(tx)
<1>1. source' = source
  BY DEF Next, Land, SendTransfer, Receive, GetPackets, Relay, RelayTransfer,
         RelayAck, TransferFails, Acknowledge, IsPacketReceived, vars
<1>2. Versions' = Versions
  BY <1>1 DEF Versions
<1>3. AllPackets' = AllPackets
  BY <1>2 DEF AllPackets
<1>4. Messages' = Messages /\ Findings' = Findings
  BY <1>2, <1>3 DEF Messages, Findings
<1>5. ASSUME NEW tx
      PROVE  PacketsOf(tx)' = PacketsOf(tx) /\ Supported(tx)' = Supported(tx)
  BY <1>1 DEF PacketsOf, Supported
<1> QED
  BY <1>1, <1>2, <1>3, <1>4, <1>5

\* What the other parts of the invariant say of the transactions and transfers
\* of a state in which they are those of the state before, but more may have
\* been received.
LEMMA SameTransactions ==
  ASSUME IInv, [Next]_vars, UNCHANGED <<txs, parsed, transfer, written>>,
         received \subseteq received', received' \subseteq AllPackets,
         acked \subseteq acked', acked' \subseteq received',
         relayed' \subseteq DOMAIN txs, SeenIsReceived', RelayedIsReceived'
  PROVE  IInv'
<1>1. TypeOK'
  BY SourceIsFixed DEF IInv, TypeOK
<1>2. ParsedAgrees'
  BY SourceIsFixed DEF IInv, ParsedAgrees
<1>3. TransfersAgree'
  <2>1. \A t \in DOMAIN txs : SentSet(txs[t])' = SentSet(txs[t])
    OBVIOUS
  <2> QED
    BY <2>1, SourceIsFixed DEF IInv, TransfersAgree
<1> QED
  BY <1>1, <1>2, <1>3 DEF IInv

\* What has been relayed stays received.
LEMMA RelayedStays ==
  ASSUME IInv, [Next]_vars, relayed' = relayed, received \subseteq received',
         \A t \in DOMAIN txs : txs'[t] = txs[t]
  PROVE  RelayedIsReceived'
<1> SUFFICES ASSUME NEW t \in relayed, Supported(txs[t])',
                    NEW i \in DOMAIN Sent(txs'[t])
             PROVE  Sent(txs'[t])[i] \in received'
  BY DEF RelayedIsReceived
<1>1. txs'[t] = txs[t]
  BY DEF IInv, TypeOK
<1>2. Supported(txs[t])
  BY <1>1, SourceIsFixed DEF Supported
<1> QED
  BY <1>1, <1>2 DEF IInv, RelayedIsReceived

\* A transaction lands, by itself or as a transfer of TransferWithRelay.
LEMMA AddStep ==
  ASSUME IInv, Land \/ SendTransfer
  PROVE  IInv'
<1>0. TypeOK /\ [Next]_vars /\ <<>> \in Seq(Messages)
  BY EmptySeq DEF IInv, Next
<1>1. PICK tx, found, st :
        /\ tx \in Seq(Messages) \ {<<>>} /\ found \in Seq(Findings)
        /\ txs' = Append(txs, tx) /\ parsed' = Append(parsed, found)
        /\ transfer' = Append(transfer, st) /\ written' = Append(written, {})
        /\ UNCHANGED <<received, seen, relayed, acked>>
        /\ \/ st = "none" /\ found = <<>>
           \/ /\ st = "sent" /\ found # <<>>
              /\ Sends(tx) # <<>> /\ found = PacketsOf(tx)
              /\ \E p \in AllPackets : p.version = 2 /\ tx = <<SendMsg(p)>>
  <2>1. CASE Land
    <3>1. PICK m \in NextMsgs(<<>>) :
            \E tx \in {<<m>>} \cup
                      (IF MaxMsgs > 1 THEN {<<m, n>> : n \in NextMsgs(<<m>>)} ELSE {}) :
              txs' = Append(txs, tx)
      BY <2>1 DEF Land
    <3>2. m \in Messages
      BY <1>0, NextMsgsTypes
    <3>3. <<m>> \in Seq(Messages) \ {<<>>}
      BY <3>2
    <3>4. ASSUME NEW n \in NextMsgs(<<m>>)
          PROVE  <<m, n>> \in Seq(Messages) \ {<<>>}
      <4>1. n \in Messages
        BY <1>0, <3>3, NextMsgsTypes
      <4> QED
        BY <3>2, <4>1
    <3>5. PICK tx : tx \in Seq(Messages) \ {<<>>} /\ txs' = Append(txs, tx)
      BY <3>1, <3>3, <3>4
    <3>6. <<>> \in Seq(Findings)
      BY EmptySeq
    <3> QED
      BY <2>1, <3>5, <3>6 DEF Land
  <2>2. CASE SendTransfer
    <3>1. PICK m \in NextMsgs(<<>>) :
            /\ m.sends /\ m.packet.version = 2
            /\ txs' = Append(txs, <<m>>)
            /\ parsed' = Append(parsed, PacketsOf(<<m>>))
      BY <2>2 DEF SendTransfer
    <3>2. m \in Messages
      BY <1>0, NextMsgsTypes
    <3>3. m.packet \in AllPackets /\ m = SendMsg(m.packet)
      BY <3>1, <3>2, MessageFields
    <3>4. /\ <<m>> \in Seq(Messages) \ {<<>>} /\ Sends(<<m>>) # <<>>
          /\ Sent(<<m>>) = <<m.packet>>
      BY <3>3, SentOfOne
    <3>5. PacketsOf(<<m>>) \in Seq(Findings)
      BY <1>0, <3>4, FoundFrom DEF TypeOK
    <3>6. Supported(<<m>>)
      <4>1. Len(Sends(<<m>>)) = 1
        BY <3>4, SentFrom
      <4> QED
        BY <4>1 DEF Supported
    <3>7. PacketsOf(<<m>>) # <<>>
      <4>1. Len(PacketsOf(<<m>>)) = 1
        BY <1>0, <3>4, <3>6, FoundIsSent DEF TypeOK
      <4> QED
        BY <4>1
    <3> QED
      BY <2>2, <3>1, <3>3, <3>4, <3>5, <3>7 DEF SendTransfer
  <2> QED
    BY <2>1, <2>2
<1> DEFINE n == Len(txs) + 1
<1>2. /\ txs' \in Seq(Seq(Messages) \ {<<>>}) /\ Len(txs') = n
      /\ parsed' \in Seq(Seq(Findings)) /\ Len(parsed') = n
      /\ transfer' \in Seq({"none", "sent", "relayed", "done", "failed"})
      /\ Len(transfer') = n
      /\ written' \in Seq(SUBSET AllPackets) /\ Len(written') = n
  BY <1>0, <1>1, AppendProperties DEF TypeOK
<1>3. /\ DOMAIN txs' = DOMAIN txs \cup {n} /\ n \notin DOMAIN txs
      /\ txs'[n] = tx /\ parsed'[n] = found /\ transfer'[n] = st /\ written'[n] = {}
      /\ \A t \in DOMAIN txs :
           /\ txs'[t] = txs[t] /\ parsed'[t] = parsed[t]
           /\ transfer'[t] = transfer[t] /\ written'[t] = written[t]
  <2>1. /\ Len(txs) \in Nat /\ DOMAIN txs = 1..Len(txs)
        /\ Len(parsed) = Len(txs) /\ Len(transfer) = Len(txs)
        /\ Len(written) = Len(txs)
    BY <1>0, TxTypes DEF TypeOK
  <2>2. DOMAIN txs' = 1..n
    BY <1>2, LenProperties
  <2>3. txs'[n] = tx /\ \A t \in 1..Len(txs) : txs'[t] = txs[t]
    BY <1>0, <1>1, AppendProperties DEF TypeOK
  <2>4. parsed'[n] = found /\ \A t \in 1..Len(txs) : parsed'[t] = parsed[t]
    BY <1>0, <1>1, <2>1, AppendProperties DEF TypeOK
  <2>5. transfer'[n] = st /\ \A t \in 1..Len(txs) : transfer'[t] = transfer[t]
    <3>1. transfer \in Seq({"none", "sent", "relayed", "done", "failed"})
          /\ st \in {"none", "sent", "relayed", "done", "failed"}
      BY <1>0, <1>1 DEF TypeOK
    <3>2. transfer' = Append(transfer, st)
      BY <1>1
    <3> QED
      BY <2>1, <3>1, <3>2, AppendProperties
  <2>6. written'[n] = {} /\ \A t \in 1..Len(txs) : written'[t] = written[t]
    <3>1. written \in Seq(SUBSET AllPackets) /\ {} \in SUBSET AllPackets
      BY <1>0 DEF TypeOK
    <3>2. written' = Append(written, {})
      BY <1>1
    <3> QED
      BY <2>1, <3>1, <3>2, AppendProperties
  <2> QED
    BY <2>1, <2>2, <2>3, <2>4, <2>5, <2>6
<1>4. TypeOK'
  BY <1>0, <1>1, <1>2, <1>3, SourceIsFixed DEF TypeOK
<1>5. ParsedAgrees'
  <2> SUFFICES ASSUME NEW t \in DOMAIN txs', parsed'[t] # <<>>
               PROVE  Sends(txs'[t]) # <<>> /\ parsed'[t] = PacketsOf(txs[t])'
    BY DEF ParsedAgrees
  <2>1. CASE t = n
    BY <1>0, <1>1, <1>3, <2>1, SourceIsFixed DEF PacketsOf
  <2>2. CASE t \in DOMAIN txs
    <3>1. Sends(txs[t]) # <<>> /\ parsed[t] = PacketsOf(txs[t])
      BY <1>3, <2>2 DEF IInv, ParsedAgrees
    <3> QED
      BY <1>0, <1>3, <2>2, <3>1, SourceIsFixed DEF PacketsOf
  <2> QED
    BY <1>3, <2>1, <2>2
<1>6. TransfersAgree'
  <2> SUFFICES ASSUME NEW t \in DOMAIN txs'
               PROVE  /\ transfer'[t] \in {"sent", "relayed", "done"} =>
                           /\ \E p \in AllPackets :
                                p.version = 2 /\ txs'[t] = <<SendMsg(p)>>
                           /\ parsed'[t] # <<>>
                      /\ transfer'[t] \in {"relayed", "done"} =>
                           SentSet(txs'[t]) \subseteq received'
                      /\ written'[t] \subseteq SentSet(txs'[t])
                      /\ transfer'[t] = "done" => SentSet(txs'[t]) \subseteq acked'
    BY <1>0, SourceIsFixed DEF TransfersAgree
  <2>1. CASE t = n
    BY <1>1, <1>3, <2>1
  <2>2. CASE t \in DOMAIN txs
    <3>1. /\ txs'[t] = txs[t] /\ parsed'[t] = parsed[t]
          /\ transfer'[t] = transfer[t] /\ written'[t] = written[t]
      BY <1>3, <2>2
    <3>2. received' = received /\ acked' = acked
      BY <1>1
    <3> QED
      BY <2>2, <3>1, <3>2 DEF IInv, TransfersAgree
  <2> QED
    BY <1>3, <2>1, <2>2
<1>7. SeenIsReceived'
  BY <1>1 DEF IInv, SeenIsReceived
<1>8. RelayedIsReceived'
  BY <1>0, <1>1, <1>3, RelayedStays
<1> QED
  BY <1>4, <1>5, <1>6, <1>7, <1>8 DEF IInv

\* Any other relayer.
LEMMA OtherRelayerStep ==
  ASSUME IInv, (\E t \in DOMAIN txs : Receive(t)) \/ (\E p \in received : Acknowledge(p))
  PROVE  IInv'
<1>1. TypeOK /\ [Next]_vars
  BY DEF IInv, Next
<1>2. /\ UNCHANGED <<txs, parsed, transfer, written, seen, relayed>>
      /\ received \subseteq received' /\ acked \subseteq acked'
      /\ acked' \subseteq received'
  BY <1>1 DEF Receive, Acknowledge, ackVars, TypeOK
<1>3. received' \subseteq AllPackets
  BY <1>1, TxTypes DEF Receive, Acknowledge, SentSet, TypeOK
<1>4. SeenIsReceived'
  BY <1>2 DEF IInv, SeenIsReceived
<1>5. RelayedIsReceived' /\ relayed' \subseteq DOMAIN txs
  BY <1>1, <1>2, RelayedStays DEF TypeOK
<1> QED
  BY <1>1, <1>2, <1>3, <1>4, <1>5, SameTransactions

\* A receipt is that of the packet asked for: its client tells its source, and
\* what has no client has no receipt.
LEMMA SeenStep ==
  ASSUME IInv, NEW p \in Found, IsPacketReceived(p)
  PROVE  IInv'
<1>1. TypeOK /\ [Next]_vars
  BY DEF IInv, Next
<1>2. /\ UNCHANGED <<txs, parsed, transfer, written, received, relayed, acked>>
      /\ seen' = seen \cup {p}
  BY DEF IsPacketReceived, ackVars
<1>3. PICK q \in received : q.version = 2 /\ q.dst = p.dst /\ q.seq = p.seq
  BY DEF IsPacketReceived
<1>4. p \in Findings
  <2>1. PICK t \in DOMAIN parsed : \E i \in DOMAIN parsed[t] : p = parsed[t][i]
    BY DEF Found
  <2>2. parsed[t] \in Seq(Findings)
    BY <1>1, TxTypes
  <2> QED
    BY <2>1, <2>2, ElementOfSeq
<1>5. q \in AllPackets
  BY <1>1 DEF TypeOK
<1>6. p \in AllPackets /\ p.version = 2
  <2>1. p.dst \in Clients
    BY <1>3, <1>5, PacketFields
  <2> QED
    BY <1>4, <2>1, ClientsAssumption DEF Findings
<1>7. p = q
  <2>1. Counterparty[p.src] = Counterparty[q.src] /\ p.src \in Clients /\ q.src \in Clients
    BY <1>3, <1>5, <1>6, PacketFields
  <2>2. p.src = q.src
    BY <2>1, ClientsAssumption
  <2> QED
    BY <1>3, <1>5, <1>6, <2>2, PacketFields
<1>8. SeenIsReceived'
  BY <1>2, <1>7 DEF IInv, SeenIsReceived
<1>9. RelayedIsReceived'
  BY <1>1, <1>2, RelayedStays
<1> QED
  BY <1>1, <1>2, <1>8, <1>9, SameTransactions DEF TypeOK

\* The relay command has found the one packet the transaction sent, so that
\* is what it relays, if it relays anything.
LEMMA RelayStep ==
  ASSUME IInv, NEW t \in DOMAIN txs, Relay(t)
  PROVE  IInv'
<1>1. TypeOK /\ [Next]_vars
  BY DEF IInv, Next
<1>2. /\ UNCHANGED <<txs, parsed, transfer, written, seen, acked>>
      /\ received' = received \cup RelayerRelays(t) /\ relayed' = relayed \cup {t}
      /\ Len(parsed[t]) = 1 /\ RelayerRelays(t) # {}
  BY DEF Relay, OnePacket, ackVars
<1>3. received' \subseteq AllPackets
  BY <1>1, <1>2, TxTypes DEF TypeOK
<1>4. SeenIsReceived'
  BY <1>2 DEF IInv, SeenIsReceived
<1>5. ASSUME Supported(txs[t]), NEW i \in DOMAIN Sent(txs[t])
      PROVE  Sent(txs[t])[i] \in received'
  <2>1. txs[t] \in Seq(Messages) /\ txs[t] # <<>> /\ parsed[t] # <<>>
    <3>1. Len(parsed[t]) = 1
      BY <1>2
    <3>2. parsed[t] # <<>>
      BY <3>1
    <3> QED
      BY <1>1, <3>2, TxTypes
  <2>2. Sends(txs[t]) # <<>> /\ parsed[t] = PacketsOf(txs[t])
    BY <2>1 DEF IInv, ParsedAgrees
  <2>3. Len(Sent(txs[t])) = 1
    BY <1>1, <1>2, <1>5, <2>1, <2>2, FoundIsSent DEF TypeOK
  <2>4. DOMAIN Sent(txs[t]) = {1}
    BY <2>1, <2>3, SentFrom
  <2>5. SentSet(txs[t]) = {Sent(txs[t])[i]}
    BY <1>5, <2>4 DEF SentSet
  <2>6. RelayerRelays(t) \subseteq SentSet(txs[t])
    BY <1>1, TxTypes
  <2> QED
    BY <1>2, <2>5, <2>6
<1>6. RelayedIsReceived'
  <2> SUFFICES ASSUME NEW u \in relayed', Supported(txs[u])',
                      NEW i \in DOMAIN Sent(txs[u])
               PROVE  Sent(txs[u])[i] \in received'
    BY <1>2 DEF RelayedIsReceived
  <2>1. Supported(txs[u])
    BY <1>1, <1>2, SourceIsFixed DEF Supported
  <2>2. CASE u = t
    BY <1>5, <2>1, <2>2
  <2>3. CASE u \in relayed
    BY <1>2, <2>1, <2>3 DEF IInv, RelayedIsReceived
  <2> QED
    BY <1>2, <2>2, <2>3
<1>7. relayed' \subseteq DOMAIN txs /\ acked' \subseteq received'
  BY <1>1, <1>2 DEF TypeOK
<1> QED
  BY <1>1, <1>2, <1>3, <1>4, <1>6, <1>7, SameTransactions

\* GetPackets finds the packets of a transaction, again as before.
LEMMA GetPacketsStep ==
  ASSUME IInv, NEW t \in DOMAIN txs, GetPackets(t)
  PROVE  IInv'
<1>1. TypeOK /\ [Next]_vars
  BY DEF IInv, Next
<1>2. /\ UNCHANGED <<txs, transfer, written, received, seen, relayed, acked>>
      /\ parsed' = [parsed EXCEPT ![t] = PacketsOf(txs[t])]
      /\ Sends(txs[t]) # <<>>
  BY DEF GetPackets, ackVars
<1>3. /\ txs[t] \in Seq(Messages) /\ DOMAIN parsed = DOMAIN txs
      /\ parsed \in Seq(Seq(Findings)) /\ Len(parsed) = Len(txs)
  BY <1>1, TxTypes DEF TypeOK
<1>4. PacketsOf(txs[t]) \in Seq(Findings)
  BY <1>1, <1>2, <1>3, FoundFrom DEF TypeOK
<1>5. parsed' \in Seq(Seq(Findings)) /\ Len(parsed') = Len(txs)
  BY <1>2, <1>3, <1>4, ExceptSeq
<1>6. TypeOK'
  BY <1>1, <1>2, <1>5, SourceIsFixed DEF TypeOK
<1>7. ParsedAgrees'
  <2> SUFFICES ASSUME NEW u \in DOMAIN txs, parsed'[u] # <<>>
               PROVE  Sends(txs[u]) # <<>> /\ parsed'[u] = PacketsOf(txs[u])'
    BY <1>2 DEF ParsedAgrees
  <2>1. PacketsOf(txs[u])' = PacketsOf(txs[u])
    BY <1>1, <1>2, SourceIsFixed DEF PacketsOf
  <2>2. CASE u = t
    BY <1>2, <1>3, <2>1, <2>2
  <2>3. CASE u # t
    BY <1>2, <1>3, <2>1, <2>3 DEF IInv, ParsedAgrees
  <2> QED
    BY <2>2, <2>3
<1>8. TransfersAgree'
  <2>1. \A u \in DOMAIN txs : parsed[u] # <<>> => parsed'[u] = parsed[u]
    BY <1>2, <1>3 DEF IInv, ParsedAgrees
  <2>2. AllPackets' = AllPackets
    BY <1>1, SourceIsFixed
  <2>3. \A u \in DOMAIN txs : SentSet(txs[u])' = SentSet(txs[u])
    BY <1>2
  <2> QED
    BY <1>2, <2>1, <2>2, <2>3 DEF IInv, TransfersAgree
<1>9. SeenIsReceived' /\ RelayedIsReceived'
  BY <1>1, <1>2, RelayedStays DEF IInv, SeenIsReceived
<1> QED
  BY <1>6, <1>7, <1>8, <1>9 DEF IInv

\* A transfer that is under way has one packet, and the relayer finds none but
\* that.
LEMMA TransferHasOne ==
  ASSUME IInv, NEW t \in DOMAIN txs, transfer[t] \in {"sent", "relayed"}
  PROVE  \E p \in AllPackets : SentSet(txs[t]) = {p}
<1>1. PICK p \in AllPackets : txs[t] = <<SendMsg(p)>>
  BY DEF IInv, TransfersAgree
<1> QED
  BY <1>1, SentOfOne

\* A step of TransferWithRelay keeps the invariant if it leaves the transfer
\* with what it should have.
LEMMA TransferMoves ==
  ASSUME IInv, [Next]_vars, NEW t \in DOMAIN txs,
         NEW to \in {"relayed", "done", "failed"},
         NEW acks \in SUBSET SentSet(txs[t]),
         transfer[t] \in {"sent", "relayed"},
         transfer' = [transfer EXCEPT ![t] = to],
         written' = [written EXCEPT ![t] = acks],
         UNCHANGED <<txs, parsed, seen, relayed>>,
         received \subseteq received', received' \subseteq AllPackets,
         acked \subseteq acked', acked' \subseteq received',
         to \in {"relayed", "done"} => SentSet(txs[t]) \subseteq received',
         to = "done" => SentSet(txs[t]) \subseteq acked'
  PROVE  IInv'
<1>0. TypeOK /\ acks \in SUBSET AllPackets
      /\ DOMAIN transfer = DOMAIN txs /\ DOMAIN written = DOMAIN txs
  BY TxTypes DEF IInv
<1>1. /\ transfer' \in Seq({"none", "sent", "relayed", "done", "failed"})
      /\ Len(transfer') = Len(txs)
  BY <1>0, ExceptSeq DEF TypeOK
<1>2. written' \in Seq(SUBSET AllPackets) /\ Len(written') = Len(txs)
  BY <1>0, ExceptSeq DEF TypeOK
<1>3. TypeOK'
  BY <1>0, <1>1, <1>2, SourceIsFixed DEF TypeOK
<1>4. ParsedAgrees'
  BY SourceIsFixed DEF IInv, ParsedAgrees
<1>5. TransfersAgree'
  <2> SUFFICES ASSUME NEW u \in DOMAIN txs
               PROVE  /\ transfer'[u] \in {"sent", "relayed", "done"} =>
                           /\ \E p \in AllPackets :
                                p.version = 2 /\ txs[u] = <<SendMsg(p)>>
                           /\ parsed[u] # <<>>
                      /\ transfer'[u] \in {"relayed", "done"} =>
                           SentSet(txs[u]) \subseteq received'
                      /\ written'[u] \subseteq SentSet(txs[u])
                      /\ transfer'[u] = "done" => SentSet(txs[u]) \subseteq acked'
    BY SourceIsFixed DEF TransfersAgree
  <2>1. /\ transfer[u] \in {"sent", "relayed", "done"} =>
             /\ \E p \in AllPackets : p.version = 2 /\ txs[u] = <<SendMsg(p)>>
             /\ parsed[u] # <<>>
        /\ transfer[u] \in {"relayed", "done"} => SentSet(txs[u]) \subseteq received
        /\ written[u] \subseteq SentSet(txs[u])
        /\ transfer[u] = "done" => SentSet(txs[u]) \subseteq acked
    BY DEF IInv, TransfersAgree
  <2>2. CASE u = t
    <3>1. transfer'[t] = to /\ written'[t] = acks
      BY <1>0
    <3> QED
      BY <2>1, <2>2, <3>1
  <2>3. CASE u # t
    <3>1. transfer'[u] = transfer[u] /\ written'[u] = written[u]
      BY <1>0, <2>3
    <3> QED
      BY <2>1, <3>1
  <2> QED
    BY <2>2, <2>3
<1>6. SeenIsReceived' /\ RelayedIsReceived'
  BY RelayedStays DEF IInv, SeenIsReceived
<1> QED
  BY <1>3, <1>4, <1>5, <1>6 DEF IInv

\* The first Relay brings the packet; the second can only find its
\* acknowledgement, or fail.
LEMMA TransferStep ==
  ASSUME IInv, NEW t \in DOMAIN txs,
         RelayTransfer(t) \/ RelayAck(t) \/ TransferFails(t)
  PROVE  IInv'
<1>0. TypeOK /\ [Next]_vars /\ DOMAIN written = DOMAIN txs
      /\ RelayerRelays(t) \subseteq SentSet(txs[t])
      /\ SentSet(txs[t]) \subseteq AllPackets
      /\ written[t] \subseteq SentSet(txs[t])
      /\ received \subseteq AllPackets /\ acked \subseteq received
  BY TxTypes DEF IInv, Next, TransfersAgree, TypeOK
<1>1. transfer[t] \in {"sent", "relayed"}
  BY DEF RelayTransfer, RelayAck, TransferFails
<1>2. PICK p \in AllPackets : SentSet(txs[t]) = {p}
  BY <1>1, TransferHasOne
<1>3. written = [written EXCEPT ![t] = written[t]]
  BY <1>0 DEF TypeOK
<1>4. CASE RelayTransfer(t)
  <2>1. /\ RelayerRelays(t) = SentSet(txs[t])
        /\ received' = received \cup RelayerRelays(t)
        /\ transfer' = [transfer EXCEPT ![t] = "relayed"]
        /\ written' = [written EXCEPT ![t] = RelayerRelays(t) \ received]
        /\ UNCHANGED <<txs, parsed, seen, relayed, acked>>
    BY <1>0, <1>2, <1>4 DEF RelayTransfer
  <2>2. /\ RelayerRelays(t) \ received \in SUBSET SentSet(txs[t])
        /\ SentSet(txs[t]) \subseteq received' /\ received \subseteq received'
        /\ received' \subseteq AllPackets /\ acked' \subseteq received'
    BY <1>0, <2>1
  <2> QED
    BY <1>0, <1>1, <2>1, <2>2, TransferMoves
<1>5. CASE RelayAck(t)
  <2>1. /\ AcksOf(t) \subseteq written[t] /\ AcksOf(t) # {}
        /\ acked' = acked \cup AcksOf(t)
        /\ transfer' = [transfer EXCEPT ![t] = "done"] /\ transfer[t] = "relayed"
        /\ UNCHANGED <<txs, parsed, received, seen, relayed, written>>
    BY <1>5 DEF RelayAck, AcksOf
  <2>2. SentSet(txs[t]) \subseteq received
    BY <2>1 DEF IInv, TransfersAgree
  <2>3. AcksOf(t) = SentSet(txs[t])
    BY <1>0, <1>2, <2>1
  <2>4. /\ SentSet(txs[t]) \subseteq acked' /\ acked \subseteq acked'
        /\ acked' \subseteq received' /\ SentSet(txs[t]) \subseteq received'
    BY <1>0, <2>1, <2>2, <2>3
  <2> QED
    BY <1>0, <1>1, <1>3, <2>1, <2>4, TransferMoves
<1>6. CASE TransferFails(t)
  BY <1>0, <1>1, <1>3, <1>6, TransferMoves DEF TransferFails
<1> QED
  BY <1>4, <1>5, <1>6

\* Every step keeps the invariant.
LEMMA NextIInv == IInv /\ [Next]_vars => IInv'
<1> SUFFICES ASSUME IInv, [Next]_vars PROVE IInv'
  OBVIOUS
<1>1. CASE Next
  BY <1>1, AddStep, OtherRelayerStep, SeenStep, RelayStep, GetPacketsStep,
     TransferStep DEF Next
<1>2. CASE UNCHANGED vars
  <2>1. UNCHANGED <<txs, parsed, transfer, written, received, acked, seen, relayed>>
    BY <1>2 DEF vars, ackVars
  <2>2. SeenIsReceived' /\ RelayedIsReceived'
    BY <2>1, RelayedStays DEF IInv, SeenIsReceived
  <2> QED
    BY <2>1, <2>2, SameTransactions DEF IInv, TypeOK
<1> QED
  BY <1>1, <1>2

\* In every state, what is found is as it was sent or has no client, and a
\* transfer that goes on has its one packet (chains/network/network.go:82-117).
THEOREM SpecIInv == Spec => []IInv
<1> QED
  BY InitIInv, NextIInv, PTL DEF Spec

\* GetPackets finds the packets of a transaction of one IBC version, on
\* Ethereum with one packet, in their order, whatever messages it has
\* (chains/cosmos/events.go:16-176, chains/ethereum/events.go:8-23).
THEOREM SpecParsedIsSent == Spec => []ParsedIsSent
<1>1. ASSUME IInv PROVE ParsedIsSent
  <2> SUFFICES ASSUME NEW t \in DOMAIN txs, parsed[t] # <<>>, Supported(txs[t])
               PROVE  /\ Len(parsed[t]) = Len(Sent(txs[t]))
                      /\ \A i \in DOMAIN parsed[t] :
                           /\ parsed[t][i].seq = Sent(txs[t])[i].seq
                           /\ parsed[t][i].version = Sent(txs[t])[i].version
                           /\ parsed[t][i].version = 2 =>
                                parsed[t][i] = Sent(txs[t])[i]
    BY DEF ParsedIsSent
  <2>1. Sends(txs[t]) # <<>> /\ parsed[t] = PacketsOf(txs[t])
    BY <1>1 DEF IInv, ParsedAgrees
  <2>2. /\ txs[t] \in Seq(Messages) /\ txs[t] # <<>>
        /\ source \in {"cosmos", "ethereum"}
    BY <1>1, TxTypes DEF IInv, TypeOK
  <2> QED
    BY <2>1, <2>2, FoundIsSent
<1> QED
  BY <1>1, SpecIInv, PTL

\* A packet that is reported as received is one the destination has, for any
\* clients (chains/cosmos/packet.go:23-40).
THEOREM SpecSeenIsReceived == Spec => []SeenIsReceived
<1>1. IInv => SeenIsReceived
  BY DEF IInv
<1> QED
  BY <1>1, SpecIInv, PTL

\* "Relay successful" is only said when what the transaction sent has been
\* received (cmd/ibc/cmd/relay.go:14-62).
THEOREM SpecRelayedIsReceived == Spec => []RelayedIsReceived
<1>1. IInv => RelayedIsReceived
  BY DEF IInv
<1> QED
  BY <1>1, SpecIInv, PTL

\* TransferWithRelay returns nil only when its packet has been received and
\* acknowledged, whatever other relayers do, for any clients
\* (chains/network/network.go:82-117).
THEOREM SpecTransferredIsAcked == Spec => []TransferredIsAcked
<1>1. IInv => TransferredIsAcked
  BY DEF IInv, TransfersAgree, TransferredIsAcked, SentSet
<1> QED
  BY <1>1, SpecIInv, PTL
=============================================================================
