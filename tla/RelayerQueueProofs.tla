------------------------- MODULE RelayerQueueProofs -------------------------
(***************************************************************************)
(* Proofs about RelayerQueue for every set of packets, every number of     *)
(* goroutines and every queue size.                                        *)
(***************************************************************************)
EXTENDS RelayerQueue, FiniteSetTheorems, TLAPS

(* Two disjoint finite sets of packets are counted one after the other. *)
LEMMA DisjointCardinality ==
  ASSUME NEW S, NEW T, IsFiniteSet(S), IsFiniteSet(T), S \cap T = {}
  PROVE  /\ IsFiniteSet(S \cup T)
         /\ Cardinality(S \cup T) = Cardinality(S) + Cardinality(T)
<1>1. Cardinality(S \cap T) = 0
  BY FS_EmptySet
<1>2. Cardinality(S) \in Nat /\ Cardinality(T) \in Nat
  BY FS_CardinalityType
<1>3. /\ IsFiniteSet(S \cup T)
      /\ Cardinality(S \cup T)
           = Cardinality(S) + Cardinality(T) - Cardinality(S \cap T)
  BY FS_Union, Zenon
<1> QED
  BY <1>1, <1>2, <1>3

(* Whatever is at a place is among the accepted packets, which are         *)
(* finitely many, so every place can be counted.                           *)
LEMMA PlacesAreFinite ==
  ASSUME TypeOK, PacketPlacement, Accounting, BatchesAreFull, LocksAgree,
         RelayLocals
  PROVE  /\ \A S \in SUBSET accepted :
              IsFiniteSet(S) /\ Cardinality(S) \in Nat
         /\ queue \subseteq accepted /\ relayBatch \subseteq accepted
         /\ relayed \subseteq accepted /\ dropped \subseteq accepted
<1>1. \A S \in SUBSET accepted : IsFiniteSet(S) /\ Cardinality(S) \in Nat
  BY FS_Subset, FS_CardinalityType DEF Accounting
<1>2. /\ queue \subseteq accepted /\ InFlight \subseteq accepted
      /\ relayed \subseteq accepted /\ dropped \subseteq accepted
  BY DEF PacketPlacement, Places, TypeOK, InFlight
<1>3. relayBatch \subseteq accepted
  BY <1>2, OwnerAssumption DEF TypeOK, BatchesAreFull, RelayLocals, InFlight
<1> QED
  BY <1>1, <1>2, <1>3

\* A new queue is empty, and so are all places a packet could be in.
LEMMA InitIInv == Init => IInv
<1> SUFFICES ASSUME Init PROVE IInv
  OBVIOUS
<1> USE OwnerAssumption, QueueSizeAssumption DEF Init
<1>1. TypeOK
  BY DEF TypeOK, Phases, Outside
<1>2. LocksAgree /\ FlushSees /\ PendingAdds
  BY DEF LocksAgree, FlushSees, PendingAdds, Flushing
<1>3. RelayLocals /\ Accounting
  BY FS_EmptySet DEF RelayLocals, Accounting
<1>4. PacketPlacement
  BY DEF PacketPlacement, Places, InFlight
<1>5. CompletedAreReceived /\ BatchesAreFull
  BY FS_EmptySet DEF CompletedAreReceived, BatchesAreFull
<1> QED
  BY <1>1, <1>2, <1>3, <1>4, <1>5 DEF IInv

\* Calling Add only reserves its packet: it is in no place yet.
LEMMA AddCallStep ==
  ASSUME IInv, NEW g \in Clients, NEW p \in Packets, AddCall(g, p)
  PROVE  IInv'
<1>1. TypeOK'
  BY DEF AddCall, Calls, lockVars, batchVars, countVars, historyVars, IInv,
     TypeOK, Phases
<1>2. LocksAgree' /\ FlushSees'
  BY DEF AddCall, Calls, lockVars, batchVars, IInv, LocksAgree, FlushSees,
     Flushing, Outside
<1>3. RelayLocals'
  BY DEF AddCall, batchVars, countVars, IInv, RelayLocals
<1>4. PendingAdds'
  BY DEF AddCall, Calls, Sent, historyVars, IInv, TypeOK, PendingAdds
<1>5. Accounting'
  BY DEF AddCall, historyVars, IInv, Accounting
<1>6. PacketPlacement'
  BY DEF AddCall, batchVars, historyVars, IInv, PacketPlacement, Places,
     InFlight
<1>7. CompletedAreReceived'
  BY DEF AddCall, countVars, historyVars, IInv, CompletedAreReceived
<1>8. BatchesAreFull'
  BY DEF AddCall, batchVars, IInv, BatchesAreFull
<1> QED
  BY <1>1, <1>2, <1>3, <1>4, <1>5, <1>6, <1>7, <1>8 DEF IInv

\* Add puts its packet into the queue, or hands the full queue over to a
\* goroutine as one batch (relay_queue.go:53-67).
LEMMA AddStep ==
  ASSUME IInv, NEW g \in Clients, Add(g)
  PROVE  IInv'
<1>0. Cardinality(relayBatch) \in Nat /\ Cardinality({}) = 0
  BY PlacesAreFinite, FS_EmptySet DEF IInv
<1>1. TypeOK'
  BY <1>0, QueueSizeAssumption
  DEF Add, Moves, lockVars, batchVars, countVars, IInv, TypeOK, PendingAdds,
      Outside, Phases, Batch
<1>2. LocksAgree' /\ FlushSees'
  BY OwnerAssumption
  DEF Add, Moves, QueueMutexFree, lockVars, batchVars, IInv, LocksAgree,
      FlushSees, Flushing, Batch
<1>3. RelayLocals'
  BY DEF Add, batchVars, countVars, IInv, RelayLocals, Batch
<1>4. PendingAdds'
  BY DEF Add, Moves, IInv, TypeOK, PendingAdds, Batch
<1>5. Accounting'
  <2>1. IsFiniteSet(accepted \cup {adding[g]})
    BY FS_AddElement DEF IInv, Accounting
  <2> QED
    BY <2>1 DEF IInv, Accounting, Add, Batch
<1>6. PacketPlacement'
  <2> DEFINE filled == queue \cup {adding[g]}
  <2>1. adding[g] \notin accepted
    BY DEF IInv, PendingAdds, Add, Moves, Batch
  <2>2. \A S \in spawned \cup {queue, InFlight, relayed, dropped} :
          S \subseteq accepted
    BY DEF IInv, TypeOK, PacketPlacement, Places, InFlight
  <2>3. CASE Cardinality(filled) >= QueueSize
    <3>1. spawned' = spawned \cup {filled} /\ queue' = {}
      BY <2>3 DEF Add, Batch
    <3>2. InFlight' = InFlight /\ relayed' = relayed /\ dropped' = dropped
      BY DEF Add, batchVars, InFlight, Batch
    <3>3. accepted' = accepted \cup {adding[g]}
      BY DEF Add, Batch
    <3>4. \A p \in Packets : p \in accepted' <=> \E S \in Places' : p \in S
      <4>1. \A p : (\E S \in Places' : p \in S)
                     <=> (p = adding[g] \/ \E S \in Places : p \in S)
        <5>1. Places' = spawned \cup {filled, {}, InFlight, relayed, dropped}
          BY <3>1, <3>2 DEF Places
        <5>2. Places = spawned \cup {queue, InFlight, relayed, dropped}
          BY DEF Places
        <5> QED
          BY <5>1, <5>2
      <4> QED
        BY <3>3, <4>1 DEF IInv, PacketPlacement
    <3>5. \A b \in spawned : b \cap filled = {}
      BY <2>1, <2>2 DEF IInv, PacketPlacement
    <3>6. filled \cap (InFlight \cup relayed \cup dropped) = {}
      BY <2>1, <2>2 DEF IInv, PacketPlacement
    <3> QED
      BY <3>1, <3>2, <3>3, <3>4, <3>5, <3>6 DEF IInv, PacketPlacement
  <2>4. CASE ~(Cardinality(filled) >= QueueSize)
    <3>1. spawned' = spawned /\ queue' = filled
      BY <2>4 DEF Add, Batch
    <3> QED
      BY <3>1, <2>1, <2>2
      DEF IInv, PacketPlacement, Places, Add, batchVars, InFlight, Batch
  <2> QED
    BY <2>3, <2>4
<1>7. CompletedAreReceived'
  BY DEF Add, countVars, IInv, CompletedAreReceived, Batch
<1>8. BatchesAreFull'
  <2>1. /\ IsFiniteSet(queue) /\ Cardinality(queue) \in Nat
        /\ queue \subseteq accepted
    BY PlacesAreFinite DEF IInv
  <2>2. Cardinality(queue \cup {adding[g]}) = Cardinality(queue) + 1
    BY <2>1, FS_AddElement DEF IInv, PendingAdds, Add, Moves, Batch
  <2> QED
    <3>1. Cardinality(queue \cup {adding[g]}) <= QueueSize
      BY <2>1, <2>2, QueueSizeAssumption DEF IInv, BatchesAreFull
    <3>2. \A h \in Clients : relayOwner # h
      BY OwnerAssumption
      DEF IInv, LocksAgree, Flushing, QueueMutexFree, Add, Batch
    <3>3. /\ \A b \in spawned' : Cardinality(b) = QueueSize
          /\ Cardinality(queue') < QueueSize
      <4> DEFINE filled == queue \cup {adding[g]}
      <4>1. \A b \in spawned : Cardinality(b) = QueueSize
        BY DEF IInv, BatchesAreFull
      <4>2. Cardinality(filled) \in Nat
        BY <2>1, <2>2
      <4>3. CASE Cardinality(filled) >= QueueSize
        <5>1. spawned' = spawned \cup {filled} /\ queue' = {}
          BY <4>3 DEF Add, Batch
        <5>2. Cardinality(filled) = QueueSize
          BY <3>1, <4>2, <4>3, QueueSizeAssumption
        <5> QED
          BY <1>0, <4>1, <5>1, <5>2, QueueSizeAssumption
      <4>4. CASE ~(Cardinality(filled) >= QueueSize)
        <5>1. spawned' = spawned /\ queue' = filled
          BY <4>4 DEF Add, Batch
        <5> QED
          BY <4>1, <4>2, <4>4, <5>1, QueueSizeAssumption
      <4> QED
        BY <4>3, <4>4
    <3> QED
      BY <3>2, <3>3 DEF Add, batchVars, IInv, TypeOK, BatchesAreFull, Batch
<1> QED
  BY <1>1, <1>2, <1>3, <1>4, <1>5, <1>6, <1>7, <1>8 DEF IInv

\* Status has changed nothing before it has its locks.
LEMMA StatusCallStep ==
  ASSUME IInv, NEW g \in Clients, StatusCall(g)
  PROVE  IInv'
<1>1. TypeOK'
  BY DEF StatusCall, Calls, lockVars, batchVars, countVars, historyVars, IInv,
     TypeOK, Phases
<1>2. LocksAgree' /\ FlushSees'
  BY DEF StatusCall, Calls, lockVars, batchVars, IInv, LocksAgree, FlushSees,
     Flushing, Outside
<1>3. RelayLocals'
  BY DEF StatusCall, batchVars, countVars, IInv, RelayLocals
<1>4. PendingAdds'
  BY DEF StatusCall, Calls, historyVars, IInv, PendingAdds
<1>5. Accounting'
  BY DEF StatusCall, historyVars, IInv, Accounting
<1>6. PacketPlacement'
  BY DEF StatusCall, batchVars, historyVars, IInv, PacketPlacement, Places,
     InFlight
<1>7. CompletedAreReceived'
  BY DEF StatusCall, countVars, historyVars, IInv, CompletedAreReceived
<1>8. BatchesAreFull'
  BY DEF StatusCall, batchVars, IInv, BatchesAreFull
<1> QED
  BY <1>1, <1>2, <1>3, <1>4, <1>5, <1>6, <1>7, <1>8 DEF IInv

\* Taking the first read lock changes who reads, nothing else.
LEMMA StatusLockStep ==
  ASSUME IInv, NEW g \in Clients, StatusLock(g)
  PROVE  IInv'
<1>1. TypeOK'
  BY DEF StatusLock, Moves, batchVars, countVars, historyVars, IInv, TypeOK,
     Phases
<1>2. LocksAgree' /\ FlushSees'
  BY DEF StatusLock, Moves, batchVars, IInv, TypeOK, LocksAgree, FlushSees,
     Flushing
<1>3. RelayLocals'
  BY DEF StatusLock, batchVars, countVars, IInv, RelayLocals
<1>4. PendingAdds'
  BY DEF StatusLock, Moves, historyVars, IInv, PendingAdds
<1>5. Accounting'
  BY DEF StatusLock, historyVars, IInv, Accounting
<1>6. PacketPlacement'
  BY DEF StatusLock, batchVars, historyVars, IInv, PacketPlacement, Places,
     InFlight
<1>7. CompletedAreReceived'
  BY DEF StatusLock, countVars, historyVars, IInv, CompletedAreReceived
<1>8. BatchesAreFull'
  BY DEF StatusLock, batchVars, IInv, BatchesAreFull
<1> QED
  BY <1>1, <1>2, <1>3, <1>4, <1>5, <1>6, <1>7, <1>8 DEF IInv

\* Status reads the counters and leaves (relay_queue.go:69-76).
LEMMA StatusStep ==
  ASSUME IInv, NEW g \in Clients, Status(g)
  PROVE  IInv'
<1>1. TypeOK'
  BY DEF Status, Moves, batchVars, countVars, historyVars, IInv, TypeOK,
     Outside, Phases
<1>2. LocksAgree' /\ FlushSees'
  BY DEF Status, Moves, batchVars, IInv, TypeOK, LocksAgree, FlushSees,
     Flushing
<1>3. RelayLocals'
  BY DEF Status, batchVars, countVars, IInv, RelayLocals
<1>4. PendingAdds'
  BY DEF Status, Moves, historyVars, IInv, PendingAdds
<1>5. Accounting'
  BY DEF Status, historyVars, IInv, Accounting
<1>6. PacketPlacement'
  BY DEF Status, batchVars, historyVars, IInv, PacketPlacement, Places,
     InFlight
<1>7. CompletedAreReceived'
  BY DEF Status, countVars, historyVars, IInv, CompletedAreReceived
<1>8. BatchesAreFull'
  BY DEF Status, batchVars, IInv, BatchesAreFull
<1> QED
  BY <1>1, <1>2, <1>3, <1>4, <1>5, <1>6, <1>7, <1>8 DEF IInv

\* Flush has changed nothing before it has its lock.
LEMMA FlushCallStep ==
  ASSUME IInv, NEW g \in Clients, FlushCall(g)
  PROVE  IInv'
<1>1. TypeOK'
  BY DEF FlushCall, Calls, lockVars, batchVars, countVars, historyVars, IInv,
     TypeOK, Phases
<1>2. LocksAgree' /\ FlushSees'
  BY DEF FlushCall, Calls, lockVars, batchVars, IInv, LocksAgree, FlushSees,
     Flushing, Outside
<1>3. RelayLocals'
  BY DEF FlushCall, batchVars, countVars, IInv, RelayLocals
<1>4. PendingAdds'
  BY DEF FlushCall, Calls, historyVars, IInv, PendingAdds
<1>5. Accounting'
  BY DEF FlushCall, historyVars, IInv, Accounting
<1>6. PacketPlacement'
  BY DEF FlushCall, batchVars, historyVars, IInv, PacketPlacement, Places,
     InFlight
<1>7. CompletedAreReceived'
  BY DEF FlushCall, countVars, historyVars, IInv, CompletedAreReceived
<1>8. BatchesAreFull'
  BY DEF FlushCall, batchVars, IInv, BatchesAreFull
<1> QED
  BY <1>1, <1>2, <1>3, <1>4, <1>5, <1>6, <1>7, <1>8 DEF IInv

\* From here on the queue is what Flush has seen: it holds queueMutex.
LEMMA FlushLockStep ==
  ASSUME IInv, NEW g \in Clients, FlushLock(g)
  PROVE  IInv'
<1>1. TypeOK'
  BY DEF FlushLock, Moves, batchVars, countVars, historyVars, IInv, TypeOK,
     Phases
<1>2. LocksAgree' /\ FlushSees'
  BY OwnerAssumption
  DEF FlushLock, Moves, QueueMutexFree, batchVars, IInv, TypeOK, LocksAgree,
      FlushSees, Flushing
<1>3. RelayLocals'
  BY DEF FlushLock, batchVars, countVars, IInv, RelayLocals
<1>4. PendingAdds'
  BY DEF FlushLock, Moves, historyVars, IInv, PendingAdds
<1>5. Accounting'
  BY DEF FlushLock, historyVars, IInv, Accounting
<1>6. PacketPlacement'
  BY DEF FlushLock, batchVars, historyVars, IInv, PacketPlacement, Places,
     InFlight
<1>7. CompletedAreReceived'
  BY DEF FlushLock, countVars, historyVars, IInv, CompletedAreReceived
<1>8. BatchesAreFull'
  BY DEF FlushLock, batchVars, IInv, BatchesAreFull
<1> QED
  BY <1>1, <1>2, <1>3, <1>4, <1>5, <1>6, <1>7, <1>8 DEF IInv

\* Flush starts to relay what it has seen in the queue; it is in progress
\* and still in the queue, which PacketPlacement counts once.
LEMMA FlushRelayStep ==
  ASSUME IInv, NEW g \in Clients, FlushRelay(g)
  PROVE  IInv'
<1>0. Cardinality(queue) \in Nat /\ Cardinality({}) = 0
  BY PlacesAreFinite, FS_EmptySet DEF IInv
<1>1. TypeOK'
  BY <1>0
  DEF FlushRelay, Moves, RelayLock, lockVars, historyVars, IInv, TypeOK, Phases
<1>2. LocksAgree' /\ FlushSees'
  BY DEF FlushRelay, Moves, RelayLock, lockVars, IInv, TypeOK, LocksAgree,
     FlushSees, Flushing
<1>3. RelayLocals'
  BY <1>0, OwnerAssumption DEF FlushRelay, RelayLock, IInv, TypeOK, RelayLocals
<1>4. PendingAdds'
  BY DEF FlushRelay, Moves, RelayLock, historyVars, IInv, PendingAdds
<1>5. Accounting'
  BY DEF FlushRelay, RelayLock, historyVars, IInv, Accounting
<1>6. PacketPlacement'
  BY OwnerAssumption
  DEF FlushRelay, RelayLock, historyVars, IInv, PacketPlacement, Places,
      InFlight
<1>7. CompletedAreReceived'
  BY DEF FlushRelay, RelayLock, historyVars, IInv, CompletedAreReceived
<1>8. BatchesAreFull'
  BY OwnerAssumption
  DEF FlushRelay, Moves, RelayLock, IInv, TypeOK, FlushSees, BatchesAreFull
<1> QED
  BY <1>1, <1>2, <1>3, <1>4, <1>5, <1>6, <1>7, <1>8 DEF IInv

\* The rest is relayed, and the queue is reset (relay_queue.go:82-95).
LEMMA FlushOkStep ==
  ASSUME IInv, NEW g \in Clients, FlushOk(g)
  PROVE  IInv'
<1>0. Cardinality(relayBatch) \in Nat /\ Cardinality({}) = 0
  BY PlacesAreFinite, FS_EmptySet DEF IInv
<1>1. TypeOK'
  BY <1>0
  DEF FlushOk, Return, Moves, RelayOk, RelayDone, ReleaseRelay, IInv, TypeOK,
      RelayLocals, Outside, Phases
<1>2. LocksAgree' /\ FlushSees'
  BY OwnerAssumption
  DEF FlushOk, Return, Moves, RelayOk, RelayDone, ReleaseRelay, IInv, TypeOK,
      LocksAgree, FlushSees, Flushing
<1>3. RelayLocals'
  BY <1>0
  DEF FlushOk, Return, RelayOk, RelayDone, ReleaseRelay, IInv, TypeOK,
      RelayLocals
<1>4. PendingAdds'
  BY DEF FlushOk, Return, Moves, RelayOk, RelayDone, ReleaseRelay, IInv,
     PendingAdds
<1>5. Accounting'
  BY DEF FlushOk, Return, RelayOk, RelayDone, ReleaseRelay, IInv, Accounting
<1>6. PacketPlacement'
  <2>1. relayBatch = queue /\ InFlight = {} /\ InFlight' = {}
    BY OwnerAssumption
    DEF IInv, LocksAgree, BatchesAreFull, FlushOk, Return, Moves, RelayOk,
        ReleaseRelay, InFlight
  <2>2. /\ queue' = {} /\ relayed' = relayed \cup queue
        /\ spawned' = spawned /\ dropped' = dropped /\ accepted' = accepted
    BY <2>1 DEF FlushOk, RelayOk
  <2> QED
    BY <2>1, <2>2 DEF IInv, PacketPlacement, Places
<1>7. CompletedAreReceived'
  <2>1. IsFiniteSet(relayed) /\ IsFiniteSet(relayBatch)
    BY PlacesAreFinite DEF IInv
  <2>2. relayed \cap relayBatch = {}
    BY OwnerAssumption
    DEF Return, Moves, RelayOk, RelayDone, ReleaseRelay, IInv, TypeOK,
        LocksAgree, RelayLocals, PendingAdds, PacketPlacement, Places,
        BatchesAreFull, Outside, Phases, InFlight
  <2>3. Cardinality(relayed \cup relayBatch)
          = Cardinality(relayed) + Cardinality(relayBatch)
    BY <2>1, <2>2, DisjointCardinality
  <2> QED
    BY <2>3, OwnerAssumption
    DEF FlushOk, Return, Moves, RelayOk, RelayDone, ReleaseRelay, IInv, TypeOK,
        LocksAgree, RelayLocals, PendingAdds, PacketPlacement, Places,
        CompletedAreReceived, Outside, Phases, InFlight
<1>8. BatchesAreFull'
  BY <1>0, OwnerAssumption, QueueSizeAssumption
  DEF FlushOk, Return, RelayOk, RelayDone, ReleaseRelay, IInv, BatchesAreFull
<1> QED
  BY <1>1, <1>2, <1>3, <1>4, <1>5, <1>6, <1>7, <1>8 DEF IInv

\* The relay has failed: the rest stays in the queue for another Flush.
LEMMA FlushErrStep ==
  ASSUME IInv, NEW g \in Clients, FlushErr(g)
  PROVE  IInv'
<1>0. Cardinality(relayBatch) \in Nat /\ Cardinality({}) = 0
  BY PlacesAreFinite, FS_EmptySet DEF IInv
<1>1. TypeOK'
  BY DEF FlushErr, Return, Moves, RelayErr, RelayFailed, ReleaseRelay,
     countVars, IInv, TypeOK, Outside, Phases
<1>2. LocksAgree' /\ FlushSees'
  BY OwnerAssumption
  DEF FlushErr, Return, Moves, RelayErr, RelayFailed, ReleaseRelay, IInv,
      TypeOK, LocksAgree, FlushSees, Flushing
<1>3. RelayLocals'
  BY <1>0
  DEF FlushErr, Return, RelayErr, RelayFailed, ReleaseRelay, countVars, IInv,
      TypeOK, RelayLocals
<1>4. PendingAdds'
  BY DEF FlushErr, Return, Moves, RelayErr, RelayFailed, ReleaseRelay, IInv,
     PendingAdds
<1>5. Accounting'
  BY DEF FlushErr, Return, RelayErr, RelayFailed, ReleaseRelay, IInv,
     Accounting
<1>6. PacketPlacement'
  BY OwnerAssumption
  DEF FlushErr, Return, Moves, RelayErr, RelayFailed, ReleaseRelay, IInv,
      LocksAgree, PacketPlacement, Places, InFlight
<1>7. CompletedAreReceived'
  BY DEF FlushErr, Return, RelayErr, RelayFailed, ReleaseRelay, countVars,
     IInv, CompletedAreReceived
<1>8. BatchesAreFull'
  BY OwnerAssumption
  DEF FlushErr, Return, RelayErr, RelayFailed, ReleaseRelay, IInv,
      BatchesAreFull
<1> QED
  BY <1>1, <1>2, <1>3, <1>4, <1>5, <1>6, <1>7, <1>8 DEF IInv

\* With an empty queue Flush returns the errgroup's result, which is nil
\* only if no batch was dropped (relay_queue.go:89-95).
LEMMA FlushWaitedStep ==
  ASSUME IInv, NEW g \in Clients, FlushWaited(g)
  PROVE  IInv'
<1>0. Cardinality(relayBatch) \in Nat /\ Cardinality({}) = 0
  BY PlacesAreFinite, FS_EmptySet DEF IInv
<1>1. TypeOK'
  BY DEF FlushWaited, Return, Moves, batchVars, countVars, historyVars, IInv,
     TypeOK, Outside, Phases, GroupFinished, GroupResult
<1>2. LocksAgree' /\ FlushSees'
  BY DEF FlushWaited, Return, Moves, batchVars, IInv, TypeOK, LocksAgree,
     FlushSees, Flushing, GroupFinished, GroupResult
<1>3. RelayLocals'
  BY DEF FlushWaited, Return, batchVars, countVars, IInv, RelayLocals,
     GroupFinished, GroupResult
<1>4. PendingAdds'
  BY DEF FlushWaited, Return, Moves, historyVars, IInv, PendingAdds,
     GroupFinished, GroupResult
<1>5. Accounting'
  BY DEF FlushWaited, Return, historyVars, IInv, Accounting, GroupFinished,
     GroupResult
<1>6. PacketPlacement'
  BY DEF FlushWaited, Return, Moves, batchVars, historyVars, IInv, TypeOK,
     FlushSees, PacketPlacement, Places, InFlight, GroupFinished, GroupResult
<1>7. CompletedAreReceived'
  BY DEF FlushWaited, Return, countVars, historyVars, IInv,
     CompletedAreReceived, GroupFinished, GroupResult
<1>8. BatchesAreFull'
  BY <1>0, QueueSizeAssumption
  DEF FlushWaited, Return, Moves, batchVars, IInv, TypeOK, LocksAgree,
      BatchesAreFull, Flushing, GroupFinished, GroupResult
<1> QED
  BY <1>1, <1>2, <1>3, <1>4, <1>5, <1>6, <1>7, <1>8 DEF IInv

\* A goroutine starts to relay its batch.
LEMMA BatchLockStep ==
  ASSUME IInv, NEW batch \in spawned, BatchLock(batch)
  PROVE  IInv'
<1>1. TypeOK'
  BY QueueSizeAssumption
  DEF BatchLock, RelayLock, lockVars, historyVars, IInv, TypeOK, BatchesAreFull
<1>2. LocksAgree' /\ FlushSees'
  BY OwnerAssumption
  DEF BatchLock, RelayLock, lockVars, IInv, LocksAgree, FlushSees
<1>3. RelayLocals'
  BY OwnerAssumption, QueueSizeAssumption
  DEF BatchLock, RelayLock, IInv, TypeOK, RelayLocals, BatchesAreFull
<1>4. PendingAdds'
  BY DEF BatchLock, RelayLock, historyVars, IInv, PendingAdds
<1>5. Accounting'
  BY DEF BatchLock, RelayLock, historyVars, IInv, Accounting
<1>6. PacketPlacement'
  BY OwnerAssumption, QueueSizeAssumption
  DEF BatchLock, RelayLock, historyVars, IInv, LocksAgree, RelayLocals,
      PacketPlacement, Places, Outside, InFlight
<1>7. CompletedAreReceived'
  BY DEF BatchLock, RelayLock, historyVars, IInv, CompletedAreReceived
<1>8. BatchesAreFull'
  BY OwnerAssumption DEF BatchLock, RelayLock, IInv, BatchesAreFull
<1> QED
  BY <1>1, <1>2, <1>3, <1>4, <1>5, <1>6, <1>7, <1>8 DEF IInv

\* A batch is relayed: it is counted as completed, all of it received.
LEMMA BatchOkStep ==
  ASSUME IInv, BatchOk
  PROVE  IInv'
<1>0. Cardinality(relayBatch) \in Nat /\ Cardinality({}) = 0
  BY PlacesAreFinite, FS_EmptySet DEF IInv
<1>1. TypeOK'
  BY <1>0
  DEF BatchOk, RelayOk, RelayDone, ReleaseRelay, lockVars, IInv, TypeOK,
      RelayLocals
<1>2. LocksAgree' /\ FlushSees'
  BY OwnerAssumption
  DEF BatchOk, RelayOk, RelayDone, ReleaseRelay, lockVars, IInv, LocksAgree,
      FlushSees
<1>3. RelayLocals'
  BY <1>0
  DEF BatchOk, RelayOk, RelayDone, ReleaseRelay, IInv, TypeOK, RelayLocals
<1>4. PendingAdds'
  BY DEF BatchOk, RelayOk, RelayDone, ReleaseRelay, IInv, PendingAdds
<1>5. Accounting'
  BY DEF BatchOk, RelayOk, RelayDone, ReleaseRelay, IInv, Accounting
<1>6. PacketPlacement'
  BY DEF BatchOk, RelayOk, RelayDone, ReleaseRelay, IInv, PacketPlacement,
     Places, InFlight
<1>7. CompletedAreReceived'
  <2>1. IsFiniteSet(relayed) /\ IsFiniteSet(relayBatch)
    BY PlacesAreFinite DEF IInv
  <2>2. relayed \cap relayBatch = {}
    BY OwnerAssumption
    DEF RelayOk, RelayDone, ReleaseRelay, lockVars, IInv, TypeOK, LocksAgree,
        RelayLocals, PendingAdds, PacketPlacement, Places, BatchesAreFull,
        Outside, Phases, InFlight
  <2>3. Cardinality(relayed \cup relayBatch)
          = Cardinality(relayed) + Cardinality(relayBatch)
    BY <2>1, <2>2, DisjointCardinality
  <2> QED
    BY <2>3, OwnerAssumption
    DEF BatchOk, RelayOk, RelayDone, ReleaseRelay, lockVars, IInv, TypeOK,
        LocksAgree, RelayLocals, PendingAdds, PacketPlacement, Places,
        CompletedAreReceived, Outside, Phases, InFlight
<1>8. BatchesAreFull'
  BY OwnerAssumption
  DEF BatchOk, RelayOk, RelayDone, ReleaseRelay, IInv, BatchesAreFull
<1> QED
  BY <1>1, <1>2, <1>3, <1>4, <1>5, <1>6, <1>7, <1>8 DEF IInv

\* A batch whose relay fails is dropped, and the errgroup has an error.
LEMMA BatchErrStep ==
  ASSUME IInv, BatchErr
  PROVE  IInv'
<1>0. Cardinality(relayBatch) \in Nat /\ Cardinality({}) = 0
  BY PlacesAreFinite, FS_EmptySet DEF IInv
<1>1. TypeOK'
  BY DEF BatchErr, RelayErr, RelayFailed, ReleaseRelay, lockVars, countVars,
     IInv, TypeOK
<1>2. LocksAgree' /\ FlushSees'
  BY OwnerAssumption
  DEF BatchErr, RelayErr, RelayFailed, ReleaseRelay, lockVars, IInv,
      LocksAgree, FlushSees
<1>3. RelayLocals'
  BY <1>0
  DEF BatchErr, RelayErr, RelayFailed, ReleaseRelay, countVars, IInv, TypeOK,
      RelayLocals
<1>4. PendingAdds'
  BY DEF BatchErr, RelayErr, RelayFailed, ReleaseRelay, IInv, PendingAdds
<1>5. Accounting'
  BY DEF BatchErr, RelayErr, RelayFailed, ReleaseRelay, IInv, Accounting
<1>6. PacketPlacement'
  BY DEF BatchErr, RelayErr, RelayFailed, ReleaseRelay, IInv, PacketPlacement,
     Places, InFlight
<1>7. CompletedAreReceived'
  BY DEF BatchErr, RelayErr, RelayFailed, ReleaseRelay, countVars, IInv,
     CompletedAreReceived
<1>8. BatchesAreFull'
  BY OwnerAssumption
  DEF BatchErr, RelayErr, RelayFailed, ReleaseRelay, IInv, BatchesAreFull
<1> QED
  BY <1>1, <1>2, <1>3, <1>4, <1>5, <1>6, <1>7, <1>8 DEF IInv

\* A pass of the receipt loop keeps what has no receipt yet.
LEMMA PollStep ==
  ASSUME IInv, Poll
  PROVE  IInv'
<1>1. TypeOK'
  BY DEF Poll, lockVars, countVars, historyVars, IInv, TypeOK, Remaining
<1>2. LocksAgree' /\ FlushSees'
  BY DEF Poll, lockVars, IInv, LocksAgree, FlushSees, Remaining
<1>3. RelayLocals'
  BY DEF Poll, countVars, IInv, RelayLocals, Remaining
<1>4. PendingAdds'
  BY DEF Poll, historyVars, IInv, PendingAdds, Remaining
<1>5. Accounting'
  BY DEF Poll, historyVars, IInv, Accounting, Remaining
<1>6. PacketPlacement'
  BY DEF Poll, historyVars, IInv, PacketPlacement, Places, InFlight, Remaining
<1>7. CompletedAreReceived'
  BY DEF Poll, countVars, historyVars, IInv, CompletedAreReceived, Remaining
<1>8. BatchesAreFull'
  BY DEF Poll, IInv, BatchesAreFull, Remaining
<1> QED
  BY <1>1, <1>2, <1>3, <1>4, <1>5, <1>6, <1>7, <1>8 DEF IInv

\* A receipt on the destination chain only adds to what is received.
LEMMA DeliverStep ==
  ASSUME IInv, NEW p \in Packets, Deliver(p)
  PROVE  IInv'
<1>1. TypeOK'
  BY DEF Deliver, lockVars, batchVars, countVars, historyVars, IInv, TypeOK
<1>2. LocksAgree' /\ FlushSees'
  BY DEF Deliver, lockVars, batchVars, IInv, LocksAgree, FlushSees
<1>3. RelayLocals'
  BY DEF Deliver, batchVars, countVars, IInv, RelayLocals
<1>4. PendingAdds'
  BY DEF Deliver, historyVars, IInv, PendingAdds
<1>5. Accounting'
  BY DEF Deliver, historyVars, IInv, Accounting
<1>6. PacketPlacement'
  BY DEF Deliver, batchVars, historyVars, IInv, PacketPlacement, Places,
     InFlight
<1>7. CompletedAreReceived'
  BY DEF Deliver, countVars, historyVars, IInv, CompletedAreReceived
<1>8. BatchesAreFull'
  BY DEF Deliver, batchVars, IInv, BatchesAreFull
<1> QED
  BY <1>1, <1>2, <1>3, <1>4, <1>5, <1>6, <1>7, <1>8 DEF IInv

(* Every step of the queue keeps the invariant. *)
LEMMA NextIInv == IInv /\ [Next]_vars => IInv'
<1> SUFFICES ASSUME IInv, [Next]_vars PROVE IInv'
  OBVIOUS
<1>1. CASE UNCHANGED vars
  BY <1>1
  DEF vars, lockVars, batchVars, countVars, historyVars, IInv, TypeOK,
      LocksAgree, FlushSees, RelayLocals, PendingAdds, Accounting, Places,
      PacketPlacement, CompletedAreReceived, BatchesAreFull, InFlight
<1>2. ASSUME NEW g \in Clients, NEW p \in Packets, AddCall(g, p) PROVE IInv'
  BY <1>2, AddCallStep
<1>3. ASSUME NEW g \in Clients, StatusCall(g) \/ FlushCall(g) PROVE IInv'
  BY <1>3, StatusCallStep, FlushCallStep
<1>4. ASSUME NEW g \in Clients, CallStep(g) PROVE IInv'
  BY <1>4, AddStep, StatusLockStep, StatusStep, FlushLockStep, FlushRelayStep,
     FlushOkStep, FlushErrStep, FlushWaitedStep
  DEF CallStep
<1>5. CASE BatchStep
  BY <1>5, BatchLockStep, BatchOkStep, BatchErrStep DEF BatchStep
<1>6. CASE Poll
  BY <1>6, PollStep
<1>7. ASSUME NEW p \in Packets, Deliver(p) PROVE IInv'
  BY <1>7, DeliverStep
<1> QED
  BY <1>1, <1>2, <1>3, <1>4, <1>5, <1>6, <1>7 DEF Next

(* The invariant holds in every reachable state. *)
THEOREM SpecIInv == Spec => []IInv
<1> QED
  BY InitIInv, NextIInv, PTL DEF Spec

(* Variables keep their types; in particular currentlyRelaying never       *)
(* becomes negative (relay_queue.go:174).                                  *)
THEOREM SpecTypeOK == Spec => []TypeOK
<1>1. IInv => TypeOK
  BY DEF IInv
<1> QED
  BY <1>1, SpecIInv, PTL

(* Every accepted packet is at exactly one place, whatever the             *)
(* interleaving of Add, Flush and the background relays.                   *)
THEOREM SpecPacketPlacement == Spec => []PacketPlacement
<1>1. IInv => PacketPlacement
  BY DEF IInv
<1> QED
  BY <1>1, SpecIInv, PTL

(* relaysCompleted counts packets which were received, each of them once. *)
THEOREM SpecCompletedAreReceived == Spec => []CompletedAreReceived
<1>1. IInv => CompletedAreReceived
  BY DEF IInv
<1> QED
  BY <1>1, SpecIInv, PTL

(* Batches have queueSize packets, and the queue always has fewer. *)
THEOREM SpecBatchesAreFull == Spec => []BatchesAreFull
<1>1. IInv => BatchesAreFull
  BY DEF IInv
<1> QED
  BY <1>1, SpecIInv, PTL

(* Whoever holds queueMutex waits for relayMutex or for the batches at     *)
(* most, and whoever holds relayMutex waits for nobody.                    *)
LEMMA SomebodyCanStep == IInv => NobodyIsStuck
<1> SUFFICES ASSUME IInv,
                    spawned # {} \/ relayOwner # NoOne
                      \/ \E g \in Clients : pc[g] \notin Outside,
                    ~BatchCanStep
             PROVE  \E g \in Clients : CanStep(g)
  BY DEF NobodyIsStuck
<1>1. RelayDone \/ RelayFailed
  BY DEF RelayDone, RelayFailed
<1>2. /\ \A g \in Clients : pc[g] \in Phases
      /\ \A g \in Clients : pc[g] \in Flushing <=> queueWriter = g
      /\ \A g \in Clients : pc[g] = "snapshot" <=> g \in queueReaders
      /\ \A g \in Clients : pc[g] = "relaying" <=> relayOwner = g
      /\ queueWriter \in Clients \cup {NoOne} /\ queueReaders \subseteq Clients
      /\ relayOwner \in Clients \cup {NoOne, Background}
      /\ NoOne \notin Clients
  BY OwnerAssumption DEF IInv, TypeOK, LocksAgree
<1>3. relayOwner \in Clients \/ (relayOwner = NoOne /\ spawned = {})
  BY <1>1, <1>2 DEF BatchCanStep
<1>4. CASE relayOwner \in Clients
  BY <1>1, <1>2, <1>4 DEF CanStep
<1>5. CASE relayOwner = NoOne /\ queueWriter \in Clients
  <2>1. pc[queueWriter] \in {"flushRelay", "flushWait"}
    BY <1>2, <1>5 DEF Flushing
  <2>2. relayOwner # Background
    BY <1>5, OwnerAssumption
  <2> QED
    BY <1>2, <1>3, <1>5, <2>1, <2>2 DEF CanStep, GroupFinished
<1>6. CASE relayOwner = NoOne /\ queueWriter = NoOne /\ queueReaders # {}
  <2>1. \A h \in Clients : pc[h] # "flushRelay"
    BY <1>2, <1>6 DEF Flushing
  <2>2. PICK g \in queueReaders : pc[g] = "snapshot"
    BY <1>2, <1>6
  <2> QED
    BY <1>2, <1>3, <1>6, <2>1, <2>2 DEF CanStep
<1>7. CASE relayOwner = NoOne /\ queueWriter = NoOne /\ queueReaders = {}
  <2>1. PICK g \in Clients : pc[g] \notin Outside
    BY <1>2, <1>3, <1>7
  <2>2. pc[g] \in {"add", "flush", "status"}
    BY <1>2, <1>7, <2>1 DEF Phases, Outside, Flushing
  <2> QED
    BY <1>7, <2>1, <2>2 DEF CanStep, QueueMutexFree
<1> QED
  BY <1>2, <1>3, <1>4, <1>5, <1>6, <1>7

(* The calls and the batches never all wait for each other.                *)
THEOREM SpecNobodyIsStuck == Spec => []NobodyIsStuck
<1> QED
  BY SomebodyCanStep, SpecIInv, PTL

(* Only errgroup.Wait's return and a relay that succeeded end a Flush      *)
(* without an error.                                                       *)
LEMMA OnlyFlushReturnsNil ==
  ASSUME TypeOK, Next, NEW g \in Clients, pc'[g] = "flushed"
  PROVE  /\ pc[g] = "flushWait" => FlushWaited(g)
         /\ pc[g] = "relaying" => FlushOk(g)
<1> SUFFICES ASSUME pc[g] \in Flushing
             PROVE  /\ pc[g] = "flushWait" => FlushWaited(g)
                    /\ pc[g] = "relaying" => FlushOk(g)
  BY DEF Flushing
<1>1. pc' # pc
  BY DEF Flushing
<1>2. ASSUME NEW h \in Clients,
             \/ \E p \in Packets : AddCall(h, p)
             \/ StatusCall(h)
             \/ FlushCall(h)
      PROVE  FALSE
  BY <1>2 DEF TypeOK, AddCall, StatusCall, FlushCall, Calls, Outside, Flushing
<1>3. ASSUME NEW h \in Clients, CallStep(h)
      PROVE  /\ pc[g] = "flushWait" => FlushWaited(g)
             /\ pc[g] = "relaying" => FlushOk(g)
  BY <1>3
  DEF CallStep, TypeOK, Add, StatusLock, Status, FlushLock, FlushRelay,
      FlushOk, FlushErr, FlushWaited, Return, Moves, Batch, GroupFinished,
      GroupResult
<1>4. ~BatchStep /\ ~Poll /\ \A p \in Packets : ~Deliver(p)
  BY <1>1 DEF BatchStep, BatchLock, BatchOk, BatchErr, Poll, Deliver, Remaining
<1> QED
  BY <1>2, <1>3, <1>4 DEF Next

(* When errgroup.Wait has returned nil, all that was accepted is relayed. *)
LEMMA WaitedMeansRelayed ==
  ASSUME IInv, NEW g \in Clients, FlushWaited(g), pc'[g] = "flushed"
  PROVE  accepted = relayed
<1>1. ~groupErr
  BY DEF TypeOK, FlushWaited, Return, Moves, GroupFinished, GroupResult
<1>2. dropped = {}
  BY <1>1 DEF IInv, Accounting
<1>3. spawned = {} /\ queue = {} /\ InFlight = {}
  BY DEF IInv, FlushSees, FlushWaited, Return, Moves, InFlight, GroupFinished,
     GroupResult
<1> QED
  BY <1>2, <1>3 DEF IInv, TypeOK, PacketPlacement, Places

(* A Flush that waited and returns nil vouches for every accepted packet. *)
THEOREM SpecFlushWaitIsComplete == Spec => FlushWaitIsComplete
<1>1. IInv /\ [Next]_vars =>
        [\A g \in Clients : (pc[g] = "flushWait" /\ pc'[g] = "flushed")
                             => accepted = relayed]_vars
  BY OnlyFlushReturnsNil, WaitedMeansRelayed DEF IInv
<1> QED
  BY <1>1, SpecIInv, PTL DEF Spec, FlushWaitIsComplete

(* A relay of the queue that succeeds has brought it to the other chain. *)
LEMMA FlushedMeansReceived ==
  ASSUME IInv, NEW g \in Clients, FlushOk(g)
  PROVE  queue \subseteq received /\ queue' = {}
<1>1. relayOwner = g /\ relayBatch = queue
  BY DEF IInv, LocksAgree, BatchesAreFull, FlushOk, Return, Moves
<1>2. relayBatch \subseteq received
  BY <1>1, OwnerAssumption DEF IInv, RelayLocals, FlushOk, RelayOk, RelayDone
<1> QED
  BY <1>1, <1>2 DEF FlushOk

(* A Flush that relays the queue and returns nil vouches for what it held. *)
THEOREM SpecFlushRelayIsComplete == Spec => FlushRelayIsComplete
<1>1. IInv /\ [Next]_vars =>
        [\A g \in Clients : (pc[g] = "relaying" /\ pc'[g] = "flushed")
             => queue \subseteq received /\ queue' = {}]_vars
  BY OnlyFlushReturnsNil, FlushedMeansReceived DEF IInv
<1> QED
  BY <1>1, SpecIInv, PTL DEF Spec, FlushRelayIsComplete

(* With queueSize 1, as the transfer command has it, nothing is ever       *)
(* queued, so that every Flush waits for the errgroup and its nil vouches  *)
(* for everything accepted.                                                *)
THEOREM SpecFlushIsComplete ==
  ASSUME QueueSize = 1
  PROVE  Spec => FlushIsComplete
<1>1. IInv => queue = {}
  BY PlacesAreFinite, FS_EmptySet DEF IInv, BatchesAreFull
<1>2. ASSUME IInv, Next, NEW g \in Clients, pc[g] \in Flushing,
             pc'[g] = "flushed"
      PROVE  accepted = relayed'
  <2>1. pc[g] # "relaying"
    BY <1>1, <1>2 DEF IInv, LocksAgree, BatchesAreFull
  <2>2. pc[g] # "flushRelay"
    BY <1>1, <1>2 DEF IInv, FlushSees
  <2>3. FlushWaited(g)
    BY <1>2, <2>1, <2>2, OnlyFlushReturnsNil DEF IInv, Flushing
  <2> QED
    BY <1>2, <2>3, WaitedMeansRelayed
    DEF FlushWaited, historyVars, GroupFinished, GroupResult
<1>3. IInv /\ [Next]_vars =>
        [\A g \in Clients : (pc[g] \in Flushing /\ pc'[g] = "flushed")
                             => accepted = relayed']_vars
  BY <1>2
<1> QED
  BY <1>3, SpecIInv, PTL DEF Spec, FlushIsComplete
-----------------------------------------------------------------------------
(* The queue implements PacketLedger. *)

\* Initial states of the queue are initial states of the ledger.
LEMMA LedgerInit == Init => Ledger!Init
  BY DEF Init, Ledger!Init, LedgerStatus

(* Accepting a packet, seen from the ledger. *)
LEMMA AddAccepts ==
  ASSUME IInv, NEW g \in Clients, Add(g)
  PROVE  \E p \in Packets : Ledger!Accept(p)
<1>1. adding[g] \in Packets \ accepted
  BY DEF IInv, PendingAdds, Add, Moves, Batch
<1>2. relayed \subseteq accepted /\ dropped \subseteq accepted
  BY PlacesAreFinite DEF IInv
<1>3. LedgerStatus[adding[g]] = "unsent"
  BY <1>1, <1>2 DEF LedgerStatus
<1>4. LedgerStatus' = Ledger!Mark({adding[g]}, "pending")
  BY <1>1, <1>2 DEF LedgerStatus, Ledger!Mark, Add, Batch
<1>5. received' = received /\ relaysCompleted' = relaysCompleted
  BY DEF Add, countVars, Batch
<1> QED
  BY <1>1, <1>3, <1>4, <1>5 DEF Ledger!Accept

(* The packets of the relay in progress are still pending in the ledger. *)
LEMMA BatchIsPending ==
  ASSUME IInv, relayOwner # NoOne
  PROVE  /\ relayBatch \in SUBSET Packets
         /\ relayBatch \cap (relayed \cup dropped) = {}
         /\ relayBatch \subseteq Ledger!WithStatus("pending")
<1>1. relayBatch \subseteq accepted
  BY PlacesAreFinite DEF IInv
<1>2. relayBatch = InFlight \/ relayBatch = queue
  BY DEF IInv, TypeOK, BatchesAreFull, InFlight
<1>3. relayBatch \cap (relayed \cup dropped) = {}
  BY <1>2 DEF IInv, PacketPlacement
<1> QED
  BY <1>1, <1>3 DEF IInv, TypeOK, LedgerStatus, Ledger!WithStatus

(* A relay that succeeds completes its batch in the ledger. *)
LEMMA RelayOkCompletes ==
  ASSUME IInv, relayOwner # NoOne, RelayOk,
         UNCHANGED <<received, accepted, dropped>>
  PROVE  \E S \in SUBSET Packets : Ledger!Complete(S)
<1>1. relayBatch \subseteq received
  BY DEF IInv, RelayLocals, RelayOk, RelayDone
<1>2. LedgerStatus' = Ledger!Mark(relayBatch, "relayed")
  BY BatchIsPending DEF LedgerStatus, Ledger!Mark, RelayOk
<1>3. /\ received' = received
      /\ relaysCompleted' = relaysCompleted + Cardinality(relayBatch)
  BY DEF RelayOk
<1>4. Ledger!Complete(relayBatch)
  BY <1>1, <1>2, <1>3, BatchIsPending
  DEF Ledger!Complete, Ledger!Cardinality, Cardinality
<1> QED
  BY <1>4, BatchIsPending

(* A background relay that fails abandons its batch in the ledger. *)
LEMMA BatchErrAbandons ==
  ASSUME IInv, BatchErr
  PROVE  \E S \in SUBSET Packets : Ledger!Abandon(S)
<1>1. relayOwner # NoOne
  BY OwnerAssumption DEF BatchErr
<1>2. LedgerStatus' = Ledger!Mark(relayBatch, "abandoned")
  BY <1>1, BatchIsPending DEF LedgerStatus, Ledger!Mark, BatchErr, RelayErr
<1> QED
  BY <1>1, <1>2, BatchIsPending
  DEF Ledger!Abandon, BatchErr, RelayErr, countVars

(* Every other step of the queue is invisible to the ledger. *)
LEMMA LedgerStutters ==
  ASSUME UNCHANGED <<received, accepted, relayed, dropped, relaysCompleted>>
  PROVE  UNCHANGED Ledger!ledgerVars
  BY DEF Ledger!ledgerVars, LedgerStatus

\* Every step of the queue is a step of the ledger, or none.
LEMMA LedgerStep == IInv /\ [Next]_vars => [Ledger!Next]_(Ledger!ledgerVars)
<1> SUFFICES ASSUME IInv, [Next]_vars
             PROVE  Ledger!Next \/ UNCHANGED Ledger!ledgerVars
  OBVIOUS
<1>1. CASE UNCHANGED vars
  BY <1>1, LedgerStutters DEF vars, countVars, historyVars
<1>2. ASSUME NEW g \in Clients,
             \/ \E p \in Packets : AddCall(g, p)
             \/ StatusCall(g)
             \/ FlushCall(g)
      PROVE  UNCHANGED Ledger!ledgerVars
  BY <1>2, LedgerStutters
  DEF AddCall, StatusCall, FlushCall, countVars, historyVars
<1>3. ASSUME NEW g \in Clients, CallStep(g)
      PROVE  Ledger!Next \/ UNCHANGED Ledger!ledgerVars
  <2>1. CASE Add(g)
    BY <2>1, AddAccepts DEF Ledger!Next
  <2>2. CASE FlushOk(g)
    <3>1. relayOwner # NoOne
      BY <2>2, OwnerAssumption DEF IInv, LocksAgree, FlushOk, Return, Moves
    <3> QED
      BY <2>2, <3>1, RelayOkCompletes DEF FlushOk, Ledger!Next
  <2>3. CASE FlushErr(g)
    BY <2>3, LedgerStutters DEF FlushErr, RelayErr, countVars
  <2>4. CASE StatusLock(g) \/ Status(g) \/ FlushLock(g) \/ FlushRelay(g)
             \/ FlushWaited(g)
    BY <2>4, LedgerStutters
    DEF StatusLock, Status, FlushLock, FlushRelay, RelayLock, FlushWaited,
        countVars, historyVars, GroupFinished, GroupResult
  <2> QED
    BY <1>3, <2>1, <2>2, <2>3, <2>4 DEF CallStep
<1>4. CASE BatchStep
  <2>1. ASSUME NEW batch \in spawned, BatchLock(batch)
        PROVE  UNCHANGED Ledger!ledgerVars
    BY <2>1, LedgerStutters DEF BatchLock, RelayLock, historyVars
  <2>2. CASE BatchOk
    BY <2>2, OwnerAssumption, RelayOkCompletes DEF BatchOk, Ledger!Next
  <2>3. CASE BatchErr
    BY <2>3, BatchErrAbandons DEF Ledger!Next
  <2> QED
    BY <1>4, <2>1, <2>2, <2>3 DEF BatchStep
<1>5. CASE Poll
  BY <1>5, LedgerStutters DEF Poll, countVars, historyVars, Remaining
<1>6. ASSUME NEW p \in Packets, Deliver(p)
      PROVE  Ledger!Next
  BY <1>6
  DEF Deliver, Ledger!Next, Ledger!Deliver, LedgerStatus, countVars,
      historyVars
<1> QED
  BY <1>1, <1>2, <1>3, <1>4, <1>5, <1>6 DEF Next

(* RelayerQueue implements PacketLedger: batches, mutexes, retried polls   *)
(* and failed flushes never show in what the queue reports as relayed.     *)
THEOREM SpecImplementsLedger == Spec => LedgerSpec
<1> QED
  BY LedgerInit, LedgerStep, SpecIInv, PTL DEF Spec, LedgerSpec, Ledger!Spec
=============================================================================
