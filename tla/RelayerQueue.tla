---------------------------- MODULE RelayerQueue ----------------------------
(***************************************************************************)
(* The batching queue of chains/network/relay_queue.go.                    *)
(*                                                                         *)
(* Goroutines (Clients) call Add, Status and Flush.  Add appends a packet  *)
(* under queueMutex and, once queueSize packets are there, hands a copy of *)
(* the queue to a background goroutine of an errgroup; Flush relays what   *)
(* is left, or waits for the errgroup if nothing is left.  relay() runs    *)
(* under relayMutex: with selfRelay it submits the batch through the       *)
(* relayer, without it polls the destination chain for receipts.           *)
(*                                                                         *)
(* A call is the pair of a step that issues it and the steps it performs   *)
(* between acquiring its locks and returning.  A critical section that     *)
(* cannot block is one step.  Packets are identities (every packet stems   *)
(* from its own transfer) and their order inside a batch is not kept: the  *)
(* code sends a batch as a whole.                                          *)
(***************************************************************************)
EXTENDS Naturals, FiniteSetsExt

CONSTANTS
  Packets,      \* the packets that may be handed to the queue
  Clients,      \* the goroutines that call the queue's methods
  QueueSize,    \* RelayerQueue.queueSize
  SelfRelay,    \* RelayerQueue.selfRelay
  MaxLeaked,    \* bound: no Flush starts once currentlyRelaying exceeds it
  NoOne,        \* owner of a free lock
  Background    \* owner of relayMutex when an errgroup goroutine holds it

ASSUME QueueSizeAssumption == QueueSize \in Nat \ {0}
ASSUME SelfRelayAssumption == SelfRelay \in BOOLEAN
ASSUME LeakedAssumption == MaxLeaked \in Nat
ASSUME OwnerAssumption ==
  /\ NoOne \notin Clients \cup {Background}
  /\ Background \notin Clients

VARIABLES
  pc,                 \* pc[g]: where goroutine g stands in its call
  adding,             \* adding[g]: the packet of g's pending Add
  queueWriter,        \* who holds queueMutex for writing
  queueReaders,       \* who holds queueMutex for reading
  queue,              \* RelayerQueue.queue
  spawned,            \* batches whose goroutine waits for relayMutex
  groupErr,           \* errGroup has recorded an error
  relayOwner,         \* who holds relayMutex for writing, inside relay()
  relayBatch,         \* the packets argument of that relay()
  waitingPackets,     \* waitingPackets of that relay()
  currentlyRelaying,  \* RelayerQueue.currentlyRelaying
  relaysCompleted,    \* RelayerQueue.relaysCompleted
  received,           \* destination chain: packets with a receipt
  accepted,           \* history: packets some Add has appended
  relayed,            \* history: packets of relays that returned nil
  dropped             \* history: packets of failed background relays

lockVars == <<queueWriter, queueReaders>>
batchVars == <<relayOwner, relayBatch, waitingPackets>>
countVars == <<currentlyRelaying, relaysCompleted>>
historyVars == <<accepted, relayed, dropped>>
vars == <<pc, adding, lockVars, queue, spawned, groupErr, batchVars,
          countVars, received, historyVars>>

\* Outside a call; "flushed" and "failed" also say that g's last call was a
\* Flush which returned nil, respectively an error.
Outside == {"idle", "flushed", "failed"}

Phases == Outside \cup {"add", "status", "snapshot", "flush", "flushRelay",
                        "relaying", "flushWait"}

\* The phases in which a goroutine is inside Flush's critical section.
Flushing == {"flushRelay", "relaying", "flushWait"}

\* What Status returns: currentInQueue, currentlyRelaying, relayesCompleted.
StatusResult == <<Cardinality(queue), currentlyRelaying, relaysCompleted>>

Calls(g, to) ==
  /\ pc[g] \in Outside
  /\ pc' = [pc EXCEPT ![g] = to]

Moves(g, from, to) ==
  /\ pc[g] = from
  /\ pc' = [pc EXCEPT ![g] = to]

QueueMutexFree == queueWriter = NoOne /\ queueReaders = {}

Init ==
  /\ pc = [g \in Clients |-> "idle"]
  /\ adding = [g \in Clients |-> NoOne]
  /\ queueWriter = NoOne
  /\ queueReaders = {}
  /\ queue = {}
  /\ spawned = {}
  /\ groupErr = FALSE
  /\ relayOwner = NoOne
  /\ relayBatch = {}
  /\ waitingPackets = {}
  /\ currentlyRelaying = 0
  /\ relaysCompleted = 0
  /\ received = {}
  /\ accepted = {}
  /\ relayed = {}
  /\ dropped = {}
-----------------------------------------------------------------------------
(* Add *)

\* Packets that exist on the source chain: appended, or about to be.
Sent == accepted \cup {adding[g] : g \in {h \in Clients : pc[h] = "add"}}

\* A goroutine calls Add with the packet of a transfer it has just sent.
AddCall(g, p) ==
  /\ p \notin Sent
  /\ Calls(g, "add")
  /\ adding' = [adding EXCEPT ![g] = p]
  /\ UNCHANGED <<lockVars, queue, spawned, groupErr,
                 batchVars, countVars, received, historyVars>>

\* Mutant: the queue keeps the packets it has handed to the background.
BatchKept(filled) ==
  /\ queue' = filled
  /\ spawned' = spawned \cup {b \in {filled} : Cardinality(b) >= QueueSize}

\* A background relay of a copy of the queue is started once it is full.
Batch(filled) ==
  IF Cardinality(filled) >= QueueSize
  THEN spawned' = spawned \cup {filled} /\ queue' = {}
  ELSE queue' = filled /\ UNCHANGED spawned

\* The body of Add, under queueMutex.
Add(g) ==
  /\ QueueMutexFree
  /\ Moves(g, "add", "idle")
  /\ accepted' = accepted \cup {adding[g]}
  /\ adding' = [adding EXCEPT ![g] = NoOne]
  /\ Batch(queue \cup {adding[g]})
  /\ UNCHANGED <<lockVars, groupErr, batchVars,
                 countVars, received, relayed, dropped>>
-----------------------------------------------------------------------------
(* Status *)

StatusCall(g) ==
  /\ Calls(g, "status")
  /\ UNCHANGED <<adding, lockVars, queue, spawned, groupErr, batchVars,
                 countVars, received, historyVars>>

StatusLock(g) ==
  /\ queueWriter = NoOne
  /\ Moves(g, "status", "snapshot")
  /\ queueReaders' = queueReaders \cup {g}
  /\ UNCHANGED <<adding, queueWriter, queue, spawned, groupErr, batchVars,
                 countVars, received, historyVars>>

\* relayMutex is free for reading: return StatusResult, release both locks.
Status(g) ==
  /\ relayOwner = NoOne
  /\ Moves(g, "snapshot", "idle")
  /\ queueReaders' = queueReaders \ {g}
  /\ UNCHANGED <<adding, queueWriter, queue, spawned, groupErr,
                 batchVars, countVars, received, historyVars>>
-----------------------------------------------------------------------------
(* relay: the part shared by the background goroutines and Flush *)

RelayLock(owner, batch) ==
  /\ relayOwner = NoOne
  /\ relayOwner' = owner
  /\ relayBatch' = batch
  /\ waitingPackets' = batch
  /\ currentlyRelaying' = currentlyRelaying + Cardinality(batch)
  /\ UNCHANGED relaysCompleted

\* Mutant: a query that fails counts as a receipt.
RemainingAnswered(unanswered) == (relayBatch \ received) \ unanswered

\* A query that fails is taken as no receipt.
Remaining(unanswered) == (relayBatch \ received) \cup unanswered

\* One pass of the receipt loop.  It asks for every packet of the batch,
\* also for those an earlier pass has seen; some get no answer.
Poll ==
  /\ ~SelfRelay
  /\ relayOwner # NoOne
  /\ waitingPackets # {}
  /\ \E unanswered \in SUBSET relayBatch :
       waitingPackets' = Remaining(unanswered)
  /\ UNCHANGED <<pc, adding, lockVars, queue, spawned, groupErr, relayOwner,
                 relayBatch, countVars, received, historyVars>>

\* relay() may return nil: the relayer's transaction with the whole batch
\* has landed, or the last pass found every receipt.
RelayDone ==
  IF SelfRelay THEN relayBatch \subseteq received ELSE waitingPackets = {}

\* Mutant: the receipt loop has no maxWait.
RelayWaitsForever == SelfRelay

\* relay() may return an error: Relay failed (before or after its
\* transaction took effect), or the clock has passed maxWait when the loop
\* looks at it between two passes.
RelayFailed == SelfRelay \/ waitingPackets # {}

ReleaseRelay ==
  /\ relayOwner' = NoOne
  /\ relayBatch' = {}
  /\ waitingPackets' = {}

\* Mutant: a relay counts as one, not as its packets.
RelayOkCountsOne ==
  /\ RelayDone
  /\ ReleaseRelay
  /\ relaysCompleted' = relaysCompleted + 1
  /\ currentlyRelaying' = currentlyRelaying - Cardinality(relayBatch)
  /\ relayed' = relayed \cup relayBatch

RelayOk ==
  /\ RelayDone
  /\ ReleaseRelay
  /\ relaysCompleted' = relaysCompleted + Cardinality(relayBatch)
  /\ currentlyRelaying' = currentlyRelaying - Cardinality(relayBatch)
  /\ relayed' = relayed \cup relayBatch

\* Mutant: the early return does not release relayMutex.
RelayErrKeepsLock ==
  /\ RelayFailed
  /\ UNCHANGED <<batchVars, countVars, relayed>>

\* The early return leaves the counters as they are.
RelayErr ==
  /\ RelayFailed
  /\ ReleaseRelay
  /\ UNCHANGED <<countVars, relayed>>
-----------------------------------------------------------------------------
(* The errgroup's goroutines *)

BatchLock(batch) ==
  /\ batch \in spawned
  /\ spawned' = spawned \ {batch}
  /\ RelayLock(Background, batch)
  /\ UNCHANGED <<pc, adding, lockVars, queue, groupErr, received,
                 historyVars>>

BatchOk ==
  /\ relayOwner = Background
  /\ RelayOk
  /\ UNCHANGED <<pc, adding, lockVars, queue, spawned, groupErr, received,
                 accepted, dropped>>

BatchErr ==
  /\ relayOwner = Background
  /\ RelayErr
  /\ groupErr' = TRUE
  /\ dropped' = dropped \cup relayBatch
  /\ UNCHANGED <<pc, adding, lockVars, queue, spawned, received, accepted>>
-----------------------------------------------------------------------------
(* Flush *)

FlushCall(g) ==
  /\ currentlyRelaying <= MaxLeaked
  /\ Calls(g, "flush")
  /\ UNCHANGED <<adding, lockVars, queue, spawned, groupErr, batchVars,
                 countVars, received, historyVars>>

\* Flush has queueMutex until it returns: with packets queued it goes on to
\* relay them itself, with none it waits for the errgroup.
FlushLock(g) ==
  /\ QueueMutexFree
  /\ Moves(g, "flush", IF queue = {} THEN "flushWait" ELSE "flushRelay")
  /\ queueWriter' = g
  /\ UNCHANGED <<adding, queueReaders, queue, spawned, groupErr, batchVars,
                 countVars, received, historyVars>>

FlushRelay(g) ==
  /\ Moves(g, "flushRelay", "relaying")
  /\ RelayLock(g, queue)
  /\ UNCHANGED <<adding, lockVars, queue, spawned, groupErr, received,
                 historyVars>>

Return(g, from, r) ==
  /\ Moves(g, from, r)
  /\ queueWriter' = NoOne
  /\ UNCHANGED <<adding, queueReaders>>

\* The queue is reset on success only.
FlushOk(g) ==
  /\ RelayOk
  /\ queue' = {}
  /\ Return(g, "relaying", "flushed")
  /\ UNCHANGED <<spawned, groupErr, received, accepted, dropped>>

FlushErr(g) ==
  /\ RelayErr
  /\ Return(g, "relaying", "failed")
  /\ UNCHANGED <<queue, spawned, groupErr, received, accepted, dropped>>

\* Mutant: Flush does not wait for the batches that have not started.
GroupIdle == relayOwner # Background

\* Mutant: Flush ignores the error of errGroup.Wait.
GroupResultIgnored == "flushed"

\* errGroup.Wait returns once every background relay has, with the first
\* error any of them returned.
GroupFinished == spawned = {} /\ relayOwner # Background
GroupResult == IF groupErr THEN "failed" ELSE "flushed"

FlushWaited(g) ==
  /\ GroupFinished
  /\ Return(g, "flushWait", GroupResult)
  /\ queue' = IF GroupResult = "failed" THEN queue ELSE {}
  /\ UNCHANGED <<spawned, groupErr, batchVars, countVars, received,
                 historyVars>>
-----------------------------------------------------------------------------
(* The destination chain: a packet that was sent gets its receipt, through *)
(* the transaction of our relayer or of another one.                       *)

Deliver(p) ==
  /\ p \in Sent \ received
  /\ received' = received \cup {p}
  /\ UNCHANGED <<pc, adding, lockVars, queue, spawned, groupErr, batchVars,
                 countVars, historyVars>>
-----------------------------------------------------------------------------
CallStep(g) ==
  \/ Add(g)
  \/ StatusLock(g)
  \/ Status(g)
  \/ FlushLock(g)
  \/ FlushRelay(g)
  \/ FlushOk(g)
  \/ FlushErr(g)
  \/ FlushWaited(g)

BatchStep ==
  \/ \E batch \in spawned : BatchLock(batch)
  \/ BatchOk
  \/ BatchErr

Next ==
  \/ \E g \in Clients :
       \/ \E p \in Packets : AddCall(g, p)
       \/ StatusCall(g)
       \/ FlushCall(g)
       \/ CallStep(g)
  \/ BatchStep
  \/ Poll
  \/ \E p \in Packets : Deliver(p)

Spec == Init /\ [][Next]_vars

\* A goroutine inside a call runs, and Go's mutexes are fair to those that
\* wait for them (a waiter is handed the lock, readers are let in between
\* two writers), hence SF for what a lock can disable.  Every remote call
\* returns.  Nobody is obliged to call, and no packet to be delivered.
Fairness ==
  /\ \A g \in Clients : SF_vars(CallStep(g))
  /\ \A batch \in kSubset(QueueSize, Packets) : SF_vars(BatchLock(batch))
  /\ WF_vars(BatchOk \/ BatchErr)
  /\ WF_vars(Poll)

FairSpec == Spec /\ Fairness
-----------------------------------------------------------------------------
(* Properties *)

TypeOK ==
  /\ pc \in [Clients -> Phases]
  /\ adding \in [Clients -> Packets \cup {NoOne}]
  /\ queueWriter \in Clients \cup {NoOne}
  /\ queueReaders \subseteq Clients
  /\ queue \subseteq Packets
  /\ spawned \subseteq SUBSET Packets
  /\ groupErr \in BOOLEAN
  /\ relayOwner \in Clients \cup {NoOne, Background}
  /\ relayBatch \subseteq Packets
  /\ waitingPackets \subseteq relayBatch
  /\ currentlyRelaying \in Nat
  /\ relaysCompleted \in Nat
  /\ received \subseteq Packets
  /\ accepted \subseteq Packets
  /\ relayed \subseteq Packets
  /\ dropped \subseteq Packets

\* The packets a background relay is working on right now.
InFlight == IF relayOwner = Background THEN relayBatch ELSE {}

\* Where a packet can be.  Flush's own relay works on the queue.
Places == spawned \cup {queue, InFlight, relayed, dropped}

\* No packet is lost or relayed twice: every accepted packet is at exactly
\* one place, across the copies Add and Flush take of the queue, their
\* resets of it, and failed relays (relay_queue.go:57-66, 82-95).
PacketPlacement ==
  /\ \A p \in Packets : p \in accepted <=> \E S \in Places : p \in S
  /\ \A b \in spawned :
       b \cap (queue \cup InFlight \cup relayed \cup dropped) = {}
  /\ \A b1, b2 \in spawned : b1 # b2 => b1 \cap b2 = {}
  /\ queue \cap (InFlight \cup relayed \cup dropped) = {}
  /\ InFlight \cap (relayed \cup dropped) = {}
  /\ relayed \cap dropped = {}

\* relaysCompleted, which the progress display shows, counts each packet
\* once and only packets that the destination chain has really received,
\* whatever queries fail and whichever batch runs first.
CompletedAreReceived ==
  /\ relayed \subseteq received
  /\ relaysCompleted = Cardinality(relayed)

\* relay() is never given an empty batch (it reads packets[0]), a background
\* batch is exactly queueSize packets, and what is left queued between two
\* calls is always less than a batch, also after a Flush that failed.
BatchesAreFull ==
  /\ \A b \in spawned : Cardinality(b) = QueueSize
  /\ relayOwner = Background => Cardinality(relayBatch) = QueueSize
  /\ relayOwner \in Clients => relayBatch = queue /\ relayBatch # {}
  /\ Cardinality(queue) < QueueSize

\* A Flush that found the queue empty and returns nil vouches for every
\* packet accepted so far: no background relay is pending, none has failed.
FlushWaitIsComplete ==
  [][\A g \in Clients :
       (pc[g] = "flushWait" /\ pc'[g] = "flushed")
         => accepted = relayed]_vars

\* A Flush that relays the rest of the queue and returns nil vouches for
\* exactly the packets it found queued, and leaves none behind.
FlushRelayIsComplete ==
  [][\A g \in Clients :
       (pc[g] = "relaying" /\ pc'[g] = "flushed")
         => queue \subseteq received /\ queue' = {}]_vars

\* The transfer command (cmd/ibc/cmd/transfer.go:96-110) makes its queue with
\* queueSize 1 and takes a Flush that returns nil for the relay of its packet.
\* With that size it is: whenever Flush returns nil, everything accepted has
\* been relayed.  With a larger size it is not (see FlushRelayIsComplete).
FlushIsComplete ==
  [][\A g \in Clients :
       (pc[g] \in Flushing /\ pc'[g] = "flushed") => accepted = relayed']_vars

\* Every call returns, with any interleaving of Add, Status, Flush and the
\* background relays over the two mutexes and errGroup.Wait.
CallsReturn ==
  \A g \in Clients : (pc[g] \notin Outside) ~> (pc[g] \in Outside)

\* Every packet handed to a background relay leaves it, relayed or dropped.
BatchesFinish ==
  \A p \in Packets : (p \in UNION spawned) ~> (p \in relayed \cup dropped)

\* What a call of g waits for is there.  A reader waits for writers that wait
\* (Go's sync.RWMutex); the writers of relayMutex are the batches and Flush.
CanStep(g) ==
  \/ pc[g] \in {"add", "flush"} /\ QueueMutexFree
  \/ /\ pc[g] = "status" /\ queueWriter = NoOne
     /\ \A h \in Clients : pc[h] \notin {"add", "flush"}
  \/ /\ pc[g] = "snapshot" /\ relayOwner = NoOne
     /\ spawned = {} /\ \A h \in Clients : pc[h] # "flushRelay"
  \/ pc[g] = "flushRelay" /\ relayOwner = NoOne
  \/ pc[g] = "relaying" /\ (RelayDone \/ RelayFailed)
  \/ pc[g] = "flushWait" /\ GroupFinished

BatchCanStep ==
  \/ spawned # {} /\ relayOwner = NoOne
  \/ relayOwner = Background /\ (RelayDone \/ RelayFailed)

\* Whenever a call has not returned or a batch is not relayed, one of them does
\* not wait for another: Add, Status, Flush and the batches never all wait for
\* each other over the two mutexes and errGroup.Wait (relay_queue.go:54, 70-74,
\* 79-92, 101), even though a waiting writer holds up readers.
NobodyIsStuck ==
  (spawned # {} \/ relayOwner # NoOne \/ \E g \in Clients : pc[g] \notin Outside)
    => BatchCanStep \/ \E g \in Clients : CanStep(g)
-----------------------------------------------------------------------------
(* The inductive invariant behind the safety properties. *)

\* The two mutexes agree with where the goroutines stand.
LocksAgree ==
  /\ \A g \in Clients : pc[g] \in Flushing <=> queueWriter = g
  /\ \A g \in Clients : pc[g] = "snapshot" <=> g \in queueReaders
  /\ \A g \in Clients : pc[g] = "relaying" <=> relayOwner = g
  /\ queueWriter # NoOne => queueReaders = {}

\* What Flush has seen of the queue stays true until it returns.
FlushSees ==
  \A g \in Clients : /\ pc[g] = "flushRelay" => queue # {}
                     /\ pc[g] = "flushWait" => queue = {}

\* The locals of relay(): a packet the last pass did not keep is received.
RelayLocals ==
  /\ relayOwner = NoOne => relayBatch = {}
  /\ relayOwner # NoOne /\ ~SelfRelay =>
       relayBatch \ waitingPackets \subseteq received
  /\ currentlyRelaying >= Cardinality(relayBatch)

\* Two pending Adds never carry the same packet, nor one already accepted.
PendingAdds ==
  \A g \in Clients : pc[g] = "add" =>
    /\ adding[g] \in Packets \ accepted
    /\ \A h \in Clients : pc[h] = "add" /\ adding[h] = adding[g] => h = g

Accounting ==
  /\ IsFiniteSet(accepted)
  /\ dropped # {} => groupErr

IInv ==
  /\ TypeOK
  /\ LocksAgree
  /\ FlushSees
  /\ RelayLocals
  /\ PendingAdds
  /\ Accounting
  /\ PacketPlacement
  /\ CompletedAreReceived
  /\ BatchesAreFull
-----------------------------------------------------------------------------
(* The queue implements the ledger. *)

LedgerStatus ==
  [p \in Packets |-> IF p \in relayed THEN "relayed"
                     ELSE IF p \in dropped THEN "abandoned"
                     ELSE IF p \in accepted THEN "pending"
                     ELSE "unsent"]

Ledger == INSTANCE PacketLedger
            WITH status <- LedgerStatus, delivered <- received,
                 reported <- relaysCompleted

LedgerSpec == Ledger!Spec
=============================================================================
