--------------------------- MODULE LoadScriptProofs --------------------------
(***************************************************************************)
(* The load script's safety, for any number of wallets and packets and any *)
(* queue and channel size: what is sent on the channel is true, and the    *)
(* workers' updates are in order; nothing is sent after the close, and     *)
(* done means relayed if queueSize divides the transfers.  The script is   *)
(* composed of the queue's actions, so that every theorem of               *)
(* RelayerQueueProofs about Spec holds of ScriptSpec.                      *)
(***************************************************************************)
EXTENDS LoadScript, RelayerQueueProofs, SequenceTheorems

\* A worker's step is a call of Add or Status, or leaves the queue alone.
LEMMA WorkerStepIsQueueStep ==
  ASSUME NEW w \in Workers, WorkerStep(w)
  PROVE  [Next]_vars
<1>0. w \in Clients
  BY DEF Workers
<1>1. CASE \E p \in Packets : SendTransfer(w, p)
  BY <1>0, <1>1 DEF SendTransfer, Next
<1>2. CASE SendTransferErr(w)
  BY <1>2 DEF SendTransferErr
<1>3. CASE CountTransfer(w)
  BY <1>0, <1>3 DEF CountTransfer, Next
<1>4. CASE SendUpdate(w)
  BY <1>4 DEF SendUpdate
<1>5. CASE ReportErr(w)
  BY <1>5 DEF ReportErr
<1> QED
  BY <1>1, <1>2, <1>3, <1>4, <1>5 DEF WorkerStep

\* The main goroutine calls Status and Flush.
LEMMA MainStepIsQueueStep ==
  ASSUME MainStep
  PROVE  [Next]_vars
<1>1. CASE Announce
  BY <1>1 DEF Announce
<1>2. CASE WaitWorkers
  BY <1>2 DEF WaitWorkers
<1>3. CASE StartRelaying
  BY <1>3, MainAssumption DEF StartRelaying, Next
<1>4. CASE ReportRelaying
  BY <1>4, MainAssumption DEF ReportRelaying, Next
<1>5. CASE Finish
  BY <1>5 DEF Finish
<1> QED
  BY <1>1, <1>2, <1>3, <1>4, <1>5 DEF MainStep

\* Inside a call, a goroutine takes the steps of that call.
LEMMA QueueCallStepIsQueueStep ==
  ASSUME NEW g \in Clients, QueueCallStep(g)
  PROVE  Next
<1>1. CallStep(g)
  BY DEF QueueCallStep, StatusReturns, CallStep
<1> QED
  BY <1>1 DEF Next

\* Every step of the script is a step of the queue, or none.
LEMMA ScriptNextIsQueueStep ==
  ASSUME [ScriptNext]_allVars
  PROVE  [Next]_vars
<1>1. CASE \E w \in Workers : WorkerStep(w)
  BY <1>1, WorkerStepIsQueueStep
<1>2. CASE MainStep
  BY <1>2, MainStepIsQueueStep
<1>3. CASE \E g \in Clients : QueueCallStep(g)
  BY <1>3, QueueCallStepIsQueueStep
<1>4. CASE QueueStep
  BY <1>4 DEF QueueStep, Next
<1>5. CASE ConsumerStep
  BY <1>5 DEF ConsumerStep, Receive, Complete
<1>6. CASE Ended \/ UNCHANGED allVars
  BY <1>6 DEF Ended, allVars
<1> QED
  BY <1>1, <1>2, <1>3, <1>4, <1>5, <1>6 DEF ScriptNext

\* The script's steps are steps of the queue, by the way they are composed of
\* the queue's actions (loadscript.go:99, 104, 161, 179), so that the queue's
\* invariants may be used of the script.
LEMMA ScriptImplementsQueue == ScriptSpec => Spec
<1>1. ScriptInit => Init
  BY DEF ScriptInit
<1>2. [ScriptNext]_allVars => [Next]_vars
  BY ScriptNextIsQueueStep
<1> QED
  BY <1>1, <1>2, PTL DEF ScriptSpec, Spec

\* What the script does to its packets is what PacketLedger allows: each is
\* reported as relayed at most once, and only when it has been received,
\* however the workers, the background relays and the flush interleave.
THEOREM ScriptImplementsLedger == ScriptSpec => LedgerSpec
BY ScriptImplementsQueue, SpecImplementsLedger, PTL
-----------------------------------------------------------------------------
(* Facts about the constants, the channel and the transfers *)

\* The main goroutine is no worker, and nobody is called NoOne.
LEMMA Goroutines ==
  /\ Clients = Workers \cup {Main} /\ Main \notin Workers
  /\ NoOne \notin Clients
  BY MainAssumption, OwnerAssumption DEF Workers

\* The transfers of the script are finitely many, TotalTransfer in number.
LEMMA TransfersAreFinite ==
  /\ TotalTransfer \in Nat
  /\ Cardinality(Transfers) = TotalTransfer
  /\ \A S \in SUBSET Transfers :
       IsFiniteSet(S) /\ Cardinality(S) \in 0..TotalTransfer
<1>1. IsFiniteSet(Workers)
  BY ClientsAssumption, FS_RemoveElement DEF Workers
<1>2. IsFiniteSet(1..NumPackets) /\ Cardinality(1..NumPackets) = NumPackets
  <2>1. 1 \in Int /\ NumPackets \in Int /\ ~(1 > NumPackets)
    BY NumPacketsAssumption
  <2>2. Cardinality(1..NumPackets) = NumPackets - 1 + 1
    BY <2>1, FS_Interval
  <2> QED
    BY <2>1, <2>2, FS_Interval
<1>3. IsFiniteSet(Transfers) /\ Cardinality(Transfers) = TotalTransfer
  BY <1>1, <1>2, FS_Product DEF Transfers, TotalTransfer
<1>4. TotalTransfer \in Nat
  BY <1>3, FS_CardinalityType
<1>5. ASSUME NEW S \in SUBSET Transfers
      PROVE  IsFiniteSet(S) /\ Cardinality(S) \in 0..TotalTransfer
  <2>1. IsFiniteSet(S) /\ Cardinality(S) <= TotalTransfer
    BY <1>3, FS_Subset
  <2> QED
    BY <1>4, <2>1, FS_CardinalityType
<1> QED
  BY <1>3, <1>4, <1>5

\* A send puts its update behind those in the channel.
LEMMA SendsAppends ==
  ASSUME progressCh \in Seq(Updates), NEW u \in Updates, Sends(u)
  PROVE  /\ progressCh' \in Seq(Updates)
         /\ Len(progressCh') = Len(progressCh) + 1
         /\ Len(progressCh') <= ChanSize
         /\ DOMAIN progressCh' = DOMAIN progressCh \cup {Len(progressCh')}
         /\ \A i \in DOMAIN progressCh : progressCh'[i] = progressCh[i]
         /\ progressCh'[Len(progressCh')] = u
  BY AppendProperties, LenProperties, ChanAssumption DEF Sends

\* A receive takes the first update and moves the others up.
LEMMA ReceiveShifts ==
  ASSUME progressCh \in Seq(Updates), Receive
  PROVE  /\ progressCh' \in Seq(Updates)
         /\ Len(progressCh') = Len(progressCh) - 1
         /\ \A i \in DOMAIN progressCh' :
              i + 1 \in DOMAIN progressCh /\ progressCh'[i] = progressCh[i + 1]
         /\ Head(progressCh) = progressCh[1] /\ Len(progressCh) >= 1
<1>1. progressCh # <<>> /\ progressCh' = Tail(progressCh)
  BY DEF Receive
<1> QED
  BY <1>1, HeadTailProperties, LenProperties
-----------------------------------------------------------------------------
(* Steps *)

\* The steps of the goroutines agree with the mutex and with each other.
LEMMA NextStepsAgree ==
  ASSUME ScriptTypeOK, StepsAgree, [ScriptNext]_allVars
  PROVE  StepsAgree'
<1> USE Goroutines DEF ScriptTypeOK, StepsAgree, Goes, WorkerSteps, MainSteps
<1>1. ASSUME NEW w \in Workers, WorkerStep(w) PROVE StepsAgree'
  <2>1. CASE \E p \in Packets : SendTransfer(w, p)
    BY <2>1 DEF SendTransfer, chanVars
  <2>2. CASE SendTransferErr(w)
    BY <2>2 DEF SendTransferErr, chanVars
  <2>3. CASE CountTransfer(w)
    BY <2>3 DEF CountTransfer, chanVars
  <2>4. CASE SendUpdate(w)
    BY <2>4 DEF SendUpdate
  <2>5. CASE ReportErr(w)
    BY <2>5 DEF ReportErr, workVars
  <2> QED
    BY <1>1, <2>1, <2>2, <2>3, <2>4, <2>5 DEF WorkerStep
<1>2. CASE MainStep
  <2>1. CASE Announce
    BY <2>1 DEF Announce, workVars
  <2>2. CASE WaitWorkers
    BY <2>2 DEF WaitWorkers, workVars, chanVars
  <2>3. CASE StartRelaying
    BY <2>3 DEF StartRelaying, workVars
  <2>4. CASE ReportRelaying
    BY <2>4 DEF ReportRelaying
  <2>5. CASE Finish
    BY <2>5 DEF Finish, workVars
  <2> QED
    BY <1>2, <2>1, <2>2, <2>3, <2>4, <2>5 DEF MainStep
<1>3. ASSUME NEW g \in Clients, StatusReturns(g) PROVE StepsAgree'
  BY <1>3 DEF StatusReturns, chanVars
<1>4. CASE UNCHANGED <<step, updateMutex, closed>>
  BY <1>4
<1> QED
  BY <1>1, <1>2, <1>3, <1>4
  DEF ScriptNext, QueueCallStep, QueueStep, ConsumerStep, Receive, Complete,
      Ended, allVars, scriptVars, workVars, chanVars

\* Background relays and the chain do not call anything.
LEMMA QueueStepIsQuiet ==
  ASSUME QueueStep
  PROVE  /\ UNCHANGED <<pc, accepted>>
         /\ UNCHANGED scriptVars
  BY DEF QueueStep, BatchStep, BatchLock, BatchOk, BatchErr, Poll, Deliver,
     historyVars

\* Where a goroutine stands in a call agrees with its step.
LEMMA NextCallsAgree ==
  ASSUME TypeOK, ScriptTypeOK, StepsAgree, CallsAgree, [ScriptNext]_allVars
  PROVE  CallsAgree'
<1> USE Goroutines
    DEF TypeOK, StepsAgree, CallsAgree, Goes, Calls, Moves, Outside, Flushing
<1>0. step \in [Clients -> WorkerSteps \cup MainSteps]
  BY DEF ScriptTypeOK
<1>1. ASSUME NEW w \in Workers, WorkerStep(w) PROVE CallsAgree'
  <2>1. CASE \E p \in Packets : SendTransfer(w, p)
    BY <1>0, <2>1 DEF SendTransfer, AddCall
  <2>2. CASE SendTransferErr(w)
    BY <1>0, <2>2 DEF SendTransferErr, vars
  <2>3. CASE CountTransfer(w)
    BY <1>0, <2>3 DEF CountTransfer, StatusCall
  <2>4. CASE SendUpdate(w)
    BY <1>0, <2>4 DEF SendUpdate, vars
  <2>5. CASE ReportErr(w)
    BY <1>0, <2>5 DEF ReportErr, vars
  <2> QED
    BY <1>1, <2>1, <2>2, <2>3, <2>4, <2>5 DEF WorkerStep
<1>2. CASE MainStep
  <2>1. CASE Announce
    BY <1>0, <2>1 DEF Announce, vars
  <2>2. CASE WaitWorkers
    BY <1>0, <2>2 DEF WaitWorkers, vars
  <2>3. CASE StartRelaying
    BY <1>0, <2>3 DEF StartRelaying, StatusCall
  <2>4. CASE ReportRelaying
    BY <1>0, <2>4 DEF ReportRelaying, FlushCall
  <2>5. CASE Finish
    BY <1>0, <2>5 DEF Finish, vars
  <2> QED
    BY <1>2, <2>1, <2>2, <2>3, <2>4, <2>5 DEF MainStep
<1>3. ASSUME NEW g \in Clients, QueueCallStep(g) PROVE CallsAgree'
  <2>1. CASE StatusReturns(g)
    BY <1>0, <2>1 DEF StatusReturns, Status
  <2>2. CASE Add(g) /\ UNCHANGED scriptVars
    BY <1>0, <2>2 DEF Add, scriptVars
  <2>3. CASE StatusLock(g) /\ UNCHANGED scriptVars
    BY <1>0, <2>3 DEF StatusLock, scriptVars
  <2>4. CASE (FlushLock(g) \/ FlushRelay(g)) /\ UNCHANGED scriptVars
    BY <1>0, <2>4 DEF FlushLock, FlushRelay, scriptVars
  <2>5. CASE (FlushOk(g) \/ FlushErr(g) \/ FlushWaited(g)) /\ UNCHANGED scriptVars
    BY <1>0, <2>5
    DEF FlushOk, FlushErr, FlushWaited, Return, GroupResult, scriptVars
  <2> QED
    BY <1>3, <2>1, <2>2, <2>3, <2>4, <2>5 DEF QueueCallStep
<1>4. CASE UNCHANGED <<pc, step>>
  BY <1>4
<1> QED
  BY <1>1, <1>2, <1>3, <1>4, QueueStepIsQuiet
  DEF ScriptNext, ConsumerStep, Receive, Complete, Ended, allVars, scriptVars,
      vars

-----------------------------------------------------------------------------
(* Counting transfers and packets *)

\* One more transfer of one worker is one more transfer.
LEMMA OneTransferMore ==
  ASSUME NEW n \in [Workers -> Nat], NEW w \in Workers, n[w] < NumPackets
  PROVE  /\ Cardinality(Upto([n EXCEPT ![w] = @ + 1])) = Cardinality(Upto(n)) + 1
         /\ Cardinality(Upto(n)) \in 0..TotalTransfer - 1
<1> DEFINE t == <<w, n[w] + 1>>
           m == [n EXCEPT ![w] = @ + 1]
<1>1. t \in Transfers /\ t \notin Upto(n)
  BY NumPacketsAssumption DEF Transfers, Upto
<1>2. Upto(m) = Upto(n) \cup {t}
  <2>1. ASSUME NEW u \in Transfers
        PROVE  u[2] <= m[u[1]] <=> u[2] <= n[u[1]] \/ u = t
    <3>1. PICK v \in Workers, i \in 1..NumPackets : u = <<v, i>>
      BY DEF Transfers
    <3>2. i \in Nat /\ n[v] \in Nat /\ n[w] \in Nat
      BY NumPacketsAssumption
    <3>3. CASE v = w
      BY <3>1, <3>2, <3>3
    <3>4. CASE v # w
      BY <3>1, <3>2, <3>4
    <3> QED
      BY <3>3, <3>4
  <2> QED
    BY <1>1, <2>1 DEF Upto
<1>3. /\ IsFiniteSet(Upto(n)) /\ Cardinality(Upto(n)) \in 0..TotalTransfer
      /\ IsFiniteSet(Upto(m)) /\ Cardinality(Upto(m)) \in 0..TotalTransfer
  <2>1. Upto(n) \in SUBSET Transfers /\ Upto(m) \in SUBSET Transfers
    BY DEF Upto
  <2> QED
    BY <2>1, TransfersAreFinite
<1>4. Cardinality(Upto(m)) = Cardinality(Upto(n)) + 1
  BY <1>1, <1>2, <1>3, FS_AddElement
<1> QED
  BY <1>3, <1>4, TransfersAreFinite

\* The counts are numbers of transfers.
LEMMA CountsAreNumbers ==
  ASSUME ScriptTypeOK
  PROVE  /\ Counted \in [Workers -> Nat] /\ Appended \in [Workers -> Nat]
         /\ \A w \in Workers : done[w] \in Nat
  BY NumPacketsAssumption DEF ScriptTypeOK, Counted, Appended

\* Nothing but counting a transfer, the update about it and Add changes the
\* counts: a goroutine that sends, waits or asks for the status does not.
LEMMA CountsStay ==
  ASSUME UNCHANGED done,
         \A w \in Workers : (Counts(w)' <=> Counts(w)) /\ (Adds(w)' <=> Adds(w))
  PROVE  Counted' = Counted /\ Appended' = Appended
  BY DEF Counted, Appended

\* CountTransfer counts one transfer.
LEMMA CountTransferCounts ==
  ASSUME TypeOK, ScriptTypeOK, StepsAgree, CallsAgree,
         NEW w \in Workers, CountTransfer(w)
  PROVE  /\ Counted' = [Counted EXCEPT ![w] = @ + 1]
         /\ Appended' = Appended
         /\ Counted[w] = done[w]
<1> USE DEF CountTransfer, StatusCall, Goes, Calls, Outside, CallsAgree,
        ScriptTypeOK, TypeOK
<1>0. done[w] \in Nat
  BY CountsAreNumbers
<1>1. /\ step[w] = "add" /\ step' = [step EXCEPT ![w] = "status"]
      /\ pc[w] = "idle" /\ pc' = [pc EXCEPT ![w] = "status"]
      /\ done' = done
  BY Goroutines
<1>2. ~Counts(w) /\ Counts(w)' /\ Adds(w) /\ Adds(w)'
  BY <1>1, Goroutines DEF Counts, Adds
<1>3. \A v \in Workers \ {w} : Counts(v)' = Counts(v) /\ Adds(v)' = Adds(v)
  BY <1>1 DEF Counts, Adds
<1>4. Appended' = Appended
  BY <1>1, <1>2, <1>3 DEF Appended
<1>5. /\ Counted[w] = done[w] /\ Counted'[w] = done[w] + 1
      /\ \A v \in Workers \ {w} : Counted'[v] = Counted[v]
  BY <1>0, <1>1, <1>2, <1>3 DEF Counted
<1>6. Counted' = [Counted EXCEPT ![w] = @ + 1]
  BY <1>5 DEF Counted
<1> QED
  BY <1>4, <1>5, <1>6

\* The update ends the iteration that has counted its transfer.
LEMMA SendUpdateKeepsCounts ==
  ASSUME ScriptTypeOK, NEW w \in Workers, SendUpdate(w)
  PROVE  Counted' = Counted /\ Appended' = Appended
<1> USE DEF ScriptTypeOK
<1>0. done[w] \in Nat
  BY CountsAreNumbers
<1>1. /\ step[w] = "update"
      /\ step' = [step EXCEPT ![w] = IF done[w] + 1 = NumPackets
                                     THEN "done" ELSE "send"]
      /\ done' = [done EXCEPT ![w] = @ + 1] /\ pc' = pc
  BY DEF SendUpdate, Goes, vars
<1>2. Counts(w) /\ ~Counts(w)' /\ Adds(w) /\ ~Adds(w)'
  BY <1>1, Goroutines DEF Counts, Adds
<1>3. \A v \in Workers \ {w} : Counts(v)' = Counts(v) /\ Adds(v)' = Adds(v)
  BY <1>1 DEF Counts, Adds
<1> QED
  BY <1>0, <1>1, <1>2, <1>3 DEF Counted, Appended

\* Add brings one packet into the queue, the one of its caller's transfer.
LEMMA AddAppends ==
  ASSUME IInv, ScriptTypeOK, StepsAgree, CallsAgree,
         NEW g \in Clients, Add(g), UNCHANGED scriptVars
  PROVE  /\ g \in Workers
         /\ Counted' = Counted
         /\ Appended' = [Appended EXCEPT ![g] = @ + 1]
         /\ Appended[g] = done[g]
         /\ Cardinality(accepted') = Cardinality(accepted) + 1
<1> USE DEF ScriptTypeOK
<1>1. g \in Workers /\ step[g] = "add"
  BY Goroutines DEF Add, Moves, CallsAgree
<1>2. /\ pc[g] = "add" /\ pc' = [pc EXCEPT ![g] = "idle"]
      /\ step' = step /\ done' = done
  BY DEF Add, Moves, scriptVars, workVars
<1>3. ~Adds(g) /\ Adds(g)'
  BY <1>1, <1>2 DEF Counts, Adds, IInv, TypeOK
<1>4. \A v \in Workers : Counts(v)' = Counts(v) /\ (v # g => Adds(v)' = Adds(v))
  BY <1>2 DEF Counts, Adds
<1>5. done[g] \in Nat
  BY <1>1, CountsAreNumbers
<1>6. accepted' = accepted \cup {adding[g]} /\ adding[g] \notin accepted
  BY DEF Add, Moves, IInv, PendingAdds
<1>7. Cardinality(accepted') = Cardinality(accepted) + 1
  BY <1>6, FS_AddElement DEF IInv, Accounting
<1>8. Counted' = Counted
  BY <1>2, <1>4 DEF Counted
<1>9. /\ Appended[g] = done[g] /\ Appended'[g] = done[g] + 1
      /\ \A v \in Workers \ {g} : Appended'[v] = Appended[v]
  BY <1>1, <1>2, <1>3, <1>4, <1>5 DEF Appended
<1>10. Appended' = [Appended EXCEPT ![g] = @ + 1]
  BY <1>1, <1>9 DEF Appended
<1> QED
  BY <1>1, <1>7, <1>8, <1>9, <1>10

\* A step that leaves the counts of the transfers alone keeps what they agree
\* with if it leaves that alone, too.
LEMMA CountsAgreeStays ==
  ASSUME CountsAgree, Counted' = Counted, Appended' = Appended,
         UNCHANGED <<transferCompleted, accepted>>
  PROVE  /\ transferCompleted' = Cardinality(Upto(Counted))'
         /\ Cardinality(accepted)' = Cardinality(Upto(Appended))'
  BY DEF CountsAgree, Upto, Transfers, Workers

\* Workers keep the numbers of their iterations and their calls in bounds.
LEMMA NextIterations ==
  ASSUME ScriptTypeOK, StepsAgree, CountsAgree, [ScriptNext]_allVars,
         NEW w \in Workers
  PROVE  /\ step'[w] \in {"send", "add", "status", "update"} =>
              done'[w] < NumPackets /\ attempt'[w] < MaxRetries
         /\ step'[w] = "done" => done'[w] = NumPackets
<1> DEFINE Bounded ==
             /\ step'[w] \in {"send", "add", "status", "update"} =>
                  done'[w] < NumPackets /\ attempt'[w] < MaxRetries
             /\ step'[w] = "done" => done'[w] = NumPackets
<1> USE Goroutines, RetriesAssumption DEF ScriptTypeOK, CountsAgree, Goes
<1>0. done[w] \in 0..NumPackets /\ attempt[w] \in 0..MaxRetries
  OBVIOUS
<1>1. ASSUME NEW v \in Workers, WorkerStep(v) PROVE Bounded
  <2>1. CASE \E p \in Packets : SendTransfer(v, p)
    BY <2>1 DEF SendTransfer
  <2>2. CASE SendTransferErr(v)
    BY <1>0, <2>2, NumPacketsAssumption DEF SendTransferErr
  <2>3. CASE CountTransfer(v)
    BY <2>3 DEF CountTransfer
  <2>4. CASE SendUpdate(v)
    <3>1. CASE v = w
      <4>1. /\ step[w] = "update" /\ attempt'[w] = attempt[w]
            /\ done'[w] = done[w] + 1
            /\ step'[w] = IF done[w] + 1 = NumPackets THEN "done" ELSE "send"
        BY <2>4, <3>1 DEF SendUpdate
      <4> QED
        BY <1>0, <4>1, NumPacketsAssumption
    <3>2. CASE v # w
      BY <2>4, <3>2 DEF SendUpdate
    <3> QED
      BY <3>1, <3>2
  <2>5. CASE ReportErr(v)
    BY <2>5 DEF ReportErr, workVars
  <2> QED
    BY <1>1, <2>1, <2>2, <2>3, <2>4, <2>5 DEF WorkerStep
<1>2. CASE MainStep
  BY <1>2
  DEF MainStep, Announce, WaitWorkers, StartRelaying, ReportRelaying, Finish,
      workVars
<1>3. ASSUME NEW g \in Clients, StatusReturns(g) PROVE Bounded
  BY <1>3 DEF StatusReturns
<1>4. CASE UNCHANGED <<step, done, attempt>>
  BY <1>4
<1> QED
  BY <1>1, <1>2, <1>3, <1>4
  DEF ScriptNext, QueueCallStep, QueueStep, ConsumerStep, Receive, Complete,
      Ended, allVars, scriptVars, workVars

\* The counts of the transfers agree with the counter and with the queue.
LEMMA NextCountsAgree ==
  ASSUME IInv, ScriptTypeOK, StepsAgree, CallsAgree, CountsAgree,
         [ScriptNext]_allVars
  PROVE  CountsAgree'
<1> DEFINE Agree ==
             /\ transferCompleted' = Cardinality(Upto(Counted))'
             /\ Cardinality(accepted)' = Cardinality(Upto(Appended))'
           Quiet(w) == (Counts(w)' <=> Counts(w)) /\ (Adds(w)' <=> Adds(w))
<1> SUFFICES Agree
  BY NextIterations DEF CountsAgree, Workers
<1> USE Goroutines
<1>0. TypeOK /\ step \in [Clients -> WorkerSteps \cup MainSteps]
  BY DEF IInv, ScriptTypeOK
<1>1. ASSUME UNCHANGED <<done, transferCompleted, accepted>>,
             \A w \in Workers : Quiet(w)
      PROVE  Agree
  BY <1>1, CountsStay, CountsAgreeStays
<1>2. ASSUME NEW w \in Workers, WorkerStep(w) PROVE Agree
  <2>1. CASE \E p \in Packets : SendTransfer(w, p)
    <3>1. /\ UNCHANGED <<done, transferCompleted, accepted>>
          /\ step[w] = "send" /\ step' = [step EXCEPT ![w] = "add"]
          /\ pc' = [pc EXCEPT ![w] = "add"]
      BY <2>1 DEF SendTransfer, AddCall, Calls, Goes, historyVars
    <3>2. ~Counts(w) /\ ~Counts(w)' /\ ~Adds(w) /\ ~Adds(w)'
      BY <1>0, <3>1 DEF Counts, Adds, TypeOK
    <3>3. \A v \in Workers \ {w} : Quiet(v)
      BY <3>1 DEF Counts, Adds
    <3> QED
      BY <1>1, <3>1, <3>2, <3>3
  <2>2. CASE SendTransferErr(w)
    BY <1>0, <1>1, <2>2 DEF SendTransferErr, Goes, Counts, Adds, vars, historyVars
  <2>3. CASE CountTransfer(w)
    <3>1. /\ Counted' = [Counted EXCEPT ![w] = @ + 1] /\ Appended' = Appended
          /\ Counted[w] = done[w] /\ Counted[w] < NumPackets
      BY <1>0, <2>3, CountTransferCounts DEF CountTransfer, Goes, CountsAgree
    <3>2. /\ transferCompleted' = transferCompleted + 1 /\ accepted' = accepted
      BY <2>3 DEF CountTransfer, StatusCall, historyVars
    <3>3. Cardinality(Upto(Counted')) = Cardinality(Upto(Counted)) + 1
      BY <3>1, CountsAreNumbers, OneTransferMore
    <3> QED
      BY <3>1, <3>2, <3>3 DEF CountsAgree, Upto, Transfers, Workers
  <2>4. CASE SendUpdate(w)
    BY <2>4, SendUpdateKeepsCounts, CountsAgreeStays
    DEF SendUpdate, vars, historyVars
  <2>5. CASE ReportErr(w)
    BY <1>0, <1>1, <2>5
    DEF ReportErr, Goes, Counts, Adds, vars, historyVars, workVars
  <2> QED
    BY <1>2, <2>1, <2>2, <2>3, <2>4, <2>5 DEF WorkerStep
<1>3. CASE MainStep
  <2>1. /\ UNCHANGED <<done, transferCompleted, accepted>>
        /\ \A w \in Workers : step'[w] = step[w] /\ pc'[w] = pc[w]
    BY <1>0, <1>3
    DEF MainStep, Announce, WaitWorkers, StartRelaying, ReportRelaying, Finish,
        StatusCall, FlushCall, Calls, Goes, vars, historyVars, workVars, TypeOK
  <2> QED
    BY <1>1, <2>1 DEF Counts, Adds
<1>4. ASSUME NEW g \in Clients, QueueCallStep(g) PROVE Agree
  <2>1. CASE StatusReturns(g)
    BY <1>0, <1>1, <2>1
    DEF StatusReturns, Status, Moves, Goes, Counts, Adds, historyVars, TypeOK
  <2>2. CASE Add(g) /\ UNCHANGED scriptVars
    <3>1. /\ Counted' = Counted /\ Appended' = [Appended EXCEPT ![g] = @ + 1]
          /\ Appended[g] = done[g] /\ g \in Workers
          /\ Cardinality(accepted') = Cardinality(accepted) + 1
      BY <2>2, AddAppends
    <3>2. step[g] = "add" /\ transferCompleted' = transferCompleted
      BY <2>2, <3>1 DEF Add, Moves, CallsAgree, scriptVars, workVars
    <3>3. Cardinality(Upto(Appended')) = Cardinality(Upto(Appended)) + 1
      BY <3>1, <3>2, CountsAreNumbers, OneTransferMore DEF CountsAgree
    <3> QED
      BY <3>1, <3>2, <3>3 DEF CountsAgree, Upto, Transfers, Workers
  <2>3. CASE /\ StatusLock(g) \/ FlushLock(g) \/ FlushRelay(g) \/ FlushOk(g)
                \/ FlushErr(g) \/ FlushWaited(g)
             /\ UNCHANGED scriptVars
    <3>1. UNCHANGED <<accepted, step, done, transferCompleted>>
      BY <2>3
      DEF StatusLock, FlushLock, FlushRelay, FlushOk, FlushErr, FlushWaited,
          GroupFinished, GroupResult, historyVars, scriptVars, workVars
    <3>2. \A w \in Workers : pc'[w] = pc[w] \/ step[w] = "status"
      BY <1>0, <2>3
      DEF StatusLock, FlushLock, FlushRelay, FlushOk, FlushErr, FlushWaited,
          GroupFinished, GroupResult, Return, Moves, CallsAgree, TypeOK
    <3> QED
      BY <1>1, <3>1, <3>2 DEF Counts, Adds
  <2> QED
    BY <1>4, <2>1, <2>2, <2>3 DEF QueueCallStep
<1>5. CASE QueueStep
  BY <1>1, <1>5, QueueStepIsQuiet DEF Counts, Adds, scriptVars, workVars
<1>6. CASE ConsumerStep \/ Ended \/ UNCHANGED allVars
  BY <1>1, <1>6
  DEF ConsumerStep, Receive, Complete, Ended, allVars, vars, historyVars,
      scriptVars, workVars, Counts, Adds
<1> QED
  BY <1>2, <1>3, <1>4, <1>5, <1>6 DEF ScriptNext

-----------------------------------------------------------------------------
(* What the updates say *)

\* relaysCompleted is a number of transfers; what Status returned is, too.
LEMMA RelayedAreTransfers ==
  ASSUME IInv, CountsAgree
  PROVE  /\ relaysCompleted = Cardinality(relayed)
         /\ Cardinality(relayed) \in 0..TotalTransfer
<1>1. /\ IsFiniteSet(accepted) /\ relayed \subseteq accepted
      /\ relaysCompleted = Cardinality(relayed)
  BY PlacesAreFinite DEF IInv, Accounting, CompletedAreReceived
<1>2. Cardinality(relayed) \in Nat /\ Cardinality(relayed) <= Cardinality(accepted)
  BY <1>1, FS_Subset, FS_CardinalityType
<1>3. Cardinality(accepted) \in 0..TotalTransfer
  BY TransfersAreFinite DEF CountsAgree, Upto
<1> QED
  BY <1>1, <1>2, <1>3, TransfersAreFinite

\* Packets stay relayed.
LEMMA RelayedGrows ==
  ASSUME IInv, IInv', [Next]_vars
  PROVE  /\ relayed \subseteq relayed'
         /\ Cardinality(relayed) \in Nat /\ Cardinality(relayed') \in Nat
         /\ Cardinality(relayed) <= Cardinality(relayed')
<1>1. relayed \subseteq relayed'
  BY DEF Next, CallStep, BatchStep, AddCall, StatusCall, FlushCall, Add, Batch,
     StatusLock, Status, FlushLock, FlushRelay, FlushOk, FlushErr, FlushWaited,
     GroupFinished, GroupResult, BatchLock, BatchOk, BatchErr, RelayOk, RelayErr,
     Poll, Remaining, Deliver, historyVars, vars
<1>2. IsFiniteSet(relayed')
  <2>1. relayed' \subseteq accepted' /\ IsFiniteSet(accepted')
    BY DEF IInv, TypeOK, PacketPlacement, Places, Accounting
  <2> QED
    BY <2>1, FS_Subset
<1> QED
  BY <1>1, <1>2, FS_Subset, FS_CardinalityType

\* The number of transfers that are counted only grows.
LEMMA TransfersGrow ==
  ASSUME ScriptTypeOK, [ScriptNext]_allVars
  PROVE  /\ transferCompleted \in 0..TotalTransfer
         /\ transferCompleted' \in Nat /\ transferCompleted <= transferCompleted'
<1> USE TransfersAreFinite DEF ScriptTypeOK
<1>1. \/ transferCompleted' = transferCompleted
      \/ transferCompleted' = transferCompleted + 1
  BY DEF ScriptNext, WorkerStep, SendTransfer, SendTransferErr, CountTransfer,
     SendUpdate, ReportErr, MainStep, Announce, WaitWorkers, StartRelaying,
     ReportRelaying, Finish, QueueCallStep, StatusReturns, QueueStep,
     ConsumerStep, Receive, Complete, Ended, allVars, scriptVars, workVars
<1> QED
  BY <1>1

\* What the text of an update says of the script at the time it is sent: a
\* worker sends it under the mutex, others claim no more than there is.
SentRightly(u) ==
  /\ u \in Updates
  /\ Sends(u)
  /\ ~closed /\ (closed' => u.type \in {"error", "done"})
  /\ u.type \in {"transfer", "start"} => u.transfers <= transferCompleted
  /\ u.type # "done" => u.completed <= Cardinality(relayed)
  /\ u.type = "done" => pc[Main] = "flushed" /\ step'[Main] = "end"
  /\ u.type = "transfer" =>
       \E w \in Workers : /\ step[w] = "update"
                          /\ updateMutex = w /\ updateMutex' = NoOne
                          /\ u.transfers = transferCompleted
                          /\ u.completed = seen

\* Every update that is sent is sent rightly.
LEMMA ChannelStep ==
  ASSUME IInv, ScriptInv, [ScriptNext]_allVars
  PROVE  \/ UNCHANGED <<progressCh, closed, consumer>>
         \/ Receive
         \/ \E u : SentRightly(u) /\ consumer' = consumer
<1> DEFINE Kept == UNCHANGED <<progressCh, closed, consumer>>
           Sent1 == \E u : SentRightly(u) /\ consumer' = consumer
<1>0. /\ Cardinality(relayed) \in 0..TotalTransfer /\ TotalTransfer \in Nat
      /\ transferCompleted \in 0..TotalTransfer /\ seen \in 0..TotalTransfer
      /\ seen <= Cardinality(relayed)
  BY RelayedAreTransfers, TransfersAreFinite
  DEF ScriptInv, ScriptTypeOK, SeenIsTrue
<1>1. ASSUME NEW w \in Workers, WorkerStep(w) PROVE Kept \/ Sent1
  <2>1. CASE \E p \in Packets : SendTransfer(w, p)
    BY <2>1 DEF SendTransfer, chanVars, viewVars
  <2>2. CASE SendTransferErr(w) \/ CountTransfer(w)
    BY <2>2 DEF SendTransferErr, CountTransfer, chanVars, viewVars
  <2>3. CASE SendUpdate(w)
    <3> DEFINE u == Update("transfer", transferCompleted, seen)
    <3>1. /\ u \in Updates /\ u.type = "transfer"
          /\ u.transfers = transferCompleted /\ u.completed = seen
      BY <1>0 DEF Updates, Update
    <3>2. Sends(u) /\ step[w] = "update" /\ closed' = closed /\ consumer' = consumer
      BY <2>3 DEF SendUpdate, Goes, viewVars
    <3>3. ~closed /\ updateMutex = w /\ updateMutex' = NoOne
      BY <2>3, <3>2, Goroutines DEF SendUpdate, ScriptInv, StepsAgree
    <3> QED
      BY <1>0, <3>1, <3>2, <3>3 DEF SentRightly
  <2>4. CASE ReportErr(w)
    <3> DEFINE u == Update("error", 0, 0)
    <3>1. /\ u \in Updates /\ u.type = "error"
          /\ u.transfers = 0 /\ u.completed = 0
      BY <1>0 DEF Updates, Update
    <3>2. Sends(u) /\ step[w] = "error" /\ closed' = closed /\ consumer' = consumer
      BY <2>4 DEF ReportErr, Goes, viewVars
    <3>3. ~closed
      BY <3>2, Goroutines DEF ScriptInv, StepsAgree
    <3> QED
      BY <1>0, <3>1, <3>2, <3>3 DEF SentRightly
  <2> QED
    BY <1>1, <2>1, <2>2, <2>3, <2>4 DEF WorkerStep
<1>2. ASSUME MainStep PROVE Kept \/ Sent1
  <2>0. ~closed
    BY <1>2 DEF MainStep, Announce, WaitWorkers, StartRelaying, ReportRelaying,
       Finish, Goes, ScriptInv, StepsAgree
  <2>1. CASE Announce
    <3>1. PICK n \in 0..transferCompleted : Sends(Update("start", n, 0))
      BY <2>1 DEF Announce
    <3>2. Update("start", n, 0) \in Updates
      BY <1>0 DEF Updates, Update
    <3>3. closed' = closed /\ consumer' = consumer
      BY <2>1 DEF Announce, viewVars
    <3> QED
      BY <1>0, <2>0, <3>1, <3>2, <3>3 DEF SentRightly, Update
  <2>2. CASE WaitWorkers
    BY <2>2 DEF WaitWorkers, chanVars, viewVars
  <2>3. CASE StartRelaying
    <3> DEFINE u == Update("relaying", TotalTransfer, 0)
    <3>1. u \in Updates /\ u.type = "relaying" /\ u.completed = 0
      BY <1>0 DEF Updates, Update
    <3>2. Sends(u) /\ closed' = closed /\ consumer' = consumer
      BY <2>3 DEF StartRelaying, viewVars
    <3> QED
      BY <1>0, <2>0, <3>1, <3>2 DEF SentRightly
  <2>4. CASE ReportRelaying
    <3> DEFINE u == Update("relaying", TotalTransfer, seen)
    <3>1. u \in Updates /\ u.type = "relaying" /\ u.completed = seen
      BY <1>0 DEF Updates, Update
    <3>2. Sends(u) /\ closed' = closed /\ consumer' = consumer
      BY <2>4 DEF ReportRelaying, viewVars
    <3> QED
      BY <1>0, <2>0, <3>1, <3>2 DEF SentRightly
  <2>5. CASE Finish
    <3>1. PICK u \in {Update("error", 0, 0),
                      Update("done", TotalTransfer, TotalTransfer)} :
              /\ Sends(u)
              /\ u.type = "done" => pc[Main] = "flushed" /\ step'[Main] = "end"
      BY <2>5, Goroutines DEF Finish, Goes, Update, ScriptInv, ScriptTypeOK
    <3>2. u \in Updates /\ u.type \in {"error", "done"}
          /\ (u.type = "error" => u.completed = 0)
      BY <1>0, <3>1 DEF Updates, Update
    <3>3. consumer' = consumer
      BY <2>5 DEF Finish, viewVars
    <3> QED
      BY <1>0, <2>0, <3>1, <3>2, <3>3 DEF SentRightly
  <2> QED
    BY <1>2, <2>1, <2>2, <2>3, <2>4, <2>5 DEF MainStep
<1>3. ASSUME \/ \E g \in Clients : QueueCallStep(g)
             \/ QueueStep \/ Complete \/ Ended \/ UNCHANGED allVars
      PROVE  Kept
  BY <1>3
  DEF QueueCallStep, StatusReturns, QueueStep, Complete, Ended, allVars,
      scriptVars, chanVars, viewVars
<1> QED
  BY <1>1, <1>2, <1>3 DEF ScriptNext, ConsumerStep

\* What Status returned is still true: nothing takes a packet back.
LEMMA NextSeenIsTrue ==
  ASSUME IInv, IInv', ScriptInv, [ScriptNext]_allVars
  PROVE  SeenIsTrue' /\ seen' \in 0..TotalTransfer
<1>0. /\ Cardinality(relayed) \in 0..TotalTransfer /\ TotalTransfer \in Nat
      /\ Cardinality(relayed') \in Nat
      /\ Cardinality(relayed) <= Cardinality(relayed')
      /\ relaysCompleted = Cardinality(relayed)
      /\ seen \in 0..TotalTransfer /\ seen <= Cardinality(relayed)
  BY RelayedAreTransfers, RelayedGrows, ScriptNextIsQueueStep, TransfersAreFinite
  DEF ScriptInv, ScriptTypeOK, SeenIsTrue
<1>1. seen' \in {seen, 0, relaysCompleted}
  BY DEF ScriptNext, WorkerStep, SendTransfer, SendTransferErr, CountTransfer,
     SendUpdate, ReportErr, MainStep, Announce, WaitWorkers, StartRelaying,
     ReportRelaying, Finish, QueueCallStep, StatusReturns, StatusResult,
     QueueStep, ConsumerStep, Receive, Complete, Ended, allVars, scriptVars,
     workVars
<1> QED
  BY <1>0, <1>1 DEF SeenIsTrue

\* The updates in the channel, seen as a set or one by one.
LEMMA BufferedUpdates ==
  ASSUME ScriptTypeOK
  PROVE  /\ \A u : u \in Buffered <=> \E i \in DOMAIN progressCh : progressCh[i] = u
         /\ \A i \in DOMAIN progressCh : progressCh[i] \in Updates
         /\ DOMAIN progressCh = 1..Len(progressCh) /\ Len(progressCh) \in Nat
  BY LenProperties DEF Buffered, ToSet, ScriptTypeOK

\* After a step, an update in the channel was there, or has just been sent.
LEMMA UpdatesCome ==
  ASSUME IInv, ScriptInv, [ScriptNext]_allVars, NEW i \in DOMAIN progressCh'
  PROVE  \/ \E j \in DOMAIN progressCh : progressCh'[i] = progressCh[j]
         \/ SentRightly(progressCh'[i])
<1>0. progressCh \in Seq(Updates)
  BY DEF ScriptInv, ScriptTypeOK
<1>1. CASE Receive
  BY <1>0, <1>1, ReceiveShifts
<1>2. ASSUME NEW u, SentRightly(u)
      PROVE  \/ \E j \in DOMAIN progressCh : progressCh'[i] = progressCh[j]
             \/ SentRightly(progressCh'[i])
  BY <1>0, <1>2, SendsAppends DEF SentRightly
<1> QED
  BY <1>1, <1>2, ChannelStep

\* What an update says stays true.
LEMMA NextProgressIsTrue ==
  ASSUME IInv, IInv', ScriptInv, [ScriptNext]_allVars
  PROVE  ProgressIsTrue'
<1> SUFFICES ASSUME NEW i \in DOMAIN progressCh', progressCh'[i].type # "done"
             PROVE  /\ progressCh'[i].type \in {"transfer", "start"} =>
                         progressCh'[i].transfers <= transferCompleted'
                    /\ progressCh'[i].completed <= Cardinality(relayed)'
  BY DEF ProgressIsTrue, Buffered, ToSet
<1>0. /\ Cardinality(relayed) \in Nat /\ Cardinality(relayed') \in Nat
      /\ Cardinality(relayed) <= Cardinality(relayed')
      /\ transferCompleted \in Nat /\ transferCompleted' \in Nat
      /\ transferCompleted <= transferCompleted'
  BY RelayedGrows, ScriptNextIsQueueStep, TransfersGrow DEF ScriptInv
<1>1. ASSUME NEW u \in Updates, u = progressCh'[i],
             u.type \in {"transfer", "start"} => u.transfers <= transferCompleted,
             u.completed <= Cardinality(relayed)
      PROVE  /\ u.type \in {"transfer", "start"} =>
                  u.transfers <= transferCompleted'
             /\ u.completed <= Cardinality(relayed)'
  BY <1>0, <1>1, TransfersAreFinite DEF Updates
<1>2. ASSUME NEW j \in DOMAIN progressCh, progressCh'[i] = progressCh[j]
      PROVE  /\ progressCh[j] \in Updates
             /\ progressCh[j].type \in {"transfer", "start"} =>
                  progressCh[j].transfers <= transferCompleted
             /\ progressCh[j].completed <= Cardinality(relayed)
  <2>1. progressCh[j] \in Buffered /\ progressCh[j] \in Updates
    BY BufferedUpdates DEF ScriptInv
  <2> QED
    BY <1>2, <2>1 DEF ScriptInv, ProgressIsTrue
<1>3. CASE SentRightly(progressCh'[i])
  BY <1>1, <1>3 DEF SentRightly
<1> QED
  BY <1>1, <1>2, <1>3, UpdatesCome

\* A worker sends its update behind smaller ones.
LEMMA NextProgressIsMonotone ==
  ASSUME IInv, ScriptInv, [ScriptNext]_allVars
  PROVE  ProgressIsMonotone'
<1>0. /\ progressCh \in Seq(Updates) /\ DOMAIN progressCh = 1..Len(progressCh)
      /\ Len(progressCh) \in Nat
  BY BufferedUpdates DEF ScriptInv, ScriptTypeOK
<1>1. CASE UNCHANGED progressCh
  BY <1>1 DEF ScriptInv, ProgressIsMonotone
<1>2. CASE Receive
  <2>1. /\ progressCh' \in Seq(Updates)
        /\ \A i \in DOMAIN progressCh' :
             i + 1 \in DOMAIN progressCh /\ progressCh'[i] = progressCh[i + 1]
    BY <1>0, <1>2, ReceiveShifts
  <2>2. DOMAIN progressCh' \subseteq Nat
    BY <2>1, LenProperties
  <2>3. \A i, j \in DOMAIN progressCh' : i < j => i + 1 < j + 1
    BY <2>2
  <2> QED
    BY <2>1, <2>3 DEF ScriptInv, ProgressIsMonotone
<1>3. ASSUME NEW u, SentRightly(u) PROVE ProgressIsMonotone'
  <2>1. /\ DOMAIN progressCh' = DOMAIN progressCh \cup {Len(progressCh) + 1}
        /\ \A i \in DOMAIN progressCh : progressCh'[i] = progressCh[i]
        /\ progressCh'[Len(progressCh) + 1] = u
    BY <1>0, <1>3, SendsAppends DEF SentRightly
  <2>2. ASSUME NEW i \in DOMAIN progressCh, progressCh[i].type = "transfer",
               u.type = "transfer"
        PROVE  /\ progressCh[i].transfers < u.transfers
               /\ progressCh[i].completed <= u.completed
    BY <1>3, <2>2, Goroutines DEF SentRightly, ScriptInv, UpdatesAgree
  <2>3. \A i, j \in DOMAIN progressCh' :
          i < j => i \in DOMAIN progressCh
                   /\ (j \in DOMAIN progressCh \/ j = Len(progressCh) + 1)
    BY <1>0, <2>1
  <2> QED
    BY <2>1, <2>2, <2>3 DEF ScriptInv, ProgressIsMonotone
<1> QED
  BY <1>1, <1>2, <1>3, ChannelStep

\* The mutex is taken with the count of a transfer, and the worker that is
\* about to send has what Status returned.
LEMMA MutexProtects ==
  ASSUME ScriptTypeOK, StepsAgree, [ScriptNext]_allVars
  PROVE  /\ \/ updateMutex' \in {updateMutex, NoOne}
            \/ transferCompleted' = transferCompleted + 1
         /\ \A w \in Workers : step'[w] = "update" =>
              \/ step[w] = "update" /\ seen' = seen
              \/ seen' = relaysCompleted
<1> DEFINE Protects ==
             /\ \/ updateMutex' \in {updateMutex, NoOne}
                \/ transferCompleted' = transferCompleted + 1
             /\ \A w \in Workers : step'[w] = "update" =>
                  \/ step[w] = "update" /\ seen' = seen
                  \/ seen' = relaysCompleted
<1> USE Goroutines DEF StepsAgree, Goes, ScriptTypeOK
<1>1. ASSUME NEW v \in Workers, WorkerStep(v) PROVE Protects
  <2>1. CASE \E p \in Packets : SendTransfer(v, p)
    BY <2>1 DEF SendTransfer
  <2>2. CASE SendTransferErr(v)
    BY <2>2 DEF SendTransferErr
  <2>3. CASE CountTransfer(v)
    BY <2>3 DEF CountTransfer
  <2>4. CASE SendUpdate(v)
    BY <2>4 DEF SendUpdate
  <2>5. CASE ReportErr(v)
    BY <2>5 DEF ReportErr, workVars
  <2> QED
    BY <1>1, <2>1, <2>2, <2>3, <2>4, <2>5 DEF WorkerStep
<1>2. CASE MainStep
  BY <1>2
  DEF MainStep, Announce, WaitWorkers, StartRelaying, ReportRelaying, Finish,
      workVars
<1>3. ASSUME NEW g \in Clients, StatusReturns(g) PROVE Protects
  BY <1>3 DEF StatusReturns, StatusResult
<1>4. CASE UNCHANGED <<step, seen, updateMutex>>
  BY <1>4
<1> QED
  BY <1>1, <1>2, <1>3, <1>4
  DEF ScriptNext, QueueCallStep, QueueStep, ConsumerStep, Receive, Complete,
      Ended, allVars, scriptVars, workVars

\* The next update of a worker comes after those in the channel.
LEMMA NextUpdatesAgree ==
  ASSUME IInv, ScriptInv, StepsAgree', [ScriptNext]_allVars
  PROVE  UpdatesAgree'
<1> SUFFICES ASSUME NEW i \in DOMAIN progressCh', progressCh'[i].type = "transfer"
             PROVE  /\ updateMutex' # NoOne =>
                         progressCh'[i].transfers < transferCompleted'
                    /\ \A w \in Workers : step'[w] = "update" =>
                         progressCh'[i].completed <= seen'
  BY DEF UpdatesAgree
<1>1. CASE SentRightly(progressCh'[i])
  BY <1>1, Goroutines DEF SentRightly, StepsAgree
<1>2. ASSUME NEW j \in DOMAIN progressCh, progressCh'[i] = progressCh[j]
      PROVE  /\ updateMutex' # NoOne =>
                  progressCh[j].transfers < transferCompleted'
             /\ \A w \in Workers : step'[w] = "update" =>
                  progressCh[j].completed <= seen'
  <2>1. progressCh[j] \in Buffered /\ progressCh[j] \in Updates
    BY BufferedUpdates DEF ScriptInv
  <2>2. /\ progressCh[j].type = "transfer"
        /\ progressCh[j].transfers \in Nat /\ progressCh[j].completed \in Nat
    BY <1>2, <2>1, TransfersAreFinite DEF Updates
  <2>3. /\ progressCh[j].transfers <= transferCompleted
        /\ progressCh[j].completed <= relaysCompleted
    BY <2>1, <2>2, RelayedAreTransfers DEF ScriptInv, ProgressIsTrue
  <2>4. /\ transferCompleted \in Nat /\ transferCompleted' \in Nat
        /\ transferCompleted <= transferCompleted'
    BY TransfersGrow, TransfersAreFinite DEF ScriptInv
  <2>5. updateMutex # NoOne => progressCh[j].transfers < transferCompleted
    BY <2>2 DEF ScriptInv, UpdatesAgree
  <2>6. updateMutex' # NoOne => progressCh[j].transfers < transferCompleted'
    BY <2>2, <2>3, <2>4, <2>5, MutexProtects DEF ScriptInv
  <2>7. \A w \in Workers : step[w] = "update" => progressCh[j].completed <= seen
    BY <2>2 DEF ScriptInv, UpdatesAgree
  <2> QED
    BY <2>3, <2>6, <2>7, MutexProtects DEF ScriptInv
<1> QED
  BY <1>1, <1>2, UpdatesCome

\* After the close nobody sends, and the reader has the last update to come.
LEMMA NextClosedIsFinal ==
  ASSUME IInv, ScriptInv, StepsAgree', step' \in [Clients -> WorkerSteps \cup MainSteps],
         [ScriptNext]_allVars
  PROVE  ClosedIsFinal'
<1> SUFFICES ASSUME closed' PROVE ClosedIsFinal'
  BY DEF ClosedIsFinal
<1>0. progressCh \in Seq(Updates) /\ Len(progressCh) \in Nat
  BY BufferedUpdates DEF ScriptInv, ScriptTypeOK
<1>1. \A g \in Clients : step'[g] \in {"done", "failed", "end"}
  BY Goroutines DEF StepsAgree
<1>2. ASSUME consumer' = "reading"
      PROVE  progressCh' # <<>> /\ Last(progressCh').type \in {"error", "done"}
  <2>1. CASE UNCHANGED <<progressCh, closed, consumer>>
    BY <1>2, <2>1 DEF ScriptInv, ClosedIsFinal, Last
  <2>2. CASE Receive
    <3>1. /\ progressCh' \in Seq(Updates) /\ Len(progressCh') = Len(progressCh) - 1
          /\ \A i \in DOMAIN progressCh' :
               i + 1 \in DOMAIN progressCh /\ progressCh'[i] = progressCh[i + 1]
          /\ Head(progressCh) = progressCh[1] /\ Len(progressCh) >= 1
      BY <1>0, <2>2, ReceiveShifts
    <3>2. progressCh[Len(progressCh)].type \in {"error", "done"}
      BY <2>2 DEF Receive, chanVars, ScriptInv, ClosedIsFinal, Last
    <3>3. Head(progressCh).type \notin {"error", "done"}
      BY <1>2, <2>2 DEF Receive
    <3>4. Len(progressCh') >= 1
      BY <1>0, <3>1, <3>2, <3>3
    <3>5. Len(progressCh') \in DOMAIN progressCh' /\ progressCh' # <<>>
      BY <3>1, <3>4, LenProperties
    <3> QED
      BY <1>0, <3>1, <3>2, <3>5 DEF Last
  <2>3. ASSUME NEW u, SentRightly(u)
        PROVE  progressCh' # <<>> /\ Last(progressCh').type \in {"error", "done"}
    <3>1. /\ Len(progressCh') = Len(progressCh) + 1
          /\ progressCh'[Len(progressCh')] = u /\ u.type \in {"error", "done"}
      BY <1>0, <2>3, SendsAppends DEF SentRightly
    <3> QED
      BY <1>0, <3>1 DEF Last
  <2> QED
    BY <2>1, <2>2, <2>3, ChannelStep
<1> QED
  BY <1>1, <1>2 DEF ClosedIsFinal

-----------------------------------------------------------------------------
(* Types *)

\* Goroutines stay at steps of theirs.
LEMMA NextStepType ==
  ASSUME ScriptTypeOK, [ScriptNext]_allVars
  PROVE  step' \in [Clients -> WorkerSteps \cup MainSteps]
<1> USE DEF ScriptTypeOK, Goes, WorkerSteps, MainSteps
<1>1. ASSUME NEW w \in Workers, WorkerStep(w)
      PROVE  step' \in [Clients -> WorkerSteps \cup MainSteps]
  BY <1>1
  DEF WorkerStep, SendTransfer, SendTransferErr, CountTransfer, SendUpdate,
      ReportErr
<1>2. CASE MainStep
  BY <1>2
  DEF MainStep, Announce, WaitWorkers, StartRelaying, ReportRelaying, Finish
<1>3. ASSUME NEW g \in Clients, StatusReturns(g)
      PROVE  step' \in [Clients -> WorkerSteps \cup MainSteps]
  BY <1>3 DEF StatusReturns
<1>4. CASE UNCHANGED step
  BY <1>4
<1> QED
  BY <1>1, <1>2, <1>3, <1>4
  DEF ScriptNext, QueueCallStep, QueueStep, ConsumerStep, Receive, Complete,
      Ended, allVars, scriptVars

\* Retries and iterations stay in bounds, and a worker holds the mutex.
LEMMA NextWorkType ==
  ASSUME ScriptTypeOK, CountsAgree, [ScriptNext]_allVars
  PROVE  /\ attempt' \in [Workers -> 0..MaxRetries]
         /\ done' \in [Workers -> 0..NumPackets]
         /\ updateMutex' \in Workers \cup {NoOne}
<1> DEFINE WorkType ==
             /\ attempt' \in [Workers -> 0..MaxRetries]
             /\ done' \in [Workers -> 0..NumPackets]
             /\ updateMutex' \in Workers \cup {NoOne}
<1> USE RetriesAssumption, NumPacketsAssumption DEF ScriptTypeOK
<1>1. ASSUME NEW w \in Workers, WorkerStep(w) PROVE WorkType
  <2>0. /\ step[w] = "send" => attempt[w] < MaxRetries
        /\ step[w] = "update" => done[w] < NumPackets
        /\ attempt[w] \in 0..MaxRetries /\ done[w] \in 0..NumPackets
    BY DEF CountsAgree
  <2>1. CASE \E p \in Packets : SendTransfer(w, p)
    BY <2>1 DEF SendTransfer
  <2>2. CASE SendTransferErr(w)
    <3>1. attempt[w] + 1 \in 0..MaxRetries
      BY <2>0, <2>2 DEF SendTransferErr, Goes
    <3> QED
      BY <2>2, <3>1 DEF SendTransferErr
  <2>3. CASE CountTransfer(w)
    BY <2>3 DEF CountTransfer
  <2>4. CASE SendUpdate(w)
    <3>1. done[w] + 1 \in 0..NumPackets
      BY <2>0, <2>4 DEF SendUpdate, Goes
    <3> QED
      BY <2>4, <3>1 DEF SendUpdate
  <2>5. CASE ReportErr(w)
    BY <2>5 DEF ReportErr, workVars
  <2> QED
    BY <1>1, <2>1, <2>2, <2>3, <2>4, <2>5 DEF WorkerStep
<1>2. CASE UNCHANGED <<attempt, done, updateMutex>>
  BY <1>2
<1> QED
  BY <1>1, <1>2
  DEF ScriptNext, MainStep, Announce, WaitWorkers, StartRelaying,
      ReportRelaying, Finish, QueueCallStep, StatusReturns, QueueStep,
      ConsumerStep, Receive, Complete, Ended, allVars, scriptVars, workVars

\* The channel never holds more than its capacity, and the reader stops at
\* the first error or at the end.
LEMMA NextChannelType ==
  ASSUME IInv, ScriptInv, [ScriptNext]_allVars
  PROVE  /\ progressCh' \in Seq(Updates) /\ Len(progressCh') <= ChanSize
         /\ closed' \in BOOLEAN
         /\ consumer' \in {"reading", "sawError", "sawDone"}
         /\ mainStatus' \in {"transferring", "completed"}
<1>0. /\ progressCh \in Seq(Updates) /\ Len(progressCh) <= ChanSize
      /\ Len(progressCh) \in Nat /\ ChanSize \in Nat
  BY BufferedUpdates, ChanAssumption DEF ScriptInv, ScriptTypeOK
<1>1. progressCh' \in Seq(Updates) /\ Len(progressCh') <= ChanSize
  <2>1. CASE UNCHANGED progressCh
    BY <1>0, <2>1
  <2>2. CASE Receive
    BY <1>0, <2>2, ReceiveShifts
  <2>3. ASSUME NEW u, SentRightly(u)
        PROVE  progressCh' \in Seq(Updates) /\ Len(progressCh') <= ChanSize
    BY <1>0, <2>3, SendsAppends DEF SentRightly
  <2> QED
    BY <2>1, <2>2, <2>3, ChannelStep
<1>2. /\ closed' \in {closed, TRUE}
      /\ consumer' \in {consumer, "reading", "sawError", "sawDone"}
      /\ mainStatus' \in {mainStatus, "completed"}
  BY DEF ScriptNext, WorkerStep, SendTransfer, SendTransferErr, CountTransfer,
     SendUpdate, ReportErr, MainStep, Announce, WaitWorkers, StartRelaying,
     ReportRelaying, Finish, QueueCallStep, StatusReturns, QueueStep,
     ConsumerStep, Receive, Complete, Ended, allVars, scriptVars, chanVars,
     viewVars
<1> QED
  BY <1>1, <1>2 DEF ScriptInv, ScriptTypeOK
-----------------------------------------------------------------------------
(* The inductive invariant *)

\* At the start nothing is sent, and the first update is in the channel.
LEMMA InitScriptInv == ScriptInit => ScriptInv
<1> SUFFICES ASSUME ScriptInit PROVE ScriptInv
  OBVIOUS
<1> USE Goroutines, TransfersAreFinite, NumPacketsAssumption,
        RetriesAssumption, ChanAssumption
    DEF ScriptInit
<1>1. /\ progressCh \in Seq(Updates) /\ Len(progressCh) = 1
      /\ DOMAIN progressCh = {1}
      /\ progressCh[1] = Update("start", 0, 0)
      /\ Buffered = {Update("start", 0, 0)}
  BY DEF Updates, Update, Buffered, ToSet
<1>2. ScriptTypeOK
  <2>1. step \in [Clients -> WorkerSteps \cup MainSteps]
    BY DEF WorkerSteps, MainSteps
  <2>2. /\ attempt \in [Workers -> 0..MaxRetries]
        /\ done \in [Workers -> 0..NumPackets]
    OBVIOUS
  <2>3. transferCompleted \in 0..TotalTransfer /\ seen \in 0..TotalTransfer
    OBVIOUS
  <2>4. progressCh \in Seq(Updates) /\ Len(progressCh) <= ChanSize
    BY <1>1
  <2>5. /\ updateMutex \in Workers \cup {NoOne}
        /\ closed \in BOOLEAN
        /\ consumer \in {"reading", "sawError", "sawDone"}
        /\ mainStatus \in {"transferring", "completed"}
    OBVIOUS
  <2> QED
    BY ONLY <2>1, <2>2, <2>3, <2>4, <2>5 DEF ScriptTypeOK
<1>3. StepsAgree
  BY DEF StepsAgree, WorkerSteps, MainSteps
<1>4. CallsAgree
  BY DEF Init, CallsAgree, Flushing
<1>5. CountsAgree
  <2>1. Upto(Counted) = {} /\ Upto(Appended) = {}
    BY DEF Upto, Transfers, Counted, Appended, Counts, Adds
  <2> QED
    BY <2>1, FS_EmptySet DEF Init, CountsAgree
<1>6. SeenIsTrue /\ UpdatesAgree /\ ProgressIsMonotone /\ ProgressIsTrue
  BY <1>1, FS_EmptySet
  DEF Init, SeenIsTrue, UpdatesAgree, ProgressIsMonotone, ProgressIsTrue, Update
<1>7. ClosedIsFinal
  BY DEF ClosedIsFinal
<1> QED
  BY <1>2, <1>3, <1>4, <1>5, <1>6, <1>7 DEF ScriptInv

\* Every step of the script keeps the invariant.
LEMMA NextScriptInv ==
  IInv /\ IInv' /\ ScriptInv /\ [ScriptNext]_allVars => ScriptInv'
<1> SUFFICES ASSUME IInv, IInv', ScriptInv, [ScriptNext]_allVars
             PROVE  ScriptInv'
  OBVIOUS
<1> USE DEF ScriptInv
<1>1. StepsAgree'
  BY NextStepsAgree
<1>2. CallsAgree'
  BY NextCallsAgree DEF IInv
<1>3. CountsAgree'
  BY NextCountsAgree
<1>4. ScriptTypeOK'
  <2>1. transferCompleted' \in 0..TotalTransfer
    BY <1>3, TransfersAreFinite DEF CountsAgree, Upto
  <2> QED
    BY <2>1, NextStepType, NextWorkType, NextSeenIsTrue, NextChannelType
    DEF ScriptTypeOK
<1>5. SeenIsTrue' /\ UpdatesAgree'
  BY <1>1, NextSeenIsTrue, NextUpdatesAgree
<1>6. ClosedIsFinal'
  BY <1>1, NextStepType, NextClosedIsFinal
<1>7. ProgressIsMonotone' /\ ProgressIsTrue'
  BY NextProgressIsMonotone, NextProgressIsTrue
<1> QED
  BY <1>1, <1>2, <1>3, <1>4, <1>5, <1>6, <1>7

\* The invariant holds in every reachable state of the script.
THEOREM SpecScriptInv == ScriptSpec => []ScriptInv
<1>1. ScriptSpec => []IInv
  BY ScriptImplementsQueue, SpecIInv
<1> QED
  BY <1>1, InitScriptInv, NextScriptInv, PTL DEF ScriptSpec

\* The variables of the script keep their types: the counters stay within the
\* number of transfers, the channel within its capacity (loadscript.go:96).
THEOREM SpecScriptTypeOK == ScriptSpec => []ScriptTypeOK
<1>1. ScriptInv => ScriptTypeOK
  BY DEF ScriptInv
<1> QED
  BY <1>1, SpecScriptInv, PTL

\* Nobody sends on the channel once it is closed, and its reader finds the
\* update at which it returns (loadscript.go:96, 146-148, 181-202).
THEOREM SpecClosedIsFinal == ScriptSpec => []ClosedIsFinal
<1>1. ScriptInv => ClosedIsFinal
  BY DEF ScriptInv
<1> QED
  BY <1>1, SpecScriptInv, PTL

\* The updates of the workers are in order, whichever worker sends them
\* (loadscript.go:101-115).
THEOREM SpecProgressIsMonotone == ScriptSpec => []ProgressIsMonotone
<1>1. ScriptInv => ProgressIsMonotone
  BY DEF ScriptInv
<1> QED
  BY <1>1, SpecScriptInv, PTL

\* No update but the last one claims more than has happened.
THEOREM SpecProgressIsTrue == ScriptSpec => []ProgressIsTrue
<1>1. ScriptInv => ProgressIsTrue
  BY DEF ScriptInv
<1> QED
  BY <1>1, SpecScriptInv, PTL

-----------------------------------------------------------------------------
(* Done means relayed, if queueSize divides the number of transfers *)

Divides == \E m \in Nat : TotalTransfer = m * QueueSize

\* One batch more.
LEMMA OneBatchMore ==
  ASSUME NEW k \in Nat, NEW q \in Nat
  PROVE  (k + 1) * q = k * q + q /\ k * q \in Nat
  OBVIOUS

\* Full batches only, and less than a batch besides: nothing besides.
LEMMA NothingBesides ==
  ASSUME NEW k \in Nat, NEW m \in Nat, NEW q \in Nat, NEW r \in Nat,
         r < q, k * q + r = m * q
  PROVE  r = 0
<1>1. CASE m >= k + 1
  <2>1. PICK d \in Nat : m = k + 1 + d
    <3>1. m - (k + 1) \in Nat /\ m = k + 1 + (m - (k + 1))
      BY <1>1
    <3> QED
      BY <3>1
  <2>2. (k + 1 + d) * q = (k + 1) * q + d * q /\ d * q \in Nat
    OBVIOUS
  <2>3. (k + 1) * q = k * q + q /\ k * q \in Nat
    BY OneBatchMore
  <2> QED
    BY <2>1, <2>2, <2>3
<1>2. CASE m <= k
  <2>1. PICK d \in Nat : k = m + d
    <3>1. k - m \in Nat /\ k = m + (k - m)
      BY <1>2
    <3> QED
      BY <3>1
  <2>2. (m + d) * q = m * q + d * q /\ d * q \in Nat /\ m * q \in Nat
    OBVIOUS
  <2> QED
    BY <2>1, <2>2
<1> QED
  BY <1>1, <1>2

\* Once all workers are done, every transfer's packet has been accepted.
LEMMA AllAccepted ==
  ASSUME ScriptInv, \A w \in Workers : step[w] = "done"
  PROVE  Cardinality(accepted) = TotalTransfer
<1>1. \A w \in Workers : Appended[w] = NumPackets
  BY NumPacketsAssumption
  DEF ScriptInv, CountsAgree, Appended, Adds, Counts
<1>2. Upto(Appended) = Transfers
  BY <1>1, NumPacketsAssumption DEF Upto, Transfers
<1> QED
  BY <1>2, TransfersAreFinite DEF ScriptInv, CountsAgree

\* So the batches have taken them all, and Flush finds nothing queued.
LEMMA NothingQueued ==
  ASSUME Divides, IInv, ScriptInv, BatchesDivide,
         \A w \in Workers : step[w] = "done"
  PROVE  queue = {}
<1>1. PICK m \in Nat : TotalTransfer = m * QueueSize
  BY DEF Divides
<1>2. IsFiniteSet(accepted) /\ IsFiniteSet(queue) /\ Cardinality(queue) \in Nat
  BY PlacesAreFinite DEF IInv, Accounting
<1>3. PICK k \in 0..Cardinality(accepted) :
        Cardinality(accepted) = k * QueueSize + Cardinality(queue)
  BY DEF BatchesDivide
<1>4. k \in Nat /\ QueueSize \in Nat /\ Cardinality(queue) < QueueSize
  BY <1>2, QueueSizeAssumption, FS_CardinalityType DEF IInv, BatchesAreFull
<1>5. k * QueueSize + Cardinality(queue) = m * QueueSize
  BY <1>1, <1>3, AllAccepted
<1>6. Cardinality(queue) = 0
  BY <1>2, <1>4, <1>5, NothingBesides
<1> QED
  BY <1>2, <1>6, FS_EmptySet

\* Add keeps the batches full, and nothing else touches queue or batches but
\* a Flush that relays, which this script's never does.
LEMMA NextBatchesDivide ==
  ASSUME IInv, ScriptInv, BatchesDivide, NothingIsLeft, [ScriptNext]_allVars
  PROVE  BatchesDivide'
<1>0. /\ IsFiniteSet(accepted) /\ Cardinality(accepted) \in Nat
      /\ IsFiniteSet(queue) /\ queue \subseteq accepted
      /\ Cardinality(queue) \in Nat
      /\ QueueSize \in Nat \ {0}
  BY PlacesAreFinite, QueueSizeAssumption, FS_CardinalityType
  DEF IInv, Accounting
<1>1. PICK k \in 0..Cardinality(accepted) :
        Cardinality(accepted) = k * QueueSize + Cardinality(queue)
  BY DEF BatchesDivide
<1>2. CASE queue' = queue /\ accepted' = accepted
  BY <1>2 DEF BatchesDivide
<1>3. ASSUME NEW g \in Clients, Add(g) PROVE BatchesDivide'
  <2> DEFINE filled == queue \cup {adding[g]}
  <2>1. adding[g] \notin accepted /\ adding[g] \notin queue
    BY <1>0, <1>3 DEF Add, Moves, IInv, PendingAdds
  <2>2. Cardinality(accepted') = Cardinality(accepted) + 1
    BY <1>0, <1>3, <2>1, FS_AddElement DEF Add
  <2>3. Cardinality(filled) = Cardinality(queue) + 1
    BY <1>0, <2>1, FS_AddElement
  <2>4. CASE Cardinality(filled) >= QueueSize
    <3>1. queue' = {} /\ Cardinality(queue') = 0
      BY <1>3, <2>4, FS_EmptySet DEF Add, Batch
    <3>2. Cardinality(queue) + 1 = QueueSize
      BY <1>0, <2>3, <2>4 DEF IInv, BatchesAreFull
    <3>3. (k + 1) * QueueSize = k * QueueSize + QueueSize /\ k * QueueSize \in Nat
      BY <1>0, OneBatchMore
    <3>4. Cardinality(accepted') = (k + 1) * QueueSize + Cardinality(queue')
      BY <1>0, <1>1, <2>2, <3>1, <3>2, <3>3
    <3>5. k + 1 \in 0..Cardinality(accepted')
      BY <1>0, <2>2
    <3> QED
      BY <3>4, <3>5 DEF BatchesDivide
  <2>5. CASE ~(Cardinality(filled) >= QueueSize)
    <3>1. queue' = filled
      BY <1>3, <2>5 DEF Add, Batch
    <3>2. k * QueueSize \in Nat
      BY <1>0, OneBatchMore
    <3>3. Cardinality(accepted') = k * QueueSize + Cardinality(queue')
      BY <1>0, <1>1, <2>2, <2>3, <3>1, <3>2
    <3>4. k \in 0..Cardinality(accepted')
      BY <1>0, <2>2
    <3> QED
      BY <3>3, <3>4 DEF BatchesDivide
  <2> QED
    BY <2>4, <2>5
<1>4. ASSUME NEW g \in Clients, FlushOk(g) PROVE FALSE
  BY <1>4, Goroutines
  DEF FlushOk, Return, Moves, NothingIsLeft, ScriptInv, CallsAgree
<1>5. ASSUME NEW g \in Clients, FlushWaited(g)
      PROVE  queue' = queue /\ accepted' = accepted
  BY <1>5
  DEF FlushWaited, Return, Moves, IInv, FlushSees, historyVars, GroupFinished,
      GroupResult
<1>6. ASSUME NEW g \in Clients,
             \/ \E p \in Packets : AddCall(g, p)
             \/ StatusCall(g) \/ FlushCall(g) \/ StatusLock(g) \/ Status(g)
             \/ FlushLock(g) \/ FlushRelay(g) \/ FlushErr(g)
      PROVE  queue' = queue /\ accepted' = accepted
  BY <1>6
  DEF AddCall, StatusCall, FlushCall, StatusLock, Status, FlushLock, FlushRelay,
      FlushErr, historyVars
<1>7. CASE BatchStep \/ Poll \/ \E p \in Packets : Deliver(p)
  BY <1>2, <1>7
  DEF BatchStep, BatchLock, BatchOk, BatchErr, Poll, Deliver, historyVars,
      Remaining
<1> QED
  BY <1>2, <1>3, <1>4, <1>5, <1>6, <1>7, ScriptNextIsQueueStep
  DEF Next, CallStep, vars, historyVars

\* Where the main goroutine stands in its call after a step.
LEMMA MainFlushes ==
  ASSUME IInv, ScriptInv, NothingIsLeft, [ScriptNext]_allVars
  PROVE  \/ pc'[Main] = "flushRelay" /\ FlushLock(Main) /\ queue # {}
         \/ pc'[Main] = "flushed" /\ FlushWaited(Main) /\ UNCHANGED historyVars
         \/ pc'[Main] \notin {"flushRelay", "relaying", "flushed"}
            /\ pc[Main] # "flushed"
         \/ pc'[Main] = pc[Main]
<1> DEFINE Flushes ==
             \/ pc'[Main] = "flushRelay" /\ FlushLock(Main) /\ queue # {}
             \/ pc'[Main] = "flushed" /\ FlushWaited(Main) /\ UNCHANGED historyVars
             \/ pc'[Main] \notin {"flushRelay", "relaying", "flushed"}
                /\ pc[Main] # "flushed"
             \/ pc'[Main] = pc[Main]
<1> USE Goroutines
<1>0. pc \in [Clients -> Phases]
  BY DEF IInv, TypeOK
<1>1. ASSUME NEW w \in Workers, WorkerStep(w) PROVE Flushes
  BY <1>0, <1>1
  DEF WorkerStep, SendTransfer, AddCall, SendTransferErr, CountTransfer,
      StatusCall, Calls, SendUpdate, ReportErr, vars
<1>2. CASE MainStep
  <2>1. step[Main] \in {"relaying", "report"} => pc[Main] # "flushed"
    BY DEF ScriptInv, CallsAgree
  <2> QED
    BY <1>0, <1>2, <2>1
    DEF MainStep, Announce, WaitWorkers, StartRelaying, StatusCall,
        ReportRelaying, FlushCall, Calls, Finish, Goes, vars
<1>3. ASSUME NEW g \in Clients, g # Main, QueueCallStep(g) PROVE Flushes
  BY <1>0, <1>3
  DEF QueueCallStep, StatusReturns, Status, Add, StatusLock, FlushLock,
      FlushRelay, FlushOk, FlushErr, FlushWaited, Return, Moves, GroupFinished,
      GroupResult
<1>4. CASE QueueCallStep(Main)
  <2>1. ~FlushRelay(Main) /\ ~FlushOk(Main) /\ ~FlushErr(Main)
    BY DEF FlushRelay, FlushOk, FlushErr, Return, Moves, NothingIsLeft
  <2>2. ASSUME StatusReturns(Main) \/ Add(Main) \/ StatusLock(Main)
        PROVE  /\ pc'[Main] \notin {"flushRelay", "relaying", "flushed"}
               /\ pc[Main] # "flushed"
    BY <1>0, <2>2 DEF StatusReturns, Status, Add, StatusLock, Moves
  <2>3. ASSUME FlushLock(Main)
        PROVE  IF queue = {} THEN pc'[Main] = "flushWait" ELSE pc'[Main] = "flushRelay"
    BY <1>0, <2>3 DEF FlushLock, Moves
  <2>4. FlushLock(Main) => pc[Main] # "flushed"
    BY DEF FlushLock, Moves
  <2>5. ASSUME FlushWaited(Main)
        PROVE  /\ pc'[Main] \in {"failed", "flushed"} /\ pc[Main] # "flushed"
               /\ UNCHANGED historyVars
    BY <1>0, <2>5 DEF FlushWaited, Return, Moves, GroupFinished, GroupResult
  <2> QED
    BY <1>4, <2>1, <2>2, <2>3, <2>4, <2>5 DEF QueueCallStep
<1>5. CASE UNCHANGED pc
  BY <1>5
<1> QED
  BY <1>1, <1>2, <1>3, <1>4, <1>5, QueueStepIsQuiet
  DEF ScriptNext, ConsumerStep, Receive, Complete, Ended, allVars, vars

\* Once the workers are done, nothing more is accepted and all stays relayed.
LEMMA AllStaysRelayed ==
  ASSUME IInv, IInv', ScriptInv, [ScriptNext]_allVars,
         relayed = accepted, \A w \in Workers : step[w] = "done"
  PROVE  relayed' = accepted' /\ \A w \in Workers : step'[w] = "done"
<1> USE Goroutines
<1>1. \A g \in Clients : ~Add(g)
  BY DEF Add, Moves, ScriptInv, CallsAgree
<1>2. accepted' = accepted
  BY <1>1, ScriptNextIsQueueStep
  DEF Next, CallStep, BatchStep, AddCall, StatusCall, FlushCall, StatusLock,
      Status, FlushLock, FlushRelay, FlushOk, FlushErr, FlushWaited,
      GroupFinished, GroupResult, BatchLock, BatchOk, BatchErr, Poll, Remaining,
      Deliver, historyVars, vars
<1>3. relayed \subseteq relayed'
  BY RelayedGrows, ScriptNextIsQueueStep
<1>4. relayed' \subseteq accepted'
  BY DEF IInv, TypeOK, PacketPlacement, Places
<1>5. \A w \in Workers : ~WorkerStep(w) /\ ~StatusReturns(w)
  BY DEF WorkerStep, SendTransfer, SendTransferErr, CountTransfer, SendUpdate,
     ReportErr, StatusReturns, Goes
<1>6. \A w \in Workers : step'[w] = step[w]
  BY <1>5
  DEF ScriptInv, ScriptTypeOK, ScriptNext, MainStep, Announce, WaitWorkers,
      StartRelaying, ReportRelaying, Finish, QueueCallStep, StatusReturns,
      QueueStep, ConsumerStep, Receive, Complete, Ended, allVars, scriptVars,
      Goes
<1> QED
  BY <1>2, <1>3, <1>4, <1>6

\* Only a Flush that has returned nil lets the script say that it is done.
LEMMA NextSaysDone ==
  ASSUME IInv, ScriptInv, NothingIsLeft, [ScriptNext]_allVars, SaysDone'
  PROVE  SaysDone \/ pc[Main] = "flushed"
<1> SUFFICES ASSUME ~SaysDone PROVE pc[Main] = "flushed"
  OBVIOUS
<1>0. /\ progressCh \in Seq(Updates) /\ consumer # "sawDone"
      /\ \A j \in DOMAIN progressCh : progressCh[j].type # "done"
  BY BufferedUpdates DEF ScriptInv, ScriptTypeOK, SaysDone
<1>1. CASE consumer' = "sawDone"
  <2>1. Receive
    BY <1>0, <1>1, ChannelStep
  <2>2. Head(progressCh).type = "done"
    BY <1>1, <2>1 DEF Receive
  <2>3. Head(progressCh) = progressCh[1] /\ 1 \in DOMAIN progressCh
    BY <1>0, <2>1, ReceiveShifts, LenProperties
  <2> QED
    BY <1>0, <2>2, <2>3
<1>2. ASSUME NEW i \in DOMAIN progressCh', progressCh'[i].type = "done"
      PROVE  pc[Main] = "flushed"
  BY <1>0, <1>2, UpdatesCome DEF SentRightly
<1> QED
  BY <1>1, <1>2 DEF SaysDone, Buffered, ToSet

\* Nothing is left to do once the script says that it is done.
LEMMA NextNothingIsLeft ==
  ASSUME Divides, IInv, IInv', ScriptInv, DoneInv, [ScriptNext]_allVars
  PROVE  NothingIsLeft'
<1> USE Goroutines DEF DoneInv
<1>1. FlushLock(Main) => queue = {}
  <2>1. FlushLock(Main) => \A w \in Workers : step[w] = "done"
    BY DEF FlushLock, Moves, ScriptInv, CallsAgree, StepsAgree
  <2> QED
    BY <2>1, NothingQueued
<1>2. pc'[Main] \notin {"flushRelay", "relaying"}
  BY <1>1, MainFlushes DEF NothingIsLeft
<1>3. ASSUME pc'[Main] = "flushed"
      PROVE  relayed' = accepted' /\ \A w \in Workers : step'[w] = "done"
  <2>1. CASE pc[Main] = "flushed"
    BY <2>1, AllStaysRelayed DEF NothingIsLeft
  <2>2. CASE pc[Main] # "flushed"
    <3>1. FlushWaited(Main) /\ pc[Main] = "flushWait"
      BY <1>3, <2>2, MainFlushes DEF FlushWaited, Return, Moves
    <3>2. relayed = accepted
      BY <1>3, <3>1, WaitedMeansRelayed
    <3>3. \A w \in Workers : step[w] = "done"
      BY <3>1 DEF ScriptInv, CallsAgree, StepsAgree, Flushing
    <3> QED
      BY <3>2, <3>3, AllStaysRelayed
  <2> QED
    BY <2>1, <2>2
<1>4. SaysDone' => pc'[Main] = "flushed"
  <2>1. SaysDone' => pc[Main] = "flushed"
    BY NextSaysDone DEF NothingIsLeft
  <2>2. pc[Main] = "flushed" => pc'[Main] = "flushed"
    BY MainFlushes DEF FlushLock, Moves
  <2> QED
    BY <2>1, <2>2
<1> QED
  BY <1>2, <1>3, <1>4 DEF NothingIsLeft

\* At the start there are no batches, and nothing is said.
LEMMA InitDoneInv == ScriptInit => DoneInv
<1> SUFFICES ASSUME ScriptInit PROVE DoneInv
  OBVIOUS
<1>1. BatchesDivide
  BY FS_EmptySet, QueueSizeAssumption
  DEF ScriptInit, Init, BatchesDivide
<1>2. Buffered = {Update("start", 0, 0)}
  BY DEF ScriptInit, Buffered, ToSet
<1>3. NothingIsLeft
  BY <1>2, MainAssumption
  DEF ScriptInit, Init, NothingIsLeft, SaysDone, Update
<1> QED
  BY <1>1, <1>3 DEF DoneInv

\* If queueSize divides the number of transfers, the script says that it is
\* done only when every packet has been relayed (loadscript.go:187-198,
\* script.go:243).
THEOREM SpecDoneMeansRelayed ==
  ASSUME \E m \in Nat : TotalTransfer = m * QueueSize
  PROVE  ScriptSpec => []DoneMeansRelayed
<1>1. Divides
  BY DEF Divides
<1>2. IInv /\ IInv' /\ ScriptInv /\ DoneInv /\ [ScriptNext]_allVars => DoneInv'
  BY <1>1, NextBatchesDivide, NextNothingIsLeft DEF DoneInv
<1>3. ScriptInv /\ DoneInv => DoneMeansRelayed
  BY AllAccepted DEF DoneInv, NothingIsLeft, DoneMeansRelayed
<1>4. ScriptSpec => []IInv
  BY ScriptImplementsQueue, SpecIInv
<1> QED
  BY <1>2, <1>3, <1>4, InitDoneInv, SpecScriptInv, PTL DEF ScriptSpec

-----------------------------------------------------------------------------
(* Somebody can always go on *)

\* A goroutine that wants the answer of Status or Flush has called it.
LEMMA NextCallsAreMade ==
  ASSUME IInv, ScriptInv, WaitsAgree, [ScriptNext]_allVars
  PROVE  /\ \A g \in Clients : step'[g] = "status" => pc'[g] \in {"status", "snapshot"}
         /\ step'[Main] = "flush" =>
              pc'[Main] \in {"flush", "flushed", "failed"} \cup Flushing
<1> DEFINE Made ==
             /\ \A g \in Clients :
                  step'[g] = "status" => pc'[g] \in {"status", "snapshot"}
             /\ step'[Main] = "flush" =>
                  pc'[Main] \in {"flush", "flushed", "failed"} \cup Flushing
<1> USE Goroutines DEF Goes, Calls, Moves, Flushing
<1>0. /\ pc \in [Clients -> Phases]
      /\ step \in [Clients -> WorkerSteps \cup MainSteps]
      /\ \A g \in Clients : step[g] = "status" => pc[g] \in {"status", "snapshot"}
      /\ step[Main] = "flush" =>
           pc[Main] \in {"flush", "flushed", "failed"} \cup Flushing
      /\ \A w \in Workers : step[w] \in WorkerSteps
  BY DEF IInv, TypeOK, ScriptInv, ScriptTypeOK, StepsAgree, WaitsAgree
<1>1. ASSUME NEW w \in Workers, WorkerStep(w) PROVE Made
  <2>1. CASE \E p \in Packets : SendTransfer(w, p)
    BY <1>0, <2>1 DEF SendTransfer, AddCall
  <2>2. CASE SendTransferErr(w)
    BY <1>0, <2>2 DEF SendTransferErr, vars
  <2>3. CASE CountTransfer(w)
    BY <1>0, <2>3 DEF CountTransfer, StatusCall
  <2>4. CASE SendUpdate(w)
    BY <1>0, <2>4 DEF SendUpdate, vars
  <2>5. CASE ReportErr(w)
    BY <1>0, <2>5 DEF ReportErr, vars
  <2> QED
    BY <1>1, <2>1, <2>2, <2>3, <2>4, <2>5 DEF WorkerStep
<1>2. CASE MainStep
  <2>1. CASE Announce
    BY <1>0, <2>1 DEF Announce, vars
  <2>2. CASE WaitWorkers
    BY <1>0, <2>2 DEF WaitWorkers, vars
  <2>3. CASE StartRelaying
    BY <1>0, <2>3 DEF StartRelaying, StatusCall
  <2>4. CASE ReportRelaying
    BY <1>0, <2>4 DEF ReportRelaying, FlushCall
  <2>5. CASE Finish
    BY <1>0, <2>5 DEF Finish, vars
  <2> QED
    BY <1>2, <2>1, <2>2, <2>3, <2>4, <2>5 DEF MainStep
<1>3. ASSUME NEW g \in Clients, QueueCallStep(g) PROVE Made
  <2>1. CASE StatusReturns(g)
    BY <1>0, <2>1 DEF StatusReturns, Status
  <2>2. CASE Add(g) /\ UNCHANGED scriptVars
    BY <1>0, <2>2 DEF Add, scriptVars
  <2>3. CASE StatusLock(g) /\ UNCHANGED scriptVars
    BY <1>0, <2>3 DEF StatusLock, scriptVars
  <2>4. CASE (FlushLock(g) \/ FlushRelay(g)) /\ UNCHANGED scriptVars
    BY <1>0, <2>4 DEF FlushLock, FlushRelay, scriptVars
  <2>5. CASE (FlushOk(g) \/ FlushErr(g) \/ FlushWaited(g)) /\ UNCHANGED scriptVars
    BY <1>0, <2>5
    DEF FlushOk, FlushErr, FlushWaited, Return, GroupResult, scriptVars
  <2> QED
    BY <1>3, <2>1, <2>2, <2>3, <2>4, <2>5 DEF QueueCallStep
<1>4. CASE UNCHANGED <<pc, step>>
  BY <1>0, <1>4
<1> QED
  BY <1>1, <1>2, <1>3, <1>4, QueueStepIsQuiet
  DEF ScriptNext, ConsumerStep, Receive, Complete, Ended, allVars, scriptVars,
      vars

\* What is said to be done was said with the last step of the main goroutine.
LEMMA NextDoneIsLast ==
  ASSUME IInv, ScriptInv, WaitsAgree, [ScriptNext]_allVars, SaysDone'
  PROVE  step'[Main] = "end"
<1>0. /\ progressCh \in Seq(Updates)
      /\ step \in [Clients -> WorkerSteps \cup MainSteps]
  BY DEF ScriptInv, ScriptTypeOK
<1>1. ASSUME step[Main] = "end" PROVE step'[Main] = "end"
  <2>1. ~MainStep
    BY <1>1 DEF MainStep, Announce, WaitWorkers, StartRelaying, ReportRelaying,
       Finish, Goes
  <2>2. \A g \in Clients : StatusReturns(g) => step'[Main] = "end"
    BY <1>0, <1>1, Goroutines DEF StatusReturns, Goes
  <2>3. \A w \in Workers : WorkerStep(w) => step'[Main] = "end"
    BY <1>0, <1>1, Goroutines
    DEF WorkerStep, SendTransfer, SendTransferErr, CountTransfer, SendUpdate,
        ReportErr, Goes
  <2> QED
    BY <1>1, <2>1, <2>2, <2>3
    DEF ScriptNext, QueueCallStep, QueueStep, ConsumerStep, Receive, Complete,
        Ended, allVars, scriptVars
<1>2. SaysDone => step[Main] = "end"
  BY DEF WaitsAgree
<1>3. CASE consumer' = "sawDone"
  <2>1. ASSUME consumer # "sawDone" PROVE SaysDone
    <3>1. Receive
      BY <1>3, <2>1, ChannelStep
    <3>2. Head(progressCh).type = "done"
      BY <1>3, <3>1 DEF Receive
    <3>3. Head(progressCh) = progressCh[1] /\ 1 \in DOMAIN progressCh
      BY <1>0, <3>1, ReceiveShifts, LenProperties
    <3> QED
      BY <3>2, <3>3 DEF SaysDone, Buffered, ToSet
  <2> QED
    BY <1>1, <1>2, <2>1 DEF SaysDone
<1>4. ASSUME NEW i \in DOMAIN progressCh', progressCh'[i].type = "done"
      PROVE  step'[Main] = "end"
  <2>1. CASE SentRightly(progressCh'[i])
    BY <1>4, <2>1 DEF SentRightly
  <2>2. ASSUME NEW j \in DOMAIN progressCh, progressCh'[i] = progressCh[j]
        PROVE  step'[Main] = "end"
    BY <1>1, <1>2, <1>4, <2>2 DEF SaysDone, Buffered, ToSet
  <2> QED
    BY <2>1, <2>2, UpdatesCome
<1> QED
  BY <1>3, <1>4 DEF SaysDone, Buffered, ToSet

\* Until Flush, currentlyRelaying counts the batch of the relay that runs and
\* those of relays that failed.
LEMMA NextNothingElseLeaks ==
  ASSUME IInv, ScriptInv, WaitsAgree, [ScriptNext]_allVars,
         step'[Main] \notin {"flush", "end"}
  PROVE  currentlyRelaying' = Cardinality(dropped') + Cardinality(relayBatch')
<1> DEFINE Agrees ==
             currentlyRelaying' = Cardinality(dropped') + Cardinality(relayBatch')
<1>0. /\ step[Main] \notin {"flush", "end"} \/ step'[Main] \in {"flush", "end"}
      /\ \A S \in SUBSET accepted : IsFiniteSet(S) /\ Cardinality(S) \in Nat
      /\ relayBatch \subseteq accepted /\ dropped \subseteq accepted
  <2>1. step[Main] \in {"flush", "end"} => step'[Main] \in {"flush", "end"}
    BY Goroutines
    DEF ScriptNext, WorkerStep, SendTransfer, SendTransferErr, CountTransfer,
        SendUpdate, ReportErr, MainStep, Announce, WaitWorkers, StartRelaying,
        ReportRelaying, Finish, QueueCallStep, StatusReturns, QueueStep,
        ConsumerStep, Receive, Complete, Ended, allVars, scriptVars, Goes,
        ScriptInv, ScriptTypeOK
  <2> QED
    BY <2>1, PlacesAreFinite DEF IInv
<1>1. /\ currentlyRelaying = Cardinality(dropped) + Cardinality(relayBatch)
      /\ Cardinality(dropped) \in Nat /\ Cardinality(relayBatch) \in Nat
  BY <1>0 DEF WaitsAgree
<1>2. CASE UNCHANGED <<currentlyRelaying, dropped, relayBatch>>
  BY <1>1, <1>2
<1>3. ASSUME NEW batch \in spawned, BatchLock(batch) PROVE Agrees
  <2>1. relayBatch = {} /\ relayBatch' = batch /\ dropped' = dropped
        /\ currentlyRelaying' = currentlyRelaying + Cardinality(batch)
    BY <1>3 DEF BatchLock, RelayLock, historyVars, IInv, RelayLocals
  <2>2. Cardinality(batch) \in Nat
    BY QueueSizeAssumption DEF IInv, BatchesAreFull
  <2> QED
    BY <1>1, <2>1, <2>2, FS_EmptySet
<1>4. CASE BatchOk
  <2>1. relayBatch' = {} /\ dropped' = dropped
        /\ currentlyRelaying' = currentlyRelaying - Cardinality(relayBatch)
    BY <1>4 DEF BatchOk, RelayOk, ReleaseRelay
  <2> QED
    BY <1>1, <2>1, FS_EmptySet
<1>5. CASE BatchErr
  <2>1. /\ relayBatch' = {} /\ dropped' = dropped \cup relayBatch
        /\ currentlyRelaying' = currentlyRelaying
    BY <1>5 DEF BatchErr, RelayErr, ReleaseRelay, countVars
  <2>2. relayBatch \cap dropped = {}
    BY <1>5 DEF BatchErr, IInv, PacketPlacement, InFlight
  <2>3. Cardinality(dropped') = Cardinality(dropped) + Cardinality(relayBatch)
    BY <1>0, <2>1, <2>2, DisjointCardinality
  <2> QED
    BY <1>1, <2>1, <2>3, FS_EmptySet
<1>6. ASSUME NEW g \in Clients PROVE ~FlushRelay(g) /\ ~FlushOk(g) /\ ~FlushErr(g)
  BY <1>0, Goroutines
  DEF FlushRelay, FlushOk, FlushErr, Return, Moves, ScriptInv, CallsAgree, Flushing
<1> QED
  BY <1>2, <1>3, <1>4, <1>5, <1>6, ScriptNextIsQueueStep
  DEF Next, CallStep, BatchStep, AddCall, StatusCall, FlushCall, Add, StatusLock,
      Status, FlushLock, FlushWaited, Poll, Remaining, Deliver, batchVars,
      countVars, historyVars, vars

\* No more than the script's packets is being relayed or dropped, so that the
\* bound of the model never keeps it from its Flush.
LEMMA FlushIsFree ==
  ASSUME IInv, ScriptInv, WaitsAgree, step[Main] = "report"
  PROVE  currentlyRelaying <= MaxLeaked
<1>1. /\ \A S \in SUBSET accepted : IsFiniteSet(S) /\ Cardinality(S) \in Nat
      /\ relayBatch \subseteq accepted /\ dropped \subseteq accepted
  BY PlacesAreFinite DEF IInv
<1>2. relayBatch \cap dropped = {}
  <2>1. \A g \in Clients : relayOwner # g
    BY Goroutines DEF IInv, LocksAgree, ScriptInv, CallsAgree, Flushing
  <2> QED
    BY <2>1 DEF IInv, TypeOK, RelayLocals, PacketPlacement, InFlight
<1>3. /\ Cardinality(dropped \cup relayBatch) =
           Cardinality(dropped) + Cardinality(relayBatch)
      /\ dropped \cup relayBatch \subseteq accepted
  BY <1>1, <1>2, DisjointCardinality
<1>4. Cardinality(dropped \cup relayBatch) <= Cardinality(accepted)
  BY <1>1, <1>3, FS_Subset
<1>5. Cardinality(accepted) \in 0..TotalTransfer
  BY TransfersAreFinite DEF ScriptInv, CountsAgree, Upto
<1>6. currentlyRelaying = Cardinality(dropped) + Cardinality(relayBatch)
  BY DEF WaitsAgree
<1> QED
  BY <1>1, <1>3, <1>4, <1>5, <1>6, TransfersAreFinite, EnoughAssumption,
     LeakedAssumption

\* Every step of the script keeps what its progress depends on.
LEMMA NextWaitsAgree ==
  IInv /\ ScriptInv /\ WaitsAgree /\ [ScriptNext]_allVars => WaitsAgree'
BY NextCallsAreMade, NextDoneIsLast, NextNothingElseLeaks DEF WaitsAgree

\* At the start nothing is said, relayed or dropped.
LEMMA InitWaitsAgree == ScriptInit => WaitsAgree
<1> SUFFICES ASSUME ScriptInit PROVE WaitsAgree
  OBVIOUS
<1>1. Buffered = {Update("start", 0, 0)}
  BY DEF ScriptInit, Buffered, ToSet
<1>2. ~SaysDone
  BY <1>1 DEF ScriptInit, SaysDone, Update
<1>3. currentlyRelaying = Cardinality(dropped) + Cardinality(relayBatch)
  BY FS_EmptySet DEF ScriptInit, Init
<1> QED
  BY <1>2, <1>3, MainAssumption DEF WaitsAgree, ScriptInit

\* Whoever a goroutine waits for can go on, or waits for somebody who can: the
\* channel's reader, the holder of a mutex, the batches.
LEMMA SomebodyGoesOn ==
  ASSUME IInv, ScriptInv, WaitsAgree
  PROVE  ScriptIsNotStuck
<1> SUFFICES ASSUME step[Main] # "end",
                    ~(consumer = "sawError" /\ Len(progressCh) = ChanSize),
                    ~(consumer = "reading" /\ progressCh # <<>>),
                    ~BatchCanStep
             PROVE  \E g \in Clients : ScriptCanStep(g)
  BY DEF ScriptIsNotStuck
<1> USE Goroutines
<1>1. /\ \A w \in Workers : step[w] \in WorkerSteps
      /\ step[Main] \in MainSteps
      /\ \A g \in Clients : pc[g] \in Phases
      /\ updateMutex \in Workers \cup {NoOne}
      /\ \A w \in Workers : step[w] \in {"status", "update"} <=> updateMutex = w
      /\ \A g \in Clients : step[g] = "status" => pc[g] \in {"status", "snapshot"}
      /\ step[Main] = "flush" =>
           pc[Main] \in {"flush", "flushed", "failed"} \cup Flushing
  BY DEF ScriptInv, ScriptTypeOK, StepsAgree, IInv, TypeOK, WaitsAgree
<1>2. Len(progressCh) < ChanSize
  <2>1. progressCh \in Seq(Updates) /\ Len(progressCh) <= ChanSize
        /\ consumer \in {"reading", "sawError", "sawDone"}
    BY DEF ScriptInv, ScriptTypeOK
  <2>2. consumer # "sawDone"
    BY DEF WaitsAgree, SaysDone
  <2>3. progressCh = <<>> => Len(progressCh) = 0
    OBVIOUS
  <2> QED
    BY <2>1, <2>2, <2>3, ChanAssumption, LenProperties
<1>3. \/ \E g \in Clients : CanStep(g)
      \/ \A g \in Clients : pc[g] \in Outside
  BY SomebodyCanStep DEF NobodyIsStuck
<1>4. ASSUME NEW g \in Clients, CanStep(g) PROVE ScriptCanStep(g)
  <2>1. pc[g] \notin Outside
    BY <1>4 DEF CanStep, Outside
  <2>2. step[g] \in {"add", "status", "flush"}
    BY <1>1, <2>1 DEF ScriptInv, CallsAgree, Phases, Outside, Flushing
  <2> QED
    BY <1>4, <2>2 DEF ScriptCanStep
<1>5. ASSUME \A g \in Clients : pc[g] \in Outside
      PROVE  \E g \in Clients : ScriptCanStep(g)
  <2>1. \A g \in Clients : step[g] # "status"
    BY <1>1, <1>5 DEF Outside
  <2>2. CASE updateMutex # NoOne
    <3>1. step[updateMutex] = "update" /\ updateMutex \in Clients
      BY <1>1, <2>1, <2>2
    <3> QED
      BY <1>2, <3>1 DEF ScriptCanStep
  <2>3. ASSUME updateMutex = NoOne, NEW w \in Workers, step[w] \notin {"done", "failed"}
        PROVE  ScriptCanStep(w)
    <3>1. step[w] \in {"send", "add", "error"}
      BY <1>1, <2>1, <2>3, OwnerAssumption DEF WorkerSteps
    <3> QED
      BY <1>2, <1>5, <2>3, <3>1 DEF ScriptCanStep
  <2>4. ASSUME \A w \in Workers : step[w] \in {"done", "failed"}
        PROVE  ScriptCanStep(Main)
    <3>1. step[Main] \in {"announce", "wait", "error", "relaying", "report", "flush"}
      BY <1>1, <2>1 DEF MainSteps
    <3>2. step[Main] = "report" => currentlyRelaying <= MaxLeaked
      BY FlushIsFree
    <3>3. step[Main] = "flush" => pc[Main] \in {"flushed", "failed"}
      BY <1>1, <1>5 DEF Outside, Flushing
    <3> QED
      BY <1>2, <1>5, <2>4, <3>1, <3>2, <3>3 DEF ScriptCanStep
  <2> QED
    BY <1>1, <2>2, <2>3, <2>4
<1> QED
  BY <1>3, <1>4, <1>5

\* Before its main goroutine has ended, the script never waits in vain for its
\* mutex, the queue's, the errgroup or the channel, for any number of wallets and
\* packets and any size of queue and channel, unless its reader has left at an
\* error and the channel is full (script.go:237, loadscript.go:101-115).
THEOREM SpecScriptIsNotStuck == ScriptSpec => []ScriptIsNotStuck
<1>1. ScriptSpec => []IInv
  BY ScriptImplementsQueue, SpecIInv
<1> QED
  BY <1>1, InitWaitsAgree, NextWaitsAgree, SpecScriptInv, SomebodyGoesOn, PTL
  DEF ScriptSpec
=============================================================================
