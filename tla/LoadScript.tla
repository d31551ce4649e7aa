----------------------------- MODULE LoadScript -----------------------------
(***************************************************************************)
(* One direction of the load script: TransferAndRelayFromAToB of           *)
(* cmd/ibc/loadscript/loadscript.go, with the goroutine that displays its  *)
(* progress (run in cmd/ibc/cmd/script.go).                                *)
(*                                                                         *)
(* A worker per wallet sends numPacketsPerWallet transfers, hands every    *)
(* packet to the relay queue and reports progress over a buffered channel  *)
(* while it holds aToBUpdateMutext.  The main goroutine waits for the      *)
(* workers, flushes the queue, reports and closes the channel.  The        *)
(* goroutines share the RelayerQueue of module RelayerQueue, whose         *)
(* variables and steps this module extends.                                *)
(***************************************************************************)
EXTENDS RelayerQueue, SequencesExt

CONSTANTS
  Main,        \* the goroutine that TransferAndRelayFromAToB starts
  NumPackets,  \* numPacketsPerWallet
  MaxRetries,  \* maxRetries of withRetry
  ChanSize     \* capacity of progressCh

Workers == Clients \ {Main}
TotalTransfer == Cardinality(Workers) * NumPackets

ASSUME MainAssumption == Main \in Clients
ASSUME NumPacketsAssumption == NumPackets \in Nat \ {0}
ASSUME RetriesAssumption == MaxRetries \in Nat \ {0}
ASSUME ChanAssumption == ChanSize \in Nat \ {0}
ASSUME ClientsAssumption == IsFiniteSet(Clients)
\* Packets are enough for every transfer, and the bound on Flush is no bound
\* for the single Flush of the script.
ASSUME EnoughAssumption ==
  /\ Cardinality(Packets) >= TotalTransfer
  /\ MaxLeaked >= TotalTransfer

VARIABLES
  step,               \* step[w]: where worker w, or Main, stands
  attempt,            \* attempt[w]: withRetry's calls of SendTransfer so far
  done,               \* done[w]: iterations worker w has completed
  updateMutex,        \* who holds aToBUpdateMutext
  transferCompleted,  \* transferCompleted
  seen,               \* completedRelaying of the Status call just made
  progressCh,         \* the buffered updates
  closed,             \* close(progressCh) has run
  consumer,           \* where run() stands
  mainStatus          \* the text of the main status line

workVars == <<attempt, done, updateMutex, transferCompleted, seen>>
chanVars == <<progressCh, closed>>
viewVars == <<consumer, mainStatus>>
scriptVars == <<step, workVars, chanVars, viewVars>>
allVars == <<vars, scriptVars>>

WorkerSteps == {"send", "add", "status", "update", "error", "done", "failed"}
MainSteps == {"announce", "wait", "error", "relaying", "status", "report",
              "flush", "end"}
Updates == [type : {"transfer", "start", "relaying", "error", "done"},
            transfers : 0..TotalTransfer, completed : 0..TotalTransfer]

Update(type, transfers, completed) ==
  [type |-> type, transfers |-> transfers, completed |-> completed]

Goes(g, from, to) ==
  /\ step[g] = from
  /\ step' = [step EXCEPT ![g] = to]

\* A send on progressCh blocks while the buffer is full.
Sends(u) ==
  /\ Len(progressCh) < ChanSize
  /\ progressCh' = Append(progressCh, u)

\* The first update is in the channel before any goroutine starts.
ScriptInit ==
  /\ Init
  /\ step = [g \in Clients |-> IF g = Main THEN "announce" ELSE "send"]
  /\ attempt = [w \in Workers |-> 0]
  /\ done = [w \in Workers |-> 0]
  /\ updateMutex = NoOne
  /\ transferCompleted = 0
  /\ seen = 0
  /\ progressCh = <<Update("start", 0, 0)>>
  /\ closed = FALSE
  /\ consumer = "reading"
  /\ mainStatus = "transferring"
-----------------------------------------------------------------------------
(* Workers *)

\* SendTransfer succeeds: the worker calls Add with the packet.
SendTransfer(w, p) ==
  /\ Goes(w, "send", "add")
  /\ AddCall(w, p)
  /\ attempt' = [attempt EXCEPT ![w] = 0]
  /\ UNCHANGED <<done, updateMutex, transferCompleted, seen,
                 chanVars, viewVars>>

\* SendTransfer returns an error: withRetry calls it again, or gives up.  If the
\* transaction has taken effect all the same (Submission), its packet is never
\* handed to the queue.
SendTransferErr(w) ==
  /\ IF attempt[w] + 1 < MaxRetries
     THEN step[w] = "send" /\ UNCHANGED step
     ELSE Goes(w, "send", "error")
  /\ attempt' = [attempt EXCEPT ![w] = @ + 1]
  /\ UNCHANGED <<vars, done, updateMutex, transferCompleted, seen, chanVars,
                 viewVars>>

\* Mutant: the transfer is counted without aToBUpdateMutext.
CountUnlocked(w) ==
  /\ Goes(w, "add", "status")
  /\ StatusCall(w)
  /\ updateMutex' = w
  /\ transferCompleted' = transferCompleted + 1
  /\ UNCHANGED <<attempt, done, seen, chanVars, viewVars>>

\* Add has returned: count the transfer under the mutex and call Status.
CountTransfer(w) ==
  /\ updateMutex = NoOne
  /\ Goes(w, "add", "status")
  /\ StatusCall(w)
  /\ updateMutex' = w
  /\ transferCompleted' = transferCompleted + 1
  /\ UNCHANGED <<attempt, done, seen, chanVars, viewVars>>

\* Mutant: the worker returns with the mutex.
SendUpdateKeepsLock(w) ==
  /\ Goes(w, "update", IF done[w] + 1 = NumPackets THEN "done" ELSE "send")
  /\ Sends(Update("transfer", transferCompleted, seen))
  /\ done' = [done EXCEPT ![w] = @ + 1]
  /\ seen' = 0
  /\ UNCHANGED <<vars, attempt, updateMutex, transferCompleted, closed,
                 viewVars>>

\* Send the update, release the mutex, go on to the next transfer.
SendUpdate(w) ==
  /\ Goes(w, "update", IF done[w] + 1 = NumPackets THEN "done" ELSE "send")
  /\ Sends(Update("transfer", transferCompleted, seen))
  /\ updateMutex' = NoOne
  /\ done' = [done EXCEPT ![w] = @ + 1]
  /\ seen' = 0
  /\ UNCHANGED <<vars, attempt, transferCompleted, closed, viewVars>>

ReportErr(w) ==
  /\ Goes(w, "error", "failed")
  /\ Sends(Update("error", 0, 0))
  /\ UNCHANGED <<vars, workVars, closed, viewVars>>
-----------------------------------------------------------------------------
(* The main goroutine *)

\* It reads transferCompleted without the mutex, while workers write it: any
\* value that was written so far.
Announce ==
  /\ Goes(Main, "announce", "wait")
  /\ \E n \in 0..transferCompleted : Sends(Update("start", n, 0))
  /\ UNCHANGED <<vars, workVars, closed, viewVars>>

\* Mutant: the first error ends the wait for the workers.
WaitFirstError ==
  LET failed == \E w \in Workers : step[w] = "failed"
  IN /\ failed \/ \A w \in Workers : step[w] = "done"
     /\ Goes(Main, "wait", IF failed THEN "error" ELSE "relaying")
     /\ UNCHANGED <<vars, workVars, chanVars, viewVars>>

\* Mutant: the workers' errors are ignored.
WaitIgnoresErr ==
  /\ \A w \in Workers : step[w] \in {"done", "failed"}
  /\ Goes(Main, "wait", "relaying")
  /\ UNCHANGED <<vars, workVars, chanVars, viewVars>>

WaitWorkers ==
  /\ \A w \in Workers : step[w] \in {"done", "failed"}
  /\ Goes(Main, "wait", IF \E w \in Workers : step[w] = "failed"
                        THEN "error" ELSE "relaying")
  /\ UNCHANGED <<vars, workVars, chanVars, viewVars>>

\* The update that starts relaying, and the call of Status.
StartRelaying ==
  /\ Goes(Main, "relaying", "status")
  /\ StatusCall(Main)
  /\ Sends(Update("relaying", TotalTransfer, 0))
  /\ UNCHANGED <<workVars, closed, viewVars>>

\* The update with Status's result, and the call of Flush.
ReportRelaying ==
  /\ Goes(Main, "report", "flush")
  /\ FlushCall(Main)
  /\ Sends(Update("relaying", TotalTransfer, seen))
  /\ seen' = 0
  /\ UNCHANGED <<attempt, done, updateMutex, transferCompleted,
                 closed, viewVars>>

\* The last update and close(progressCh), which does not block.
Finish ==
  \/ /\ Goes(Main, "error", "end")
     /\ Sends(Update("error", 0, 0))
     /\ closed' = TRUE
     /\ UNCHANGED <<vars, workVars, viewVars>>
  \/ /\ pc[Main] \in {"flushed", "failed"}
     /\ Goes(Main, "flush", "end")
     /\ Sends(IF pc[Main] = "flushed"
              THEN Update("done", TotalTransfer, TotalTransfer)
              ELSE Update("error", 0, 0))
     /\ closed' = TRUE
     /\ UNCHANGED <<vars, workVars, viewVars>>
-----------------------------------------------------------------------------
(* The queue *)

\* Mutant: the second result is taken for the third.
StatusSwapped(g) ==
  /\ Status(g)
  /\ Goes(g, "status", IF g = Main THEN "report" ELSE "update")
  /\ seen' = StatusResult[2]
  /\ UNCHANGED <<attempt, done, updateMutex, transferCompleted,
                 chanVars, viewVars>>

\* Status has returned to g.
StatusReturns(g) ==
  /\ Status(g)
  /\ Goes(g, "status", IF g = Main THEN "report" ELSE "update")
  /\ seen' = StatusResult[3]
  /\ UNCHANGED <<attempt, done, updateMutex, transferCompleted,
                 chanVars, viewVars>>

QueueCallStep(g) ==
  \/ StatusReturns(g)
  \/ /\ Add(g) \/ StatusLock(g) \/ FlushLock(g) \/ FlushRelay(g)
        \/ FlushOk(g) \/ FlushErr(g) \/ FlushWaited(g)
     /\ UNCHANGED scriptVars

QueueStep ==
  /\ BatchStep \/ Poll \/ \E p \in Packets : Deliver(p)
  /\ UNCHANGED scriptVars
-----------------------------------------------------------------------------
(* The consumer *)

\* run() shows an update; it returns on an error and when all is done.  (It
\* would also return at the end of a closed channel, which it never reaches:
\* see ClosedIsFinal.)
Receive ==
  /\ consumer = "reading"
  /\ progressCh # <<>>
  /\ progressCh' = Tail(progressCh)
  /\ consumer' = CASE Head(progressCh).type = "error" -> "sawError"
                   [] Head(progressCh).type = "done" -> "sawDone"
                   [] OTHER -> "reading"
  /\ UNCHANGED <<vars, step, workVars, closed, mainStatus>>

\* mainErrGroup.Wait returns nil whatever run() has seen.
Complete ==
  /\ consumer \in {"sawError", "sawDone"}
  /\ mainStatus = "transferring"
  /\ mainStatus' = "completed"
  /\ UNCHANGED <<vars, step, workVars, chanVars, consumer>>

\* Nothing is left to do, for anyone but the chain.
Ended ==
  /\ step[Main] = "end"
  /\ mainStatus = "completed"
  /\ UNCHANGED allVars
-----------------------------------------------------------------------------
WorkerStep(w) ==
  \/ \E p \in Packets : SendTransfer(w, p)
  \/ SendTransferErr(w)
  \/ CountTransfer(w)
  \/ SendUpdate(w)
  \/ ReportErr(w)

MainStep ==
  \/ Announce
  \/ WaitWorkers
  \/ StartRelaying
  \/ ReportRelaying
  \/ Finish

ConsumerStep == Receive \/ Complete

ScriptNext ==
  \/ \E w \in Workers : WorkerStep(w)
  \/ MainStep
  \/ \E g \in Clients : QueueCallStep(g)
  \/ QueueStep
  \/ ConsumerStep
  \/ Ended

ScriptSpec == ScriptInit /\ [][ScriptNext]_allVars

\* Goroutines run, a channel's senders and a mutex's waiters are served in
\* turn (hence SF), every remote call returns, and run() keeps reading until
\* it returns.  Nobody has to deliver a packet.
ScriptFairness ==
  /\ \A w \in Workers : SF_allVars(WorkerStep(w))
  /\ SF_allVars(MainStep)
  /\ \A g \in Clients : SF_allVars(QueueCallStep(g))
  /\ \A batch \in kSubset(QueueSize, Packets) :
       SF_allVars(BatchLock(batch) /\ UNCHANGED scriptVars)
  /\ WF_allVars((BatchOk \/ BatchErr) /\ UNCHANGED scriptVars)
  /\ WF_allVars(Poll /\ UNCHANGED scriptVars)
  /\ WF_allVars(ConsumerStep)

FairScriptSpec == ScriptSpec /\ ScriptFairness
-----------------------------------------------------------------------------
(* Properties *)

Buffered == ToSet(progressCh)

ScriptTypeOK ==
  /\ step \in [Clients -> WorkerSteps \cup MainSteps]
  /\ attempt \in [Workers -> 0..MaxRetries]
  /\ done \in [Workers -> 0..NumPackets]
  /\ updateMutex \in Workers \cup {NoOne}
  /\ transferCompleted \in 0..TotalTransfer
  /\ seen \in 0..TotalTransfer
  /\ progressCh \in Seq(Updates) /\ Len(progressCh) <= ChanSize
  /\ closed \in BOOLEAN
  /\ consumer \in {"reading", "sawError", "sawDone"}
  /\ mainStatus \in {"transferring", "completed"}

SaysDone == consumer = "sawDone" \/ \E u \in Buffered : u.type = "done"

\* Nobody sends on progressCh once it is closed (that would panic), and the
\* reader always finds the update at which it returns before the end of the
\* channel: the last one (loadscript.go:96, 146-148, 181-183, 192-202).
ClosedIsFinal ==
  closed =>
    /\ \A g \in Clients : step[g] \in {"done", "failed", "end"}
    /\ consumer = "reading" =>
         progressCh # <<>> /\ Last(progressCh).type \in {"error", "done"}

\* The workers' updates are in order: no later one reports fewer transfers
\* or fewer relayed packets than an earlier one, although each worker reads
\* the counters and sends its update on its own.
ProgressIsMonotone ==
  \A i, j \in DOMAIN progressCh :
    (i < j /\ progressCh[i].type = "transfer" /\ progressCh[j].type = "transfer")
      => /\ progressCh[i].transfers < progressCh[j].transfers
         /\ progressCh[i].completed <= progressCh[j].completed

\* No update but the final one claims more than has happened.
ProgressIsTrue ==
  \A u \in Buffered : u.type # "done" =>
    /\ u.type \in {"transfer", "start"} => u.transfers <= transferCompleted
    /\ u.completed <= Cardinality(relayed)

\* "Queue flushed successfully", completed-packets (loadscript.go:187-198),
\* "Relay queue flushed n/n" (script.go:243): every packet of the script has
\* been relayed by then.  This holds if queueSize divides the number of
\* transfers, so that Flush finds nothing queued; in general it does not.
DoneMeansRelayed ==
  SaysDone => relayed = accepted /\ Cardinality(relayed) = TotalTransfer

\* "All transfers and relays completed successfully" (script.go:140) is said
\* after a direction that ended in an error, too.
CompletedMeansSuccess == mainStatus = "completed" => consumer = "sawDone"

\* The main goroutine ends, unless the reader has left at an error and the
\* channel is full: then its senders wait forever, one of them maybe with
\* the mutex (script.go:237, loadscript.go:101-115).
MainEnds ==
  <>[](\/ step[Main] = "end"
       \/ consumer = "sawError" /\ Len(progressCh) = ChanSize)

\* What the next step of g waits for is there.
ScriptCanStep(g) ==
  LET room == Len(progressCh) < ChanSize
  IN \/ step[g] = "send"
     \/ step[g] = "add" /\ (CanStep(g) \/ (pc[g] \in Outside /\ updateMutex = NoOne))
     \/ step[g] = "status" /\ CanStep(g)
     \/ step[g] \in {"update", "error", "announce"} /\ room
     \/ step[g] = "wait" /\ \A w \in Workers : step[w] \in {"done", "failed"}
     \/ step[g] = "relaying" /\ pc[g] \in Outside /\ room
     \/ /\ step[g] = "report" /\ pc[g] \in Outside /\ room
        /\ currentlyRelaying <= MaxLeaked
     \/ step[g] = "flush" /\ (CanStep(g) \/ (pc[g] \in {"flushed", "failed"} /\ room))

\* Until the main goroutine has ended somebody can go on, whoever waits for
\* aToBUpdateMutext, the queue's mutexes, the errgroup or the channel, unless
\* the reader has left at an error and the channel is full.
ScriptIsNotStuck ==
  \/ step[Main] = "end"
  \/ consumer = "sawError" /\ Len(progressCh) = ChanSize
  \/ consumer = "reading" /\ progressCh # <<>>
  \/ BatchCanStep
  \/ \E g \in Clients : ScriptCanStep(g)
-----------------------------------------------------------------------------
(* The inductive invariant behind the safety properties. *)

\* Workers hold the mutex between counting a transfer and its update, the main
\* goroutine goes on after them, and closing the channel is the last it does.
StepsAgree ==
  /\ \A w \in Workers :
       /\ step[w] \in WorkerSteps
       /\ step[w] \in {"status", "update"} <=> updateMutex = w
  /\ step[Main] \in MainSteps
  /\ step[Main] \notin {"announce", "wait"} =>
       \A w \in Workers : step[w] \in {"done", "failed"}
  /\ step[Main] \in {"relaying", "status", "report", "flush"} =>
       \A w \in Workers : step[w] = "done"
  /\ closed <=> step[Main] = "end"

\* Where a goroutine stands in a call of the queue agrees with its step, and
\* the main goroutine alone flushes.
CallsAgree ==
  /\ \A w \in Workers :
       /\ pc[w] \in {"idle", "add", "status", "snapshot"}
       /\ pc[w] = "add" => step[w] = "add"
       /\ pc[w] \in {"status", "snapshot"} => step[w] = "status"
  /\ pc[Main] # "add"
  /\ pc[Main] \in {"status", "snapshot"} => step[Main] = "status"
  /\ pc[Main] \in {"flush"} \cup Flushing => step[Main] = "flush"
  /\ pc[Main] \in {"flushed", "failed"} => step[Main] \in {"flush", "end"}

\* The transfers of the script, each the i-th of a worker: Upto(n) has the
\* first n[w] of every worker w.
Transfers == Workers \X (1..NumPackets)
Upto(n) == {t \in Transfers : t[2] <= n[t[1]]}

\* How many transfers of each worker are counted, and how many of them have
\* their packet in the queue or beyond.
Counts(w) == step[w] \in {"status", "update"}
Adds(w) == Counts(w) \/ (step[w] = "add" /\ pc[w] = "idle")
Counted == [w \in Workers |-> done[w] + (IF Counts(w) THEN 1 ELSE 0)]
Appended == [w \in Workers |-> done[w] + (IF Adds(w) THEN 1 ELSE 0)]

CountsAgree ==
  /\ transferCompleted = Cardinality(Upto(Counted))
  /\ Cardinality(accepted) = Cardinality(Upto(Appended))
  /\ \A w \in Workers :
       /\ step[w] \in {"send", "add", "status", "update"} =>
            done[w] < NumPackets /\ attempt[w] < MaxRetries
       /\ step[w] = "done" => done[w] = NumPackets

\* What Status returned is still true when the update is sent.
SeenIsTrue == seen <= Cardinality(relayed)

\* The update that a worker is about to send comes after those in the channel.
UpdatesAgree ==
  \A i \in DOMAIN progressCh : progressCh[i].type = "transfer" =>
    /\ updateMutex # NoOne => progressCh[i].transfers < transferCompleted
    /\ \A w \in Workers : step[w] = "update" => progressCh[i].completed <= seen

ScriptInv ==
  /\ ScriptTypeOK /\ StepsAgree /\ CallsAgree /\ CountsAgree
  /\ SeenIsTrue /\ UpdatesAgree
  /\ ClosedIsFinal /\ ProgressIsMonotone /\ ProgressIsTrue

\* If queueSize divides the number of transfers: the batches that have left
\* the queue are full, so that Flush finds nothing queued and waits for them.
BatchesDivide ==
  \E k \in 0..Cardinality(accepted) :
    Cardinality(accepted) = k * QueueSize + Cardinality(queue)

NothingIsLeft ==
  /\ pc[Main] \notin {"flushRelay", "relaying"}
  /\ pc[Main] = "flushed" =>
       relayed = accepted /\ \A w \in Workers : step[w] = "done"
  /\ SaysDone => pc[Main] = "flushed"

DoneInv == BatchesDivide /\ NothingIsLeft

\* What the script's progress depends on besides: a goroutine that wants the
\* queue's answer has called it, what is done is said at the end only, and before
\* Flush, currentlyRelaying exceeds what is being relayed by what was dropped.
WaitsAgree ==
  /\ \A g \in Clients : step[g] = "status" => pc[g] \in {"status", "snapshot"}
  /\ step[Main] = "flush" => pc[Main] \in {"flush", "flushed", "failed"} \cup Flushing
  /\ SaysDone => step[Main] = "end"
  /\ step[Main] \notin {"flush", "end"} =>
       currentlyRelaying = Cardinality(dropped) + Cardinality(relayBatch)
=============================================================================
