------------------------------ MODULE CosmosTx ------------------------------
(***************************************************************************)
(* Transactions of one Cosmos account: SendTransfer and SubmitRelayTx of   *)
(* chains/cosmos, which share submitTx, against a node that checks a       *)
(* transaction's sequence against its mempool but answers AccountInfo from *)
(* the last block.                                                         *)
(*                                                                         *)
(* As in EthTx, a worker's transfers are issued one after the other, and   *)
(* so are the relays of a queue; both may use the account at once.         *)
(***************************************************************************)
EXTENDS Naturals, SequencesExt

CONSTANTS
  Transfers,  \* calls of SendTransfer
  Relays      \* calls of SubmitRelayTx

ASSUME OpsAssumption == Transfers \cap Relays = {}

VARIABLES
  phase,     \* phase[o]: where call o stands
  sequence,  \* sequence[o]: accountRes.Info.Sequence
  mempool,   \* the account's transactions that passed CheckTx, in order
  blocks,    \* the account's transactions in blocks, with their result
  indexed,   \* how many of them GetTx finds
  outcome,   \* history: what each call has returned
  began,     \* history: how many were in blocks when each call was issued
  lost,      \* history: calls that gave up on a transaction they had sent
  rejected   \* history: calls whose sequence the node did not take

chainVars == <<mempool, blocks, indexed>>
lossVars == <<lost, rejected>>
historyVars == <<began, lossVars>>
vars == <<phase, sequence, chainVars, outcome, historyVars>>

Ops == Transfers \cup Relays
Phases == {"idle", "account", "broadcast", "query", "packets", "returned"}

\* The account's sequence in the last block, and after the mempool.
BlockSequence == Len(blocks)
CheckSequence == Len(blocks) + Len(mempool)

InBlock(o, code) == \E b \in ToSet(blocks) : b.op = o /\ b.code = code
Indexed(o, code) == \E i \in 1..indexed : blocks[i] = [op |-> o, code |-> code]

Running(S) == {o \in S : phase[o] \notin {"idle", "returned"}}

Goes(o, from, to) ==
  /\ phase[o] = from
  /\ phase' = [phase EXCEPT ![o] = to]

Returns(o, from, r) ==
  /\ Goes(o, from, "returned")
  /\ outcome' = [outcome EXCEPT ![o] = r]

Init ==
  /\ phase = [o \in Ops |-> "idle"]
  /\ sequence = [o \in Ops |-> 0]
  /\ mempool = <<>>
  /\ blocks = <<>>
  /\ indexed = 0
  /\ outcome = [o \in Ops |-> "none"]
  /\ began = [o \in Ops |-> 0]
  /\ lost = {}
  /\ rejected = {}
-----------------------------------------------------------------------------
Call(o) ==
  /\ IF o \in Transfers THEN Running(Transfers) = {} ELSE Running(Relays) = {}
  /\ Goes(o, "idle", "account")
  /\ outcome' = [outcome EXCEPT ![o] = "running"]
  /\ began' = [began EXCEPT ![o] = Len(blocks)]
  /\ UNCHANGED <<sequence, chainVars, lossVars>>

\* Mutant: the sequence is not asked for again after the first time.
CachedSequence(o) == sequence[o]

\* The transaction is signed with the sequence of the last block.
NewSequence(o) == BlockSequence

AccountInfo(o) ==
  /\ Goes(o, "account", "broadcast")
  /\ sequence' = [sequence EXCEPT ![o] = NewSequence(o)]
  /\ UNCHANGED <<chainVars, outcome, historyVars>>

\* Mutant: the call does not wait for the transaction to be in a block.
BroadcastAndGo(o) ==
  /\ sequence[o] = CheckSequence
  /\ Returns(o, "broadcast", "ok")
  /\ mempool' = Append(mempool, o)
  /\ UNCHANGED <<sequence, blocks, indexed, historyVars>>

\* BroadcastTx (SYNC) returns after CheckTx, with a code.
Broadcast(o) ==
  /\ sequence[o] = CheckSequence
  /\ Goes(o, "broadcast", "query")
  /\ mempool' = Append(mempool, o)
  /\ UNCHANGED <<sequence, blocks, indexed, outcome, historyVars>>

BroadcastRejected(o) ==
  /\ sequence[o] # CheckSequence
  /\ Returns(o, "broadcast", "error")
  /\ rejected' = rejected \cup {o}
  /\ UNCHANGED <<sequence, chainVars, began, lost>>

\* BroadcastTx fails after the node has taken the transaction: its answer is
\* lost, or the connection's retry policy (utils/grpc.go:49-80) has sent it
\* again, and the node refuses what it has.
BroadcastLost(o) ==
  /\ sequence[o] = CheckSequence
  /\ Returns(o, "broadcast", "error")
  /\ mempool' = Append(mempool, o)
  /\ lost' = lost \cup {o}
  /\ UNCHANGED <<sequence, blocks, indexed, began, rejected>>

\* Mutant: the transaction's code is not looked at.
AnyCode(o) == \E code \in 0..1 : Indexed(o, code)

Successful(o) == Indexed(o, 0)

\* GetTx, 10 seconds later: the transaction is indexed with its code, ...
QueryOk(o) ==
  /\ Successful(o)
  /\ IF o \in Transfers
     THEN Goes(o, "query", "packets") /\ UNCHANGED outcome
     ELSE Returns(o, "query", "ok")
  /\ UNCHANGED <<sequence, chainVars, historyVars>>

QueryFailed(o) ==
  /\ Indexed(o, 1)
  /\ Returns(o, "query", "error")
  /\ UNCHANGED <<sequence, chainVars, historyVars>>

\* Mutant: a transaction that is not found is sent again.
ResendWhenMissing(o) ==
  /\ Len(blocks) + Len(mempool) < 4
  /\ Goes(o, "query", "account")
  /\ lost' = lost \cup {o}
  /\ UNCHANGED <<sequence, chainVars, outcome, began, rejected>>

\* ... or it is not (or the query fails), and is not waited for.
QueryMissing(o) ==
  /\ Returns(o, "query", "error")
  /\ lost' = lost \cup {o}
  /\ UNCHANGED <<sequence, chainVars, began, rejected>>

GetPackets(o) ==
  /\ Returns(o, "packets", "ok")
  /\ UNCHANGED <<sequence, chainVars, historyVars>>

\* A query fails, before the broadcast or that of GetPackets.
RemoteError(o) ==
  /\ \E from \in {"account", "broadcast", "packets"} : Returns(o, from, "error")
  /\ UNCHANGED <<sequence, chainVars, historyVars>>
-----------------------------------------------------------------------------
\* A block takes the first n transactions of the mempool; each succeeds
\* (code 0) or fails, and uses up its sequence in any case.
Block(n) ==
  \E codes \in [1..n -> 0..1] :
    /\ blocks' = blocks \o [i \in 1..n |-> [op |-> mempool[i], code |-> codes[i]]]
    /\ mempool' = SubSeq(mempool, n + 1, Len(mempool))
    /\ UNCHANGED <<phase, sequence, indexed, outcome, historyVars>>

Index ==
  /\ indexed < Len(blocks)
  /\ indexed' = Len(blocks)
  /\ UNCHANGED <<phase, sequence, mempool, blocks, outcome, historyVars>>
-----------------------------------------------------------------------------
OpStep(o) ==
  \/ AccountInfo(o)
  \/ Broadcast(o)
  \/ BroadcastRejected(o)
  \/ BroadcastLost(o)
  \/ QueryOk(o)
  \/ QueryFailed(o)
  \/ QueryMissing(o)
  \/ GetPackets(o)
  \/ RemoteError(o)

Next ==
  \/ \E o \in Ops : Call(o) \/ OpStep(o)
  \/ \E n \in 1..Len(mempool) : Block(n)
  \/ Index

Spec == Init /\ [][Next]_vars
-----------------------------------------------------------------------------
(* Properties *)

TypeOK ==
  /\ phase \in [Ops -> Phases]
  /\ sequence \in [Ops -> Nat]
  /\ mempool \in Seq(Ops)
  /\ blocks \in Seq([op : Ops, code : 0..1])
  /\ indexed \in 0..Len(blocks)
  /\ outcome \in [Ops -> {"none", "running", "ok", "error"}]
  /\ began \in [Ops -> Nat]
  /\ lost \subseteq Ops /\ rejected \subseteq Ops

\* Each call's transaction is sent once, whatever is lost, late or refused:
\* it is never twice in mempool or blocks.
SentOnce ==
  /\ IsInjective(mempool)
  /\ \A i, j \in DOMAIN blocks : blocks[i].op = blocks[j].op => i = j
  /\ \A i \in DOMAIN blocks : blocks[i].op \notin ToSet(mempool)

\* A sender and a relayer have both used the account.
SharedUse ==
  \E t \in Transfers, r \in Relays : outcome[t] # "none" /\ outcome[r] # "none"

\* An account that only a sender, or only a relayer, has used has a sequence
\* refused only after a call has given up on a transaction, as AccountInfo
\* knows of all others (tx.go:67, 135-141).
SoleUserRejectedAfterLoss == rejected # {} => lost # {} \/ SharedUse

\* A call is never refused because of what had been executed before it was
\* issued: another transaction of the account is in the mempool, or has been
\* executed while the call was running (tx.go:67-84).
RefusedForPending ==
  [][\A o \in Ops : BroadcastRejected(o) =>
       \/ mempool # <<>>
       \/ \E i \in (began[o] + 1)..Len(blocks) : blocks[i].op # o]_vars

\* SendTransfer and SubmitRelayTx keep the promise of Submission.
Promise == INSTANCE Submission WITH effect <- {o \in Ops : InBlock(o, 0)}
PromiseSpec == Promise!Spec
-----------------------------------------------------------------------------
(* The inductive invariant behind the promise. *)

\* As the sequence is that of the last block, only one can be pending.
SequencesAreOld ==
  /\ \A o \in Ops : sequence[o] <= Len(blocks)
  /\ Len(mempool) <= 1

\* A call that has been sent has got beyond sending, for good; one that is
\* about to succeed, or has, has taken effect.
PhasesAgree ==
  \A o \in Ops :
    /\ outcome[o] = "none" <=> phase[o] = "idle"
    /\ outcome[o] = "running" <=> phase[o] \notin {"idle", "returned"}
    /\ (o \in ToSet(mempool) \/ \E code \in 0..1 : InBlock(o, code))
         => phase[o] \in {"query", "packets", "returned"}
    /\ (phase[o] = "packets" \/ outcome[o] = "ok") => InBlock(o, 0)

IInv == TypeOK /\ SequencesAreOld /\ PhasesAgree /\ SentOnce

-----------------------------------------------------------------------------
(* The inductive invariant behind the refusals. *)

\* A worker, and a queue, is busy with one call at a time.
OneAtATime ==
  \A S \in {Transfers, Relays} : \A o, p \in Running(S) : o = p

\* The sequence a call has asked for is not older than the call.
SequencesAreNew ==
  \A o \in Ops : /\ began[o] <= Len(blocks)
                 /\ phase[o] = "broadcast" => began[o] <= sequence[o]

\* Until a call gives up, a sole user waits for what is pending, and signs with
\* the sequence the node expects.
SoleUserInStep ==
  \/ lost # {}
  \/ SharedUse
  \/ /\ \A o \in ToSet(mempool) : phase[o] = "query"
     /\ \A o \in Ops : phase[o] = "broadcast" => sequence[o] = Len(blocks)

UseInv ==
  OneAtATime /\ SequencesAreNew /\ SoleUserInStep /\ SoleUserRejectedAfterLoss
=============================================================================
