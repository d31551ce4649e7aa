-------------------------------- MODULE EthTx -------------------------------
(***************************************************************************)
(* Transactions of one Ethereum wallet: SendTransfer and SubmitRelayTx of  *)
(* chains/ethereum with the Transact, GetTransactOpts and WaitForReceipt   *)
(* they share, against a node with a transaction pool.                     *)
(*                                                                         *)
(* The wallet is one key; in the load script a worker sends its transfers, *)
(* one after the other, while the relayer queue of the other direction may *)
(* submit relay transactions with the same wallet, one after the other.    *)
(* Amounts are counted in units of the transfer amount.  A remote call may *)
(* fail before or after it took effect.                                    *)
(***************************************************************************)
EXTENDS Naturals, Sequences, FiniteSetsExt

CONSTANTS
  Transfers,    \* calls of SendTransfer
  Relays,       \* calls of SubmitRelayTx
  NonceFails,   \* whether PendingNonceAt may fail
  FirstNonce,   \* transactions the wallet had before
  GasPrices     \* what SuggestGasPrice returns

ASSUME OpsAssumption == Transfers \cap Relays = {}
ASSUME NonceAssumption == NonceFails \in BOOLEAN /\ FirstNonce \in Nat
ASSUME PriceAssumption == GasPrices \subseteq Nat

VARIABLES
  phase,      \* phase[o]: where call o stands
  stage,      \* stage[o]: "approve" or "main", the transaction o is busy with
  nonce,      \* nonce[o]: txOpts.Nonce
  gasPrice,   \* gasPrice[o]: txOpts.GasPrice
  allowance,  \* ERC20 allowance of the ICS20 contract, in transfers
  pool,       \* the wallet's transactions in the node's pool
  mined,      \* mined[n]: the transaction with nonce FirstNonce + n - 1
  suggested,  \* the gas price the node suggests
  outcome,    \* history: what each call has returned
  lost,       \* history: calls that gave up on a transaction they had sent
  rejected    \* history: calls whose transaction the node did not take

callVars == <<phase, stage, nonce, gasPrice>>
chainVars == <<allowance, pool, mined>>
historyVars == <<lost, rejected>>
vars == <<callVars, chainVars, suggested, outcome, historyVars>>

Ops == Transfers \cup Relays
Phases == {"idle", "allowance", "opts", "submit", "receipt", "packets",
           "returned"}
Txs == [op : Ops, stage : {"approve", "main"}]
Tx(o) == [op |-> o, stage |-> stage[o]]

ChainNonce == FirstNonce + Len(mined)
PoolNonces == {t.nonce : t \in pool}

\* PendingNonceAt: the first nonce that neither chain nor pool has used.
PendingNonce ==
  CHOOSE n \in ChainNonce..(ChainNonce + Cardinality(pool)) :
    n \notin PoolNonces /\ \A m \in ChainNonce..(n - 1) : m \in PoolNonces

Mined(t, ok) == \E i \in DOMAIN mined : mined[i].tx = t /\ mined[i].ok = ok

Running(S) == {o \in S : phase[o] \notin {"idle", "returned"}}

Goes(o, from, to) ==
  /\ phase[o] = from
  /\ phase' = [phase EXCEPT ![o] = to]

Returns(o, from, r) ==
  /\ Goes(o, from, "returned")
  /\ outcome' = [outcome EXCEPT ![o] = r]

Init ==
  /\ phase = [o \in Ops |-> "idle"]
  /\ stage = [o \in Ops |-> "main"]
  /\ nonce = [o \in Ops |-> 0]
  /\ gasPrice = [o \in Ops |-> 0]
  /\ allowance \in 0..1
  /\ pool = {}
  /\ mined = <<>>
  /\ suggested \in GasPrices
  /\ outcome = [o \in Ops |-> "none"]
  /\ lost = {}
  /\ rejected = {}
-----------------------------------------------------------------------------
(* Calls *)

\* A worker's transfers, and a queue's relays, are issued one at a time.
Call(o) ==
  /\ IF o \in Transfers THEN Running(Transfers) = {} ELSE Running(Relays) = {}
  /\ Goes(o, "idle", IF o \in Transfers THEN "allowance" ELSE "opts")
  /\ outcome' = [outcome EXCEPT ![o] = "running"]
  /\ UNCHANGED <<stage, nonce, gasPrice, chainVars, suggested, historyVars>>

\* Mutant: no approval is sent.
CheckNoAllowance(o) ==
  /\ Goes(o, "allowance", "opts")
  /\ UNCHANGED <<stage, nonce, gasPrice, chainVars, suggested, outcome,
                 historyVars>>

\* The allowance of the chain's latest state decides on an approval.
CheckAllowance(o) ==
  /\ Goes(o, "allowance", "opts")
  /\ stage' = [stage EXCEPT ![o] = IF allowance < 1 THEN "approve" ELSE "main"]
  /\ UNCHANGED <<nonce, gasPrice, chainVars, suggested, outcome, historyVars>>

\* Mutant: NonceAt, which does not know of the pool, for PendingNonceAt.
NoncesOfLatestBlock == {ChainNonce}

\* The nonce is 0 when PendingNonceAt fails.
Nonces == {PendingNonce} \cup {n \in {0} : NonceFails}

\* The price is the node's; --extra-gwei is not added (that line is a comment).
GetTransactOpts(o) ==
  /\ Goes(o, "opts", "submit")
  /\ gasPrice' = [gasPrice EXCEPT ![o] = suggested]
  /\ \E n \in Nonces : nonce' = [nonce EXCEPT ![o] = n]
  /\ UNCHANGED <<stage, chainVars, suggested, outcome, historyVars>>

\* The node takes a transaction whose nonce is not used up; one with the
\* nonce of a transaction in its pool replaces it if it pays more.
Replaced(o) == {t \in pool : t.nonce = nonce[o]}
Acceptable(o) ==
  /\ nonce[o] >= ChainNonce
  /\ \A t \in Replaced(o) : gasPrice[o] > t.price

Accept(o) ==
  pool' = (pool \ Replaced(o))
            \cup {[tx |-> Tx(o), nonce |-> nonce[o], price |-> gasPrice[o]]}

Submit(o) ==
  /\ Acceptable(o)
  /\ Goes(o, "submit", "receipt")
  /\ Accept(o)
  /\ UNCHANGED <<stage, nonce, gasPrice, allowance, mined, suggested, outcome,
                 historyVars>>

SubmitRejected(o) ==
  /\ ~Acceptable(o)
  /\ Returns(o, "submit", "error")
  /\ rejected' = rejected \cup {o}
  /\ UNCHANGED <<stage, nonce, gasPrice, chainVars, suggested, lost>>

\* SendTransaction's answer is lost after the node has taken it.
SubmitLost(o) ==
  /\ Acceptable(o)
  /\ Returns(o, "submit", "error")
  /\ Accept(o)
  /\ lost' = lost \cup {o}
  /\ UNCHANGED <<stage, nonce, gasPrice, allowance, mined, suggested, rejected>>

\* Mutant: the receipt's status is not looked at.
AnyStatus(o) == \E ok \in BOOLEAN : Mined(Tx(o), ok)

Successful(o) == Mined(Tx(o), TRUE)

\* WaitForReceipt has found the receipt: an approval is followed by the
\* transfer, a failed transaction ends the call.
ReceiptOk(o) ==
  /\ Successful(o)
  /\ CASE stage[o] = "approve" ->
            /\ Goes(o, "receipt", "opts")
            /\ stage' = [stage EXCEPT ![o] = "main"]
            /\ UNCHANGED outcome
       [] stage[o] = "main" /\ o \in Transfers ->
            Goes(o, "receipt", "packets") /\ UNCHANGED <<stage, outcome>>
       [] OTHER -> Returns(o, "receipt", "ok") /\ UNCHANGED stage
  /\ UNCHANGED <<nonce, gasPrice, chainVars, suggested, historyVars>>

ReceiptFailed(o) ==
  /\ Mined(Tx(o), FALSE)
  /\ Returns(o, "receipt", "error")
  /\ UNCHANGED <<stage, nonce, gasPrice, chainVars, suggested, historyVars>>

\* Mutant: after a timeout the transaction is sent again.
ResendOnTimeout(o) ==
  /\ Len(mined) < 2
  /\ Goes(o, "receipt", "opts")
  /\ lost' = lost \cup {o}
  /\ UNCHANGED <<stage, nonce, gasPrice, chainVars, suggested, outcome,
                 rejected>>

\* No answer with the receipt within the 120 seconds.
ReceiptTimeout(o) ==
  /\ Returns(o, "receipt", "error")
  /\ lost' = lost \cup {o}
  /\ UNCHANGED <<stage, nonce, gasPrice, chainVars, suggested, rejected>>

\* GetPackets reads the packet from the receipt's SendPacket event.
GetPackets(o) ==
  /\ Returns(o, "packets", "ok")
  /\ UNCHANGED <<stage, nonce, gasPrice, chainVars, suggested, historyVars>>

\* A remote call before the transaction is sent fails, or that of GetPackets.
RemoteError(o) ==
  /\ \E from \in {"allowance", "opts", "submit", "packets"} :
       Returns(o, from, "error")
  /\ UNCHANGED <<stage, nonce, gasPrice, chainVars, suggested, historyVars>>
-----------------------------------------------------------------------------
(* The chain *)

\* The next transaction of the wallet is mined.  Approve sets the allowance,
\* a transfer needs one and uses it up; a relay may revert, for instance if
\* another relayer was faster.
Mine(t) ==
  /\ t \in pool
  /\ t.nonce = ChainNonce
  /\ pool' = pool \ {t}
  /\ \E ok \in BOOLEAN :
       /\ mined' = Append(mined, [tx |-> t.tx, ok |-> ok])
       /\ CASE t.tx.stage = "approve" ->
                 allowance' = IF ok THEN 1 ELSE allowance
            [] t.tx.stage = "main" /\ t.tx.op \in Transfers ->
                 /\ ok <=> allowance >= 1
                 /\ allowance' = IF ok THEN allowance - 1 ELSE allowance
            [] OTHER -> UNCHANGED allowance
  /\ UNCHANGED <<callVars, suggested, outcome, historyVars>>

\* The node's suggestion changes.
Suggest(price) ==
  /\ price # suggested
  /\ suggested' = price
  /\ UNCHANGED <<callVars, chainVars, outcome, historyVars>>
-----------------------------------------------------------------------------
OpStep(o) ==
  \/ CheckAllowance(o)
  \/ GetTransactOpts(o)
  \/ Submit(o)
  \/ SubmitRejected(o)
  \/ SubmitLost(o)
  \/ ReceiptOk(o)
  \/ ReceiptFailed(o)
  \/ ReceiptTimeout(o)
  \/ GetPackets(o)
  \/ RemoteError(o)

Next ==
  \/ \E o \in Ops : Call(o) \/ OpStep(o)
  \/ \E t \in pool : Mine(t)
  \/ \E price \in GasPrices : Suggest(price)

Spec == Init /\ [][Next]_vars
-----------------------------------------------------------------------------
(* Properties *)

TypeOK ==
  /\ phase \in [Ops -> Phases]
  /\ stage \in [Ops -> {"approve", "main"}]
  /\ nonce \in [Ops -> Nat]
  /\ gasPrice \in [Ops -> GasPrices \cup {0}]
  /\ allowance \in Nat
  /\ pool \subseteq [tx : Txs, nonce : Nat, price : GasPrices]
  /\ mined \in Seq([tx : Txs, ok : BOOLEAN])
  /\ suggested \in GasPrices
  /\ outcome \in [Ops -> {"none", "running", "ok", "error"}]
  /\ lost \subseteq Ops /\ rejected \subseteq Ops

\* The approval a transfer has waited for, or the allowance it has read, is
\* still there when the transfer is mined, with any other use of the wallet
\* going on, unless an earlier call has given up on a transaction that was
\* mined later (transfer.go:51-78).
RevertsOnlyAfterLoss ==
  (\E o \in Transfers : Mined([op |-> o, stage |-> "main"], FALSE))
    => lost \cap Transfers # {}

\* Each transaction of a call is sent once, whatever is lost or times out and
\* whoever takes its nonce: never are two of them pending or mined, so no
\* single call moves the money twice.
SentOnce ==
  /\ \A t, u \in pool : t.tx = u.tx => t = u
  /\ \A t \in pool : \A i \in DOMAIN mined : mined[i].tx # t.tx
  /\ \A i, j \in DOMAIN mined : mined[i].tx = mined[j].tx => i = j

\* A sender and a relayer have both used the wallet.
SharedUse ==
  \E t \in Transfers, r \in Relays : outcome[t] # "none" /\ outcome[r] # "none"

\* A wallet that only a sender, or only a relayer, has used never has a nonce
\* refused, also not after a call that gave up on a pending transaction,
\* except for the 0 of a PendingNonceAt that failed (tx.go:103-107).
SoleUserNeverRejected ==
  \A o \in rejected : SharedUse \/ (NonceFails /\ nonce[o] = 0)

\* SendTransfer and SubmitRelayTx keep the promise of Submission.
Promise == INSTANCE Submission
  WITH effect <- {o \in Ops : Mined([op |-> o, stage |-> "main"], TRUE)}
PromiseSpec == Promise!Spec
-----------------------------------------------------------------------------
(* The inductive invariant behind the promise. *)

\* The part of TypeOK it needs.
CallTypes ==
  /\ phase \in [Ops -> Phases]
  /\ stage \in [Ops -> {"approve", "main"}]
  /\ outcome \in [Ops -> {"none", "running", "ok", "error"}]
  /\ \A t \in pool : t.tx \in Txs
  /\ mined \in Seq([tx : Txs, ok : BOOLEAN])

Sent(t) ==
  \/ \E u \in pool : u.tx = t
  \/ \E i \in DOMAIN mined : mined[i].tx = t

\* A call that has sent a transaction has got beyond sending it, for good; one
\* that is about to succeed, or has, has taken effect.
PhasesAgree ==
  \A o \in Ops :
    /\ outcome[o] = "none" <=> phase[o] = "idle"
    /\ outcome[o] = "running" <=> phase[o] \notin {"idle", "returned"}
    /\ Sent([op |-> o, stage |-> "approve"]) =>
         phase[o] \in {"receipt", "returned"}
           \cup {q \in {"opts", "submit", "packets"} : stage[o] = "main"}
    /\ Sent([op |-> o, stage |-> "main"]) =>
         stage[o] = "main" /\ phase[o] \in {"receipt", "packets", "returned"}
    /\ (phase[o] = "packets" \/ outcome[o] = "ok") =>
         Mined([op |-> o, stage |-> "main"], TRUE)

IInv == CallTypes /\ PhasesAgree /\ SentOnce

-----------------------------------------------------------------------------
(* The inductive invariant behind the other two. *)

\* A worker, and a queue, is busy with one call at a time.
OneAtATime ==
  \A S \in {Transfers, Relays} : \A o, p \in Running(S) : o = p

\* What a call brings along to be accepted or refused.
Prepared ==
  /\ IsFiniteSet(pool)
  /\ \A o \in Ops : phase[o] = "submit" => gasPrice[o] \in GasPrices
  /\ \A o \in rejected : phase[o] = "returned"

\* A transfer that is to be sent, or to be mined, has its allowance, as long as
\* only the call that is running has a transfer's transaction in the pool.
Entitled(o) ==
  IF stage[o] = "main"
  THEN phase[o] \in {"opts", "submit"} \/ (phase[o] = "receipt" /\ ~Successful(o))
  ELSE phase[o] = "receipt" /\ Successful(o)

AllowanceKept ==
  lost \cap Transfers = {} =>
    /\ \A t \in pool : t.tx.op \in Transfers =>
         phase[t.tx.op] = "receipt" /\ t.tx = Tx(t.tx.op)
    /\ \A o \in Transfers :
         /\ ~Mined([op |-> o, stage |-> "main"], FALSE)
         /\ Entitled(o) => allowance >= 1

\* The nonce a sole user has read stays free until it is used.
FreeNonce(n) == n >= ChainNonce /\ n \notin PoolNonces

NonceKept ==
  \A o \in Ops : phase[o] = "submit" =>
    SharedUse \/ FreeNonce(nonce[o]) \/ (NonceFails /\ nonce[o] = 0)

UseInv ==
  /\ TypeOK /\ OneAtATime /\ Prepared
  /\ AllowanceKept /\ NonceKept /\ SoleUserNeverRejected
=============================================================================
