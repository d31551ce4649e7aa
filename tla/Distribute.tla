----------------------------- MODULE Distribute -----------------------------
(***************************************************************************)
(* The distribute command (cmd/ibc/cmd/distribute.go): top up every wallet *)
(* of a chain from one sender, with the Send of either chain.  Ethereum's  *)
(* Send waits for the receipt; Cosmos's Send returns after CheckTx, and    *)
(* the command sleeps to "give it time to land".  Ethereum's chain uses    *)
(* big.Ints throughout; Cosmos's goes through int64s.                      *)
(*                                                                         *)
(* The command may be run again, with another minimum.  The sender's       *)
(* transactions are ordered by their sequence (nonce).                     *)
(***************************************************************************)
EXTENDS Integers, SequencesExt

CONSTANTS
  Wallets,  \* the chain's wallets
  Sender,   \* the sender's wallet
  Minimums, \* the minimum-amount argument
  Funds,    \* what the sender may own at first
  Holdings, \* what the other wallets may own at first
  Word,     \* 2^64: int64 is -Word/2 .. Word/2 - 1
  MaxRuns   \* bound: times the command is run

Recipients == Wallets \ {Sender}

ASSUME SenderAssumption == Sender \in Wallets
ASSUME AmountAssumption ==
  Minimums \subseteq Nat /\ Funds \subseteq Nat /\ Holdings \subseteq Nat
ASSUME WordAssumption == Word \in Nat \ {0}
ASSUME RunsAssumption == MaxRuns \in Nat

VARIABLES
  phase,     \* where the command stands
  minimum,   \* minimumAmount
  todo,      \* wallets the loop has not visited
  wallet,    \* the wallet of this iteration
  current,   \* currentBalance
  sequence,  \* the sequence this iteration's transaction is signed with
  balance,   \* balances in the last block
  mempool,   \* the sender's pending transactions
  included,  \* the sender's transactions in blocks
  runs,      \* how often the command has been started
  clean,     \* history: nothing was pending when the last run was started
  waits      \* whether the chain is Ethereum, whose Send waits for receipts

loopVars == <<todo, wallet, current, sequence>>
chainVars == <<balance, mempool, included>>
runVars == <<minimum, runs, clean, waits>>
distributeVars == <<phase, loopVars, chainVars, runVars>>

InitialBalances ==
  {b \in [Wallets -> Holdings \cup Funds] :
     b[Sender] \in Funds /\ \A w \in Recipients : b[w] \in Holdings}

DistributeInit ==
  /\ phase = "idle"
  /\ minimum = 0
  /\ todo = {}
  /\ wallet = Sender
  /\ current = 0
  /\ sequence = 0
  /\ balance \in InitialBalances
  /\ mempool = <<>>
  /\ included = <<>>
  /\ runs = 0
  /\ clean = TRUE
  /\ waits \in BOOLEAN

Proceeds(from, to) == phase = from /\ phase' = to

\* Start, or start again after a run has ended in whichever way.
Start ==
  /\ phase \in {"idle", "completed", "failed"}
  /\ runs < MaxRuns
  /\ phase' = "loop"
  /\ minimum' \in Minimums
  /\ todo' = Recipients
  /\ runs' = runs + 1
  /\ clean' = (mempool = <<>>)
  /\ UNCHANGED <<wallet, current, sequence, chainVars, waits>>

\* The map of wallets is iterated in any order.
Pick(w) ==
  /\ w \in todo
  /\ Proceeds("loop", "balance")
  /\ wallet' = w
  /\ todo' = todo \ {w}
  /\ UNCHANGED <<current, sequence, chainVars, runVars>>

Completed ==
  /\ todo = {}
  /\ Proceeds("loop", "completed")
  /\ UNCHANGED <<loopVars, chainVars, runVars>>

FitsInt64(n) == 2 * n < Word

\* The Int64 of a Cosmos balance panics, which ends the command.
Overflows == ~waits /\ ~FitsInt64(balance[wallet])

Skip == balance[wallet] >= minimum

GetBalance ==
  /\ Proceeds("balance", CASE Overflows -> "failed"
                           [] ~Overflows /\ Skip -> "loop"
                           [] ~Overflows /\ ~Skip -> "account")
  /\ current' = balance[wallet]
  /\ UNCHANGED <<todo, wallet, sequence, chainVars, runVars>>

\* Mutant: the minimum is sent, not what is missing.
WholeMinimum == minimum

AmountToSend == minimum - current

\* big.Int's Int64: the low bits of n >= 0, read as a signed number.
Int64(n) == LET low == n % Word
            IN  IF FitsInt64(low) THEN low ELSE low - Word

AmountSent == IF waits THEN AmountToSend ELSE Int64(AmountToSend)

\* Send: the sender's sequence in the last block (chains/cosmos), or its
\* pending nonce (chains/ethereum).  NewInt64Coin panics on a negative
\* amount, which ends the command.
AccountInfo ==
  /\ Proceeds("account", IF AmountSent >= 0 THEN "broadcast" ELSE "failed")
  /\ sequence' = IF waits THEN Len(included) + Len(mempool)
                             ELSE Len(included)
  /\ UNCHANGED <<todo, wallet, current, chainVars, runVars>>

Accept ==
  mempool' = Append(mempool, [to |-> wallet, amount |-> AmountSent,
                              missing |-> AmountToSend])

Broadcast ==
  /\ sequence = Len(included) + Len(mempool)
  /\ Proceeds("broadcast", IF waits THEN "receipt" ELSE "loop")
  /\ Accept
  /\ UNCHANGED <<loopVars, balance, included, runVars>>

\* Mutant: the loop goes on after an error of Send.
RejectedSkips ==
  /\ sequence # Len(included) + Len(mempool)
  /\ Proceeds("broadcast", "loop")
  /\ UNCHANGED <<loopVars, chainVars, runVars>>

BroadcastRejected ==
  /\ sequence # Len(included) + Len(mempool)
  /\ Proceeds("broadcast", "failed")
  /\ UNCHANGED <<loopVars, chainVars, runVars>>

\* Mutant: the receipt's status is not looked at.
ReceiptAnyStatus ==
  /\ Len(included) > sequence
  /\ Proceeds("receipt", "loop")
  /\ UNCHANGED <<loopVars, chainVars, runVars>>

\* The receipt of this iteration's transaction, or the end of the wait.
Receipt ==
  /\ Len(included) > sequence
  /\ Proceeds("receipt", IF included[sequence + 1].ok THEN "loop" ELSE "failed")
  /\ UNCHANGED <<loopVars, chainVars, runVars>>

\* A remote call fails or times out; a broadcast may have been taken.
Failure ==
  /\ \E from \in {"balance", "account", "broadcast", "receipt"} :
       Proceeds(from, "failed")
  /\ \/ UNCHANGED mempool
     \/ /\ phase = "broadcast" /\ sequence = Len(included) + Len(mempool)
        /\ Accept
  /\ UNCHANGED <<loopVars, balance, included, runVars>>

\* A block takes the sender's next transaction; it fails if the sender has
\* too little, or if it sends nothing (NewCoins drops a zero coin).
Block ==
  LET tx == Head(mempool)
      ok == tx.amount > 0 /\ balance[Sender] >= tx.amount
  IN /\ mempool # <<>>
     /\ mempool' = Tail(mempool)
     /\ included' = Append(included, [to |-> tx.to, missing |-> tx.missing,
                                        ok |-> ok])
     /\ balance' = IF ok
                   THEN [balance EXCEPT ![Sender] = @ - tx.amount,
                                        ![tx.to] = @ + tx.amount]
                   ELSE balance
     /\ UNCHANGED <<phase, loopVars, runVars>>

Loop ==
  \/ Start
  \/ \E w \in Recipients : Pick(w)
  \/ Completed
  \/ GetBalance
  \/ AccountInfo
  \/ Broadcast
  \/ BroadcastRejected
  \/ Receipt
  \/ Failure

DistributeNext == Loop \/ Block

DistributeSpec == DistributeInit /\ [][DistributeNext]_distributeVars

\* The command runs, and blocks are produced.
FairDistributeSpec ==
  /\ DistributeSpec
  /\ WF_distributeVars((\E w \in Recipients : Pick(w)) \/ Completed \/ GetBalance
               \/ AccountInfo \/ Broadcast \/ BroadcastRejected \/ Receipt
               \/ Failure)
  /\ WF_distributeVars(Block)
-----------------------------------------------------------------------------
(* Properties *)

DistributeTypeOK ==
  /\ phase \in {"idle", "loop", "balance", "account", "broadcast", "receipt",
             "completed", "failed"}
  /\ minimum \in Nat
  /\ todo \subseteq Recipients
  /\ wallet \in Wallets
  /\ current \in Nat /\ sequence \in Nat
  /\ balance \in [Wallets -> Nat]
  /\ mempool \in Seq([to : Recipients, amount : Nat, missing : Nat])
  /\ included \in Seq([to : Recipients, missing : Nat, ok : BOOLEAN])
  /\ runs \in 0..MaxRuns
  /\ clean \in BOOLEAN
  /\ waits \in BOOLEAN

\* "Distribute tokens to ensure all wallets have at least the minimum
\* amount" (distribute.go:15-16): they have it when the command reports that
\* the distribution completed successfully, if Send waits for the receipt.
\* (Cosmos's Send returns when its transaction is checked, not executed.)
CompletedMeansFunded ==
  (waits /\ phase = "completed") => \A w \in Recipients : balance[w] >= minimum

\* "Tokens are only sent if their balance is below the minimum amount"
\* (distribute.go:17-18): no transfer lifts a recipient above the minimum,
\* whether or not Send waits, if nothing of an earlier run was pending when
\* the last run was started.  (Otherwise the run reads balances that lack
\* what is pending.)
NeverOverfunded ==
  [][clean => \A w \in Recipients :
       balance'[w] > balance[w] => balance'[w] <= minimum]_distributeVars

\* A wallet that missed more than an int64 holds when it was sent to.
Truncated(w) ==
  \E i \in DOMAIN included : /\ included[i].to = w
                            /\ ~FitsInt64(included[i].missing)

\* Even if Send does not wait, a run that completes has funded everyone in
\* the end, except who missed more than an int64 holds
\* (chains/cosmos/send.go:39), unless the sender is left with less than one
\* minimum.
CompletedFundsEventually ==
  \A m \in Minimums :
    (phase = "completed" /\ minimum = m) ~>
      \/ \A w \in Recipients : balance[w] >= m \/ Truncated(w)
      \/ balance[Sender] < m
-----------------------------------------------------------------------------
(* The inductive invariant behind CompletedMeansFunded, for a Send that    *)
(* waits for its receipt.                                                  *)

Funding == phase \in {"account", "broadcast", "receipt"}
Visiting == Funding \/ phase = "balance"

Visited == {w \in Recipients \ todo : Visiting => w # wallet}

VisitedAreFunded ==
  phase \in {"idle", "failed"} \/ \A w \in Visited : balance[w] >= minimum

AmountIsMissing ==
  /\ Visiting => wallet \in Recipients
  /\ Funding => current < minimum /\ current <= balance[wallet]
  /\ phase = "broadcast" => AmountSent >= 0

\* The transaction whose receipt Send waits for is this iteration's.
ReceiptIsMine ==
  phase = "receipt" =>
    \/ /\ sequence < Len(included)
       /\ included[sequence + 1].ok => balance[wallet] >= minimum
    \/ /\ sequence - Len(included) \in 0..(Len(mempool) - 1)
       /\ mempool[sequence - Len(included) + 1].to = wallet
       /\ mempool[sequence - Len(included) + 1].amount = minimum - current

CompletedIsDone == phase = "completed" => todo = {}

FundedInv ==
  /\ DistributeTypeOK
  /\ CompletedIsDone
  /\ AmountIsMissing
  /\ waits => VisitedAreFunded /\ ReceiptIsMine

(* The one behind NeverOverfunded: in a run that was started with nothing  *)
(* pending every recipient has one pending transaction at most, which it   *)
(* got after its balance was read, and which still fits.                   *)
PendingFits ==
  /\ \A i \in DOMAIN mempool :
       /\ balance[mempool[i].to] + mempool[i].amount <= minimum
       /\ mempool[i].to \notin todo
       /\ phase \in {"balance", "account", "broadcast"} => mempool[i].to # wallet
  /\ \A i, j \in DOMAIN mempool : mempool[i].to = mempool[j].to => i = j

OneRunInv ==
  /\ DistributeTypeOK
  /\ AmountIsMissing
  /\ phase = "idle" => mempool = <<>>
  /\ Visiting => wallet \notin todo
  /\ clean =>
       /\ phase \in {"account", "broadcast"} => current = balance[wallet]
       /\ PendingFits
=============================================================================
