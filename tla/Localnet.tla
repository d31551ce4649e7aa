------------------------------ MODULE Localnet ------------------------------
(***************************************************************************)
(* SpinUpEthereum (localnet/ethereum/ethereum.go): a local testnet in a    *)
(* Kurtosis enclave, with the polling of utils.WaitForCondition, the beacon*)
(* client's retries (chains/ethereum/beaconapi/client.go) and the          *)
(* deployment of the contracts (NewEthereumWithDeploy, solidity.DeployIBC).*)
(* Several calls may run at once: they share the engine and the name of    *)
(* the enclave.  The engine, the two nodes and forge are external.         *)
(***************************************************************************)
EXTENDS Integers, FiniteSets

CONSTANTS
  Calls,     \* calls of SpinUpEthereum
  Timeout,   \* timeoutAfter of the wait
  Interval,  \* pollingInterval of the wait
  RetryWait, \* the pause after a request that failed
  Retries,   \* the attempts of a request
  MaxSlot    \* bound on the finalized slot of a chain; 0 is genesis

ASSUME LocalnetAssumption ==
  /\ Timeout \in Nat /\ Interval \in Nat /\ RetryWait \in Nat
  /\ Retries \in Nat \ {0}
  /\ MaxSlot \in Nat

VARIABLES
  phase,     \* phase[c]: where call c is
  waits,     \* waits[c]: its WaitForFinalization
  enclaves,  \* the enclaves there are, each named after the call that made it
  listed,    \* listed[c]: the enclaves that c found
  left,      \* left[c]: those that c has yet to destroy
  final,     \* final[c]: the slot that c's chain has finalized
  elapsed,   \* elapsed[c]: the time that c has slept since its wait began
  request,   \* request[c]: the request of a poll
  tries,     \* tries[c]: its failed attempts
  slot,      \* slot[c]: the slot of the finalized block c was told of
  contracts, \* contracts[c]: the contracts on c's chain
  addresses  \* addresses[c]: the contracts DeployIBC returned an address of

vars == <<phase, waits, enclaves, listed, left, final, elapsed, request, tries,
          slot, contracts, addresses>>

poll == <<elapsed, request, tries, slot>>
deployment == <<contracts, addresses>>

Contracts == {"router", "relayerHelper"}
Requests == {"block", "header", "bootstrap"}
Running == {"wait", "request", "dial", "deploy", "app", "returned"}
Finished == {"returned", "failed", "dead"}
Phases == {"idle", "list", "clear", "start"} \cup Running \cup Finished

Goto(c, p) == phase' = [phase EXCEPT ![c] = p]

\* The longest that a call sleeps in its wait: the deadline is only looked at
\* between two polls, and a poll makes three requests.
MaxElapsed == Timeout + 3 * Retries * RetryWait

\* Time beyond MaxElapsed is not told apart.
After(t, d) == IF t + d > MaxElapsed THEN MaxElapsed + 1 ELSE t + d

Init ==
  /\ phase = [c \in Calls |-> "idle"]
  /\ waits = [c \in Calls |-> FALSE]
  /\ enclaves = {}
  /\ listed = [c \in Calls |-> {}]
  /\ left = [c \in Calls |-> {}]
  /\ final = [c \in Calls |-> 0]
  /\ elapsed = [c \in Calls |-> 0]
  /\ request = [c \in Calls |-> "block"]
  /\ tries = [c \in Calls |-> 0]
  /\ slot = [c \in Calls |-> 0]
  /\ contracts = [c \in Calls |-> {}]
  /\ addresses = [c \in Calls |-> {}]
-----------------------------------------------------------------------------
(* The enclave *)

SpinUpEthereum(c) ==
  /\ phase[c] = "idle"
  /\ \E w \in BOOLEAN : waits' = [waits EXCEPT ![c] = w]
  /\ Goto(c, "list")
  /\ UNCHANGED <<enclaves, listed, left, final, poll, deployment>>

GetEnclaves(c) ==
  /\ phase[c] = "list"
  /\ listed' = [listed EXCEPT ![c] = enclaves]
  /\ left' = [left EXCEPT ![c] = enclaves]
  /\ Goto(c, "clear")
  /\ UNCHANGED <<waits, enclaves, final, poll, deployment>>

\* Mutant: the error of DestroyEnclave is not looked at.
DestroyUnchecked(c) ==
  /\ phase[c] = "clear"
  /\ \E e \in left[c] :
       /\ enclaves' \in {enclaves, enclaves \ {e}}
       /\ left' = [left EXCEPT ![c] = @ \ {e}]
  /\ UNCHANGED <<phase, waits, listed, final, poll, deployment>>

DestroyEnclave(c) ==
  /\ phase[c] = "clear"
  /\ \E e \in left[c] :
       /\ enclaves' = enclaves \ {e}
       /\ left' = [left EXCEPT ![c] = @ \ {e}]
  /\ UNCHANGED <<phase, waits, listed, final, poll, deployment>>

CreateEnclave(c) ==
  /\ phase[c] = "clear" /\ left[c] = {}
  /\ enclaves' = enclaves \cup {c}
  /\ Goto(c, "start")
  /\ UNCHANGED <<waits, listed, left, final, poll, deployment>>

\* The engine did as told, and its answer got lost.
AnswerLost(c) ==
  /\ phase[c] = "clear"
  /\ IF left[c] = {} THEN enclaves' = enclaves \cup {c}
     ELSE \E e \in left[c] : enclaves' = enclaves \ {e}
  /\ Goto(c, "failed")
  /\ UNCHANGED <<waits, listed, left, final, poll, deployment>>

\* The Starlark package starts the nodes; their ports are read.
RunStarlark(c) ==
  /\ phase[c] = "start" /\ c \in enclaves
  /\ Goto(c, IF waits[c] THEN "wait" ELSE "dial")
  /\ UNCHANGED <<waits, enclaves, listed, left, final, poll, deployment>>

\* The chain in c's enclave finalizes a block.  Nobody looks at the chain of a
\* call that failed.
Finalize(c) ==
  /\ c \in enclaves /\ phase[c] \in Running
  /\ final[c] < MaxSlot
  /\ final' = [final EXCEPT ![c] = @ + 1]
  /\ UNCHANGED <<phase, waits, enclaves, listed, left, poll, deployment>>
-----------------------------------------------------------------------------
(* WaitForCondition and the beacon client *)

\* Mutant: the deadline is not looked at.
PollAnyTime(c) ==
  /\ phase[c] = "wait"
  /\ elapsed' = [elapsed EXCEPT ![c] = After(@, Interval)]
  /\ request' = [request EXCEPT ![c] = "block"]
  /\ tries' = [tries EXCEPT ![c] = 0]
  /\ Goto(c, "request")
  /\ UNCHANGED <<waits, enclaves, listed, left, final, slot, deployment>>

\* The interval passes before the deadline, or with it.
Poll(c) ==
  /\ phase[c] = "wait" /\ elapsed[c] + Interval <= Timeout
  /\ elapsed' = [elapsed EXCEPT ![c] = @ + Interval]
  /\ request' = [request EXCEPT ![c] = "block"]
  /\ tries' = [tries EXCEPT ![c] = 0]
  /\ Goto(c, "request")
  /\ UNCHANGED <<waits, enclaves, listed, left, final, slot, deployment>>

TimeOut(c) ==
  /\ phase[c] = "wait" /\ elapsed[c] + Interval >= Timeout
  /\ elapsed' = [elapsed EXCEPT ![c] = IF @ < Timeout THEN Timeout ELSE @]
  /\ Goto(c, "failed")
  /\ UNCHANGED <<waits, enclaves, listed, left, final, request, tries, slot, deployment>>

\* A request that is answered: the next one is made, or the poll is over.
Answered(c, next, then) ==
  /\ phase[c] = "request" /\ c \in enclaves
  /\ request' = [request EXCEPT ![c] = next]
  /\ tries' = [tries EXCEPT ![c] = 0]
  /\ Goto(c, then)
  /\ UNCHANGED <<waits, enclaves, listed, left, final, elapsed, deployment>>

\* GetFinalizedBlocks refuses a block that is not finalized, without a retry.
BlockNotFinalized(c) ==
  /\ request[c] = "block"
  /\ Answered(c, "block", "wait")
  /\ UNCHANGED slot

GetFinalizedBlocks(c) ==
  /\ request[c] = "block"
  /\ Answered(c, "header", "request")
  /\ slot' = [slot EXCEPT ![c] = final[c]]

GetBeaconBlockHeader(c) ==
  /\ request[c] = "header"
  /\ Answered(c, "bootstrap", "request")
  /\ UNCHANGED slot

\* The condition is that the block with the bootstrap is not genesis.
GetBootstrap(c) ==
  /\ request[c] = "bootstrap"
  /\ Answered(c, "bootstrap", IF slot[c] # 0 THEN "dial" ELSE "wait")
  /\ UNCHANGED slot

\* Mutant: a failed attempt is not counted.
RetryUncounted(c) ==
  /\ phase[c] = "request"
  /\ elapsed' = [elapsed EXCEPT ![c] = After(@, RetryWait)]
  /\ UNCHANGED <<phase, waits, enclaves, listed, left, final, request, tries, slot, deployment>>

\* Any failure, the answers of a destroyed enclave's ports included.  The pause
\* comes after the last attempt as well; then the poll has failed.
Retry(c) ==
  /\ phase[c] = "request"
  /\ elapsed' = [elapsed EXCEPT ![c] = After(@, RetryWait)]
  /\ tries' = [tries EXCEPT ![c] = @ + 1]
  /\ Goto(c, IF tries[c] + 1 = Retries THEN "wait" ELSE "request")
  /\ UNCHANGED <<waits, enclaves, listed, left, final, request, slot, deployment>>
-----------------------------------------------------------------------------
(* The contracts *)

\* ChainID, in SpinUpEthereum and in NewEthereumWithDeploy.
Connect(c) ==
  /\ phase[c] = "dial" /\ c \in enclaves
  /\ Goto(c, "deploy")
  /\ UNCHANGED <<waits, enclaves, listed, left, final, poll, deployment>>

\* forge may put contracts on the chain and fail, or print the addresses of a
\* simulation; the error of DeployIBC is not looked at.  The relayer helper is
\* the one address that getEthContractsFromDeployOutput does not insist on.
DeployIBC(c) ==
  /\ phase[c] = "deploy"
  /\ \E onChain \in (IF c \in enclaves THEN SUBSET Contracts ELSE {{}}) :
       contracts' = [contracts EXCEPT ![c] = onChain]
  /\ \E found \in {{}, {"router"}, Contracts} :
       addresses' = [addresses EXCEPT ![c] = found]
  /\ Goto(c, "app")
  /\ UNCHANGED <<waits, enclaves, listed, left, final, poll>>

\* Mutant: the router is not asked.
AppUnasked(c) ==
  /\ phase[c] = "app"
  /\ Goto(c, "returned")
  /\ UNCHANGED <<waits, enclaves, listed, left, final, poll, deployment>>

\* An address without code has no app.
GetIBCApp(c) ==
  /\ phase[c] = "app" /\ c \in enclaves
  /\ "router" \in addresses[c] \cap contracts[c]
  /\ Goto(c, "returned")
  /\ UNCHANGED <<waits, enclaves, listed, left, final, poll, deployment>>
-----------------------------------------------------------------------------
\* An error that SpinUpEthereum returns, or a panic on the output of forge.
Fails(c) ==
  /\ phase[c] \in {"list", "clear", "start", "dial", "deploy", "app"}
  /\ Goto(c, "failed")
  /\ UNCHANGED <<waits, enclaves, listed, left, final, poll, deployment>>

Step(c) ==
  \/ GetEnclaves(c) \/ DestroyEnclave(c) \/ CreateEnclave(c) \/ AnswerLost(c)
  \/ RunStarlark(c)
  \/ Poll(c) \/ TimeOut(c)
  \/ BlockNotFinalized(c) \/ GetFinalizedBlocks(c) \/ GetBeaconBlockHeader(c)
  \/ GetBootstrap(c) \/ Retry(c)
  \/ Connect(c) \/ DeployIBC(c) \/ GetIBCApp(c)
  \/ Fails(c)

\* The process is killed, or panics in Destroy or DumpLogs of the returned
\* chain, which has no enclaveCtx.  Whatever happens, the enclave stays.
Dies(c) ==
  /\ phase[c] \notin {"idle", "failed", "dead"}
  /\ Goto(c, "dead")
  /\ UNCHANGED <<waits, enclaves, listed, left, final, poll, deployment>>

Next == \E c \in Calls : SpinUpEthereum(c) \/ Step(c) \/ Dies(c) \/ Finalize(c)

\* Every request is answered in the end, if only by an error.
Fairness == \A c \in Calls : WF_vars(Step(c))

Spec == Init /\ [][Next]_vars /\ Fairness
-----------------------------------------------------------------------------
(* Properties *)

\* A chain that SpinUpEthereum returns has the router on it under the address
\* the chain knows, although the error of the deployment is dropped, and has
\* finalized a block after genesis if that was asked for, whatever the other
\* calls did to the enclaves meanwhile and however often requests failed.
ReturnedIsReady ==
  \A c \in Calls : phase[c] = "returned" =>
    /\ "router" \in addresses[c] \cap contracts[c]
    /\ waits[c] => final[c] > 0

\* By the time a call has its own enclave, the enclaves it had found are gone
\* or the call has failed: no testnet of an earlier call is left behind.
LeftoversAreGone ==
  \A c \in Calls :
    phase[c] \in {"start"} \cup Running => listed[c] \cap enclaves = {}

\* The wait of 30 minutes ends, its requests' own duration aside, after at most
\* 30 more minutes: the deadline is overshot by one poll and no more.
PollIsBounded == \A c \in Calls : elapsed[c] <= MaxElapsed

\* A call returns, whether or not the chain finalizes and whatever other calls
\* do to its enclave.
SpinUpReturns == \A c \in Calls : phase[c] = "list" ~> phase[c] \in Finished
-----------------------------------------------------------------------------
(* The inductive invariant *)

\* The types of the variables.
TypeOK ==
  /\ phase \in [Calls -> Phases]
  /\ waits \in [Calls -> BOOLEAN]
  /\ enclaves \subseteq Calls
  /\ listed \in [Calls -> SUBSET Calls]
  /\ left \in [Calls -> SUBSET Calls]
  /\ final \in [Calls -> Nat]
  /\ elapsed \in [Calls -> Nat]
  /\ request \in [Calls -> Requests]
  /\ tries \in [Calls -> Nat]
  /\ slot \in [Calls -> Nat]
  /\ contracts \in [Calls -> SUBSET Contracts]
  /\ addresses \in [Calls -> SUBSET Contracts]

\* The calls that may have made an enclave.
Makers == {c \in Calls : phase[c] \notin {"idle", "list", "clear"}}

\* Only enclaves of such calls exist or are found, and what a call found and has
\* not yet to destroy is gone.
EnclavesAgree ==
  /\ enclaves \subseteq Makers
  /\ \A c \in Calls :
       /\ listed[c] \subseteq Makers
       /\ phase[c] \in {"clear", "start"} \cup Running =>
            listed[c] \cap enclaves \subseteq left[c]
       /\ phase[c] \in {"start"} \cup Running => left[c] = {}

\* The sleep of one request that fails to the end.
Span == Retries * RetryWait

\* A call has slept up to the deadline, the spans of the requests of this poll
\* that were answered and the pauses of the present one.
SleepIsAccounted ==
  \A c \in Calls :
    /\ phase[c] \in {"idle", "list", "clear", "start"} => elapsed[c] = 0
    /\ elapsed[c] <= Timeout + 3 * Span
    /\ phase[c] = "request" =>
         /\ tries[c] < Retries
         /\ request[c] = "block" => elapsed[c] <= Timeout + tries[c] * RetryWait
         /\ request[c] = "header" =>
              elapsed[c] <= Timeout + Span + tries[c] * RetryWait
         /\ request[c] = "bootstrap" =>
              elapsed[c] <= Timeout + 2 * Span + tries[c] * RetryWait

\* What a call was told is no later than what its chain has finalized, and a
\* call that waits does not get past genesis.
SlotsAgree ==
  \A c \in Calls :
    /\ slot[c] <= final[c]
    /\ phase[c] \in {"dial", "deploy", "app", "returned"} /\ waits[c] => slot[c] > 0
    /\ phase[c] = "returned" => "router" \in addresses[c] \cap contracts[c]

IInv == TypeOK /\ EnclavesAgree /\ SleepIsAccounted /\ SlotsAgree
=============================================================================
