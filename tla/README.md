# TLA+ models and proofs of libibc

libibc is a Go library and command line tool (`ibc`) that sends IBC transfers
between Cosmos and Ethereum chains, hands the resulting packets to a relay
queue, relays them through an external relayer service or waits for somebody
else to relay them, and shows the progress in a terminal user interface. This
directory has TLA+ modules that model its parts, TLC configurations that
model-check them, and TLAPS proofs of the results that should hold for every
size. All paths below are relative to `src/`.

- [The system](#the-system)
- [The modules](#the-modules)
- [Relay queue](#relay-queue-relayerqueue), [load script](#load-script-loadscript),
  [Ethereum transactions](#ethereum-transactions-ethtx),
  [Cosmos transactions](#cosmos-transactions-cosmostx),
  [distribute](#distribute-distribute),
  [generate-wallet](#generate-wallet-generatewallet),
  [log and TUI](#log-and-tui-tui), [packets](#packets-and-receipts-packets),
  [local testnet](#local-testnet-localnet)
- [What is proved](#what-is-proved)
- [Disagreements found](#disagreements-found)
- [What is not modelled](#what-is-not-modelled)
- [Plan](#plan)

Running it: `tlc -config X.cfg M`, where X is the run's name and M the module that
it starts with, `tlapm M.tla` for the modules
`*Proofs`. Every run takes less than five minutes with two workers.
Definitions whose comment starts with "Mutant:" are variants of the definition
after them, with one plausible bug; `PROJECT.json` lists which property each of
them breaks. No action uses them.

## The system

| Component | State | Operations | Talks to |
|---|---|---|---|
| Relay queue (`chains/network/relay_queue.go`) | queue, two RW mutexes, errgroup, two counters | Add, Status, Flush; relay in background goroutines | Relayer, destination chain; called by the script and the transfer command |
| Load script (`cmd/ibc/loadscript`, `cmd/ibc/cmd/script.go`) | workers, a mutex, a counter, a buffered channel, the status line | TransferAndRelayFromAToB per direction, run (the reader) | chains' SendTransfer, relay queue, TUI |
| Ethereum chain (`chains/ethereum`) | none of its own; the account's nonce and the ERC20 allowance are the chain's | SendTransfer, SubmitRelayTx, Send, GetBalance, GetPackets, IsPacketReceived | execution node (JSON-RPC) |
| Cosmos chain (`chains/cosmos`) | none of its own; the account's sequence is the chain's | the same | node (gRPC) |
| Commands (`cmd/ibc/cmd`) | - | transfer, script, relay, distribute, generate-wallet, balance, trace | all of the above |
| Configuration (`cmd/ibc/config`) | one file with chains, wallet IDs and private keys | LoadConfig, SaveConfig, ToNetwork | file system |
| Logging and TUI (`cmd/ibc/logging`, `cmd/ibc/tui`) | log file and its mutex, the bubbletea model, status models | Write; UpdateMainStatus, UpdateMainErrorStatus, AddStatusModel; UpdateStatus, UpdateProgress; the event loop | bubbletea, every goroutine |
| Network (`chains/network/network.go`) | map of chains | BuildNetwork, GetChain, TransferWithRelay | chains, relayer |
| Utilities (`utils`, `chains/ethereum/beaconapi`) | - | WaitForCondition, gRPC dialling with retries, beacon queries | - |
| Local testnet (`localnet`, `chains/ethereum/solidity`) | none of its own; the enclaves are the Kurtosis engine's | SpinUpEthereum, Destroy, DumpLogs, DeployIBC | Kurtosis engine, the two nodes, forge |

What is hard in it, and which property it asks for (every item is a row of
"hazards" in `PROJECT.json`, with its line):

- *The relay queue*: `Add` hands a copy of the queue to the background and
  resets it; `Flush` holds `queueMutex` while it relays or waits, `relay` holds
  `relayMutex` for minutes, `Status` takes both. No packet may be lost or
  relayed twice, a nil from Flush should mean something, counters should agree
  with the chain, nobody may wait forever.
- *The load script*: many workers, retries after a lost answer, a channel that
  is closed while others may send, a reader that leaves at the first error, and
  a mutex that is held while a send on the channel blocks.
- *Transactions*: the answer of a remote call is lost although it took effect;
  a receipt comes too late; two users of one key compete for a nonce (sequence);
  Ethereum answers with the pending nonce and Cosmos with that of the last block.
- *distribute*: balances of the last block decide about transactions that are
  still pending, the more so when the command is run again; on Cosmos amounts go
  through an int64.
- *generate-wallet*: a file with private keys is read, changed and replaced, by
  commands that may be killed and may run at the same time.
- *Log and TUI*: `Program.Send` blocks until the event loop receives, the log
  writer holds its mutex meanwhile, status models are written and drawn by
  different goroutines without synchronisation.
- *Packets*: two event formats, client IDs that are equal on both ends with
  other meaning, several packets in one transaction; TransferWithRelay expects
  an acknowledgement in the transaction of its own relay, and another relayer
  may have been faster.
- *Local testnet*: enclaves of a fixed name that outlive the program and that
  every call destroys; retries within polls within a deadline that is only looked
  at between them; a deployment whose error is dropped.

## The modules

| Module | Models | Runs in |
|---|---|---|
| `PacketLedger` | abstract: what a relay queue promises about its packets | refined by RelayerQueue |
| `RelayerQueue` | the relay queue | `MCRelayerQueue` |
| `RelayerQueueProofs` | proofs: safety of the queue, refinement of PacketLedger, freedom from deadlock | - |
| `LoadScript` | one direction of the load script; EXTENDS RelayerQueue and composes its actions with the script's | `MCLoadScript` |
| `LoadScriptProofs` | proofs: the script implements PacketLedger; no update claims too much, the workers' are in order; done means relayed; it is not stuck | - |
| `Submission` | abstract: what callers of SendTransfer and SubmitRelayTx rely on | refined by EthTx, CosmosTx |
| `EthTx`, `CosmosTx` | the transactions of one account, with the node | `MCEthTx`, `MCCosmosTx` |
| `EthTxProofs`, `CosmosTxProofs` | proofs: each transaction is sent once, refinement of Submission; what is refused or reverts, and when | - |
| `Distribute` | the distribute command on either chain | `MCDistribute` |
| `GenerateWallet` | generate-wallet and the configuration file | `MCGenerateWallet` |
| `WalletProofs` | proofs about GenerateWallet and Distribute: the file is whole at every moment; no wallet is lost unless commands overlap; completed means funded; a run that starts with nothing pending overfunds nobody | - |
| `Tui` | log writer, event loop, status models | `MCTui` |
| `TuiProofs` | proofs: log area and log file agree in order and content, the viewport has all logs | - |
| `Packets` | finding packets and their receipts; the relay command; TransferWithRelay | `MCPackets` |
| `PacketsProofs` | proofs: all packets of a transaction are found, receipts are not confused, what is reported as relayed or acknowledged is | - |
| `Localnet` | SpinUpEthereum: enclaves, the wait for finality with the beacon client's retries, the deployment | `MCLocalnet` |
| `LocalnetProofs` | proofs: what is returned is ready, leftovers are gone, the wait is bounded | - |

They fit together at their interfaces. `LoadScript` has the whole queue in it.
Its `SendTransfer` and `SendTransferErr` are the `Succeed` and `Fail` of
`Submission` (an error may leave a transfer behind), which `EthTx` and
`CosmosTx` implement. The queue's `SelfRelay` relay is `SubmitRelayTx` in the
same way, its receipt loop is `IsPacketReceived` of `Packets`, whose `RelayTransfer`
and `RelayAck` end in `SubmitRelayTx` too. `Localnet` makes the chain that
`EthTx` and `Packets` have as a given, and shares no state with them.

Conventions: one action is what a goroutine or process does between two points
at which another one can see or change what it uses. A critical section without a
blocking call is one action. A remote call is a step of its own that answers or
fails; where a request that fails may have taken effect, there are actions for
both. Packets, wallets, goroutines and clients are model values.

## Relay queue (`RelayerQueue`)

State: `queueWriter`/`queueReaders` are `queueMutex`, `relayOwner` is
`relayMutex` (its readers need no variable: `Status` reads and leaves within one
step), `relayBatch` and `waitingPackets` are the argument and local of the
`relay()` that holds it, `spawned` the goroutines of the errgroup that wait for
it, `groupErr` the errgroup's error. `received` is the destination chain.
`accepted`, `relayed` and `dropped` are history.

| Action | Code (`relay_queue.go`) |
|---|---|
| AddCall, Add | a call of Add, and its body (53-67) |
| StatusCall, StatusLock, Status | 69-76: both read locks, one after the other |
| FlushCall, FlushLock, FlushRelay, FlushOk, FlushErr, FlushWaited | 78-98: lock, relay the rest, reset on success; or wait for the errgroup |
| BatchLock, BatchOk, BatchErr | the goroutine of 62-64 and the error it gives to the errgroup |
| RelayLock, Poll, RelayOk, RelayErr | 100-177, shared by Flush and the goroutines; RelayErr leaves `currentlyRelaying` as it is |
| Deliver | external: a packet gets its receipt, by whomever |

Abstractions: batches are sets (the relayer gets all of one at once and packets
differ); the receipt loop's order of queries is left out, a pass may miss any of
them; the 120 minutes of `maxWait` are "may fail while something is missing";
the relayer's nil means that the batch landed (its transaction succeeded, see
EthTx and CosmosTx), its error means anything.

| Run | Instance | Shows |
|---|---|---|
| MCRelayerQueue | 3 packets, 2 goroutines, queueSize 2, receipts waited for, FairSpec, deadlock checked | PacketPlacement, CompletedAreReceived, FlushWaitIsComplete; LedgerSpec: it implements PacketLedger; CallsReturn: every Add, Status and Flush returns; BatchesFinish |

The other values of the parameters are in the script's runs, which contain the
queue: relaying oneself, four packets in two full batches, queueSize 1.

Bounds: three packets and queueSize 2 give a full background batch and a rest at
the same time, which is what Flush has to tell apart; two goroutines and the
background give a reader or writer that waits while another one holds both
mutexes. `MaxLeaked` stops new Flushes once `currentlyRelaying` exceeds it (each
failed Flush leaves its packets in the counter, so that without it the counter
grows forever); with 1 a Flush is repeated after it failed. The theorems need
none of these bounds.

Fairness: strong for a goroutine's steps that wait for a mutex, since Go's
`sync.RWMutex` hands the lock to waiters (starvation mode) and lets in readers
between writers; weak for the remote calls, which have deadlines or answer, and
for the receipt loop. Nobody has to call and no packet has to be delivered; the
loop ends through its timeout then. Liveness without the timeout fails: that is
the mutant RelayWaitsForever.

A Flush that returns nil says less than its name: with a rest that it relays
itself it does not wait for the errgroup. FlushWaitIsComplete and
FlushRelayIsComplete (proved) state what each of the two paths vouches for;
FlushIsComplete is true for queueSize 1 and is checked and proved for that.

## Load script (`LoadScript`)

It EXTENDS RelayerQueue: each call of the queue is the queue's own action
conjoined with what the script does around it. `step` is where each worker and
the main goroutine stand, `attempt` the loop of `withRetry`, `updateMutex` is
`aToBUpdateMutext`, `progressCh`/`closed` the channel, `consumer` the reader in
`run` (script.go:170-253), `mainStatus` the last status line.

| Action | Code |
|---|---|
| SendTransfer, SendTransferErr | loadscript.go:89-99, 208-219: the call inside withRetry, which makes up to MaxRetries attempts |
| CountTransfer, StatusReturns, SendUpdate | 101-115: under the mutex count, ask Status, send, unlock |
| ReportErr | 70-78, 95-98 |
| Announce, WaitWorkers | 135-150; the read of `transferCompleted` at 139 has no mutex, so any value written so far may be read |
| StartRelaying, ReportRelaying, Finish | 152-203: Status, Flush, the last update, close |
| Receive, Complete | script.go:170-253 and 83-143 |

| Run | Instance | Shows |
|---|---|---|
| MCLoadScript | 2 workers with 2 packets each, queueSize 2, 3 attempts, a channel of 3 | ClosedIsFinal; ProgressIsMonotone: the workers' updates are in order; ProgressIsTrue; DoneMeansRelayed, as queueSize divides the transfers |
| MCLoadScriptLive | 2 workers with 1 packet each, queueSize 1, relaying oneself, a channel of 1, FairScriptSpec | FlushIsComplete; MainEnds: the main goroutine ends, unless the reader has left at an error and the channel is full |
| MCLoadScriptDone, MCLoadScriptCompleted | violations | see [below](#disagreements-found) |

Bounds: two workers make the interleavings of counter, Status and channel;
queueSize 2 with 4 packets leaves no rest for Flush and with 3 packets it does
(MCLoadScriptDone), which is the difference between DoneMeansRelayed and its
violation; queueSize 1 is the transfer command's. `ChanSize` is the
capacity (100 in the code, for any number of updates): small, so that it fills up.
`MaxLeaked` is no bound here (EnoughAssumption): the script flushes once.
CHECK_DEADLOCK is off because the model reaches the state in which a sender
waits for a reader that has left. One direction is modelled: two directions share nothing but the
chains, the status line and, if a wallet is used in both, its nonce; the last is
the subject of EthTx and CosmosTx, in which transfers and relays of one account overlap.

Fairness: as for the queue, and `run` keeps reading until it returns.

## Ethereum transactions (`EthTx`)

Calls of SendTransfer (`chains/ethereum/transfer.go`) and SubmitRelayTx
(`tx.go`) of one key against a node: `pool` has its pending transactions,
`mined` those of blocks, in the order of their nonces. A worker's transfers are
issued one after the other, and so are the relays of a queue; a transfer and a
relay may run at once. `stage` tells the approval of a SendTransfer from its
transfer.

| Action | Code |
|---|---|
| CheckAllowance | transfer.go:51-65 |
| GetTransactOpts | tx.go:86-124: suggested price; the pending nonce, or 0 if that query fails (its error is not looked at) |
| Submit, SubmitRejected, SubmitLost | Transact and SendTransaction: accepted, refused for its nonce or price, accepted with the answer lost |
| ReceiptOk, ReceiptFailed, ReceiptTimeout | WaitForReceipt with WaitForCondition's two minutes |
| GetPackets | packet.go, end of SendTransfer |
| RemoteError | any other query or encoding that fails |
| Mine, Suggest | external: the chain |

The chain is modelled by what the code relies on: transactions are mined in the
order of nonces; one with the nonce of a pending one replaces it if it pays
more; approve sets the allowance and a transfer uses it. A pool never evicts, and
a transfer reverts for its allowance only (other reverts are a ReceiptFailed
as well and change nothing else).

| Run | Instance | Shows |
|---|---|---|
| MCEthTx | 2 transfers, 1 relay, lost answers, failing nonce query, two gas prices | RevertsOnlyAfterLoss, SentOnce, SoleUserNeverRejected (a wallet that only transfers, or only relays, never has a nonce refused unless the query failed), implements Submission |

Two transfers and a relay are enough for an approval of one call to be used by the
next, for replaced nonces and for a nonce gap. `FirstNonce` is the number of the
account's earlier transactions; it is 0 in the run, where a nonce query that fails
asks for a nonce that may be free. There is no fairness: the only loop,
WaitForReceipt, ends by its timeout (ReceiptTimeout is always enabled).

## Cosmos transactions (`CosmosTx`)

As above with submitTx (`chains/cosmos/tx.go`): `mempool` in order, `blocks`,
and `indexed`, what GetTx finds 10 seconds after the broadcast. AccountInfo
answers with the last block's sequence, CheckTx wants that after the mempool.
Actions: AccountInfo, Broadcast/BroadcastRejected/BroadcastLost (SYNC mode; the
gRPC retry policy of `utils/grpc.go` may send it twice, and the second is refused),
QueryOk/QueryFailed/QueryMissing, GetPackets, RemoteError; Block and Index are
the chain's.

| Run | Instance | Shows |
|---|---|---|
| MCCosmosTx | 2 transfers, 2 relays | SentOnce; RefusedForPending: a sequence is refused only for another transaction that came in between; SoleUserRejectedAfterLoss: in an account that only transfers, or only relays, only after a call gave up on a transaction; implements Submission |

There is no liveness run: submitTx has no loop, each of its steps is one call.

## Distribute (`Distribute`)

One process that loops over the recipients in any order (`Pick`), reads the
balance (`GetBalance`), and sends what is missing (`AccountInfo`, `Broadcast`,
`Receipt`). `waits`, either value of which is an initial state, tells the chain:
Ethereum's Send waits for the receipt, Cosmos's returns after CheckTx. `Block` executes the sender's next
transaction. `Start` may run the command again, with another minimum, `MaxRuns` times.

Ethereum's side computes with big.Ints throughout. Cosmos's Send converts the
amount with `Int64()` (send.go:39): `AmountSent` is the low 64 bits of
`AmountToSend` read as a signed number, `Word` being 2^64. A negative one makes
NewInt64Coin panic, which ends the command (AccountInfo); zero is dropped by
NewCoins, and the transfer of nothing fails in its block. A balance beyond an
int64 makes GetBalance panic (cosmos.go:84, `Overflows`).

| Run | Instance | Shows |
|---|---|---|
| MCDistribute | sender and 2 recipients, two runs, either chain, WF of the command and of blocks | CompletedMeansFunded (where Send waits); NeverOverfunded (runs that start with nothing pending); CompletedFundsEventually, on either chain: all wallets but those that missed more than an int64 get the minimum, unless the sender is left with less than one minimum |

Two recipients make an order, and a first one whose pending transaction is in the
way of the second; two runs make a command that starts while the transactions of
an earlier one are pending. `Word` is 8, so that an int64 is -4 .. 3, and the
minimum 3 or 9: with the first one every amount fits, and with the second one
what a wallet misses becomes negative (6, 7), zero (8) or one (9). `Holdings` has
balances below, at and above a minimum and one that is no int64; `Funds` has a
sender with nothing, with too little for both wallets, and with plenty.
The 12 seconds the command sleeps between wallets are no guarantee and are not
modelled as one: a block may or may not come in between. On Cosmos that makes
the second broadcast of a run refused (BroadcastRejected), as it would be.

## generate-wallet (`GenerateWallet`)

Each invocation is a process with its arguments and its configuration in
memory; `file` is the configuration file. `LoadConfig`, `Generate` (ToNetwork's
and the command's checks, the update in memory), `Rename` or `Truncate` and
`Write` (the two ways SaveConfig replaces the file, config.go:69-106), `Fund`,
`FundErr`, `NoFunding`; `Kill` at any moment. `sameFilesystem`, either value of
which is an initial state, tells whether the temporary file can be renamed;
`overlap` records whether two invocations ever ran at once.

| Run | Instance | Shows |
|---|---|---|
| MCGenerateWallet | 2 invocations, 2 chains, 2 IDs | FileStaysWhole where it is renamed, whoever overlaps and is killed; CompletedIsSaved unless invocations overlapped; FundedKeyIsKept where it is renamed and they did not |

Two IDs and two chains let an ID be used by two chains; two invocations overlap,
or the second finds what the first left behind. Key derivation is not modelled: a process generates
"its" key.

## Log and TUI (`Tui`)

Goroutines call the logger and UpdateMainStatus/UpdateMainErrorStatus; each is a
`Program.Send`, a rendezvous with the event loop (`Send` needs `loop =
"select"`), which blocks before the program runs and is dropped once it has
stopped. `WriteLock`, `Send`, `AppendToFile` are IBCLogWriter.Write
(logging.go:73-89). The loop alternates Update and View (model.go); the Runner
(`run` of the script) writes its StatusModel directly, without a lock:
UpdateStatusBegin/End bracket the write of a string, and a View in between may draw
the old one, the new one, or `Torn`.

| Run | Instance | Shows |
|---|---|---|
| MCTui | 2 loggers with 1 call each, 1 status text, LiveSpec | ShownInFileOrder, FiledIsShown, ViewportHasLogs; CallsReturn: every call returns although those before Run block, one with the mutex; LastStatusIsShown: what was set last is drawn in the end |

Fairness: goroutines run, mutex and rendezvous serve every waiter (SF), the
ticker ticks and bubbletea reports the terminal's size once; nobody presses a
key. `MaxCalls` and `MaxTexts` bound what is called; the two entries of two loggers are
what an order needs. A goroutine is at one step at a time, so that one fairness
condition for all its steps is the same as one for each.

## Packets and receipts (`Packets`)

A transaction is a sequence of IBC messages of version 1 or 2 that send a packet
or not. `GetPackets` is that of the source chain: version detection from the
first message, then one of two parsers (`chains/cosmos/events.go`), or the first
SendPacket event (`chains/ethereum/events.go`, `packet.go`). `IsPacketReceived` asks the
destination by client and sequence; `Relay` is the relay command. `Counterparty`
swaps the two clients in the configurations, so that each ID is used on both chains for
different connections, the case in which source and destination are easily confused.

| Run | Instance | Shows |
|---|---|---|
| MCPackets | either chain (`source`), two transactions of one or two messages of either version (Ethereum: version 2) | ParsedIsSent, SeenIsReceived, RelayedIsReceived, TransferredIsAcked |

Two messages make transactions with two packets, of two versions, or of which only
the second sends; two transactions make equal sequences on different clients.

TransferWithRelay (`chains/network/network.go`:82-117) is SendTransfer, RelayTransfer
and RelayAck: two calls of Relayer.Relay (`cmd/ibc/relayer/relayer.go`), the second one with
the clients swapped and the hash of the first one's transaction. `transfer` tells
how far each is, `written` which packets its first relay's transaction received,
and so has acknowledgements of, `acked` which acknowledgements the source has.
Receive and Acknowledge are other relayers, who may be faster at either
point. A packet that another relayer has brought has its acknowledgement in
that relayer's transaction: the second Relay then finds nothing to relay and
fails (TransferFails), and nil is never returned for it. TransferredIsAcked says
so. The 30 seconds between the two relays are no guarantee of anything and are
not modelled. There is no liveness: nothing is retried.

## Local testnet (`Localnet`)

Calls of SpinUpEthereum (`localnet/ethereum/ethereum.go`), one after another or
at once, against one engine. `enclaves` are those that exist; all have the one
name the code gives them, so that an element stands for the call that made it.
`listed` and `left` are a call's list of enclaves and the rest of its loop;
`elapsed`, `request` and `tries` its place in WaitForCondition
(`utils/wait.go`) and in the beacon client's `retry`; `final` what its chain has
finalized and `slot` what it was told; `contracts` what is on its chain and
`addresses` what DeployIBC said.

| Action | Code |
|---|---|
| SpinUpEthereum, GetEnclaves, DestroyEnclave, CreateEnclave, AnswerLost | ethereum.go:39-65; a request to the engine may take effect and fail |
| RunStarlark | 67-95: the nodes start, the ports are read |
| Poll, TimeOut | wait.go:12-31: the two cases of its select, either of them when both are ready |
| GetFinalizedBlocks, BlockNotFinalized, GetBeaconBlockHeader, GetBootstrap | the condition, ethereum.go:97-121 |
| Retry | beaconapi/client.go:69-82: pause, and give up after the last attempt, to the next poll |
| Connect, DeployIBC, GetIBCApp | NewEthereumWithDeploy, chains/ethereum/ethereum.go:37-84, and solidity.go:40-132 |
| Fails, Dies | an error return or a panic; a kill, or the panics of Destroy and DumpLogs |
| Finalize | external: the chain |

What it relies on: the ports of an enclave are not used again while another call
knows them, so that a request to an enclave that is gone fails. forge may
put any of the contracts on the chain and end in any way; what it prints
need not be there (see [below](#disagreements-found)).

| Run | Instance | Shows |
|---|---|---|
| MCLocalnet | 2 calls, with and without WaitForFinalization, Timeout 3, Interval 2, RetryWait 1, Retries 2 | ReturnedIsReady: the router is there although DeployIBC's error is dropped, because GetIBCApp asks it; LeftoversAreGone: no enclave that a call found exists beside its own; PollIsBounded: the wait exceeds its deadline by the retries of one poll; SpinUpReturns: every call returns |

Bounds: time is what a call sleeps, in units. In the code, with a unit of five
seconds, Timeout is 360, Interval 1, RetryWait 2 and Retries 60, so that
PollIsBounded is 30 minutes and at most 30 more. The duration of requests is
not counted. The run's values let a wait end by its timeout on time, with both
cases of the select ready at once or not, and after a poll that overshoots it. Two calls are enough
for one to find, and to destroy, the enclave of the other at any point of its
start; MaxSlot 1 tells genesis from what comes later. The theorems
need none of these bounds. CHECK_DEADLOCK is off: calls end.

Fairness: weak, of all steps of a call together. Each step is a sleep or a request that is
answered or fails; a request that a server accepts and never answers would
hang the call, since the http client has no timeout. Nobody has to call, and the chain need
not finalize: the wait then ends by its timeout.

## What is proved

| Theorem | Statement |
|---|---|
| SpecIInv (RelayerQueueProofs) | Spec => []IInv for every set of packets and goroutines, queueSize >= 1, either mode |
| SpecTypeOK | its types; currentlyRelaying is never negative |
| SpecPacketPlacement, SpecCompletedAreReceived | its parts that the run checks |
| SpecBatchesAreFull | no batch that waits for its relay is empty or short |
| SpecFlushWaitIsComplete, SpecFlushRelayIsComplete | what a nil from either path of Flush vouches for |
| SpecFlushIsComplete | with queueSize 1, a nil from Flush vouches for everything |
| SpecNobodyIsStuck | the calls and the batches never all wait for each other |
| SpecImplementsLedger | RelayerQueue implements PacketLedger |
| ScriptImplementsLedger (LoadScriptProofs) | the script implements PacketLedger |
| SpecScriptInv, SpecScriptTypeOK | the script's inductive invariant, for any number of wallets and packets and any queue and channel size; its types |
| SpecClosedIsFinal, SpecProgressIsMonotone, SpecProgressIsTrue | no send after the close; the workers' updates are in order; no update claims more than is true |
| SpecDoneMeansRelayed | if queueSize divides the number of transfers, done means that all packets are relayed |
| SpecScriptIsNotStuck | until the main goroutine has ended somebody can go on, unless the reader has left at an error and the channel is full |
| SpecIInv, SpecSentOnce, SpecKeepsPromise (EthTxProofs, CosmosTxProofs) | for any number of calls that share an account, each transaction is sent once, and EthTx and CosmosTx implement Submission |
| SpecUseInv, SpecTypeOK, SpecRevertsOnlyAfterLoss, SpecSoleUserNeverRejected (EthTxProofs) | a transfer reverts for its allowance, and a nonce of a wallet with one user is refused, only after the losses the properties name |
| SpecUseInv, SpecSoleUserRejectedAfterLoss, SpecRefusedForPending (CosmosTxProofs) | when a sequence is refused, and for whose sake |
| SpecCompletedMeansFunded (WalletProofs) | for any number of wallets, and of runs with any minimums, distribute on a chain whose Send waits reports completion only when all wallets have the minimum |
| SpecNeverOverfunded | for any number of wallets and any word size, a run that starts with nothing pending lifts nobody above its minimum, whether or not Send waits |
| SpecFileStaysWhole (WalletProofs) | where the temporary file can be renamed the configuration file is whole at every moment, for any number of processes that overlap and are killed |
| SpecCompletedIsSaved | an invocation that completes has left its wallet in the file, renamed or copied, if no two have overlapped |
| SpecFundedKeyIsKept | where the file is renamed and no two have overlapped, no money is at a key that is lost |
| SpecIInv (PacketsProofs) | the inductive invariant of Packets, for any clients and number of transactions |
| SpecParsedIsSent, SpecSeenIsReceived, SpecRelayedIsReceived, SpecTransferredIsAcked | what the run of Packets checks |
| SpecLogInv (TuiProofs) | the inductive invariant of the log writer and the TUI, for any number of goroutines that log and any number of calls |
| SpecShownInFileOrder, SpecFiledIsShown, SpecViewportHasLogs | the safety properties that the run of Tui checks |
| SpecIInv (LocalnetProofs) | the inductive invariant of SpinUpEthereum, for any number of calls and any deadline, interval, pause and number of attempts |
| SpecReturnedIsReady, SpecLeftoversAreGone, SpecPollIsBounded | what the run of Localnet checks |

*The queue.* PacketPlacement is not inductive: whether a packet that is added can
already be somewhere depends on the other pending Adds (PendingAdds); whether
Flush may reset the queue on success depends on nobody having changed it since
it looked, which the mutex guarantees (LocksAgree, FlushSees); that a relay
only reports received packets depends on what the receipt loop has kept
(RelayLocals), which also keeps `currentlyRelaying` from becoming negative;
that a Flush that waited vouches for everything depends on `dropped` being
empty when the errgroup has no error (Accounting). `IInv` is the conjunction of these with
TypeOK and the three properties. There is one lemma per action, with one step
per conjunct. The places of PacketPlacement are sets whose cardinalities are
added and subtracted, so that the lemmas first show them finite (PlacesAreFinite).
The assumptions are the module's: queueSize is positive, the lock owners' names
differ from each other. Nothing is assumed about Packets and Clients, not even
that they are finite.

*The ledger.* The refinement mapping is `LedgerStatus`; the two steps that are not
stutters of it, apart from Add and Deliver, are RelayOk (Complete of the batch)
and BatchErr (Abandon).

*Nobody is stuck.* `CanStep` and `BatchCanStep` are the guards of the queue's
steps, made stricter by what Go's RWMutex adds: a reader waits as long as a
writer waits. If no batch can go on, relayMutex is free and no batch waits, or a
Flush holds it and can go on; the holder of queueMutex, which then waits for neither, can go
on; and if nobody holds queueMutex, whoever wants it can have it. As ENABLED is
beyond the prover, that the guards are those of the actions is checked with TLC:
`CanStepIsEnabled` of MCRelayerQueue and MCLoadScript, which hold as INVARIANTs of the
modules' configurations. NobodyIsStuck is the part of CallsReturn that needs no fairness.

*The script as a user of the queue.* LoadScript is composed of the queue's actions,
so that each of its steps is a step of the queue or leaves the queue's variables
alone (the lemma ScriptImplementsQueue). That says nothing about the script; it
carries the queue's theorems over to it, the refinement of PacketLedger and the
invariant IInv, which the proofs below use.

*What the script says.* `ScriptInv` says where the goroutines can be at once:
which step a worker is at agrees with who holds aToBUpdateMutext and with its
call of the queue (StepsAgree, CallsAgree), and the main goroutine comes after the workers.
Counters are compared with sets: the transfers of the script are the pairs of
a worker and a number up to NumPackets, and transferCompleted is the number of
those pairs each worker has got through (CountsAgree), so that no sum over the
workers is needed. An update in the channel is older than the one that the
holder of the mutex is about to send (UpdatesAgree), hence ProgressIsMonotone; what
Status returned stays true as packets stay relayed (SeenIsTrue), hence ProgressIsTrue.
DoneMeansRelayed needs `DoneInv`: what has left the queue is a multiple of
queueSize (BatchesDivide). With all transfers accepted, a rest that is less than
queueSize is then nothing, Flush waits for the errgroup, and its nil vouches for
everything (the lemma behind SpecFlushWaitIsComplete). The hypothesis of the theorem, that
queueSize divides the number of transfers, is the one under which the program's
claim is true; MCLoadScriptDone shows that it is needed. Of the goroutines it
is assumed that they are finitely many, of the packets that there are as many as transfers.

ScriptIsNotStuck needs besides that a goroutine which waits for an answer of
the queue has called it, that the reader does not leave for "done" before the
end, and that before Flush currentlyRelaying is what is relayed or dropped
(WaitsAgree): the last shows that `MaxLeaked` is no bound for the script. It is
the part of MainEnds that needs no fairness.

*The Ethereum wallet.* SentOnce needs that a call which sends a transaction has
not sent it before, although it may be anywhere in the pool or mined, with
others replacing it. The call's phase and stage tell: what is Sent belongs to a
call that got beyond sending it (PhasesAgree), an approval to one that may be
busy with its transfer by now. A mined transaction that takes effect therefore
belongs to a call that was issued, and takes effect for the first time, which
is Submission's TakeEffect; a call returns nil only from a phase in which its
main transaction is mined successfully. The invariant does not bound nonces:
which transaction replaces which does not matter to it.

The other two properties need a second invariant, `UseInv`. As long as no
transfer has been given up, the only transfer's transaction in the pool is that
of the running call (AllowanceKept), since a worker makes one call after
another; so nothing can use up an allowance between its approval, or its
reading, and its use. The nonce a sole user has read stays free until it is used
(NonceKept), because nothing else enters the pool meanwhile. PendingNonce is a
CHOOSE of the least free nonce; that there is one is a pigeonhole argument over
the finite pool (PendingNonceIsFree) and the least-number principle for one set
(LeastNumber), which follows from the well-foundedness of strict inclusion of finite sets.

*The Cosmos account.* SentOnce and the promise need that a call which sends has
not sent before, although its transaction may be anywhere between the mempool
and an index that lags behind. Its phase tells: what is in the mempool or in a
block belongs to a call that got beyond sending (PhasesAgree). And a
transaction's sequence is never newer than the last block (SequencesAreOld), so
the node takes it only into an empty mempool; a block therefore takes one
transaction at most, which is why each of its steps is one step of Submission.
The first conjunct of SequencesAreOld is the whole reason why `RefusedForPending`
refusals exist. The mapping is `effect <- {o : InBlock(o, 0)}`. Of the
assumptions only that of UseInv is used, that no call is both a transfer and a relay.

Which sequences are refused is a second invariant, `UseInv`. The sequence a call
signs with is at least the number of blocks when it was issued
(SequencesAreNew): one that is refused is so because of the mempool or of a
block that came later, RefusedForPending. That a block's transaction is
not the refused call's own follows from PhasesAgree. Until somebody gives up on a transaction, what a sole user has
pending is what its running call waits for (SoleUserInStep), so that the next call
finds the mempool empty.

*Distribute.* CompletedMeansFunded needs that each visited wallet has the
minimum, and for the wallet being visited that the receipt which Send waits for
is that of the amount this iteration lacks (ReceiptIsMine): its transaction may
be behind those an earlier run has left pending, and blocks may take some of
them in between. Recipients' balances only grow (BalancesGrow), so a balance
that was read is a lower bound. It is about chains whose Send waits: on Cosmos the
command completes while transfers are pending. NeverOverfunded needs that each
recipient has one pending transaction at most, which still fits on top of the
balance of the last block (PendingFits), and that the conversion to an int64 never
makes an amount larger (Int64Bound). PendingFits is false in a run on Cosmos that
starts while transfers of an earlier one are pending, of which the property does
not speak; the history variable `clean` tells them apart. The theorems use the
assumptions on the constants only: the sender is a wallet, amounts are natural
numbers, Word is positive.

*The file.* FileStaysWhole needs that what a process is about to write is whole,
which it is because Generate adds an ID together with its key (AddedIsWhole).
CompletedIsSaved needs that a process which has the file to itself writes what
it added (SavedInv): any step but LoadConfig is one of a running process, and
LoadConfig either finds nobody running or makes `overlap` true. FundedKeyIsKept
needs in addition that the file does not change between an invocation's
LoadConfig and its SaveConfig, so that what it writes is the file with its own
wallet added (KeysAreKept). Since the ID was not listed on its chain, the key
that it replaces belongs to no wallet or to one of another chain, which is the
exception FundedKeyIsKept makes.

*Packets.* The parsers select from a transaction's messages. The library's
SelectSeq is defined by a recursion that the prover does not unfold; `Picked` of the
model is the same selection without one: the k-th element that is picked is at
the place with k picked places up to it. PlaceExists shows that there is one,
and PickedFrom, PickedAll and SentFrom what is picked, and in which order.
ParsedIsSent is then a fact about the parsers and ParsedAgrees, that `parsed` is what the
parser returned for its transaction. SeenIsReceived needs that the packets of
version 2 that are found, and those received, have both their clients as
Counterparty has them (TypeOK); as Counterparty is injective (ClientsAssumption:
a client is the counterparty of one client), equal destination and sequence
make equal packets, even if the two chains use the same names. TransferredIsAcked
needs that a transfer of TransferWithRelay is one packet that its first relay has
received, and that acknowledgements in that relay's transaction are its own
(TransfersAgree), whatever has been relayed by others.

*The log and the TUI.* Two logs grow at different times: an entry is handed to
the event loop first, which shows it with its next Update, and is appended to
the file after that, unless the write fails. The invariant therefore does not speak of
the log area but of `LogsToCome`, the area with the entry the loop has in hand,
which an Update leaves as it is. Whoever is between the lock and the append holds the
mutex (HolderWrites), so that nobody sends while another one has yet to append:
the entry that AppendToFile appends is the last one that was sent, or was dropped
because the program has stopped (SentIsLast). As no call's entry is written
twice (WrittenOnce: an entry is that of an earlier call of its goroutine, or of the
present one in a phase after it was sent or filed), a new last entry of the file
comes after all others in both logs (FileKeepsOrder), and so does a new last
entry of the log area (SendKeepsOrder). FiledIsSent holds because an
entry is dropped only when the program has stopped, for good: the loop starts
once, with Run (OffUntilRun). ViewportHasLogs is inductive given the types. The theorems
use the module's assumptions on names and bounds only.

*The local testnet.* LeftoversAreGone needs that an enclave which a call found was
made by a call that has got beyond creating its own (Makers), and hence does
not come again once it is destroyed: the loop leaves nothing behind although
others create enclaves while it runs (EnclavesAgree). PollIsBounded is not
inductive, since it says nothing of how much of a poll is still to come:
SleepIsAccounted bounds the sleep by the deadline, the retries of the requests
of this poll that are behind and the attempts of the present one. ReturnedIsReady
needs that what a call was told of its chain is no later than what the chain has
finalized (SlotsAgree). The one arithmetical fact, that three requests sleep at most
3 * Retries * RetryWait, is the lemma ThreeSpans. The assumption is the module's.

The inductive invariants (IInv of the queue, of EthTx, CosmosTx, Packets and
Localnet, ScriptInv, WaitsAgree and, where queueSize divides the transfers, DoneInv of the script, UseInv of EthTx and
CosmosTx, LogInv, FundedInv, OneRunInv, WholeInv, SavedInv, KeyInv) and the type
invariants are definitions of the modules, so that TLC can check them as well:
add one as an INVARIANT to the module's cfg (for Packets, with a set in the
place of Nat). The runs check the properties they are for.

Model-checked only: the liveness properties (CallsReturn of the queue and of
Tui, BatchesFinish, MainEnds, CompletedFundsEventually, LastStatusIsShown,
SpinUpReturns), which need fairness and ENABLED, and the equivalence of
CanStep with ENABLED (CanStepIsEnabled). Every safety invariant and
action property of a passing run is a theorem. The two violations are
counterexamples and need no proof.

The proofs of GenerateWallet and Distribute are in one module: the two share no
constant, variable or assumption, and neither part cites a fact of the other. Since
one module extends both, Distribute calls its specification DistributeInit,
DistributeNext and DistributeSpec, as LoadScript does with ScriptInit.

## Disagreements found

Each is a run that TLC ends with a counterexample to what the code, a comment or
a help text says.

| Run | The program says | It does |
|---|---|---|
| MCLoadScriptDone | "Queue flushed successfully", all packets completed | Flush has relayed the rest while full batches still wait, or fail later |
| MCLoadScriptCompleted | "All transfers and relays completed successfully" | also after an error: `run` returns nil for one, and Wait's error is overwritten in the status |

Other things the models show that a user might not expect; the properties are
stated so that they except them, by name, or leave them open:

- withRetry repeats a transfer whose result was lost (loadscript.go:91), so that a wallet sends more
  than the "Number of packets to send per wallet" (script.go:155), and nobody
  relays the first packet. Submission's Fail leaves open whether the effect is on
  the chain.
- A relay that fails leaves its packets in `currentlyRelaying`
  (relay_queue.go:120, 169), which the script logs. RelayErr models it.
- `--extra-gwei` is read and never added to the gas price (tx.go:101). The model's
  gas price is the suggested one.
- On Cosmos distribute completes while its transfers are pending, or although one
  fails later (hence `waits` in CompletedMeansFunded); run again meanwhile, it
  reads the old balances and sends everything twice (hence `clean` in
  NeverOverfunded).
- On Cosmos a wallet that misses 2^63 or more base units is sent the low 64 bits of
  the amount (chains/cosmos/send.go:39): the transfer may succeed, the run
  completes and the wallet stays below the minimum; or nothing is sent and the
  transfer fails in its block; or the command panics (hence `Truncated` in
  CompletedFundsEventually: without it TLC finds the first case, a wallet with
  nothing that misses 9 and is sent 1).
- SaveConfig's fallback for a temporary directory on another file system
  truncates the file first: a kill leaves an empty one (hence `sameFilesystem` in
  FileStaysWhole).
- Two invocations of generate-wallet that overlap lose one of their wallets, even
  a funded one (hence `overlap`).
- generate-wallet refuses an ID that the same chain has; with the ID of another
  chain's wallet it replaces that wallet's key (KeyIsKept's second disjunct).
- On Ethereum GetPackets finds the first packet of a transaction only, and the
  relay command's check for one packet never fails (hence `Supported`).
- WaitForCondition may find its condition true after its timeout, which its
  comment excludes (wait.go:9-11), if the poll that finds it began before.
- NewEthereumWithDeploy overwrites the error of DeployIBC (ethereum.go:59-65).
  ReturnedIsReady holds because GetIBCApp asks the router; the helper's address is asked by
  nobody, may be empty, and is not in the property. As it stands forge is
  called with the flag `--broadcaoast` (solidity.go:69) and a deployer that was
  generated a moment ago and has no funds (ethereum.go:49-53), so that the deployment will hardly
  succeed; the model has both outcomes.
- An enclave is left running by every error return and by every kill, and the
  next call destroys it. Destroy and DumpLogs of the returned chain dereference
  `enclaveCtx`, which SpinUpEthereum does not set (ethereum.go:152-158); `Close` of the
  beacon client calls a `cancel` that is never set (client.go:34).
- TransferWithRelay fails for a transfer that has arrived if another relayer was
  faster, or if its own transaction's answer was lost.

## What is not modelled

- BuildNetwork and GetChain (`chains/network/network.go`): a map that is filled once.
- Constructors, getters, codecs and key derivation of the chains (except
  NewEthereumWithDeploy); the generated bindings, the protobuf and gRPC code, the
  beacon API's types and those of its requests that nobody makes.
- What the local testnet starts (Kurtosis, the nodes, forge, operator), and
  DumpLogs beyond its panic, which prints.
- The transfer command's arguments; its use of the queue is the script's with
  queueSize 1 (MCLoadScriptLive), that of the TUI is the action Call of Tui.
- `balance`, `trace`, flag parsing: a query and its output.
- Of the TUI: layout, styles, the spinner; a key that does not quit only brings the
  bars up to date, as a resize of a viewport that exists does.
- Amounts that the transfer itself cannot carry on Ethereum: a minimum of 2^256
  and more, which no balance reaches, and of which the ERC20 encoding keeps the
  low bits. The fee of a transaction, which on Cosmos may be in the denomination
  that is distributed; a sender that cannot pay it is one whose broadcast fails
  (Failure).
- Time, but for the sleep in Localnet. A timeout is a step that may happen; how long
  anything takes is left out.

External, and modelled by what the code relies on: the relayer (nil means that
its transaction landed with the whole batch), the nodes, bubbletea's event
loop, the file system's rename.

## Plan

| | Modules | State |
|---|---|---|
| A | PacketLedger, RelayerQueue, RelayerQueueProofs | done |
| B | LoadScript, LoadScriptProofs | checked and proved |
| C | Submission, EthTx, EthTxProofs, CosmosTx, CosmosTxProofs | checked and proved |
| D | Distribute, WalletProofs | checked and proved |
| E | GenerateWallet, WalletProofs | checked and proved |
| F | Packets, PacketsProofs, with TransferWithRelay and Relayer.Relay | checked and proved |
| G | Tui, TuiProofs | checked and proved |
| H | Localnet, LocalnetProofs: WaitForCondition, the beacon client's retries, the deployment | checked and proved |

Two directions of the script that share an account are not composed with EthTx and
CosmosTx: what they have in common is the account, and those modules have
every overlap of its transfers and relays already.

The order is that of importance: first what loses or doubles packets, then what
the script tells its user, then what moves money and keys, then what is
displayed, then what tests need.
