---------------------------- MODULE CosmosTxProofs ----------------------------
(***************************************************************************)
(* Proofs about CosmosTx for any number of transfers and relays: each      *)
(* transaction is sent once, the calls keep Submission's promise, and a    *)
(* sequence is refused only for what is pending or was given up on.        *)
(***************************************************************************)
EXTENDS CosmosTx, SequenceTheorems, TLAPS

\* A transaction GetTx finds is in a block.
LEMMA IndexedIsInBlock ==
  ASSUME TypeOK, NEW o, NEW code, Indexed(o, code)
  PROVE  InBlock(o, code)
<1>1. PICK i \in 1..indexed : blocks[i] = [op |-> o, code |-> code]
  BY DEF Indexed
<1>2. i \in DOMAIN blocks
  BY <1>1, LenProperties DEF TypeOK
<1> QED
  BY <1>1, <1>2 DEF InBlock, ToSet

\* The transactions in blocks are those InBlock knows.
LEMMA SentIsInBlock ==
  ASSUME TypeOK, NEW i \in DOMAIN blocks
  PROVE  \E code \in 0..1 : InBlock(blocks[i].op, code)
<1>1. i \in 1..Len(blocks)
  BY LenProperties DEF TypeOK
<1>2. blocks[i] \in [op : Ops, code : 0..1]
  BY <1>1, ElementOfSeq DEF TypeOK
<1>3. blocks[i] \in ToSet(blocks)
  BY DEF ToSet
<1> QED
  BY <1>2, <1>3 DEF InBlock

\* The invariant holds before the first call.
LEMMA InitIInv == Init => IInv
<1> SUFFICES ASSUME Init PROVE IInv
  OBVIOUS
<1>1. mempool = <<>> /\ blocks = <<>> /\ ToSet(mempool) = {} /\ ToSet(blocks) = {}
  BY DEF Init, ToSet
<1>2. TypeOK
  BY <1>1, EmptySeq DEF Init, TypeOK, Phases
<1>3. SequencesAreOld
  BY <1>1 DEF Init, SequencesAreOld
<1>4. PhasesAgree
  BY <1>1 DEF Init, PhasesAgree, InBlock
<1>5. SentOnce
  BY <1>1 DEF Init, SentOnce, IsInjective
<1> QED
  BY <1>2, <1>3, <1>4, <1>5 DEF IInv

\* A step that leaves the chain alone keeps the invariant if it takes a call
\* to a phase and an outcome that go together.
LEMMA CallMoves ==
  ASSUME IInv, NEW o \in Ops, NEW to \in Phases,
         NEW r \in {"none", "running", "ok", "error"},
         phase' = [phase EXCEPT ![o] = to],
         outcome' = [outcome EXCEPT ![o] = r],
         UNCHANGED <<mempool, blocks, indexed>>,
         TypeOK', SequencesAreOld',
         to # "idle", r # "none",
         r = "running" <=> to # "returned",
         phase[o] \in {"query", "packets", "returned"}
           => to \in {"query", "packets", "returned"},
         to = "packets" \/ r = "ok" => InBlock(o, 0)
  PROVE  IInv'
<1>1. PhasesAgree'
  BY DEF IInv, TypeOK, PhasesAgree, InBlock
<1>2. SentOnce'
  BY DEF IInv, SentOnce
<1> QED
  BY <1>1, <1>2 DEF IInv

\* The steps of a call that send nothing.
LEMMA QuietStep ==
  ASSUME IInv, NEW o \in Ops,
         \/ Call(o) \/ AccountInfo(o) \/ BroadcastRejected(o) \/ QueryOk(o)
         \/ QueryFailed(o) \/ QueryMissing(o) \/ GetPackets(o)
         \/ RemoteError(o)
  PROVE  IInv'
<1>0. Len(blocks) \in Nat /\ Len(mempool) \in Nat
  BY LenProperties DEF IInv, TypeOK
<1>1. CASE Call(o)
  <2>1. TypeOK' /\ SequencesAreOld'
    BY <1>0, <1>1 DEF Call, Goes, chainVars, lossVars, IInv, TypeOK, Phases,
                      SequencesAreOld
  <2> QED
    BY <1>1, <2>1, CallMoves DEF Call, Goes, chainVars, Phases
<1>2. CASE AccountInfo(o)
  <2>1. TypeOK' /\ SequencesAreOld'
    BY <1>0, <1>2 DEF AccountInfo, NewSequence, BlockSequence, Goes, chainVars,
                      historyVars, lossVars, IInv, TypeOK, Phases,
                      SequencesAreOld
  <2>2. outcome[o] = "running" /\ outcome' = [outcome EXCEPT ![o] = "running"]
    BY <1>2 DEF AccountInfo, Goes, IInv, TypeOK, PhasesAgree
  <2> QED
    BY <1>2, <2>1, <2>2, CallMoves DEF AccountInfo, Goes, chainVars, Phases
<1>3. CASE BroadcastRejected(o) \/ QueryFailed(o) \/ QueryMissing(o)
             \/ RemoteError(o)
  <2>1. \E from \in Phases : Returns(o, from, "error")
    BY <1>3 DEF BroadcastRejected, QueryFailed, QueryMissing, RemoteError,
                Phases
  <2>2. /\ UNCHANGED <<sequence, mempool, blocks, indexed, began>>
        /\ lost' \subseteq Ops /\ rejected' \subseteq Ops
    BY <1>3 DEF BroadcastRejected, QueryFailed, QueryMissing, RemoteError,
                chainVars, historyVars, lossVars, IInv, TypeOK
  <2>3. TypeOK' /\ SequencesAreOld'
    BY <1>0, <2>1, <2>2 DEF Returns, Goes, IInv, TypeOK, Phases,
                            SequencesAreOld
  <2> QED
    BY <2>1, <2>2, <2>3, CallMoves DEF Returns, Goes, Phases
<1>4. CASE QueryOk(o)
  <2>1. InBlock(o, 0)
    BY <1>4, IndexedIsInBlock DEF QueryOk, Successful, IInv
  <2>2. UNCHANGED <<sequence, mempool, blocks, indexed, began, lost, rejected>>
    BY <1>4 DEF QueryOk, chainVars, historyVars, lossVars
  <2>3. CASE o \in Transfers
    <3>1. TypeOK' /\ SequencesAreOld'
      BY <1>0, <1>4, <2>2, <2>3 DEF QueryOk, Goes, IInv, TypeOK, Phases,
                                    SequencesAreOld
    <3>2. outcome[o] = "running" /\ outcome' = [outcome EXCEPT ![o] = "running"]
      BY <1>4, <2>3 DEF QueryOk, Goes, IInv, TypeOK, PhasesAgree
    <3> QED
      BY <1>4, <2>1, <2>2, <2>3, <3>1, <3>2, CallMoves DEF QueryOk, Goes, Phases
  <2>4. CASE o \notin Transfers
    <3>1. TypeOK' /\ SequencesAreOld'
      BY <1>0, <1>4, <2>2, <2>4 DEF QueryOk, Returns, Goes, IInv, TypeOK,
                                    Phases, SequencesAreOld
    <3> QED
      BY <1>4, <2>1, <2>2, <2>4, <3>1, CallMoves DEF QueryOk, Returns, Goes,
                                                     Phases
  <2> QED
    BY <2>3, <2>4
<1>5. CASE GetPackets(o)
  <2>1. InBlock(o, 0)
    BY <1>5 DEF GetPackets, Returns, Goes, IInv, PhasesAgree
  <2>2. UNCHANGED <<sequence, mempool, blocks, indexed, began, lost, rejected>>
    BY <1>5 DEF GetPackets, chainVars, historyVars, lossVars
  <2>3. TypeOK' /\ SequencesAreOld'
    BY <1>0, <1>5, <2>2 DEF GetPackets, Returns, Goes, IInv, TypeOK, Phases,
                            SequencesAreOld
  <2> QED
    BY <1>5, <2>1, <2>2, <2>3, CallMoves DEF GetPackets, Returns, Goes, Phases
<1> QED
  BY <1>1, <1>2, <1>3, <1>4, <1>5

\* A transaction is sent only into an empty mempool: its sequence is that of
\* a block, and the node takes the next after the mempool's.
LEMMA SentIntoEmpty ==
  ASSUME IInv, NEW o \in Ops, Broadcast(o) \/ BroadcastLost(o)
  PROVE  mempool = <<>> /\ mempool' = <<o>>
<1>0. Len(blocks) \in Nat /\ Len(mempool) \in Nat
  BY LenProperties DEF IInv, TypeOK
<1>1. mempool = <<>>
  <2>1. sequence[o] = Len(blocks) + Len(mempool) /\ sequence[o] <= Len(blocks)
    BY DEF Broadcast, BroadcastLost, CheckSequence, IInv, SequencesAreOld
  <2>2. Len(mempool) = 0
    BY <1>0, <2>1
  <2> QED
    BY <2>2, EmptySeq DEF IInv, TypeOK
<1>2. mempool' = <<o>>
  BY <1>1 DEF Broadcast, BroadcastLost
<1> QED
  BY <1>1, <1>2

\* Sending keeps the invariant.
LEMMA SendStep ==
  ASSUME IInv, NEW o \in Ops, Broadcast(o) \/ BroadcastLost(o)
  PROVE  IInv'
<1>1. mempool = <<>>
  BY SentIntoEmpty
<1>2. mempool' = <<o>>
  BY SentIntoEmpty
<1>3. /\ mempool' \in Seq(Ops) /\ Len(mempool') = 1 /\ ToSet(mempool') = {o}
      /\ ToSet(mempool) = {}
  BY <1>1, <1>2 DEF ToSet
<1>4. /\ UNCHANGED <<sequence, blocks, indexed, began, rejected>>
      /\ lost' \subseteq Ops
      /\ phase[o] = "broadcast"
      /\ \/ /\ phase' = [phase EXCEPT ![o] = "query"]
            /\ outcome' = outcome
         \/ /\ phase' = [phase EXCEPT ![o] = "returned"]
            /\ outcome' = [outcome EXCEPT ![o] = "error"]
  BY DEF Broadcast, BroadcastLost, Returns, Goes, historyVars, lossVars, IInv,
         TypeOK
<1>5. TypeOK'
  BY <1>3, <1>4 DEF IInv, TypeOK, Phases
<1>6. SequencesAreOld'
  BY <1>3, <1>4 DEF IInv, SequencesAreOld
<1>7. PhasesAgree'
  BY <1>3, <1>4 DEF IInv, TypeOK, PhasesAgree, InBlock
<1>8. SentOnce'
  <2>1. IsInjective(mempool')
    BY <1>2 DEF IsInjective
  <2>2. \A i \in DOMAIN blocks : blocks[i].op # o
    <3> SUFFICES ASSUME NEW i \in DOMAIN blocks, blocks[i].op = o PROVE FALSE
      OBVIOUS
    <3>1. PICK code \in 0..1 : InBlock(o, code)
      BY SentIsInBlock DEF IInv
    <3> QED
      BY <1>4, <3>1 DEF IInv, PhasesAgree
  <2> QED
    BY <1>3, <1>4, <2>1, <2>2 DEF IInv, SentOnce
<1> QED
  BY <1>5, <1>6, <1>7, <1>8 DEF IInv

\* A block takes the one transaction that is pending.
LEMMA BlockTakesOne ==
  ASSUME IInv, NEW n \in 1..Len(mempool), Block(n)
  PROVE  \E o \in Ops, code \in 0..1 :
           /\ mempool = <<o>> /\ mempool' = <<>>
           /\ blocks' = Append(blocks, [op |-> o, code |-> code])
           /\ UNCHANGED <<phase, sequence, indexed, outcome, historyVars>>
<1>0. mempool \in Seq(Ops) /\ Len(mempool) \in Nat
  BY LenProperties DEF IInv, TypeOK
<1>1. Len(mempool) = 1 /\ n = 1
  <2>1. Len(mempool) <= 1
    BY DEF IInv, SequencesAreOld
  <2>2. \A m \in Nat : m <= 1 /\ n \in 1..m => m = 1 /\ n = 1
    OBVIOUS
  <2> QED
    BY <1>0, <2>1, <2>2
<1>2. PICK codes \in [1..n -> 0..1] :
        /\ blocks' = blocks \o
             [i \in 1..n |-> [op |-> mempool[i], code |-> codes[i]]]
        /\ mempool' = SubSeq(mempool, n + 1, Len(mempool))
        /\ UNCHANGED <<phase, sequence, indexed, outcome, historyVars>>
  BY DEF Block
<1>3. mempool[1] \in Ops /\ codes[1] \in 0..1
  BY <1>0, <1>1, <1>2, ElementOfSeq
<1>4. mempool = <<mempool[1]>>
  BY <1>0, <1>1, <1>3, SeqEqual
<1>5. mempool' = <<>>
  BY <1>1, <1>2, SubSeqEmpty
<1>6. blocks' = Append(blocks, [op |-> mempool[1], code |-> codes[1]])
  <2> DEFINE taken == [i \in 1..n |-> [op |-> mempool[i], code |-> codes[i]]]
  <2>1. taken = <<[op |-> mempool[1], code |-> codes[1]]>>
    BY <1>1
  <2>2. blocks' = blocks \o <<[op |-> mempool[1], code |-> codes[1]]>>
    BY <1>2, <2>1
  <2> QED
    BY <2>2 DEF IInv, TypeOK
<1> QED
  BY <1>2, <1>3, <1>4, <1>5, <1>6

\* What a block adds to the transactions in blocks.
LEMMA BlockAdds ==
  ASSUME IInv, NEW o \in Ops, NEW code \in 0..1,
         blocks' = Append(blocks, [op |-> o, code |-> code])
  PROVE  /\ Len(blocks') = Len(blocks) + 1 /\ DOMAIN blocks' = 1..Len(blocks) + 1
         /\ blocks' \in Seq([op : Ops, code : 0..1])
         /\ \A i \in 1..Len(blocks) : blocks'[i] = blocks[i]
         /\ blocks'[Len(blocks) + 1] = [op |-> o, code |-> code]
         /\ \A p, c : InBlock(p, c)'
                        <=> (InBlock(p, c) \/ (p = o /\ c = code))
<1>1. blocks \in Seq([op : Ops, code : 0..1]) /\ Len(blocks) \in Nat
      /\ DOMAIN blocks = 1..Len(blocks)
  BY LenProperties DEF IInv, TypeOK
<1>2. /\ Len(blocks') = Len(blocks) + 1 /\ DOMAIN blocks' = 1..Len(blocks) + 1
      /\ blocks' \in Seq([op : Ops, code : 0..1])
      /\ \A i \in 1..Len(blocks) : blocks'[i] = blocks[i]
      /\ blocks'[Len(blocks) + 1] = [op |-> o, code |-> code]
  BY <1>1
<1>3. ToSet(blocks') = ToSet(blocks) \cup {[op |-> o, code |-> code]}
  BY <1>1, <1>2 DEF ToSet
<1>4. ASSUME NEW p, NEW c
      PROVE  InBlock(p, c)' <=> (InBlock(p, c) \/ (p = o /\ c = code))
  BY <1>3 DEF InBlock
<1> QED
  BY <1>2, <1>4

\* A block keeps the invariant.
LEMMA BlockStep ==
  ASSUME IInv, NEW n \in 1..Len(mempool), Block(n)
  PROVE  IInv'
<1>0. Len(blocks) \in Nat /\ DOMAIN blocks = 1..Len(blocks)
  BY LenProperties DEF IInv, TypeOK
<1>1. PICK o \in Ops, code \in 0..1 :
           /\ mempool = <<o>> /\ mempool' = <<>>
           /\ blocks' = Append(blocks, [op |-> o, code |-> code])
           /\ UNCHANGED <<phase, sequence, indexed, outcome, historyVars>>
  BY BlockTakesOne
<1>2. /\ ToSet(mempool) = {o} /\ ToSet(mempool') = {} /\ Len(mempool') = 0
      /\ mempool' \in Seq(Ops)
  BY <1>1 DEF ToSet
<1>3. TypeOK'
  BY <1>0, <1>1, <1>2, BlockAdds DEF IInv, TypeOK, historyVars, lossVars
<1>4. SequencesAreOld'
  BY <1>0, <1>1, <1>2, BlockAdds DEF IInv, TypeOK, SequencesAreOld
<1>5. PhasesAgree'
  <2>1. \A p, c : InBlock(p, c)' <=> (InBlock(p, c) \/ (p = o /\ c = code))
    BY <1>1, BlockAdds
  <2> QED
    BY <1>1, <1>2, <2>1 DEF IInv, PhasesAgree
<1>6. SentOnce'
  <2>1. IsInjective(mempool')
    BY <1>1 DEF IsInjective
  <2>2. \A i \in DOMAIN blocks : blocks[i].op # o
    BY <1>2 DEF IInv, SentOnce
  <2>3. \A i, j \in DOMAIN blocks : blocks[i].op = blocks[j].op => i = j
    BY DEF IInv, SentOnce
  <2>4. /\ DOMAIN blocks' = 1..Len(blocks) + 1
        /\ \A i \in 1..Len(blocks) : blocks'[i] = blocks[i]
        /\ blocks'[Len(blocks) + 1].op = o
    BY <1>1, BlockAdds
  <2>5. \A i, j \in DOMAIN blocks' : blocks'[i].op = blocks'[j].op => i = j
    BY <1>0, <2>2, <2>3, <2>4
  <2> QED
    BY <1>2, <2>1, <2>5 DEF SentOnce
<1> QED
  BY <1>3, <1>4, <1>5, <1>6 DEF IInv

\* Every step keeps the invariant.
LEMMA NextIInv == IInv /\ [Next]_vars => IInv'
<1> SUFFICES ASSUME IInv, [Next]_vars PROVE IInv'
  OBVIOUS
<1>1. CASE \E o \in Ops : Call(o) \/ OpStep(o)
  BY <1>1, QuietStep, SendStep DEF OpStep
<1>2. CASE \E n \in 1..Len(mempool) : Block(n)
  BY <1>2, BlockStep
<1>3. CASE Index \/ UNCHANGED vars
  <2>1. UNCHANGED <<phase, sequence, mempool, blocks, outcome, historyVars>>
    BY <1>3 DEF Index, vars, chainVars, historyVars
  <2>2. TypeOK'
    BY <1>3, LenProperties DEF Index, vars, chainVars, historyVars, lossVars,
                               IInv, TypeOK
  <2>3. SequencesAreOld' /\ SentOnce'
    BY <2>1 DEF IInv, SequencesAreOld, SentOnce
  <2>4. PhasesAgree'
    BY <2>1 DEF IInv, PhasesAgree, InBlock
  <2> QED
    BY <2>2, <2>3, <2>4 DEF IInv
<1> QED
  BY <1>1, <1>2, <1>3 DEF Next

\* In every state, what is pending or in a block belongs to a call that got
\* beyond sending it, at most one transaction is pending, and a call that
\* returned nil has taken effect (submitTx, chains/cosmos/tx.go:59-143).
THEOREM SpecIInv == Spec => []IInv
<1> QED
  BY InitIInv, NextIInv, PTL DEF Spec

\* A transaction is never twice in the mempool or in blocks, however many
\* calls share the account and whatever is lost (chains/cosmos/tx.go:67-110).
THEOREM SpecSentOnce == Spec => []SentOnce
<1>1. IInv => SentOnce
  BY DEF IInv
<1> QED
  BY <1>1, SpecIInv, PTL

\* The initial states are those of Submission.
LEMMA InitPromise == Init => Promise!Init
<1> SUFFICES ASSUME Init PROVE Promise!Init
  OBVIOUS
<1>1. ToSet(blocks) = {}
  BY DEF Init, ToSet
<1> QED
  BY <1>1 DEF Init, InBlock, Promise!Init

\* Every step is one of Submission, or changes neither what calls returned nor
\* what took effect.
LEMMA NextPromise ==
  ASSUME IInv, IInv', [Next]_vars
  PROVE  [Promise!Next]_(Promise!submissionVars)
<1> DEFINE effect == {o \in Ops : InBlock(o, 0)}
<1>1. ASSUME UNCHANGED blocks PROVE effect' = effect
  BY <1>1 DEF InBlock
<1>2. ASSUME NEW o \in Ops, Call(o)
      PROVE  Promise!Next
  <2>1. outcome[o] = "none" /\ UNCHANGED blocks
    BY <1>2 DEF Call, Goes, chainVars, IInv, PhasesAgree
  <2>2. effect' = effect
    BY <1>1, <2>1
  <2> QED
    BY <1>2, <2>1, <2>2 DEF Call, Promise!Next, Promise!Call, Promise!Returns
<1>3. ASSUME NEW o \in Ops, OpStep(o)
      PROVE  [Promise!Next]_(Promise!submissionVars)
  <2>1. UNCHANGED blocks /\ outcome[o] = "running"
    BY <1>3 DEF OpStep, AccountInfo, Broadcast, BroadcastRejected,
                BroadcastLost, QueryOk, QueryFailed, QueryMissing, GetPackets,
                RemoteError, Returns, Goes, chainVars, IInv, PhasesAgree
  <2>2. effect' = effect
    BY <1>1, <2>1
  <2>3. \/ UNCHANGED outcome
        \/ outcome' = [outcome EXCEPT ![o] = "error"]
        \/ outcome' = [outcome EXCEPT ![o] = "ok"]
    BY <1>3 DEF OpStep, AccountInfo, Broadcast, BroadcastRejected,
                BroadcastLost, QueryOk, QueryFailed, QueryMissing, GetPackets,
                RemoteError, Returns
  <2>4. CASE outcome' = [outcome EXCEPT ![o] = "ok"]
    <3>1. outcome'[o] = "ok"
      BY <2>4 DEF IInv, TypeOK
    <3>2. InBlock(o, 0)'
      BY <3>1 DEF IInv, PhasesAgree
    <3>3. o \in effect
      BY <2>2, <3>2
    <3> QED
      BY <2>1, <2>2, <2>4, <3>3 DEF Promise!Next, Promise!Succeed,
                                    Promise!Returns
  <2> QED
    BY <2>1, <2>2, <2>3, <2>4
    DEF Promise!Next, Promise!Fail, Promise!Returns, Promise!submissionVars
<1>4. ASSUME NEW n \in 1..Len(mempool), Block(n)
      PROVE  [Promise!Next]_(Promise!submissionVars)
  <2>1. PICK o \in Ops, code \in 0..1 :
           /\ mempool = <<o>>
           /\ blocks' = Append(blocks, [op |-> o, code |-> code])
           /\ UNCHANGED outcome
    BY <1>4, BlockTakesOne
  <2>2. \A p \in Ops : InBlock(p, 0)' <=> (InBlock(p, 0) \/ (p = o /\ 0 = code))
    BY <2>1, BlockAdds
  <2>3. o \in ToSet(mempool)
    BY <2>1 DEF ToSet
  <2>4. outcome[o] # "none"
    BY <2>3 DEF IInv, PhasesAgree
  <2>5. ~InBlock(o, 0)
    BY <2>3 DEF IInv, SentOnce, InBlock, ToSet
  <2>6. CASE code = 0
    <3>1. effect' = effect \cup {o} /\ o \notin effect
      BY <2>2, <2>5, <2>6
    <3> QED
      BY <2>1, <2>4, <3>1 DEF Promise!Next, Promise!TakeEffect
  <2>7. CASE code # 0
    <3>1. effect' = effect
      BY <2>2, <2>7
    <3> QED
      BY <2>1, <3>1 DEF Promise!submissionVars
  <2> QED
    BY <2>6, <2>7
<1>5. CASE Index \/ UNCHANGED vars
  <2>1. UNCHANGED <<blocks, outcome>>
    BY <1>5 DEF Index, vars, chainVars
  <2> QED
    BY <1>1, <2>1 DEF Promise!submissionVars
<1> QED
  BY <1>2, <1>3, <1>4, <1>5 DEF Next

\* SendTransfer and SubmitRelayTx keep Submission's promise: a call that
\* returns nil has taken effect, and no call takes effect twice (chains/cosmos/tx.go:67-141).
THEOREM SpecKeepsPromise == Spec => PromiseSpec
<1>1. Init /\ [][Next]_vars => Promise!Init
  BY InitPromise
<1>2. IInv /\ IInv' /\ [Next]_vars => [Promise!Next]_(Promise!submissionVars)
  BY NextPromise
<1> QED
  BY <1>1, <1>2, SpecIInv, PTL DEF Spec, PromiseSpec, Promise!Spec

-----------------------------------------------------------------------------
(* Why a sequence is refused *)

\* A step of one call leaves the other calls, and the blocks, where they are.
LEMMA OneCallMoves ==
  ASSUME IInv, NEW o \in Ops, Call(o) \/ OpStep(o)
  PROVE  /\ phase'[o] # "idle" /\ outcome'[o] # "none"
         /\ phase[o] = "idle" <=> Call(o)
         /\ phase'[o] = "broadcast" => AccountInfo(o)
         /\ UNCHANGED blocks /\ lost \subseteq lost' /\ rejected \subseteq rejected'
         /\ \A p \in Ops \ {o} :
              /\ phase'[p] = phase[p] /\ sequence'[p] = sequence[p]
              /\ outcome'[p] = outcome[p] /\ began'[p] = began[p]
<1> USE DEF TypeOK, Goes, Returns, Phases, chainVars, historyVars, lossVars
<1>1. CASE Call(o)
  BY <1>1 DEF Call, IInv
<1>2. CASE AccountInfo(o) \/ Broadcast(o)
  <2>1. outcome[o] # "none"
    BY <1>2 DEF AccountInfo, Broadcast, IInv, PhasesAgree
  <2> QED
    BY <1>2, <2>1 DEF AccountInfo, Broadcast, Call, IInv
<1>3. CASE BroadcastRejected(o) \/ BroadcastLost(o) \/ QueryFailed(o)
             \/ QueryMissing(o) \/ GetPackets(o) \/ RemoteError(o)
  BY <1>3
  DEF BroadcastRejected, BroadcastLost, QueryFailed, QueryMissing, GetPackets,
      RemoteError, Call, IInv
<1>4. CASE QueryOk(o)
  <2>1. outcome[o] # "none"
    BY <1>4 DEF QueryOk, IInv, PhasesAgree
  <2> QED
    BY <1>4, <2>1 DEF QueryOk, Call, IInv
<1> QED
  BY <1>1, <1>2, <1>3, <1>4 DEF OpStep

\* The worker and the queue wait for a call before they issue the next.
LEMMA NextOneAtATime ==
  ASSUME IInv, OneAtATime, [Next]_vars
  PROVE  OneAtATime'
<1>1. ASSUME NEW o \in Ops, Call(o) PROVE OneAtATime'
  <2>1. \A p \in Ops \ {o} : phase'[p] = phase[p]
    BY <1>1, OneCallMoves
  <2>2. /\ o \in Transfers => Running(Transfers) = {} /\ o \notin Relays
        /\ o \in Relays => Running(Relays) = {} /\ o \notin Transfers
    BY <1>1, OpsAssumption DEF Call
  <2> QED
    BY <2>1, <2>2 DEF OneAtATime, Running, Ops
<1>2. ASSUME NEW o \in Ops, OpStep(o) PROVE OneAtATime'
  <2>1. \A p \in Ops \ {o} : phase'[p] = phase[p]
    BY <1>2, OneCallMoves
  <2>2. phase[o] \notin {"idle", "returned"}
    BY <1>2
    DEF OpStep, AccountInfo, Broadcast, BroadcastRejected, BroadcastLost, QueryOk,
        QueryFailed, QueryMissing, GetPackets, RemoteError, Returns, Goes
  <2> QED
    BY <2>1, <2>2 DEF OneAtATime, Running, Ops
<1>3. CASE UNCHANGED phase
  BY <1>3 DEF OneAtATime, Running
<1> QED
  BY <1>1, <1>2, <1>3 DEF Next, Block, Index, vars

\* A step of a call leaves the blocks alone, Block adds one, Index none.
LEMMA NextBlocks ==
  ASSUME IInv, [Next]_vars
  PROVE  /\ Len(blocks) \in Nat /\ Len(blocks') \in Nat
         /\ Len(blocks) <= Len(blocks')
<1>1. Len(blocks) \in Nat
  BY LenProperties DEF IInv, TypeOK
<1>2. ASSUME NEW o \in Ops, Call(o) \/ OpStep(o) PROVE UNCHANGED blocks
  BY <1>2, OneCallMoves
<1>3. ASSUME NEW n \in 1..Len(mempool), Block(n)
      PROVE  Len(blocks') = Len(blocks) + 1
  BY <1>3, BlockTakesOne, BlockAdds
<1> QED
  BY <1>1, <1>2, <1>3 DEF Next, Index, vars, chainVars

\* AccountInfo answers from a block that is not older than the call.
LEMMA NextSequencesAreNew ==
  ASSUME IInv, SequencesAreNew, [Next]_vars
  PROVE  SequencesAreNew'
<1> SUFFICES ASSUME NEW p \in Ops
             PROVE  /\ began'[p] <= Len(blocks')
                    /\ phase'[p] = "broadcast" => began'[p] <= sequence'[p]
  BY DEF SequencesAreNew
<1>0. /\ Len(blocks) \in Nat /\ Len(blocks') \in Nat /\ Len(blocks) <= Len(blocks')
      /\ began[p] \in Nat /\ began[p] <= Len(blocks)
  BY NextBlocks DEF IInv, TypeOK, SequencesAreNew
<1>1. CASE Call(p)
  <2>1. began'[p] = Len(blocks) /\ phase'[p] # "broadcast"
    BY <1>1 DEF Call, Goes, IInv, TypeOK
  <2> QED
    BY <1>0, <2>1
<1>2. CASE AccountInfo(p)
  <2>1. sequence'[p] = Len(blocks) /\ began'[p] = began[p]
    BY <1>2
    DEF AccountInfo, NewSequence, BlockSequence, historyVars, IInv, TypeOK
  <2> QED
    BY <1>0, <2>1
<1>3. CASE OpStep(p) /\ ~AccountInfo(p)
  <2>1. began'[p] = began[p]
    BY <1>3
    DEF OpStep, Broadcast, BroadcastRejected, BroadcastLost, QueryOk, QueryFailed,
        QueryMissing, GetPackets, RemoteError, historyVars
  <2> QED
    BY <1>0, <1>3, <2>1, OneCallMoves
<1>4. ASSUME phase'[p] = phase[p], sequence'[p] = sequence[p], began'[p] = began[p]
      PROVE  /\ began'[p] <= Len(blocks')
             /\ phase'[p] = "broadcast" => began'[p] <= sequence'[p]
  BY <1>0, <1>4 DEF SequencesAreNew
<1>5. ASSUME NEW o \in Ops \ {p}, Call(o) \/ OpStep(o)
      PROVE  /\ phase'[p] = phase[p] /\ sequence'[p] = sequence[p]
             /\ began'[p] = began[p]
  BY <1>5, OneCallMoves
<1>6. CASE UNCHANGED <<phase, sequence, began>>
  BY <1>4, <1>6
<1> QED
  BY <1>1, <1>2, <1>3, <1>4, <1>5, <1>6 DEF Next, Block, Index, historyVars, vars

\* What has been called stays called, so a shared use stays one.
LEMMA SharedUseStays ==
  ASSUME IInv, SharedUse, [Next]_vars
  PROVE  SharedUse'
<1>1. PICK t \in Transfers, r \in Relays : outcome[t] # "none" /\ outcome[r] # "none"
  BY DEF SharedUse
<1>2. ASSUME NEW o \in Ops, Call(o) \/ OpStep(o) PROVE SharedUse'
  <2>1. outcome'[o] # "none" /\ \A p \in Ops \ {o} : outcome'[p] = outcome[p]
    BY <1>2, OneCallMoves
  <2> QED
    BY <1>1, <2>1 DEF SharedUse, Ops
<1>3. CASE UNCHANGED outcome
  BY <1>3 DEF SharedUse
<1> QED
  BY <1>2, <1>3 DEF Next, Block, Index, vars

\* A sole user has one call at a time that runs.
LEMMA SoleUserRunsOne ==
  ASSUME IInv, OneAtATime, ~SharedUse,
         NEW o \in Ops, NEW p \in Ops,
         phase[o] \notin {"idle", "returned"}, phase[p] \notin {"idle", "returned"}
  PROVE  o = p
<1>1. outcome[o] # "none" /\ outcome[p] # "none"
  BY DEF IInv, PhasesAgree
<1>2. (o \in Transfers /\ p \in Transfers) \/ (o \in Relays /\ p \in Relays)
  BY <1>1 DEF SharedUse, Ops
<1> QED
  BY <1>2 DEF OneAtATime, Running

\* A sole user's call waits for its transaction, so the next is signed when no
\* other is pending, and none becomes executed before it is sent.
LEMMA NextSoleUserInStep ==
  ASSUME IInv, OneAtATime, SoleUserInStep, [Next]_vars
  PROVE  SoleUserInStep'
<1> SUFFICES ASSUME lost' = {}, ~SharedUse'
             PROVE  /\ \A o \in ToSet(mempool') : phase'[o] = "query"
                    /\ \A o \in Ops : phase'[o] = "broadcast" =>
                                        sequence'[o] = Len(blocks')
  BY DEF SoleUserInStep
<1>0. ~SharedUse
  BY SharedUseStays
<1>1. ASSUME NEW p \in Ops, Call(p) \/ OpStep(p)
      PROVE  /\ \A o \in ToSet(mempool') : phase'[o] = "query"
             /\ \A o \in Ops : phase'[o] = "broadcast" =>
                                 sequence'[o] = Len(blocks')
  <2>1. /\ \A o \in ToSet(mempool) : phase[o] = "query"
        /\ \A o \in Ops : phase[o] = "broadcast" => sequence[o] = Len(blocks)
    BY <1>0, <1>1, OneCallMoves DEF SoleUserInStep
  <2>2. /\ \A o \in Ops \ {p} : phase'[o] = phase[o] /\ sequence'[o] = sequence[o]
        /\ phase'[p] = "broadcast" => AccountInfo(p)
        /\ UNCHANGED blocks
    BY <1>1, OneCallMoves
  <2>3. ASSUME NEW o \in ToSet(mempool') PROVE phase'[o] = "query"
    <3>1. ~BroadcastLost(p) /\ ~QueryMissing(p)
      BY DEF BroadcastLost, QueryMissing
    <3>2. CASE Broadcast(p)
      <4>1. o = p
        BY <3>2, SentIntoEmpty DEF ToSet
      <4> QED
        BY <3>2, <4>1 DEF Broadcast, Goes, IInv, TypeOK
    <3>3. CASE ~Broadcast(p)
      <4>1. mempool' = mempool
        BY <1>1, <3>1, <3>3
        DEF Call, OpStep, AccountInfo, BroadcastRejected, QueryOk, QueryFailed,
            GetPackets, RemoteError, chainVars
      <4>2. o \in ToSet(mempool) /\ phase[o] = "query" /\ o \in Ops
        BY <2>1, <4>1, ElementOfSeq DEF IInv, TypeOK, ToSet
      <4>3. CASE o = p
        <5>1. QueryOk(o) \/ QueryFailed(o)
          BY <1>1, <3>1, <3>3, <4>2, <4>3
          DEF Call, OpStep, AccountInfo, BroadcastRejected, GetPackets,
              RemoteError, Returns, Goes
        <5>2. PICK code \in 0..1 : InBlock(o, code)
          BY <5>1, IndexedIsInBlock DEF QueryOk, QueryFailed, Successful, IInv
        <5> QED
          BY <4>2, <5>2 DEF InBlock, ToSet, IInv, SentOnce
      <4> QED
        BY <2>2, <4>2, <4>3
    <3> QED
      BY <3>2, <3>3
  <2>4. ASSUME NEW o \in Ops, phase'[o] = "broadcast"
        PROVE  sequence'[o] = Len(blocks')
    <3>1. AccountInfo(o) => sequence'[o] = Len(blocks)
      BY DEF AccountInfo, NewSequence, BlockSequence, IInv, TypeOK
    <3> QED
      BY <2>1, <2>2, <2>4, <3>1
  <2> QED
    BY <2>3, <2>4
<1>2. ASSUME NEW n \in 1..Len(mempool), Block(n)
      PROVE  /\ ToSet(mempool') = {}
             /\ \A o \in Ops : phase'[o] # "broadcast"
  <2>1. PICK q \in Ops : /\ mempool = <<q>> /\ mempool' = <<>>
                         /\ UNCHANGED <<phase, historyVars>>
    BY <1>2, BlockTakesOne
  <2>2. ToSet(mempool) = {q} /\ ToSet(mempool') = {}
    BY <2>1 DEF ToSet
  <2>3. phase[q] = "query"
    BY <1>0, <2>1, <2>2 DEF SoleUserInStep, historyVars, lossVars
  <2> QED
    BY <1>0, <2>1, <2>2, <2>3, SoleUserRunsOne
<1>3. CASE Index \/ UNCHANGED vars
  <2>1. UNCHANGED <<phase, sequence, mempool, blocks, lost>>
    BY <1>3 DEF Index, vars, chainVars, historyVars, lossVars
  <2> QED
    BY <1>0, <2>1 DEF SoleUserInStep
<1> QED
  BY <1>1, <1>2, <1>3 DEF Next

\* A sequence in step is refused only for a pending transaction, and a sole
\* user has none pending when it sends.
LEMMA NextRejectedAfterLoss ==
  ASSUME IInv, OneAtATime, SoleUserInStep, SoleUserRejectedAfterLoss, [Next]_vars
  PROVE  SoleUserRejectedAfterLoss'
<1> SUFFICES ASSUME lost' = {}, ~SharedUse' PROVE rejected' = {}
  BY DEF SoleUserRejectedAfterLoss
<1>0. ~SharedUse
  BY SharedUseStays
<1>1. ASSUME NEW o \in Ops, BroadcastRejected(o) PROVE FALSE
  <2>1. /\ phase[o] = "broadcast" /\ sequence[o] # Len(blocks) + Len(mempool)
        /\ lost = {}
    BY <1>1 DEF BroadcastRejected, CheckSequence, Returns, Goes
  <2>2. /\ sequence[o] = Len(blocks)
        /\ \A q \in ToSet(mempool) : phase[q] = "query"
    BY <1>0, <2>1 DEF SoleUserInStep
  <2>3. Len(blocks) \in Nat /\ Len(mempool) \in Nat /\ mempool \in Seq(Ops)
        /\ DOMAIN mempool = 1..Len(mempool)
    BY LenProperties DEF IInv, TypeOK
  <2>4. 1 \in DOMAIN mempool
    BY <2>1, <2>2, <2>3
  <2>5. mempool[1] \in Ops /\ phase[mempool[1]] = "query"
    BY <2>2, <2>3, <2>4, ElementOfSeq DEF ToSet
  <2> QED
    BY <1>0, <2>1, <2>5, SoleUserRunsOne
<1>2. lost = {} /\ rejected' = rejected
  BY <1>1
  DEF Next, Call, OpStep, AccountInfo, Broadcast, BroadcastRejected,
      BroadcastLost, QueryOk, QueryFailed, QueryMissing, GetPackets, RemoteError,
      Block, Index, historyVars, lossVars, vars
<1> QED
  BY <1>0, <1>2 DEF SoleUserRejectedAfterLoss

\* The second invariant holds before the first call.
LEMMA InitUseInv == Init => UseInv
BY DEF Init, UseInv, OneAtATime, Running, SequencesAreNew, SoleUserInStep, ToSet,
       SoleUserRejectedAfterLoss, Ops

\* Every step keeps the second invariant.
LEMMA NextUseInv == IInv /\ UseInv /\ [Next]_vars => UseInv'
BY NextOneAtATime, NextSequencesAreNew, NextSoleUserInStep, NextRejectedAfterLoss
DEF UseInv

\* A call is running alone of its kind, with a sequence not older than itself;
\* a sole user that has given up on nothing is in step with the node
\* (chains/cosmos/tx.go:59-143).
THEOREM SpecUseInv == Spec => []UseInv
<1> QED
  BY InitUseInv, NextUseInv, SpecIInv, PTL DEF Spec

\* A sole user has a sequence refused only after it has given up on a
\* transaction, with any number of calls (tx.go:67, 135-141).
THEOREM SpecSoleUserRejectedAfterLoss == Spec => []SoleUserRejectedAfterLoss
<1>1. UseInv => SoleUserRejectedAfterLoss
  BY DEF UseInv
<1> QED
  BY <1>1, SpecUseInv, PTL

\* A call is never refused for what was executed before it was issued, only
\* for what is pending, or was executed meanwhile (tx.go:67-84).
THEOREM SpecRefusedForPending == Spec => RefusedForPending
<1> DEFINE Explained(o) ==
             BroadcastRejected(o) =>
               \/ mempool # <<>>
               \/ \E i \in (began[o] + 1)..Len(blocks) : blocks[i].op # o
<1>1. ASSUME IInv, UseInv, NEW o \in Ops PROVE Explained(o)
  <2> SUFFICES ASSUME BroadcastRejected(o), mempool = <<>>
               PROVE  \E i \in (began[o] + 1)..Len(blocks) : blocks[i].op # o
    OBVIOUS
  <2>1. /\ phase[o] = "broadcast" /\ sequence[o] # Len(blocks) + Len(mempool)
        /\ Len(mempool) = 0
    BY DEF BroadcastRejected, CheckSequence, Returns, Goes
  <2>2. /\ sequence[o] <= Len(blocks) /\ began[o] <= sequence[o]
        /\ sequence[o] \in Nat /\ began[o] \in Nat /\ Len(blocks) \in Nat
    BY <1>1, <2>1, LenProperties
    DEF IInv, TypeOK, SequencesAreOld, UseInv, SequencesAreNew
  <2>3. Len(blocks) \in (began[o] + 1)..Len(blocks)
    BY <2>1, <2>2
  <2>4. Len(blocks) \in DOMAIN blocks
    BY <1>1, <2>2, <2>3, LenProperties DEF IInv, TypeOK
  <2>5. blocks[Len(blocks)].op # o
    BY <1>1, <2>1, <2>4, SentIsInBlock DEF IInv, PhasesAgree
  <2> QED
    BY <2>3, <2>5
<1>2. IInv /\ UseInv => [\A o \in Ops : Explained(o)]_vars
  BY <1>1
<1> QED
  BY <1>2, SpecIInv, SpecUseInv, PTL DEF RefusedForPending
=============================================================================
