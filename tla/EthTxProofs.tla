----------------------------- MODULE EthTxProofs ------------------------------
(***************************************************************************)
(* Proofs about EthTx for any number of calls, gas prices and first        *)
(* nonces, whether or not PendingNonceAt may fail: each transaction is     *)
(* sent once, the calls keep Submission's promise, an approved transfer    *)
(* keeps its allowance, and a sole user's nonce is not refused.            *)
(***************************************************************************)
EXTENDS EthTx, SequenceTheorems, FiniteSetTheorems, TLAPS

\* The invariant holds before the first call.
LEMMA InitIInv == Init => IInv
<1> SUFFICES ASSUME Init PROVE IInv
  OBVIOUS
<1>1. pool = {} /\ mined = <<>> /\ DOMAIN mined = {}
  BY DEF Init
<1>2. CallTypes
  BY <1>1, EmptySeq DEF Init, CallTypes, Phases
<1>3. PhasesAgree
  BY <1>1 DEF Init, PhasesAgree, Sent
<1>4. SentOnce
  BY <1>1 DEF SentOnce
<1> QED
  BY <1>2, <1>3, <1>4 DEF IInv

\* A step that leaves the chain alone keeps the invariant if it takes a call
\* to a phase, a stage and an outcome that go together.
LEMMA CallMoves ==
  ASSUME IInv, NEW o \in Ops, NEW to \in Phases, NEW st \in {"approve", "main"},
         NEW r \in {"none", "running", "ok", "error"},
         phase' = [phase EXCEPT ![o] = to],
         stage' = [stage EXCEPT ![o] = st],
         outcome' = [outcome EXCEPT ![o] = r],
         UNCHANGED <<pool, mined>>,
         to # "idle", r # "none",
         r = "running" <=> to # "returned",
         Sent([op |-> o, stage |-> "approve"]) =>
           to \in {"receipt", "returned"}
             \cup {q \in {"opts", "submit", "packets"} : st = "main"},
         Sent([op |-> o, stage |-> "main"]) =>
           st = "main" /\ to \in {"receipt", "packets", "returned"},
         to = "packets" \/ r = "ok" => Mined([op |-> o, stage |-> "main"], TRUE)
  PROVE  IInv'
<1>1. CallTypes'
  BY DEF IInv, CallTypes
<1>2. \A t, ok : (Sent(t)' <=> Sent(t)) /\ (Mined(t, ok)' <=> Mined(t, ok))
  BY DEF Sent, Mined
<1>3. ASSUME NEW p \in Ops, p # o
      PROVE  /\ phase'[p] = phase[p] /\ stage'[p] = stage[p]
             /\ outcome'[p] = outcome[p]
  BY <1>3 DEF IInv, CallTypes
<1>4. phase'[o] = to /\ stage'[o] = st /\ outcome'[o] = r
  BY DEF IInv, CallTypes
<1>5. PhasesAgree'
  <2> SUFFICES ASSUME NEW p \in Ops
               PROVE  /\ outcome'[p] = "none" <=> phase'[p] = "idle"
                      /\ outcome'[p] = "running"
                           <=> phase'[p] \notin {"idle", "returned"}
                      /\ Sent([op |-> p, stage |-> "approve"]) =>
                           phase'[p] \in {"receipt", "returned"} \cup
                             {q \in {"opts", "submit", "packets"} :
                                stage'[p] = "main"}
                      /\ Sent([op |-> p, stage |-> "main"]) =>
                           /\ stage'[p] = "main"
                           /\ phase'[p] \in {"receipt", "packets", "returned"}
                      /\ (phase'[p] = "packets" \/ outcome'[p] = "ok") =>
                           Mined([op |-> p, stage |-> "main"], TRUE)
    BY <1>2 DEF PhasesAgree
  <2>1. CASE p = o
    BY <1>4, <2>1 DEF Phases
  <2>2. CASE p # o
    BY <1>3, <2>2 DEF IInv, PhasesAgree
  <2> QED
    BY <2>1, <2>2
<1>6. SentOnce'
  BY DEF IInv, SentOnce
<1> QED
  BY <1>1, <1>5, <1>6 DEF IInv

\* The steps of a call up to the transaction, and those that end it.
LEMMA QuietStep ==
  ASSUME IInv, NEW o \in Ops,
         \/ Call(o) \/ CheckAllowance(o) \/ GetTransactOpts(o)
         \/ SubmitRejected(o) \/ ReceiptFailed(o) \/ ReceiptTimeout(o)
         \/ GetPackets(o) \/ RemoteError(o)
  PROVE  IInv'
<1> DEFINE main == [op |-> o, stage |-> "main"]
           approve == [op |-> o, stage |-> "approve"]
<1>1. /\ phase[o] \in Phases /\ stage[o] \in {"approve", "main"}
      /\ stage = [stage EXCEPT ![o] = stage[o]]
      /\ outcome = [outcome EXCEPT ![o] = outcome[o]]
  BY DEF IInv, CallTypes
<1>2. /\ Sent(approve) => phase[o] \in {"receipt", "returned"} \cup
                            {q \in {"opts", "submit", "packets"} : stage[o] = "main"}
      /\ Sent(main) => stage[o] = "main"
                       /\ phase[o] \in {"receipt", "packets", "returned"}
      /\ outcome[o] = "running" <=> phase[o] \notin {"idle", "returned"}
      /\ phase[o] = "packets" => Mined(main, TRUE)
  BY DEF IInv, PhasesAgree
<1>3. CASE Call(o)
  BY <1>1, <1>2, <1>3, CallMoves DEF Call, Goes, chainVars, Phases
<1>4. CASE CheckAllowance(o)
  <2>1. phase[o] = "allowance" /\ ~Sent(main) /\ ~Sent(approve)
    BY <1>2, <1>4 DEF CheckAllowance, Goes
  <2>2. PICK st \in {"approve", "main"} : stage' = [stage EXCEPT ![o] = st]
    BY <1>4 DEF CheckAllowance
  <2>3. outcome[o] = "running"
    BY <1>2, <2>1
  <2> QED
    BY <1>1, <1>4, <2>1, <2>2, <2>3, CallMoves
    DEF CheckAllowance, Goes, chainVars, Phases
<1>5. CASE GetTransactOpts(o)
  <2>1. phase[o] = "opts" /\ outcome[o] = "running"
    BY <1>2, <1>5 DEF GetTransactOpts, Goes
  <2> QED
    BY <1>1, <1>2, <1>5, <2>1, CallMoves
    DEF GetTransactOpts, Goes, chainVars, Phases
<1>6. CASE SubmitRejected(o) \/ ReceiptFailed(o) \/ ReceiptTimeout(o)
             \/ RemoteError(o)
  <2>1. /\ phase' = [phase EXCEPT ![o] = "returned"]
        /\ outcome' = [outcome EXCEPT ![o] = "error"]
        /\ phase[o] \in Phases \ {"idle", "returned"}
        /\ UNCHANGED <<stage, pool, mined>>
    BY <1>6 DEF SubmitRejected, ReceiptFailed, ReceiptTimeout, RemoteError,
                Returns, Goes, chainVars, Phases
  <2>2. Sent(main) => stage[o] = "main"
    BY <1>2
  <2> QED
    BY <1>1, <2>1, <2>2, CallMoves DEF Phases
<1>7. CASE GetPackets(o)
  <2>1. phase[o] = "packets" /\ Mined(main, TRUE)
    BY <1>2, <1>7 DEF GetPackets, Returns, Goes
  <2> QED
    BY <1>1, <1>2, <1>7, <2>1, CallMoves
    DEF GetPackets, Returns, Goes, chainVars, Phases
<1> QED
  BY <1>3, <1>4, <1>5, <1>6, <1>7

\* A call whose transaction has been mined successfully sends the next one, or
\* is done.
LEMMA ReceiptOkStep ==
  ASSUME IInv, NEW o \in Ops, ReceiptOk(o)
  PROVE  IInv'
<1> DEFINE main == [op |-> o, stage |-> "main"]
<1>1. /\ stage = [stage EXCEPT ![o] = stage[o]]
      /\ outcome = [outcome EXCEPT ![o] = outcome[o]]
      /\ stage[o] \in {"approve", "main"}
  BY DEF IInv, CallTypes
<1>2. phase[o] = "receipt" /\ outcome[o] = "running"
  <2>1. phase[o] = "receipt"
    BY DEF ReceiptOk, Returns, Goes
  <2> QED
    BY <2>1 DEF IInv, PhasesAgree
<1>3. UNCHANGED <<pool, mined>>
  BY DEF ReceiptOk, chainVars
<1>4. CASE stage[o] = "approve"
  <2>1. /\ phase' = [phase EXCEPT ![o] = "opts"]
        /\ stage' = [stage EXCEPT ![o] = "main"]
        /\ UNCHANGED outcome
    BY <1>4 DEF ReceiptOk, Goes
  <2>2. ~Sent(main)
    BY <1>4 DEF IInv, PhasesAgree
  <2> QED
    BY <1>1, <1>2, <1>3, <2>1, <2>2, CallMoves DEF Phases
<1>5. CASE stage[o] = "main"
  <2>1. Mined(main, TRUE)
    BY <1>5 DEF ReceiptOk, Successful, Tx
  <2>2. CASE o \in Transfers
    <3>1. /\ phase' = [phase EXCEPT ![o] = "packets"]
          /\ UNCHANGED <<stage, outcome>>
      BY <1>5, <2>2 DEF ReceiptOk, Goes
    <3> QED
      BY <1>1, <1>2, <1>3, <1>5, <2>1, <3>1, CallMoves DEF Phases
  <2>3. CASE o \notin Transfers
    <3>1. /\ phase' = [phase EXCEPT ![o] = "returned"]
          /\ outcome' = [outcome EXCEPT ![o] = "ok"]
          /\ UNCHANGED stage
      BY <1>5, <2>3 DEF ReceiptOk, Returns, Goes
    <3> QED
      BY <1>1, <1>2, <1>3, <1>5, <2>1, <3>1, CallMoves DEF Phases
  <2> QED
    BY <2>2, <2>3
<1> QED
  BY <1>1, <1>4, <1>5

\* A call sends what it has not sent before, whatever it replaces in the pool.
LEMMA SendStep ==
  ASSUME IInv, NEW o \in Ops, Submit(o) \/ SubmitLost(o)
  PROVE  IInv'
<1> DEFINE new == [tx |-> Tx(o), nonce |-> nonce[o], price |-> gasPrice[o]]
<1>1. /\ phase[o] = "submit" /\ pool' = (pool \ Replaced(o)) \cup {new}
      /\ UNCHANGED <<stage, mined>>
      /\ \/ phase' = [phase EXCEPT ![o] = "receipt"] /\ outcome' = outcome
         \/ /\ phase' = [phase EXCEPT ![o] = "returned"]
            /\ outcome' = [outcome EXCEPT ![o] = "error"]
  BY DEF Submit, SubmitLost, Accept, Returns, Goes
<1>2. Tx(o) \in Txs /\ new.tx = Tx(o) /\ stage[o] \in {"approve", "main"}
      /\ Tx(o) = [op |-> o, stage |-> stage[o]]
  BY DEF IInv, CallTypes, Tx, Txs
<1>3. ~Sent(Tx(o))
  BY <1>1, <1>2 DEF IInv, PhasesAgree
<1>4. CallTypes'
  BY <1>1, <1>2 DEF IInv, CallTypes, Phases
<1>5. \A t : Sent(t)' => Sent(t) \/ t = Tx(o)
  BY <1>1, <1>2 DEF Sent
<1>6. \A t, ok : Mined(t, ok)' <=> Mined(t, ok)
  BY <1>1 DEF Mined
<1>7. PhasesAgree'
  <2> SUFFICES ASSUME NEW p \in Ops
               PROVE  /\ outcome'[p] = "none" <=> phase'[p] = "idle"
                      /\ outcome'[p] = "running"
                           <=> phase'[p] \notin {"idle", "returned"}
                      /\ Sent([op |-> p, stage |-> "approve"])' =>
                           phase'[p] \in {"receipt", "returned"} \cup
                             {q \in {"opts", "submit", "packets"} :
                                stage'[p] = "main"}
                      /\ Sent([op |-> p, stage |-> "main"])' =>
                           /\ stage'[p] = "main"
                           /\ phase'[p] \in {"receipt", "packets", "returned"}
                      /\ (phase'[p] = "packets" \/ outcome'[p] = "ok") =>
                           Mined([op |-> p, stage |-> "main"], TRUE)
    BY <1>6 DEF PhasesAgree
  <2>1. CASE p = o
    <3>1. /\ phase'[o] \in {"receipt", "returned"}
          /\ outcome'[o] = IF phase'[o] = "receipt" THEN "running" ELSE "error"
      BY <1>1 DEF IInv, CallTypes, PhasesAgree
    <3>2. Sent([op |-> o, stage |-> "main"])' => stage[o] = "main"
      <4>1. [op |-> o, stage |-> "main"] = Tx(o) => stage[o] = "main"
        BY <1>2
      <4>2. Sent([op |-> o, stage |-> "main"]) => stage[o] = "main"
        BY DEF IInv, PhasesAgree
      <4> QED
        BY <1>5, <4>1, <4>2
    <3> QED
      BY <1>1, <2>1, <3>1, <3>2
  <2>2. CASE p # o
    <3>1. phase'[p] = phase[p] /\ stage'[p] = stage[p] /\ outcome'[p] = outcome[p]
      BY <1>1, <2>2 DEF IInv, CallTypes
    <3>2. \A st : Sent([op |-> p, stage |-> st])' => Sent([op |-> p, stage |-> st])
      BY <1>2, <1>5, <2>2
    <3> QED
      BY <3>1, <3>2 DEF IInv, PhasesAgree
  <2> QED
    BY <2>1, <2>2
<1>8. SentOnce'
  <2>1. \A t \in pool : t.tx # Tx(o)
    BY <1>3 DEF Sent
  <2>2. \A i \in DOMAIN mined : mined[i].tx # Tx(o)
    BY <1>3 DEF Sent
  <2> QED
    BY <1>1, <1>2, <2>1, <2>2 DEF IInv, SentOnce
<1> QED
  BY <1>4, <1>7, <1>8 DEF IInv

\* An approval that succeeds sets the allowance, a transfer succeeds if it has
\* one, and uses it up.
Spends(tx, ok) ==
  /\ tx.stage = "approve" => allowance' = IF ok THEN 1 ELSE allowance
  /\ tx.stage = "main" /\ tx.op \in Transfers =>
       /\ ok <=> allowance >= 1
       /\ allowance' = IF ok THEN allowance - 1 ELSE allowance
  /\ tx.stage = "main" /\ tx.op \notin Transfers => allowance' = allowance

\* What is mined leaves the pool.
LEMMA MineMoves ==
  ASSUME IInv, NEW t \in pool, Mine(t)
  PROVE  \E ok \in BOOLEAN :
           /\ t.tx \in Txs
           /\ pool' = pool \ {t}
           /\ mined' = Append(mined, [tx |-> t.tx, ok |-> ok])
           /\ mined' \in Seq([tx : Txs, ok : BOOLEAN])
           /\ Len(mined) \in Nat /\ DOMAIN mined = 1..Len(mined)
           /\ DOMAIN mined' = 1..Len(mined) + 1
           /\ \A i \in DOMAIN mined : mined'[i] = mined[i]
           /\ mined'[Len(mined) + 1] = [tx |-> t.tx, ok |-> ok]
           /\ \A u, k : Mined(u, k)' <=> Mined(u, k) \/ (u = t.tx /\ k = ok)
           /\ UNCHANGED <<phase, stage, outcome>>
           /\ Spends(t.tx, ok)
<1>1. PICK ok \in BOOLEAN :
        /\ pool' = pool \ {t}
        /\ mined' = Append(mined, [tx |-> t.tx, ok |-> ok])
        /\ UNCHANGED <<phase, stage, outcome>>
        /\ CASE t.tx.stage = "approve" -> allowance' = IF ok THEN 1 ELSE allowance
             [] t.tx.stage = "main" /\ t.tx.op \in Transfers ->
                  /\ ok <=> allowance >= 1
                  /\ allowance' = IF ok THEN allowance - 1 ELSE allowance
             [] OTHER -> UNCHANGED allowance
  BY DEF Mine, callVars
<1>2. /\ t.tx \in Txs /\ mined \in Seq([tx : Txs, ok : BOOLEAN])
      /\ Len(mined) \in Nat /\ DOMAIN mined = 1..Len(mined)
  BY LenProperties DEF IInv, CallTypes
<1>3. /\ mined' \in Seq([tx : Txs, ok : BOOLEAN])
      /\ DOMAIN mined' = 1..Len(mined) + 1
      /\ \A i \in DOMAIN mined : mined'[i] = mined[i]
      /\ mined'[Len(mined) + 1] = [tx |-> t.tx, ok |-> ok]
  BY <1>1, <1>2
<1>4. ASSUME NEW u, NEW k
      PROVE  Mined(u, k)' <=> Mined(u, k) \/ (u = t.tx /\ k = ok)
  BY <1>2, <1>3 DEF Mined
<1>5. Spends(t.tx, ok)
  BY <1>1, <1>2 DEF Spends, Txs
<1> QED
  BY <1>1, <1>2, <1>3, <1>4, <1>5

\* A transaction that is mined was sent before, and only once.
LEMMA MineStep ==
  ASSUME IInv, NEW t \in pool, Mine(t)
  PROVE  IInv'
<1>1. PICK ok \in BOOLEAN :
           /\ t.tx \in Txs
           /\ pool' = pool \ {t}
           /\ mined' = Append(mined, [tx |-> t.tx, ok |-> ok])
           /\ mined' \in Seq([tx : Txs, ok : BOOLEAN])
           /\ Len(mined) \in Nat /\ DOMAIN mined = 1..Len(mined)
           /\ DOMAIN mined' = 1..Len(mined) + 1
           /\ \A i \in DOMAIN mined : mined'[i] = mined[i]
           /\ mined'[Len(mined) + 1] = [tx |-> t.tx, ok |-> ok]
           /\ \A u, k : Mined(u, k)' <=> Mined(u, k) \/ (u = t.tx /\ k = ok)
           /\ UNCHANGED <<phase, stage, outcome>>
  BY MineMoves
<1>2. CallTypes'
  BY <1>1 DEF IInv, CallTypes
<1>3. \A u : Sent(u)' <=> Sent(u)
  <2> SUFFICES ASSUME NEW u PROVE Sent(u)' <=> Sent(u)
    OBVIOUS
  <2>1. (\E v \in pool : v.tx = u)
          <=> (\E v \in pool' : v.tx = u) \/ u = t.tx
    BY <1>1
  <2>2. (\E i \in DOMAIN mined' : mined'[i].tx = u)
          <=> (\E i \in DOMAIN mined : mined[i].tx = u) \/ u = t.tx
    BY <1>1
  <2> QED
    BY <2>1, <2>2 DEF Sent
<1>4. PhasesAgree'
  BY <1>1, <1>3 DEF IInv, PhasesAgree
<1>5. SentOnce'
  <2>1. \A i \in DOMAIN mined : mined[i].tx # t.tx
    BY DEF IInv, SentOnce
  <2>2. \A u \in pool' : u.tx # t.tx /\ u \in pool
    BY <1>1 DEF IInv, SentOnce
  <2>3. \A i, j \in DOMAIN mined' : mined'[i].tx = mined'[j].tx => i = j
    BY <1>1, <2>1 DEF IInv, SentOnce
  <2>4. \A u \in pool' : \A i \in DOMAIN mined' : mined'[i].tx # u.tx
    BY <1>1, <2>2 DEF IInv, SentOnce
  <2> QED
    BY <2>2, <2>3, <2>4 DEF IInv, SentOnce
<1> QED
  BY <1>2, <1>4, <1>5 DEF IInv

\* Every step keeps the invariant.
LEMMA NextIInv == IInv /\ [Next]_vars => IInv'
<1> SUFFICES ASSUME IInv, [Next]_vars PROVE IInv'
  OBVIOUS
<1>1. CASE \E o \in Ops : Call(o) \/ OpStep(o)
  BY <1>1, QuietStep, ReceiptOkStep, SendStep DEF OpStep
<1>2. CASE \E t \in pool : Mine(t)
  BY <1>2, MineStep
<1>3. CASE (\E price \in GasPrices : Suggest(price)) \/ UNCHANGED vars
  <2>1. UNCHANGED <<phase, stage, pool, mined, outcome>>
    BY <1>3 DEF Suggest, vars, callVars, chainVars
  <2> QED
    BY <2>1 DEF IInv, CallTypes, PhasesAgree, SentOnce, Sent, Mined
<1> QED
  BY <1>1, <1>2, <1>3 DEF Next

\* In every state, what is pending or mined belongs to a call that got beyond
\* sending it, and a call that returned nil has taken effect (Transact,
\* chains/ethereum/tx.go:58-81).
THEOREM SpecIInv == Spec => []IInv
<1> QED
  BY InitIInv, NextIInv, PTL DEF Spec

\* No transaction of a call is twice pending or mined, with any number of calls
\* of the wallet, whatever is lost, replaced or times out (tx.go:58-81).
THEOREM SpecSentOnce == Spec => []SentOnce
<1>1. IInv => SentOnce
  BY DEF IInv
<1> QED
  BY <1>1, SpecIInv, PTL

\* The initial states are those of Submission.
LEMMA InitPromise == Init => Promise!Init
BY DEF Init, Mined, Promise!Init

\* Every step is one of Submission, or changes neither what calls returned nor
\* what took effect.
LEMMA NextPromise ==
  ASSUME IInv, IInv', [Next]_vars
  PROVE  [Promise!Next]_(Promise!submissionVars)
<1> DEFINE Main(o) == [op |-> o, stage |-> "main"]
           effect == {o \in Ops : Mined(Main(o), TRUE)}
<1>1. ASSUME UNCHANGED mined PROVE effect' = effect
  BY <1>1 DEF Mined
<1>2. ASSUME NEW o \in Ops, Call(o)
      PROVE  Promise!Next
  <2>1. outcome[o] = "none" /\ UNCHANGED mined
    BY <1>2 DEF Call, Goes, chainVars, IInv, PhasesAgree
  <2>2. effect' = effect
    BY <1>1, <2>1
  <2> QED
    BY <1>2, <2>1, <2>2 DEF Call, Promise!Next, Promise!Call, Promise!Returns
<1>3. ASSUME NEW o \in Ops, OpStep(o)
      PROVE  [Promise!Next]_(Promise!submissionVars)
  <2>1. UNCHANGED mined /\ outcome[o] = "running"
    BY <1>3 DEF OpStep, CheckAllowance, GetTransactOpts, Submit,
                SubmitRejected, SubmitLost, ReceiptOk, ReceiptFailed,
                ReceiptTimeout, GetPackets, RemoteError, Returns, Goes,
                chainVars, IInv, PhasesAgree
  <2>2. effect' = effect
    BY <1>1, <2>1
  <2>3. \/ UNCHANGED outcome
        \/ outcome' = [outcome EXCEPT ![o] = "error"]
        \/ outcome' = [outcome EXCEPT ![o] = "ok"]
    BY <1>3 DEF OpStep, CheckAllowance, GetTransactOpts, Submit,
                SubmitRejected, SubmitLost, ReceiptOk, ReceiptFailed,
                ReceiptTimeout, GetPackets, RemoteError, Returns
  <2>4. CASE outcome' = [outcome EXCEPT ![o] = "ok"]
    <3>1. outcome'[o] = "ok"
      BY <2>4 DEF IInv, CallTypes
    <3>2. Mined([op |-> o, stage |-> "main"], TRUE)'
      BY <3>1 DEF IInv, PhasesAgree
    <3>3. o \in effect
      BY <2>2, <3>2
    <3> QED
      BY <2>1, <2>2, <2>4, <3>3 DEF Promise!Next, Promise!Succeed,
                                    Promise!Returns
  <2> QED
    BY <2>1, <2>2, <2>3, <2>4
    DEF Promise!Next, Promise!Fail, Promise!Returns, Promise!submissionVars
<1>4. ASSUME NEW t \in pool, Mine(t)
      PROVE  [Promise!Next]_(Promise!submissionVars)
  <2>1. PICK ok \in BOOLEAN :
           /\ t.tx \in Txs
           /\ \A u, k : Mined(u, k)' <=> Mined(u, k) \/ (u = t.tx /\ k = ok)
           /\ UNCHANGED outcome
    BY <1>4, MineMoves
  <2>2. CASE t.tx.stage = "main" /\ ok = TRUE
    <3> DEFINE o == t.tx.op
    <3>1. o \in Ops /\ t.tx = [op |-> o, stage |-> "main"]
      BY <2>1, <2>2 DEF Txs
    <3>2. Sent(t.tx) /\ ~Mined(t.tx, TRUE)
      BY DEF Sent, Mined, IInv, SentOnce
    <3>3. outcome[o] # "none"
      BY <3>1, <3>2 DEF IInv, PhasesAgree
    <3>4. effect' = effect \cup {o} /\ o \notin effect
      <4>1. \A p \in Ops : Main(p) = t.tx <=> p = o
        BY <3>1
      <4>2. \A p \in Ops : Mined(Main(p), TRUE)'
                            <=> Mined(Main(p), TRUE) \/ p = o
        BY <2>1, <2>2, <4>1
      <4>3. ~Mined(Main(o), TRUE)
        BY <3>1, <3>2
      <4> QED
        BY <3>1, <4>2, <4>3
    <3> QED
      BY <2>1, <3>1, <3>3, <3>4 DEF Promise!Next, Promise!TakeEffect
  <2>3. CASE ~(t.tx.stage = "main" /\ ok = TRUE)
    <3>1. \A p \in Ops : Mined(Main(p), TRUE)' <=> Mined(Main(p), TRUE)
      <4>1. \A p \in Ops : Main(p) = t.tx => t.tx.stage = "main"
        OBVIOUS
      <4>2. \A p \in Ops : ~(Main(p) = t.tx /\ TRUE = ok)
        BY <2>3, <4>1
      <4>3. \A p \in Ops : Mined(Main(p), TRUE)'
              <=> Mined(Main(p), TRUE) \/ (Main(p) = t.tx /\ TRUE = ok)
        BY <2>1
      <4> QED
        BY <4>2, <4>3
    <3>2. effect' = effect
      BY <3>1
    <3> QED
      BY <2>1, <3>2 DEF Promise!submissionVars
  <2> QED
    BY <2>2, <2>3
<1>5. CASE (\E price \in GasPrices : Suggest(price)) \/ UNCHANGED vars
  <2>1. UNCHANGED <<mined, outcome>>
    BY <1>5 DEF Suggest, vars, chainVars
  <2> QED
    BY <1>1, <2>1 DEF Promise!submissionVars
<1> QED
  BY <1>2, <1>3, <1>4, <1>5 DEF Next

\* SendTransfer and SubmitRelayTx keep Submission's promise: a call that
\* returns nil has taken effect, and no call takes effect twice, approvals and
\* timeouts included (chains/ethereum/tx.go:21-81, transfer.go:21-96).
THEOREM SpecKeepsPromise == Spec => PromiseSpec
<1>1. IInv /\ IInv' /\ [Next]_vars => [Promise!Next]_(Promise!submissionVars)
  BY NextPromise
<1> QED
  BY <1>1, InitPromise, SpecIInv, PTL DEF Spec, PromiseSpec, Promise!Spec

-----------------------------------------------------------------------------
(* The nonce of PendingNonceAt *)

\* A set of numbers has a least one: its initial segments are finite sets, of
\* which strict inclusion leaves no infinite descent.
LEMMA LeastNumber ==
  ASSUME NEW T \in SUBSET Nat, T # {}
  PROVE  \E m \in T : \A n \in T : m <= n
<1> DEFINE F == {0..n : n \in T}
<1>1. F \subseteq FiniteSubsetsOf(Nat) /\ F # {}
  <2>1. \A n \in T : 0..n \in SUBSET Nat /\ IsFiniteSet(0..n)
    BY FS_Interval
  <2> QED
    BY <2>1 DEF FiniteSubsetsOf
<1>2. IsWellFoundedOn(StrictSubsetOrdering(Nat), FiniteSubsetsOf(Nat))
  BY FS_StrictSubsetOrderingWellFounded
<1>3. PICK S \in F : \A U \in F : <<U, S>> \notin StrictSubsetOrdering(Nat)
  <2> HIDE DEF F
  <2> QED
    BY <1>1, <1>2, WFMin
<1>4. PICK m \in T : S = 0..m
  OBVIOUS
<1>5. ASSUME NEW n \in T, n < m PROVE FALSE
  <2>1. 0..n \in F /\ 0..n \subseteq 0..m /\ m \notin 0..n /\ m \in 0..m
    BY <1>5
  <2>2. <<0..n, 0..m>> \in StrictSubsetOrdering(Nat)
    BY <2>1 DEF StrictSubsetOrdering
  <2> QED
    BY <1>3, <1>4, <2>1, <2>2
<1> QED
  BY <1>5

\* The pool cannot have all the nonces from the chain's next on, so that
\* PendingNonceAt finds a free one (tx.go:103-107).
LEMMA PendingNonceIsFree ==
  ASSUME TypeOK, IsFiniteSet(pool)
  PROVE  PendingNonce \in Nat /\ FreeNonce(PendingNonce)
<1> DEFINE k == Cardinality(pool)
           I == ChainNonce..(ChainNonce + k)
           T == {n \in I : n \notin PoolNonces}
           f == [t \in pool |-> t.nonce]
<1>1. ChainNonce \in Nat /\ k \in Nat
  <2>1. Len(mined) \in Nat
    BY LenProperties DEF TypeOK
  <2> QED
    BY <2>1, NonceAssumption, FS_CardinalityType DEF ChainNonce
<1>2. IsFiniteSet(PoolNonces) /\ Cardinality(PoolNonces) <= k
  <2>1. f \in Surjection(pool, PoolNonces)
    BY DEF Surjection, PoolNonces
  <2> QED
    BY <2>1, FS_Surjection
<1>3. IsFiniteSet(I) /\ Cardinality(I) = k + 1
  <2>1. ASSUME NEW a \in Nat, NEW b \in Nat
        PROVE  IsFiniteSet(a..(a + b)) /\ Cardinality(a..(a + b)) = b + 1
    <3>1. a \in Int /\ a + b \in Int /\ ~(a > a + b) /\ a + b - a + 1 = b + 1
      OBVIOUS
    <3> QED
      BY <3>1, FS_Interval
  <2> QED
    BY <1>1, <2>1
<1>4. ~(I \subseteq PoolNonces)
  <2>1. Cardinality(PoolNonces) \in Nat
    BY <1>2, FS_CardinalityType
  <2>2. I \subseteq PoolNonces => Cardinality(I) <= Cardinality(PoolNonces)
    BY <1>2, FS_Subset
  <2> QED
    BY <1>1, <1>2, <1>3, <2>1, <2>2
<1>5. T \in SUBSET Nat /\ T # {}
  BY <1>1, <1>4
<1>6. PICK n \in T : \A m \in T : n <= m
  BY <1>5, LeastNumber
<1>7. n \in I /\ n \notin PoolNonces /\ \A m \in ChainNonce..(n - 1) : m \in PoolNonces
  <2>1. ASSUME NEW m \in ChainNonce..(n - 1) PROVE m \in PoolNonces
    <3>1. m \in I /\ m < n /\ n \in Nat /\ m \in Nat
      BY <1>1
    <3>2. m \notin T
      BY <1>6, <3>1
    <3> QED
      BY <3>1, <3>2
  <2> QED
    BY <2>1
<1>8. /\ PendingNonce \in I /\ PendingNonce \notin PoolNonces
  BY <1>7 DEF PendingNonce
<1> QED
  BY <1>1, <1>8 DEF FreeNonce

-----------------------------------------------------------------------------
(* What the calls can rely on *)

\* A step of one call leaves the other calls where they are.
LEMMA OneCallMoves ==
  ASSUME TypeOK, IInv, NEW o \in Ops, Call(o) \/ OpStep(o)
  PROVE  /\ phase[o] # "returned" /\ outcome'[o] # "none"
         /\ phase'[o] \in Phases \ {"idle"}
         /\ phase'[o] = "submit" => GetTransactOpts(o)
         /\ \A p \in Ops \ {o} :
              /\ phase'[p] = phase[p] /\ stage'[p] = stage[p]
              /\ nonce'[p] = nonce[p] /\ gasPrice'[p] = gasPrice[p]
              /\ outcome'[p] = outcome[p]
<1> USE DEF TypeOK, Goes, Returns, Phases
<1>1. CASE Call(o)
  BY <1>1 DEF Call
<1>2. CASE CheckAllowance(o) \/ GetTransactOpts(o) \/ Submit(o)
  <2>1. outcome[o] # "none"
    BY <1>2 DEF CheckAllowance, GetTransactOpts, Submit, IInv, PhasesAgree
  <2> QED
    BY <1>2, <2>1 DEF CheckAllowance, GetTransactOpts, Submit
<1>3. CASE SubmitRejected(o) \/ SubmitLost(o) \/ ReceiptFailed(o)
             \/ ReceiptTimeout(o) \/ GetPackets(o) \/ RemoteError(o)
  BY <1>3
  DEF SubmitRejected, SubmitLost, ReceiptFailed, ReceiptTimeout, GetPackets,
      RemoteError
<1>4. CASE ReceiptOk(o)
  <2>1. phase[o] = "receipt" /\ outcome[o] # "none"
    BY <1>4 DEF ReceiptOk, IInv, PhasesAgree
  <2> QED
    BY <1>4, <2>1 DEF ReceiptOk
<1> QED
  BY <1>1, <1>2, <1>3, <1>4 DEF OpStep

\* The worker and the queue wait for a call before they issue the next.
LEMMA NextOneAtATime ==
  ASSUME TypeOK, IInv, OneAtATime, [Next]_vars
  PROVE  OneAtATime'
<1>1. ASSUME NEW o \in Ops, Call(o) PROVE OneAtATime'
  <2>1. \A p \in Ops \ {o} : phase'[p] = phase[p]
    BY <1>1, OneCallMoves
  <2>2. /\ o \in Transfers => Running(Transfers) = {} /\ o \notin Relays
        /\ o \in Relays => Running(Relays) = {} /\ o \notin Transfers
    BY <1>1, OpsAssumption DEF Call
  <2> QED
    BY <2>1, <2>2 DEF OneAtATime, Running, Ops
<1>2. ASSUME NEW o \in Ops, OpStep(o) PROVE OneAtATime'
  <2>1. \A p \in Ops \ {o} : phase'[p] = phase[p]
    BY <1>2, OneCallMoves
  <2>2. phase[o] \notin {"idle", "returned"}
    BY <1>2
    DEF OpStep, CheckAllowance, GetTransactOpts, Submit, SubmitRejected,
        SubmitLost, ReceiptOk, ReceiptFailed, ReceiptTimeout, GetPackets,
        RemoteError, Returns, Goes
  <2> QED
    BY <2>1, <2>2 DEF OneAtATime, Running, Ops
<1>3. CASE UNCHANGED phase
  BY <1>3 DEF OneAtATime, Running
<1> QED
  BY <1>1, <1>2, <1>3 DEF Next, Mine, Suggest, callVars, vars

\* The pool stays finite, prices are the node's, who is refused returns.
LEMMA NextPrepared ==
  ASSUME TypeOK, IInv, Prepared, [Next]_vars
  PROVE  Prepared'
<1>1. IsFiniteSet(pool')
  <2>1. ASSUME NEW o \in Ops, Accept(o) PROVE IsFiniteSet(pool')
    <3>1. IsFiniteSet(pool \ Replaced(o))
      BY FS_Subset DEF Prepared
    <3> QED
      BY <2>1, <3>1, FS_AddElement DEF Accept
  <2>2. ASSUME NEW t \in pool, Mine(t) PROVE IsFiniteSet(pool')
    BY <2>2, FS_RemoveElement DEF Mine, Prepared
  <2>3. CASE UNCHANGED pool
    BY <2>3 DEF Prepared
  <2> QED
    BY <2>1, <2>2, <2>3
    DEF Next, Call, OpStep, CheckAllowance, GetTransactOpts, Submit,
        SubmitRejected, SubmitLost, ReceiptOk, ReceiptFailed, ReceiptTimeout,
        GetPackets, RemoteError, Suggest, chainVars, vars
<1>2. ASSUME NEW o \in Ops, Call(o) \/ OpStep(o)
      PROVE  /\ \A p \in Ops : phase'[p] = "submit" => gasPrice'[p] \in GasPrices
             /\ \A p \in rejected' : phase'[p] = "returned"
  <2>1. \A p \in Ops \ {o} : phase'[p] = phase[p] /\ gasPrice'[p] = gasPrice[p]
    BY <1>2, OneCallMoves
  <2>2. phase'[o] = "submit" => gasPrice'[o] \in GasPrices
    BY <1>2, OneCallMoves DEF GetTransactOpts, TypeOK
  <2>3. rejected' = rejected \/ (rejected' = rejected \cup {o} /\ phase'[o] = "returned")
    BY <1>2
    DEF Call, OpStep, CheckAllowance, GetTransactOpts, Submit, SubmitRejected,
        SubmitLost, ReceiptOk, ReceiptFailed, ReceiptTimeout, GetPackets,
        RemoteError, Returns, Goes, historyVars, TypeOK
  <2>4. o \notin rejected
    BY <1>2, OneCallMoves DEF Prepared
  <2> QED
    BY <2>1, <2>2, <2>3, <2>4 DEF Prepared, TypeOK
<1>3. ASSUME UNCHANGED <<phase, gasPrice, rejected>>
      PROVE  /\ \A p \in Ops : phase'[p] = "submit" => gasPrice'[p] \in GasPrices
             /\ \A p \in rejected' : phase'[p] = "returned"
  BY <1>3 DEF Prepared
<1> QED
  BY <1>1, <1>2, <1>3 DEF Next, Mine, Suggest, callVars, historyVars, vars, Prepared

\* Variables keep their types: nonces and the allowance stay numbers, a price
\* in the pool is one the node has suggested.
LEMMA NextTypeOK ==
  ASSUME TypeOK, IInv, Prepared, AllowanceKept, [Next]_vars
  PROVE  TypeOK'
<1> DEFINE PoolTxs == [tx : Txs, nonce : Nat, price : GasPrices]
<1>0. CallTypes'
  BY NextIInv DEF IInv
<1>1. /\ phase' \in [Ops -> Phases] /\ stage' \in [Ops -> {"approve", "main"}]
      /\ outcome' \in [Ops -> {"none", "running", "ok", "error"}]
      /\ mined' \in Seq([tx : Txs, ok : BOOLEAN])
  BY <1>0 DEF CallTypes
<1>2. /\ nonce' \in [Ops -> Nat] /\ gasPrice' \in [Ops -> GasPrices \cup {0}]
      /\ suggested' \in GasPrices
  <2>1. ASSUME NEW o \in Ops, GetTransactOpts(o)
        PROVE  nonce' \in [Ops -> Nat] /\ gasPrice' \in [Ops -> GasPrices \cup {0}]
    <3>1. Nonces \subseteq Nat
      BY PendingNonceIsFree DEF Nonces, Prepared
    <3> QED
      BY <2>1, <3>1 DEF GetTransactOpts, TypeOK
  <2>2. UNCHANGED <<nonce, gasPrice>> \/ \E o \in Ops : GetTransactOpts(o)
    BY DEF Next, Call, OpStep, CheckAllowance, Submit, SubmitRejected, SubmitLost,
       ReceiptOk, ReceiptFailed, ReceiptTimeout, GetPackets, RemoteError, Mine,
       Suggest, callVars, vars
  <2>3. suggested' \in {suggested} \cup GasPrices
    BY DEF Next, Call, OpStep, CheckAllowance, GetTransactOpts, Submit,
       SubmitRejected, SubmitLost, ReceiptOk, ReceiptFailed, ReceiptTimeout,
       GetPackets, RemoteError, Mine, Suggest, vars
  <2> QED
    BY <2>1, <2>2, <2>3 DEF TypeOK
<1>3. pool' \subseteq PoolTxs
  <2>1. ASSUME NEW o \in Ops, phase[o] = "submit", Accept(o)
        PROVE  pool' \subseteq PoolTxs
    <3>1. Tx(o) \in Txs
      BY DEF Tx, Txs, TypeOK
    <3>2. [tx |-> Tx(o), nonce |-> nonce[o], price |-> gasPrice[o]] \in PoolTxs
      BY <2>1, <3>1 DEF TypeOK, Prepared
    <3> QED
      BY <2>1, <3>2 DEF Accept, TypeOK
  <2>2. pool' \subseteq pool \/ \E o \in Ops : phase[o] = "submit" /\ Accept(o)
    BY DEF Next, Call, OpStep, CheckAllowance, GetTransactOpts, Submit,
       SubmitRejected, SubmitLost, ReceiptOk, ReceiptFailed, ReceiptTimeout,
       GetPackets, RemoteError, Mine, Suggest, Returns, Goes, chainVars, vars
  <2> QED
    BY <2>1, <2>2 DEF TypeOK
<1>4. allowance' \in Nat
  <2>1. ASSUME NEW t \in pool, Mine(t) PROVE allowance' \in Nat
    <3>1. PICK ok \in BOOLEAN : t.tx \in Txs /\ Spends(t.tx, ok)
      BY <2>1, MineMoves
    <3>2. t.tx.stage \in {"approve", "main"}
      BY <3>1 DEF Txs
    <3> QED
      BY <3>1, <3>2 DEF Spends, TypeOK
  <2>2. CASE UNCHANGED allowance
    BY <2>2 DEF TypeOK
  <2> QED
    BY <2>1, <2>2
    DEF Next, Call, OpStep, CheckAllowance, GetTransactOpts, Submit,
        SubmitRejected, SubmitLost, ReceiptOk, ReceiptFailed, ReceiptTimeout,
        GetPackets, RemoteError, Suggest, chainVars, vars
<1>5. lost' \subseteq Ops /\ rejected' \subseteq Ops
  BY DEF Next, Call, OpStep, CheckAllowance, GetTransactOpts, Submit,
     SubmitRejected, SubmitLost, ReceiptOk, ReceiptFailed, ReceiptTimeout,
     GetPackets, RemoteError, Mine, Suggest, historyVars, vars, TypeOK
<1> QED
  BY <1>1, <1>2, <1>3, <1>4, <1>5 DEF TypeOK

\* A call that has returned or gone on has nothing in the pool, if it has not
\* given up on it; so the allowance it has found or waited for is its own.
LEMMA CallKeepsAllowance ==
  ASSUME TypeOK, IInv, OneAtATime, AllowanceKept,
         NEW o \in Ops, Call(o) \/ OpStep(o), lost' \cap Transfers = {}
  PROVE  AllowanceKept'
<1> DEFINE main(p) == [op |-> p, stage |-> "main"]
<1>0. /\ \A t \in pool : t.tx.op \in Transfers =>
           phase[t.tx.op] = "receipt" /\ t.tx = Tx(t.tx.op)
      /\ \A p \in Transfers : /\ ~Mined(main(p), FALSE)
                              /\ Entitled(p) => allowance >= 1
      /\ lost \cap Transfers = {}
  <2>1. lost \subseteq lost'
    BY DEF Call, OpStep, CheckAllowance, GetTransactOpts, Submit, SubmitRejected,
       SubmitLost, ReceiptOk, ReceiptFailed, ReceiptTimeout, GetPackets,
       RemoteError, historyVars
  <2> QED
    BY <2>1 DEF AllowanceKept
<1>1. \A p \in Ops \ {o} : phase'[p] = phase[p] /\ stage'[p] = stage[p]
  BY OneCallMoves
<1>2. UNCHANGED <<allowance, mined>>
  BY DEF Call, OpStep, CheckAllowance, GetTransactOpts, Submit, SubmitRejected,
     SubmitLost, ReceiptOk, ReceiptFailed, ReceiptTimeout, GetPackets,
     RemoteError, chainVars
<1>3. \A t, ok : Mined(t, ok)' <=> Mined(t, ok)
  BY <1>2 DEF Mined
<1>4. \A p \in Ops \ {o} : Entitled(p)' <=> Entitled(p)
  BY <1>1, <1>2 DEF Entitled, Successful, Tx, Mined
<1>5. ASSUME \A t \in pool' : t \in pool \/ t.tx = Tx(o),
             o \in Transfers =>
               /\ \A t \in pool' : t.tx.op = o =>
                    phase'[o] = "receipt" /\ t.tx = Tx(o)'
               /\ Entitled(o)' => allowance >= 1
      PROVE  AllowanceKept'
  <2>1. Tx(o).op = o
    BY DEF Tx
  <2>2. ASSUME NEW t \in pool', t.tx.op \in Transfers
        PROVE  phase'[t.tx.op] = "receipt" /\ t.tx = Tx(t.tx.op)'
    <3>1. CASE t.tx.op = o
      BY <1>5, <2>2, <3>1
    <3>2. CASE t.tx.op # o
      <4>1. t \in pool /\ t.tx.op \in Ops \ {o}
        BY <1>5, <2>1, <2>2, <3>2 DEF Ops
      <4> QED
        BY <1>0, <1>1, <2>2, <4>1 DEF Tx
    <3> QED
      BY <3>1, <3>2
  <2>3. ASSUME NEW p \in Transfers
        PROVE  /\ ~Mined(main(p), FALSE)'
               /\ Entitled(p)' => allowance' >= 1
    BY <1>0, <1>2, <1>3, <1>4, <1>5 DEF Ops
  <2> QED
    BY <2>2, <2>3 DEF AllowanceKept
<1>6. ASSUME NEW k, Mined(Tx(o), k), o \in Transfers
      PROVE  \A t \in pool : t.tx.op # o
  <2>1. \A t \in pool : t.tx # Tx(o)
    BY <1>6 DEF IInv, SentOnce, Mined
  <2> QED
    BY <1>0, <1>6, <2>1
<1>7. phase[o] # "receipt" => \A t \in pool : t.tx.op \in Transfers => t.tx.op # o
  BY <1>0
<1>8. CASE Call(o)
  BY <1>5, <1>7, <1>8 DEF Call, Goes, chainVars, Entitled, Phases, TypeOK
<1>9. CASE CheckAllowance(o)
  <2>1. Entitled(o)' => allowance >= 1
    BY <1>9 DEF CheckAllowance, Goes, Entitled, TypeOK
  <2> QED
    BY <1>5, <1>7, <1>9, <2>1 DEF CheckAllowance, Goes, chainVars
<1>10. CASE GetTransactOpts(o)
  <2>1. Entitled(o)' => Entitled(o)
    BY <1>10 DEF GetTransactOpts, Goes, Entitled, TypeOK
  <2> QED
    BY <1>0, <1>5, <1>7, <1>10, <2>1 DEF GetTransactOpts, Goes, chainVars
<1>11. CASE Submit(o)
  <2>1. /\ phase[o] = "submit" /\ phase'[o] = "receipt" /\ stage' = stage
        /\ \A t \in pool' : t \in pool \/ t.tx = Tx(o)
    BY <1>11 DEF Submit, Goes, Accept, TypeOK
  <2>2. Entitled(o)' => Entitled(o)
    <3>1. stage[o] # "main" => ~Successful(o)
      <4>1. Successful(o) => Sent([op |-> o, stage |-> stage[o]])
        BY DEF Successful, Mined, Sent, Tx
      <4>2. Sent([op |-> o, stage |-> "approve"]) => stage[o] = "main"
        BY <2>1 DEF IInv, PhasesAgree
      <4> QED
        BY <4>1, <4>2 DEF TypeOK
    <3>2. Successful(o)' <=> Successful(o)
      BY <1>2, <2>1 DEF Successful, Mined, Tx
    <3> QED
      BY <2>1, <3>1, <3>2 DEF Entitled
  <2>3. Tx(o)' = Tx(o)
    BY <2>1 DEF Tx
  <2> QED
    BY <1>0, <1>5, <1>7, <2>1, <2>2, <2>3
<1>12. CASE SubmitLost(o) \/ ReceiptTimeout(o)
  <2>1. o \notin Transfers
    BY <1>12 DEF SubmitLost, ReceiptTimeout
  <2>2. \A t \in pool' : t \in pool \/ t.tx = Tx(o)
    BY <1>12 DEF SubmitLost, Accept, ReceiptTimeout, chainVars
  <2> QED
    BY <1>5, <2>1, <2>2
<1>13. CASE ReceiptOk(o)
  <2>1. Mined(Tx(o), TRUE) /\ pool' = pool /\ phase[o] = "receipt"
    BY <1>13 DEF ReceiptOk, Successful, chainVars, Returns, Goes
  <2>2. o \in Transfers /\ Entitled(o)' => Entitled(o)
    BY <1>13, <2>1
    DEF ReceiptOk, Goes, Entitled, Successful, TypeOK
  <2> QED
    BY <1>0, <1>5, <1>6, <2>1, <2>2
<1>14. CASE SubmitRejected(o) \/ ReceiptFailed(o) \/ GetPackets(o) \/ RemoteError(o)
  <2>1. /\ pool' = pool /\ phase'[o] = "returned"
        /\ phase[o] # "receipt" \/ Mined(Tx(o), FALSE)
    BY <1>14
    DEF SubmitRejected, ReceiptFailed, GetPackets, RemoteError, Returns, Goes,
        chainVars, TypeOK
  <2> QED
    BY <1>5, <1>6, <1>7, <2>1 DEF Entitled
<1> QED
  BY <1>8, <1>9, <1>10, <1>11, <1>12, <1>13, <1>14 DEF OpStep

\* A transfer that is mined had its allowance, and uses up no other's.
LEMMA MineKeepsAllowance ==
  ASSUME TypeOK, IInv, OneAtATime, AllowanceKept,
         NEW t \in pool, Mine(t), lost \cap Transfers = {}
  PROVE  AllowanceKept'
<1> DEFINE main(p) == [op |-> p, stage |-> "main"]
           o == t.tx.op
<1>0. /\ \A u \in pool : u.tx.op \in Transfers =>
           phase[u.tx.op] = "receipt" /\ u.tx = Tx(u.tx.op)
      /\ \A p \in Transfers : /\ ~Mined(main(p), FALSE)
                              /\ Entitled(p) => allowance >= 1
  BY DEF AllowanceKept
<1>1. PICK ok \in BOOLEAN :
           /\ t.tx \in Txs
           /\ pool' = pool \ {t}
           /\ \A u, k : Mined(u, k)' <=> Mined(u, k) \/ (u = t.tx /\ k = ok)
           /\ UNCHANGED <<phase, stage>>
           /\ Spends(t.tx, ok)
  BY MineMoves
<1>2. \A k : ~Mined(t.tx, k)
  BY DEF IInv, SentOnce, Mined
<1>3. /\ o \in Ops /\ t.tx.stage \in {"approve", "main"}
      /\ t.tx = [op |-> o, stage |-> t.tx.stage]
      /\ allowance \in Nat
  BY <1>1 DEF Txs, TypeOK
<1>4. \A p \in Ops : Tx(p)' = Tx(p)
  BY <1>1 DEF Tx
<1>5. \A u \in pool' : u.tx.op \in Transfers =>
        phase'[u.tx.op] = "receipt" /\ u.tx = Tx(u.tx.op)'
  BY <1>0, <1>1, <1>4 DEF Ops
<1>6. ASSUME NEW p \in Transfers, Tx(p) # t.tx
      PROVE  Entitled(p)' <=> Entitled(p)
  <2>1. Successful(p)' <=> Successful(p)
    BY <1>1, <1>4, <1>6 DEF Successful, Ops
  <2> QED
    BY <1>1, <2>1 DEF Entitled
<1>7. \A p \in Transfers : Tx(p) = t.tx => p = o
  BY DEF Tx
<1>8. ASSUME NEW p \in Transfers, main(p) # t.tx \/ ok = TRUE
      PROVE  ~Mined(main(p), FALSE)'
  BY <1>0, <1>1, <1>8
<1>9. ASSUME \A p \in Transfers : Tx(p) # t.tx, allowance' = allowance
      PROVE  \A p \in Transfers : Entitled(p)' => allowance' >= 1
  <2> SUFFICES ASSUME NEW p \in Transfers, Entitled(p)' PROVE allowance >= 1
    BY <1>9
  <2>1. Entitled(p)
    BY <1>6, <1>9
  <2> QED
    BY <1>0, <2>1
<1>10. CASE o \notin Transfers
  <2>1. \A p \in Transfers : main(p) # t.tx /\ Tx(p) # t.tx
    BY <1>7, <1>10
  <2>2. \A p \in Transfers : ~Mined(main(p), FALSE)'
    BY <1>8, <2>1
  <2>3. allowance' = allowance \/ allowance' = 1
    BY <1>1, <1>3, <1>10 DEF Spends
  <2>4. \A p \in Transfers : Entitled(p)' => allowance' >= 1
    <3>1. CASE allowance' = allowance
      BY <1>9, <2>1, <3>1
    <3>2. CASE allowance' = 1
      BY <3>2
    <3> QED
      BY <2>3, <3>1, <3>2
  <2> QED
    BY <1>5, <2>2, <2>4 DEF AllowanceKept
<1>11. CASE o \in Transfers
  <2>0. phase[o] = "receipt" /\ t.tx = Tx(o) /\ stage[o] = t.tx.stage
    BY <1>0, <1>11 DEF Tx
  <2>1. CASE t.tx.stage = "approve"
    <3>1. allowance' = IF ok THEN 1 ELSE allowance
      BY <1>1, <2>1 DEF Spends
    <3>2. \A p \in Transfers : ~Mined(main(p), FALSE)'
      <4>1. \A p \in Transfers : main(p) # t.tx
        BY <2>1
      <4> QED
        BY <1>8, <4>1
    <3>3. Entitled(o)' => ok
      <4>1. Successful(o)' => ok = TRUE
        BY <1>1, <1>2, <1>3, <1>4, <2>0 DEF Successful
      <4> QED
        BY <1>1, <2>0, <2>1, <4>1 DEF Entitled
    <3>4. ASSUME NEW p \in Transfers, Entitled(p)' PROVE allowance' >= 1
      <4>1. CASE ok = TRUE
        BY <3>1, <4>1
      <4>2. CASE ok = FALSE
        <5>1. p # o
          BY <3>3, <3>4, <4>2
        <5>2. Entitled(p)
          BY <1>6, <1>7, <3>4, <5>1
        <5> QED
          BY <1>0, <3>1, <4>2, <5>2
      <4> QED
        BY <4>1, <4>2
    <3> QED
      BY <1>5, <3>2, <3>4 DEF AllowanceKept
  <2>2. CASE t.tx.stage = "main"
    <3>1. Entitled(o)
      BY <1>2, <2>0, <2>2 DEF Entitled, Successful
    <3>2. ok = TRUE
      BY <1>0, <1>1, <1>11, <2>2, <3>1 DEF Spends
    <3>3. \A p \in Transfers : ~Mined(main(p), FALSE)'
      BY <1>8, <3>2
    <3>4. ~Entitled(o)'
      <4>1. Successful(o)'
        BY <1>1, <1>3, <1>4, <2>0, <3>2 DEF Successful
      <4> QED
        BY <1>1, <2>0, <2>2, <4>1 DEF Entitled
    <3>5. \A p \in Transfers \ {o} : ~Entitled(p)'
      <4>1. \A p \in Transfers : p \in Running(Transfers) => p = o
        BY <1>11, <2>0 DEF OneAtATime, Running
      <4> QED
        BY <1>1, <4>1 DEF Entitled, Running
    <3> QED
      BY <1>5, <3>3, <3>4, <3>5 DEF AllowanceKept
  <2> QED
    BY <1>3, <2>1, <2>2
<1> QED
  BY <1>10, <1>11

\* Every step keeps the allowance for the transfer that counts on it.
LEMMA NextAllowanceKept ==
  ASSUME TypeOK, IInv, OneAtATime, AllowanceKept, [Next]_vars
  PROVE  AllowanceKept'
<1> SUFFICES ASSUME lost' \cap Transfers = {} PROVE AllowanceKept'
  BY DEF AllowanceKept
<1>1. ASSUME NEW o \in Ops, Call(o) \/ OpStep(o) PROVE AllowanceKept'
  BY <1>1, CallKeepsAllowance
<1>2. ASSUME NEW t \in pool, Mine(t) PROVE AllowanceKept'
  BY <1>2, MineKeepsAllowance DEF Mine, historyVars
<1>3. CASE (\E price \in GasPrices : Suggest(price)) \/ UNCHANGED vars
  <2>1. UNCHANGED <<phase, stage, allowance, pool, mined, lost>>
    BY <1>3 DEF Suggest, vars, callVars, chainVars, historyVars
  <2> QED
    BY <2>1 DEF AllowanceKept, Entitled, Successful, Mined, Tx
<1> QED
  BY <1>1, <1>2, <1>3 DEF Next

\* What has been called stays called, so a shared use stays one.
LEMMA SharedUseStays ==
  ASSUME TypeOK, IInv, SharedUse, [Next]_vars
  PROVE  SharedUse'
<1>1. PICK t \in Transfers, r \in Relays : outcome[t] # "none" /\ outcome[r] # "none"
  BY DEF SharedUse
<1>2. ASSUME NEW o \in Ops, Call(o) \/ OpStep(o) PROVE SharedUse'
  <2>1. outcome'[o] # "none" /\ \A p \in Ops \ {o} : outcome'[p] = outcome[p]
    BY <1>2, OneCallMoves
  <2> QED
    BY <1>1, <2>1 DEF SharedUse, Ops
<1>3. CASE UNCHANGED outcome
  BY <1>3 DEF SharedUse
<1> QED
  BY <1>2, <1>3 DEF Next, Mine, Suggest, vars

\* Only another call can take a nonce, and there is none but of the other kind.
LEMMA NextNonceKept ==
  ASSUME TypeOK, IInv, OneAtATime, Prepared, NonceKept, [Next]_vars
  PROVE  NonceKept'
<1> SUFFICES ASSUME NEW o \in Ops, phase'[o] = "submit", ~SharedUse'
             PROVE  FreeNonce(nonce[o])' \/ (NonceFails /\ nonce'[o] = 0)
  BY DEF NonceKept
<1>0. ~SharedUse
  BY SharedUseStays
<1>1. CASE UNCHANGED <<pool, mined>>
  <2>1. CASE phase[o] = "submit" /\ nonce'[o] = nonce[o]
    BY <1>0, <1>1, <2>1 DEF NonceKept, FreeNonce, ChainNonce, PoolNonces
  <2>2. CASE GetTransactOpts(o)
    <3>1. nonce'[o] \in Nonces
      BY <2>2 DEF GetTransactOpts, TypeOK
    <3>2. CASE nonce'[o] = PendingNonce
      BY <1>1, <3>2, PendingNonceIsFree DEF Prepared, FreeNonce, ChainNonce, PoolNonces
    <3> QED
      BY <3>1, <3>2 DEF Nonces
  <2>3. ASSUME NEW p \in Ops, Call(p) \/ OpStep(p), ~GetTransactOpts(o)
        PROVE  phase[o] = "submit" /\ nonce'[o] = nonce[o]
    BY <2>3, OneCallMoves
  <2> QED
    BY <2>1, <2>2, <2>3 DEF Next, Mine, Suggest, callVars, vars
<1>2. ASSUME NEW p \in Ops, Submit(p) \/ SubmitLost(p) PROVE FALSE
  <2>1. OpStep(p) /\ phase[p] = "submit" /\ phase'[p] # "submit"
    BY <1>2 DEF OpStep, Submit, SubmitLost, Returns, Goes, TypeOK
  <2>2. p # o /\ phase[o] = "submit"
    BY <2>1, OneCallMoves
  <2>3. outcome[o] # "none" /\ outcome[p] # "none"
    BY <2>1, <2>2 DEF IInv, PhasesAgree
  <2>4. \A S \in {Transfers, Relays} : ~(o \in S /\ p \in S)
    BY <2>1, <2>2 DEF OneAtATime, Running
  <2> QED
    BY <1>0, <2>3, <2>4 DEF SharedUse, Ops
<1>3. ASSUME NEW t \in pool, Mine(t)
      PROVE  FreeNonce(nonce[o])' \/ (NonceFails /\ nonce'[o] = 0)
  <2>1. /\ t.nonce = ChainNonce /\ pool' \subseteq pool
        /\ phase[o] = "submit" /\ nonce' = nonce
    BY <1>3 DEF Mine, callVars
  <2>2. ChainNonce' = ChainNonce + 1 /\ ChainNonce \in Nat
    <3>1. Len(mined) \in Nat /\ DOMAIN mined = 1..Len(mined)
          /\ mined' \in Seq([tx : Txs, ok : BOOLEAN])
          /\ DOMAIN mined' = 1..Len(mined) + 1
      BY <1>3, MineMoves
    <3>2. Len(mined') = Len(mined) + 1
      BY <3>1, LenProperties
    <3> QED
      BY <3>1, <3>2, NonceAssumption DEF ChainNonce
  <2>3. ASSUME FreeNonce(nonce[o]) PROVE FreeNonce(nonce[o])'
    <3>1. nonce[o] # ChainNonce /\ nonce[o] \in Nat
      BY <2>1, <2>3 DEF FreeNonce, PoolNonces, TypeOK
    <3>2. nonce[o] >= ChainNonce' /\ nonce[o] \notin PoolNonces'
      BY <2>1, <2>2, <2>3, <3>1 DEF FreeNonce, PoolNonces
    <3> QED
      BY <2>1, <3>2 DEF FreeNonce
  <2> QED
    BY <1>0, <2>1, <2>3 DEF NonceKept
<1> QED
  BY <1>1, <1>2, <1>3
  DEF Next, Call, OpStep, CheckAllowance, GetTransactOpts, SubmitRejected,
      ReceiptOk, ReceiptFailed, ReceiptTimeout, GetPackets, RemoteError, Suggest,
      chainVars, vars

\* A call is refused for a nonce that is used up or taken, which is what the
\* nonce of a sole user never is.
LEMMA NextNeverRejected ==
  ASSUME TypeOK, IInv, Prepared, NonceKept, SoleUserNeverRejected, [Next]_vars
  PROVE  SoleUserNeverRejected'
<1> SUFFICES ASSUME NEW o \in rejected', ~SharedUse'
             PROVE  NonceFails /\ nonce'[o] = 0
  BY DEF SoleUserNeverRejected
<1>0. ~SharedUse
  BY SharedUseStays
<1>1. CASE o \in rejected
  <2>1. NonceFails /\ nonce[o] = 0 /\ phase[o] = "returned" /\ o \in Ops
    BY <1>0, <1>1 DEF SoleUserNeverRejected, Prepared, TypeOK
  <2>2. ASSUME NEW p \in Ops, Call(p) \/ OpStep(p) PROVE nonce'[o] = nonce[o]
    <3>1. p # o
      BY <2>1, <2>2, OneCallMoves
    <3> QED
      BY <2>1, <2>2, <3>1, OneCallMoves
  <2> QED
    BY <2>1, <2>2 DEF Next, Mine, Suggest, callVars, vars
<1>2. CASE o \notin rejected
  <2>1. o \in Ops /\ SubmitRejected(o)
    BY <1>2
    DEF Next, Call, OpStep, CheckAllowance, GetTransactOpts, Submit,
        SubmitRejected, SubmitLost, ReceiptOk, ReceiptFailed, ReceiptTimeout,
        GetPackets, RemoteError, Mine, Suggest, historyVars, vars
  <2>2. phase[o] = "submit" /\ nonce' = nonce /\ ~Acceptable(o)
    BY <2>1 DEF SubmitRejected, Returns, Goes
  <2>3. ~FreeNonce(nonce[o])
    BY <2>2 DEF Acceptable, FreeNonce, Replaced, PoolNonces
  <2> QED
    BY <1>0, <2>1, <2>2, <2>3 DEF NonceKept
<1> QED
  BY <1>1, <1>2

\* The second invariant holds before the first call.
LEMMA InitUseInv == Init => UseInv
<1> SUFFICES ASSUME Init PROVE UseInv
  OBVIOUS
<1>1. TypeOK
  BY EmptySeq DEF Init, TypeOK, Phases
<1>2. OneAtATime
  BY DEF Init, OneAtATime, Running, Ops
<1>3. Prepared
  BY FS_EmptySet DEF Init, Prepared
<1>4. AllowanceKept
  BY DEF Init, AllowanceKept, Entitled, Mined, Ops
<1>5. NonceKept /\ SoleUserNeverRejected
  BY DEF Init, NonceKept, SoleUserNeverRejected
<1> QED
  BY <1>1, <1>2, <1>3, <1>4, <1>5 DEF UseInv

\* Every step keeps the second invariant.
LEMMA NextUseInv == IInv /\ UseInv /\ [Next]_vars => UseInv'
<1> SUFFICES ASSUME IInv, UseInv, [Next]_vars PROVE UseInv'
  OBVIOUS
<1>1. /\ TypeOK /\ OneAtATime /\ Prepared
      /\ AllowanceKept /\ NonceKept /\ SoleUserNeverRejected
  BY DEF UseInv
<1>2. TypeOK' /\ OneAtATime' /\ Prepared'
  BY <1>1, NextTypeOK, NextOneAtATime, NextPrepared
<1>3. AllowanceKept'
  BY <1>1, NextAllowanceKept
<1>4. NonceKept' /\ SoleUserNeverRejected'
  BY <1>1, NextNonceKept, NextNeverRejected
<1> QED
  BY <1>2, <1>3, <1>4 DEF UseInv

-----------------------------------------------------------------------------
(* What holds in every state *)

\* A transfer that counts on its allowance has it, and a sole user's nonce is
\* free (chains/ethereum/tx.go:58-109, transfer.go:21-96).
THEOREM SpecUseInv == Spec => []UseInv
<1> QED
  BY InitUseInv, NextUseInv, SpecIInv, PTL DEF Spec

\* Every variable keeps its type: a nonce and the allowance stay numbers, what
\* is in the pool pays a price the node has suggested.
THEOREM SpecTypeOK == Spec => []TypeOK
<1>1. UseInv => TypeOK
  BY DEF UseInv
<1> QED
  BY <1>1, SpecUseInv, PTL

\* The approval a transfer has waited for, or the allowance it has read, is
\* still there when the transfer is mined, whatever else uses the wallet,
\* unless an earlier call has given up on a transaction (transfer.go:51-78).
THEOREM SpecRevertsOnlyAfterLoss == Spec => []RevertsOnlyAfterLoss
<1>1. UseInv => RevertsOnlyAfterLoss
  BY DEF UseInv, AllowanceKept, RevertsOnlyAfterLoss
<1> QED
  BY <1>1, SpecUseInv, PTL

\* PendingNonceAt is enough for a wallet with a sole user: the nonce it gives
\* is not refused, with any number of calls and of transactions given up on
\* (tx.go:83-109).
THEOREM SpecSoleUserNeverRejected == Spec => []SoleUserNeverRejected
<1>1. UseInv => SoleUserNeverRejected
  BY DEF UseInv
<1> QED
  BY <1>1, SpecUseInv, PTL
=============================================================================
