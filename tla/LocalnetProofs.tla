--------------------------- MODULE LocalnetProofs ---------------------------
(***************************************************************************)
(* Proofs about Localnet for any number of calls at once, any deadline,    *)
(* interval and number of retries: what is returned is ready, leftovers of *)
(* earlier calls are gone, and the wait overshoots its deadline by at most *)
(* one poll.                                                               *)
(***************************************************************************)
EXTENDS Localnet, TLAPS

USE DEF poll, deployment

\* The invariant holds before the first call.
LEMMA InitIInv == Init => IInv
<1> SUFFICES ASSUME Init PROVE IInv
  OBVIOUS
<1>1. Span \in Nat
  BY LocalnetAssumption DEF Span
<1>2. TypeOK
  BY DEF Init, TypeOK, Phases, Requests
<1>3. EnclavesAgree
  BY DEF Init, EnclavesAgree
<1>4. SleepIsAccounted
  BY <1>1, LocalnetAssumption DEF Init, SleepIsAccounted
<1>5. SlotsAgree
  BY DEF Init, SlotsAgree, Running
<1> QED
  BY <1>2, <1>3, <1>4, <1>5 DEF IInv

\* The pause after attempt t is within the span of its request.
LEMMA AttemptFits ==
  ASSUME NEW t \in Nat, t < Retries
  PROVE  /\ (t + 1) * RetryWait = t * RetryWait + RetryWait
         /\ t * RetryWait \in Nat /\ Span \in Nat
         /\ t * RetryWait + RetryWait <= Span
<1>1. PICK d \in Nat : Retries = t + 1 + d
  <2>1. Retries - (t + 1) \in Nat /\ Retries = t + 1 + (Retries - (t + 1))
    BY LocalnetAssumption
  <2> QED
    BY <2>1
<1>2. t * RetryWait \in Nat /\ d * RetryWait \in Nat
  BY LocalnetAssumption
<1>3. (t + 1) * RetryWait = t * RetryWait + RetryWait
  BY LocalnetAssumption
<1>4. (t + 1 + d) * RetryWait = t * RetryWait + RetryWait + d * RetryWait
  BY LocalnetAssumption
<1> QED
  BY <1>1, <1>2, <1>3, <1>4, LocalnetAssumption DEF Span

\* MaxElapsed is the deadline and the three requests of one poll.
LEMMA ThreeSpans ==
  Span \in Nat /\ MaxElapsed = Timeout + 3 * Span /\ MaxElapsed \in Nat
<1>1. Span \in Nat /\ 3 * Retries * RetryWait = 3 * Span
  BY LocalnetAssumption DEF Span
<1> QED
  BY <1>1, LocalnetAssumption DEF MaxElapsed

\* Every step keeps the types.
LEMMA StepTypeOK == ASSUME IInv, [Next]_vars PROVE TypeOK'
<1> USE DEF IInv, TypeOK
<1>1. CASE UNCHANGED vars
  BY <1>1 DEF vars
<1>2. ASSUME NEW c \in Calls, SpinUpEthereum(c) PROVE TypeOK'
  BY <1>2 DEF SpinUpEthereum, Goto, Phases
<1>3. ASSUME NEW c \in Calls, GetEnclaves(c) PROVE TypeOK'
  BY <1>3 DEF GetEnclaves, Goto, Phases
<1>4. ASSUME NEW c \in Calls, DestroyEnclave(c) PROVE TypeOK'
  BY <1>4 DEF DestroyEnclave
<1>5. ASSUME NEW c \in Calls, CreateEnclave(c) PROVE TypeOK'
  BY <1>5 DEF CreateEnclave, Goto, Phases
<1>6. ASSUME NEW c \in Calls, AnswerLost(c) PROVE TypeOK'
  BY <1>6 DEF AnswerLost, Goto, Phases, Finished
<1>7. ASSUME NEW c \in Calls, RunStarlark(c) PROVE TypeOK'
  BY <1>7 DEF RunStarlark, Goto, Phases, Running
<1>8. ASSUME NEW c \in Calls, Poll(c) PROVE TypeOK'
  BY <1>8, LocalnetAssumption DEF Poll, Goto, Phases, Running, Requests
<1>9. ASSUME NEW c \in Calls, TimeOut(c) PROVE TypeOK'
  BY <1>9, LocalnetAssumption DEF TimeOut, Goto, Phases, Finished
<1>10. ASSUME NEW c \in Calls,
              \/ BlockNotFinalized(c) \/ GetFinalizedBlocks(c)
              \/ GetBeaconBlockHeader(c) \/ GetBootstrap(c)
       PROVE  TypeOK'
  BY <1>10 DEF BlockNotFinalized, GetFinalizedBlocks, GetBeaconBlockHeader,
               GetBootstrap, Answered, Goto, Phases, Running, Requests
<1>11. ASSUME NEW c \in Calls, Retry(c) PROVE TypeOK'
  BY <1>11, ThreeSpans, LocalnetAssumption DEF Retry, After, Goto, Phases, Running
<1>12. ASSUME NEW c \in Calls, Connect(c) \/ GetIBCApp(c) PROVE TypeOK'
  BY <1>12 DEF Connect, GetIBCApp, Goto, Phases, Running
<1>13. ASSUME NEW c \in Calls, DeployIBC(c) PROVE TypeOK'
  BY <1>13 DEF DeployIBC, Goto, Phases, Running, Contracts
<1>14. ASSUME NEW c \in Calls, Fails(c) \/ Dies(c) PROVE TypeOK'
  BY <1>14 DEF Fails, Dies, Goto, Phases, Finished
<1>15. ASSUME NEW c \in Calls, Finalize(c) PROVE TypeOK'
  BY <1>15 DEF Finalize
<1> QED
  BY <1>1, <1>2, <1>3, <1>4, <1>5, <1>6, <1>7, <1>8, <1>9, <1>10, <1>11, <1>12,
     <1>13, <1>14, <1>15 DEF Next, Step

\* A step of call c that leaves the enclaves alone keeps the agreement on them
\* if c goes to a phase that is no earlier.
LEMMA EnclavesKept ==
  ASSUME TypeOK, EnclavesAgree, NEW c \in Calls, NEW to \in Phases,
         phase' = [phase EXCEPT ![c] = to],
         UNCHANGED <<enclaves, listed, left>>,
         to \in {"idle", "list", "clear"} => phase[c] \in {"idle", "list"},
         to \in {"clear", "start"} \cup Running => phase[c] \in {"start"} \cup Running
  PROVE  EnclavesAgree'
<1>1. Makers \subseteq Makers'
  BY DEF Makers, TypeOK
<1> QED
  BY <1>1 DEF EnclavesAgree, TypeOK

\* Every step keeps the agreement on the enclaves.
LEMMA StepEnclavesAgree == ASSUME IInv, [Next]_vars PROVE EnclavesAgree'
<1> USE DEF IInv
<1>1. CASE UNCHANGED vars
  BY <1>1 DEF vars, EnclavesAgree, Makers
<1>2. ASSUME NEW c \in Calls, SpinUpEthereum(c) PROVE EnclavesAgree'
  BY <1>2, EnclavesKept DEF SpinUpEthereum, Goto, Phases, Running
<1>3. ASSUME NEW c \in Calls, GetEnclaves(c) PROVE EnclavesAgree'
  <2>1. Makers' = Makers
    BY <1>3 DEF GetEnclaves, Goto, Makers, TypeOK
  <2> QED
    BY <1>3, <2>1 DEF GetEnclaves, Goto, EnclavesAgree, TypeOK, Running
<1>4. ASSUME NEW c \in Calls, DestroyEnclave(c) PROVE EnclavesAgree'
  <2>1. Makers' = Makers
    BY <1>4 DEF DestroyEnclave, Makers
  <2>2. PICK e \in left[c] : /\ enclaves' = enclaves \ {e}
                             /\ left' = [left EXCEPT ![c] = @ \ {e}]
    BY <1>4 DEF DestroyEnclave
  <2>3. phase[c] = "clear" /\ UNCHANGED <<phase, listed>>
    BY <1>4 DEF DestroyEnclave
  <2> QED
    BY <2>1, <2>2, <2>3 DEF EnclavesAgree, TypeOK, Running
<1>5. ASSUME NEW c \in Calls, CreateEnclave(c) PROVE EnclavesAgree'
  <2>1. Makers' = Makers \cup {c} /\ c \notin Makers
    BY <1>5 DEF CreateEnclave, Goto, Makers, TypeOK
  <2>2. \A d \in Calls : c \notin listed[d]
    BY <2>1 DEF EnclavesAgree
  <2>3. /\ phase[c] = "clear" /\ left[c] = {} /\ enclaves' = enclaves \cup {c}
        /\ phase' = [phase EXCEPT ![c] = "start"] /\ UNCHANGED <<listed, left>>
    BY <1>5 DEF CreateEnclave, Goto
  <2> QED
    BY <2>1, <2>2, <2>3 DEF EnclavesAgree, TypeOK
<1>6. ASSUME NEW c \in Calls, AnswerLost(c) PROVE EnclavesAgree'
  <2>1. Makers' = Makers \cup {c} /\ c \notin Makers
    BY <1>6 DEF AnswerLost, Goto, Makers, TypeOK
  <2>2. \A d \in Calls : c \notin listed[d]
    BY <2>1 DEF EnclavesAgree
  <2>3. enclaves' \subseteq enclaves \cup {c}
    BY <1>6 DEF AnswerLost
  <2>4. phase' = [phase EXCEPT ![c] = "failed"] /\ UNCHANGED <<listed, left>>
    BY <1>6 DEF AnswerLost, Goto
  <2> QED
    BY <2>1, <2>2, <2>3, <2>4 DEF EnclavesAgree, TypeOK, Running
<1>7. ASSUME NEW c \in Calls,
             \/ RunStarlark(c) \/ Poll(c) \/ TimeOut(c) \/ BlockNotFinalized(c)
             \/ GetFinalizedBlocks(c) \/ GetBeaconBlockHeader(c) \/ GetBootstrap(c)
             \/ Retry(c) \/ Connect(c) \/ DeployIBC(c) \/ GetIBCApp(c)
      PROVE  EnclavesAgree'
  <2>1. PICK to \in Running \cup {"failed"} : phase' = [phase EXCEPT ![c] = to]
    BY <1>7 DEF RunStarlark, Poll, TimeOut, BlockNotFinalized, GetFinalizedBlocks,
       GetBeaconBlockHeader, GetBootstrap, Answered, Retry, Connect, DeployIBC,
       GetIBCApp, Goto, Running
  <2>2. phase[c] \in {"start"} \cup Running /\ UNCHANGED <<enclaves, listed, left>>
    BY <1>7 DEF RunStarlark, Poll, TimeOut, BlockNotFinalized, GetFinalizedBlocks,
       GetBeaconBlockHeader, GetBootstrap, Answered, Retry, Connect, DeployIBC,
       GetIBCApp, Running
  <2> QED
    BY <2>1, <2>2, EnclavesKept DEF Phases, Running, Finished
<1>8. ASSUME NEW c \in Calls, Fails(c) \/ Dies(c) PROVE EnclavesAgree'
  BY <1>8, EnclavesKept DEF Fails, Dies, Goto, Phases, Running, Finished
<1>9. ASSUME NEW c \in Calls, Finalize(c) PROVE EnclavesAgree'
  BY <1>9 DEF Finalize, EnclavesAgree, Makers
<1> QED
  BY <1>1, <1>2, <1>3, <1>4, <1>5, <1>6, <1>7, <1>8, <1>9 DEF Next, Step

\* A step of call c that adds nothing to the sleep of any call keeps the account
\* of it, unless c goes to a request or back to before the wait.
LEMMA SleepKept ==
  ASSUME TypeOK, SleepIsAccounted, NEW c \in Calls, NEW to \in Phases \ {"request"},
         phase' = [phase EXCEPT ![c] = to],
         UNCHANGED elapsed,
         \A d \in Calls \ {c} : request'[d] = request[d] /\ tries'[d] = tries[d],
         to \in {"list", "clear", "start"} =>
           phase[c] \in {"idle", "list", "clear", "start"},
         to # "idle"
  PROVE  SleepIsAccounted'
<1> SUFFICES ASSUME NEW d \in Calls
             PROVE  /\ phase'[d] \in {"idle", "list", "clear", "start"} => elapsed[d] = 0
                    /\ elapsed[d] <= Timeout + 3 * Span
                    /\ phase'[d] = "request" =>
                         /\ tries'[d] < Retries
                         /\ request'[d] = "block" =>
                              elapsed[d] <= Timeout + tries'[d] * RetryWait
                         /\ request'[d] = "header" =>
                              elapsed[d] <= Timeout + Span + tries'[d] * RetryWait
                         /\ request'[d] = "bootstrap" =>
                              elapsed[d] <= Timeout + 2 * Span + tries'[d] * RetryWait
  BY Zenon DEF SleepIsAccounted, Span
<1>1. CASE d = c
  BY <1>1 DEF SleepIsAccounted, TypeOK
<1>2. CASE d # c
  BY <1>2 DEF SleepIsAccounted, TypeOK
<1> QED
  BY <1>1, <1>2

\* A request of call c starts or is retried: the account of the other calls'
\* sleep is as it was, so that only that of c is to be settled.
LEMMA SleepOfOne ==
  ASSUME TypeOK, SleepIsAccounted, NEW c \in Calls,
         NEW to \in Running, NEW e \in Nat, NEW r \in Requests, NEW n \in Nat,
         phase' = [phase EXCEPT ![c] = to],
         elapsed' = [elapsed EXCEPT ![c] = e],
         request' = [request EXCEPT ![c] = r],
         tries' = [tries EXCEPT ![c] = n],
         e <= Timeout + 3 * Span,
         to = "request" =>
           /\ n < Retries
           /\ r = "block" => e <= Timeout + n * RetryWait
           /\ r = "header" => e <= Timeout + Span + n * RetryWait
           /\ r = "bootstrap" => e <= Timeout + 2 * Span + n * RetryWait
  PROVE  SleepIsAccounted'
<1>1. Span' = Span
  BY DEF Span
<1> SUFFICES ASSUME NEW d \in Calls
             PROVE  /\ phase'[d] \in {"idle", "list", "clear", "start"} => elapsed'[d] = 0
                    /\ elapsed'[d] <= Timeout + 3 * Span
                    /\ phase'[d] = "request" =>
                         /\ tries'[d] < Retries
                         /\ request'[d] = "block" =>
                              elapsed'[d] <= Timeout + tries'[d] * RetryWait
                         /\ request'[d] = "header" =>
                              elapsed'[d] <= Timeout + Span + tries'[d] * RetryWait
                         /\ request'[d] = "bootstrap" =>
                              elapsed'[d] <= Timeout + 2 * Span + tries'[d] * RetryWait
  BY <1>1, Zenon DEF SleepIsAccounted
<1>2. CASE d = c
  <2>1. phase'[d] = to /\ elapsed'[d] = e /\ request'[d] = r /\ tries'[d] = n
    BY <1>2 DEF TypeOK
  <2> QED
    BY <2>1, Zenon DEF Running
<1>3. CASE d # c
  <2>1. /\ phase'[d] = phase[d] /\ elapsed'[d] = elapsed[d]
        /\ request'[d] = request[d] /\ tries'[d] = tries[d]
    BY <1>3 DEF TypeOK
  <2> QED
    BY <2>1, Zenon DEF SleepIsAccounted
<1> QED
  BY <1>2, <1>3

\* Every step keeps the account of the time slept.
LEMMA StepSleepIsAccounted == ASSUME IInv, [Next]_vars PROVE SleepIsAccounted'
<1> USE DEF IInv
<1>0. /\ Timeout \in Nat /\ Interval \in Nat /\ RetryWait \in Nat
      /\ Retries \in Nat \ {0} /\ Span \in Nat /\ 0 * RetryWait = 0
  BY LocalnetAssumption, ThreeSpans
<1>1. CASE UNCHANGED vars
  BY <1>1, Zenon DEF vars, SleepIsAccounted, Span
<1>2. ASSUME NEW c \in Calls,
             \/ SpinUpEthereum(c) \/ GetEnclaves(c) \/ CreateEnclave(c)
             \/ AnswerLost(c) \/ RunStarlark(c) \/ Connect(c) \/ DeployIBC(c)
             \/ GetIBCApp(c) \/ Fails(c) \/ Dies(c)
      PROVE  SleepIsAccounted'
  <2>1. UNCHANGED <<elapsed, request, tries>>
    BY <1>2 DEF SpinUpEthereum, GetEnclaves, CreateEnclave, AnswerLost,
       RunStarlark, Connect, DeployIBC, GetIBCApp, Fails, Dies
  <2>2. PICK to \in Phases \ {"request", "idle"} :
          /\ phase' = [phase EXCEPT ![c] = to]
          /\ to \in {"list", "clear", "start"} =>
               phase[c] \in {"idle", "list", "clear", "start"}
    BY <1>2 DEF SpinUpEthereum, GetEnclaves, CreateEnclave, AnswerLost,
       RunStarlark, Connect, DeployIBC, GetIBCApp, Fails, Dies, Goto, Phases,
       Running, Finished
  <2> QED
    BY <2>1, <2>2, SleepKept
<1>3. ASSUME NEW c \in Calls, DestroyEnclave(c) \/ Finalize(c)
      PROVE  SleepIsAccounted'
  <2>1. UNCHANGED <<phase, elapsed, request, tries>>
    BY <1>3 DEF DestroyEnclave, Finalize
  <2> QED
    BY <2>1, Zenon DEF SleepIsAccounted, Span
<1>4. ASSUME NEW c \in Calls, Poll(c) PROVE SleepIsAccounted'
  <2>1. elapsed[c] \in Nat /\ elapsed[c] + Interval <= Timeout
    BY <1>4 DEF Poll, TypeOK
  <2>2. /\ elapsed[c] + Interval \in Nat
        /\ elapsed[c] + Interval <= Timeout + 3 * Span
        /\ elapsed[c] + Interval <= Timeout + 0 * RetryWait
        /\ 0 < Retries
    BY <1>0, <2>1
  <2>3. /\ phase' = [phase EXCEPT ![c] = "request"]
        /\ elapsed' = [elapsed EXCEPT ![c] = elapsed[c] + Interval]
        /\ request' = [request EXCEPT ![c] = "block"]
        /\ tries' = [tries EXCEPT ![c] = 0]
    BY <1>4 DEF Poll, Goto
  <2> QED
    BY <2>2, <2>3, SleepOfOne, Zenon DEF Running, Requests
<1>5. ASSUME NEW c \in Calls, TimeOut(c) PROVE SleepIsAccounted'
  <2> SUFFICES ASSUME NEW d \in Calls
               PROVE  /\ phase'[d] \in {"idle", "list", "clear", "start"} =>
                           elapsed'[d] = 0
                      /\ elapsed'[d] <= Timeout + 3 * Span
                      /\ phase'[d] = "request" =>
                           phase[d] = "request" /\ elapsed'[d] = elapsed[d]
    BY <1>5, Zenon DEF SleepIsAccounted, Span, TimeOut
  <2>1. CASE d = c
    BY <1>0, <1>5, <2>1 DEF TimeOut, Goto, TypeOK, SleepIsAccounted
  <2>2. CASE d # c
    BY <1>5, <2>2 DEF TimeOut, Goto, TypeOK, SleepIsAccounted
  <2> QED
    BY <2>1, <2>2
<1>6. ASSUME NEW c \in Calls, BlockNotFinalized(c) \/ GetBootstrap(c)
      PROVE  SleepIsAccounted'
  <2>1. PICK to \in {"wait", "dial"} : phase' = [phase EXCEPT ![c] = to]
    BY <1>6 DEF BlockNotFinalized, GetBootstrap, Answered, Goto
  <2>2. /\ UNCHANGED elapsed
        /\ \A d \in Calls \ {c} : request'[d] = request[d] /\ tries'[d] = tries[d]
    BY <1>6 DEF BlockNotFinalized, GetBootstrap, Answered, TypeOK
  <2> QED
    BY <2>1, <2>2, SleepKept DEF Phases, Running
<1>7. ASSUME NEW c \in Calls, GetFinalizedBlocks(c) \/ GetBeaconBlockHeader(c)
      PROVE  SleepIsAccounted'
  <2>1. /\ phase[c] = "request" /\ tries[c] \in Nat /\ elapsed[c] \in Nat
        /\ tries[c] < Retries
    BY <1>7 DEF GetFinalizedBlocks, GetBeaconBlockHeader, Answered, TypeOK,
       SleepIsAccounted
  <2>2. tries[c] * RetryWait \in Nat /\ tries[c] * RetryWait <= Span
    BY <1>0, <2>1, AttemptFits
  <2>3. PICK r \in {"header", "bootstrap"} :
          /\ request' = [request EXCEPT ![c] = r]
          /\ request[c] = IF r = "header" THEN "block" ELSE "header"
    BY <1>7 DEF GetFinalizedBlocks, GetBeaconBlockHeader, Answered
  <2>4. /\ r = "header" => elapsed[c] <= Timeout + tries[c] * RetryWait
        /\ r = "bootstrap" => elapsed[c] <= Timeout + Span + tries[c] * RetryWait
    BY <2>1, <2>3, Zenon DEF SleepIsAccounted
  <2>5. /\ elapsed[c] <= Timeout + 3 * Span
        /\ r = "header" => elapsed[c] <= Timeout + Span + 0 * RetryWait
        /\ r = "bootstrap" => elapsed[c] <= Timeout + 2 * Span + 0 * RetryWait
    BY <1>0, <2>1, <2>2, <2>4
  <2>6. /\ phase' = [phase EXCEPT ![c] = "request"]
        /\ elapsed' = [elapsed EXCEPT ![c] = elapsed[c]]
        /\ tries' = [tries EXCEPT ![c] = 0]
    BY <1>7 DEF GetFinalizedBlocks, GetBeaconBlockHeader, Answered, Goto, TypeOK
  <2>7. 0 < Retries /\ r \in Requests /\ r # "block" /\ 0 \in Nat
    BY <1>0 DEF Requests
  <2> QED
    BY <2>1, <2>3, <2>5, <2>6, <2>7, SleepOfOne, Zenon DEF Running
<1>8. ASSUME NEW c \in Calls, Retry(c) PROVE SleepIsAccounted'
  <2> DEFINE e == elapsed[c] + RetryWait
             n == tries[c] + 1
  <2>1. /\ phase[c] = "request" /\ tries[c] \in Nat /\ elapsed[c] \in Nat
        /\ tries[c] < Retries /\ request[c] \in Requests
    BY <1>8 DEF Retry, TypeOK, SleepIsAccounted
  <2>2. /\ n * RetryWait = tries[c] * RetryWait + RetryWait
        /\ tries[c] * RetryWait \in Nat
        /\ tries[c] * RetryWait + RetryWait <= Span
    BY <2>1, AttemptFits
  <2>3. /\ request[c] = "block" => elapsed[c] <= Timeout + tries[c] * RetryWait
        /\ request[c] = "header" =>
             elapsed[c] <= Timeout + Span + tries[c] * RetryWait
        /\ request[c] = "bootstrap" =>
             elapsed[c] <= Timeout + 2 * Span + tries[c] * RetryWait
    BY <2>1, Zenon DEF SleepIsAccounted
  <2>4. /\ request[c] = "block" => e <= Timeout + n * RetryWait
        /\ request[c] = "header" => e <= Timeout + Span + n * RetryWait
        /\ request[c] = "bootstrap" => e <= Timeout + 2 * Span + n * RetryWait
    BY <1>0, <2>1, <2>2, <2>3
  <2>5. e \in Nat /\ n \in Nat /\ e <= Timeout + 3 * Span
    BY <1>0, <2>1, <2>2, <2>3 DEF Requests
  <2>6. After(elapsed[c], RetryWait) = e
    BY <1>0, <2>5, ThreeSpans DEF After
  <2>7. PICK to \in {"wait", "request"} :
          /\ phase' = [phase EXCEPT ![c] = to]
          /\ to = "request" <=> n # Retries
    BY <1>8 DEF Retry, Goto
  <2>8. to = "request" => n < Retries
    BY <1>0, <2>1, <2>7
  <2>9. /\ elapsed' = [elapsed EXCEPT ![c] = e]
        /\ request' = [request EXCEPT ![c] = request[c]]
        /\ tries' = [tries EXCEPT ![c] = n]
    BY <1>8, <2>6 DEF Retry, TypeOK
  <2> HIDE DEF e, n
  <2> QED
    BY <2>1, <2>4, <2>5, <2>7, <2>8, <2>9, SleepOfOne, Zenon DEF Running
<1> QED
  BY <1>1, <1>2, <1>3, <1>4, <1>5, <1>6, <1>7, <1>8 DEF Next, Step

\* Every step keeps the agreement on slots and contracts.
LEMMA StepSlotsAgree == ASSUME IInv, [Next]_vars PROVE SlotsAgree'
<1> USE DEF IInv, TypeOK, SlotsAgree
<1>1. CASE UNCHANGED vars
  BY <1>1 DEF vars
<1>2. ASSUME NEW c \in Calls,
             \/ SpinUpEthereum(c) \/ GetEnclaves(c) \/ CreateEnclave(c)
             \/ AnswerLost(c) \/ RunStarlark(c) \/ Fails(c) \/ Dies(c)
      PROVE  SlotsAgree'
  BY <1>2 DEF SpinUpEthereum, GetEnclaves, CreateEnclave, AnswerLost,
     RunStarlark, Fails, Dies, Goto
<1>3. ASSUME NEW c \in Calls, DestroyEnclave(c) PROVE SlotsAgree'
  BY <1>3 DEF DestroyEnclave
<1>4. ASSUME NEW c \in Calls,
             Poll(c) \/ TimeOut(c) \/ BlockNotFinalized(c)
               \/ GetBeaconBlockHeader(c) \/ Retry(c)
      PROVE  SlotsAgree'
  BY <1>4 DEF Poll, TimeOut, BlockNotFinalized, GetBeaconBlockHeader, Answered,
     Retry, Goto
<1>5. ASSUME NEW c \in Calls, GetFinalizedBlocks(c) PROVE SlotsAgree'
  BY <1>5 DEF GetFinalizedBlocks, Answered, Goto
<1>6. ASSUME NEW c \in Calls, GetBootstrap(c) PROVE SlotsAgree'
  BY <1>6 DEF GetBootstrap, Answered, Goto
<1>7. ASSUME NEW c \in Calls, Connect(c) \/ DeployIBC(c) PROVE SlotsAgree'
  BY <1>7 DEF Connect, DeployIBC, Goto, Contracts
<1>8. ASSUME NEW c \in Calls, GetIBCApp(c) PROVE SlotsAgree'
  BY <1>8 DEF GetIBCApp, Goto
<1>9. ASSUME NEW c \in Calls, Finalize(c) PROVE SlotsAgree'
  BY <1>9 DEF Finalize
<1> QED
  BY <1>1, <1>2, <1>3, <1>4, <1>5, <1>6, <1>7, <1>8, <1>9 DEF Next, Step

\* The inductive invariant of SpinUpEthereum holds, for any number of calls.
THEOREM SpecIInv == Spec => []IInv
<1>1. IInv /\ [Next]_vars => IInv'
  BY StepTypeOK, StepEnclavesAgree, StepSleepIsAccounted, StepSlotsAgree DEF IInv
<1> QED
  BY InitIInv, <1>1, PTL DEF Spec

\* A chain that SpinUpEthereum returns has its router under the address it knows,
\* and has finalized a block after genesis if that was asked for.
THEOREM SpecReturnedIsReady == Spec => []ReturnedIsReady
<1>1. IInv => ReturnedIsReady
  BY DEF IInv, TypeOK, SlotsAgree, ReturnedIsReady
<1> QED
  BY SpecIInv, <1>1, PTL

\* A call that has its own enclave has left no enclave it found, however many it
\* found and however many calls destroy and create enclaves meanwhile.
THEOREM SpecLeftoversAreGone == Spec => []LeftoversAreGone
<1>1. IInv => LeftoversAreGone
  BY DEF IInv, EnclavesAgree, LeftoversAreGone
<1> QED
  BY SpecIInv, <1>1, PTL

\* The wait overshoots its deadline by one poll at most, for every deadline,
\* interval, pause and number of attempts.
THEOREM SpecPollIsBounded == Spec => []PollIsBounded
<1>1. IInv => PollIsBounded
  BY ThreeSpans DEF IInv, SleepIsAccounted, PollIsBounded
<1> QED
  BY SpecIInv, <1>1, PTL
=============================================================================
