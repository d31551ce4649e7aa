------------------------------ MODULE TuiProofs ------------------------------
(***************************************************************************)
(* Proofs about Tui, for any number of goroutines that log and any number  *)
(* of calls: the log area and the log file have their entries in one       *)
(* order, and what is filed is shown.                                      *)
(***************************************************************************)
EXTENDS Tui, TLAPS

-----------------------------------------------------------------------------
(* Types *)

\* What Init sets has its type.
LEMMA InitTypeOK == Init => TypeOK
<1> SUFFICES ASSUME Init PROVE TypeOK
  OBVIOUS
<1>1. <<>> \in Seq(Entries)
  OBVIOUS
<1>2. pc \in [Goroutines -> LoggerPhases \cup RunnerPhases]
  BY DEF Init, LoggerPhases, RunnerPhases
<1>3. pc[Runner] \in RunnerPhases /\ \A g \in Loggers : pc[g] = "idle"
  BY RunnerAssumption DEF Init, RunnerPhases, Goroutines
<1>4. calls \in [Loggers -> 0..MaxCalls]
  BY BoundAssumption DEF Init
<1> QED
  BY <1>1, <1>2, <1>3, <1>4 DEF Init, TypeOK, LoggerPhases

\* A step of a logger leaves every goroutine in a phase of its own.
LEMMA LoggerMoves ==
  ASSUME TypeOK, NEW g \in Loggers, NEW from, NEW to \in LoggerPhases,
         Moves(g, from, to), from # "idle", UNCHANGED calls
  PROVE  /\ pc' \in [Goroutines -> LoggerPhases \cup RunnerPhases]
         /\ pc'[Runner] \in RunnerPhases
         /\ \A h \in Loggers :
              pc'[h] \in LoggerPhases /\ (calls'[h] = 0 => pc'[h] = "idle")
BY RunnerAssumption DEF TypeOK, Moves, Goroutines

\* And so does a step of the Runner.
LEMMA RunnerMoves ==
  ASSUME TypeOK, NEW from, NEW to \in RunnerPhases,
         Moves(Runner, from, to), UNCHANGED calls
  PROVE  /\ pc' \in [Goroutines -> LoggerPhases \cup RunnerPhases]
         /\ pc'[Runner] \in RunnerPhases
         /\ \A h \in Loggers : pc'[h] = pc[h]
BY RunnerAssumption DEF TypeOK, Moves, Goroutines

\* Both, for what Send and SendDropped do to a goroutine.
LEMMA SenderMoves ==
  ASSUME TypeOK, NEW g \in Goroutines, pc[g] \in {"log", "status", "error", "add"},
         Moves(g, pc[g], AfterSend(g)), UNCHANGED calls
  PROVE  /\ pc' \in [Goroutines -> LoggerPhases \cup RunnerPhases]
         /\ pc'[Runner] \in RunnerPhases
         /\ \A h \in Loggers :
              pc'[h] \in LoggerPhases /\ (calls'[h] = 0 => pc'[h] = "idle")
         /\ pc[g] = "log" => g \in Loggers
<1>1. CASE g \in Loggers
  <2>1. AfterSend(g) \in LoggerPhases
    BY DEF AfterSend, LoggerPhases
  <2> QED
    BY <1>1, <2>1, LoggerMoves
<1>2. CASE g = Runner
  <2>1. pc[g] # "log"
    BY <1>2 DEF TypeOK, RunnerPhases
  <2>2. AfterSend(g) \in RunnerPhases
    BY <2>1 DEF AfterSend, RunnerPhases
  <2> QED
    BY <1>2, <2>1, <2>2, RunnerMoves DEF TypeOK
<1> QED
  BY <1>1, <1>2 DEF Goroutines

\* A goroutine that logs has the entry of its call in hand.
LEMMA CurrentEntry ==
  ASSUME TypeOK, NEW g \in Loggers, pc[g] # "idle"
  PROVE  <<g, calls[g]>> \in Entries
BY BoundAssumption DEF TypeOK, Entries

\* The message that Send hands over is one.
LEMMA SentMessage ==
  ASSUME TypeOK, NEW g \in Goroutines, Send(g)
  PROVE  msg' \in Messages
<1>1. CASE pc[g] = "log"
  <2>1. g \in Loggers
    BY <1>1 DEF TypeOK, RunnerPhases, Goroutines
  <2>2. msg' = Message("log", <<g, calls[g]>>)
    BY <1>1 DEF Send
  <2> QED
    BY <1>1, <2>1, <2>2, CurrentEntry DEF Messages, Message
<1>2. CASE pc[g] \in {"status", "error", "add"}
  <2>1. msg' = Message(pc[g], None)
    BY <1>2 DEF Send
  <2> QED
    BY <1>2, <2>1 DEF Messages, Message
<1> QED
  BY <1>1, <1>2 DEF Send

\* The message of an input is one, too.
LEMMA InputMessage ==
  ASSUME NEW kind \in {"key", "resize", "tick"}, Input(kind)
  PROVE  msg' \in Messages
BY DEF Input, Message, Messages

\* What Update does to the model.
LEMMA UpdateModel ==
  ASSUME TypeOK, Update
  PROVE  /\ model' \in [logs : Seq(Entries), ready : BOOLEAN, viewport : Seq(Entries),
                        error : BOOLEAN, added : BOOLEAN, bar : Nat]
         /\ model'.logs = LogsToCome
         /\ ViewportHasLogs => ViewportHasLogs'
<1> DEFINE Models == [logs : Seq(Entries), ready : BOOLEAN, viewport : Seq(Entries),
                      error : BOOLEAN, added : BOOLEAN, bar : Nat]
<1>1. model \in Models /\ msg \in Messages /\ loop = "update" /\ row.percent \in Nat
  BY DEF TypeOK, Update
<1>2. /\ UpdateByKind \in Models
      /\ UpdateByKind.logs = LogsToCome
      /\ ViewportHasLogs =>
           (UpdateByKind.ready => UpdateByKind.viewport = UpdateByKind.logs)
  <2>1. CASE msg.kind = "log"
    <3>1. msg.entry \in Entries
      BY <1>1, <2>1 DEF Messages
    <3>2. UpdateByKind = UpdateLog
      BY <2>1 DEF UpdateByKind
    <3>3. Append(model.logs, msg.entry) \in Seq(Entries)
      BY <1>1, <3>1
    <3> QED
      BY <1>1, <2>1, <3>2, <3>3 DEF UpdateLog, LogsToCome, ViewportHasLogs
  <2>2. CASE msg.kind = "resize"
    <3>1. UpdateByKind = UpdateResize
      BY <2>2 DEF UpdateByKind
    <3> QED
      BY <1>1, <2>2, <3>1 DEF UpdateResize, LogsToCome, ViewportHasLogs
  <2>3. CASE msg.kind \in {"status", "error", "add"}
    <3>1. UpdateByKind \in {[model EXCEPT !.error = FALSE],
                            [model EXCEPT !.error = TRUE],
                            [model EXCEPT !.added = TRUE]}
      BY <2>3 DEF UpdateByKind
    <3> QED
      BY <1>1, <2>3, <3>1 DEF LogsToCome, ViewportHasLogs
  <2>4. CASE msg.kind \in {"key", "tick"}
    <3>1. UpdateByKind = model
      BY <2>4 DEF UpdateByKind
    <3> QED
      BY <1>1, <2>4, <3>1 DEF LogsToCome, ViewportHasLogs
  <2> QED
    BY <1>1, <2>1, <2>2, <2>3, <2>4 DEF Messages
<1>3. /\ model' \in Models
      /\ \A field \in {"logs", "ready", "viewport"} :
           model'[field] = UpdateByKind[field]
  <2>1. CASE msg.kind = "key"
    <3>1. model' = model /\ UpdateByKind = model
      BY <2>1 DEF Update, Updated, UpdateByKind
    <3> QED
      BY <1>1, <3>1
  <2>2. CASE msg.kind # "key"
    BY <1>1, <1>2, <2>2 DEF Update, Updated
  <2> QED
    BY <2>1, <2>2
<1> QED
  BY <1>2, <1>3 DEF ViewportHasLogs

\* A call begins; what a call is for is not yet known to anybody else.
LEMMA CallMoves ==
  ASSUME TypeOK, NEW g \in Loggers, Call(g)
  PROVE  /\ pc' \in [Goroutines -> LoggerPhases \cup RunnerPhases]
         /\ pc'[Runner] \in RunnerPhases
         /\ pc'[g] \in {"locking", "status", "error"} /\ pc[g] = "idle"
         /\ calls' \in [Loggers -> 0..MaxCalls] /\ calls'[g] = calls[g] + 1
         /\ \A h \in Loggers \ {g} : pc'[h] = pc[h] /\ calls'[h] = calls[h]
<1>1. /\ pc \in [Goroutines -> LoggerPhases \cup RunnerPhases]
      /\ g \in Goroutines /\ g # Runner /\ Loggers \subseteq Goroutines
  BY RunnerAssumption DEF TypeOK, Goroutines
<1>2. PICK to \in {"locking", "status", "error"} : Moves(g, "idle", to)
  BY DEF Call
<1>3. /\ pc[g] = "idle" /\ pc' = [pc EXCEPT ![g] = to]
      /\ to \in LoggerPhases \cup RunnerPhases
  BY <1>2 DEF Moves, LoggerPhases
<1>4. /\ pc' \in [Goroutines -> LoggerPhases \cup RunnerPhases]
      /\ pc'[Runner] = pc[Runner] /\ pc'[g] = to
      /\ \A h \in Loggers \ {g} : pc'[h] = pc[h]
  BY <1>1, <1>3 DEF Goroutines
<1>5. /\ calls \in [Loggers -> 0..MaxCalls] /\ calls[g] < MaxCalls
      /\ calls' = [calls EXCEPT ![g] = calls[g] + 1]
  BY DEF TypeOK, Call
<1>6. calls[g] + 1 \in 0..MaxCalls
  BY <1>5, BoundAssumption
<1> QED
  BY <1>3, <1>4, <1>5, <1>6 DEF TypeOK

\* A step of one of the Loggers keeps the types.
LEMMA LoggerTypeOK ==
  ASSUME TypeOK, NEW g \in Loggers, Call(g) \/ WriteLock(g) \/ AppendToFile(g)
  PROVE  TypeOK'
<1>1. CASE Call(g)
  <2>1. \A h \in Loggers : pc'[h] \in LoggerPhases /\ (calls'[h] = 0 => pc'[h] = "idle")
    <3>1. calls'[g] # 0 /\ pc'[g] \in LoggerPhases
      BY <1>1, CallMoves, BoundAssumption DEF TypeOK, LoggerPhases
    <3> QED
      BY <1>1, <3>1, CallMoves DEF TypeOK
  <2>2. UNCHANGED <<main, loop, msg, quit, ticking, holder, file, model, row, shown>>
    BY <1>1 DEF Call
  <2>3. /\ pc' \in [Goroutines -> LoggerPhases \cup RunnerPhases]
        /\ pc'[Runner] \in RunnerPhases
        /\ calls' \in [Loggers -> 0..MaxCalls]
    BY <1>1, CallMoves
  <2> QED
    BY <2>1, <2>2, <2>3 DEF TypeOK
<1>2. CASE WriteLock(g)
  <2>1. "log" \in LoggerPhases /\ Moves(g, "locking", "log") /\ UNCHANGED calls
    BY <1>2 DEF WriteLock, LoggerPhases
  <2> QED
    BY <1>2, <2>1, LoggerMoves DEF WriteLock, TypeOK, Messages
<1>3. CASE AppendToFile(g)
  <2>1. "idle" \in LoggerPhases /\ Moves(g, "append", "idle") /\ UNCHANGED calls
    BY <1>3 DEF AppendToFile, LoggerPhases
  <2>2. pc[g] # "idle" /\ file \in Seq(Entries)
    BY <2>1 DEF Moves, TypeOK
  <2>3. file' \in Seq(Entries)
    <3>1. <<g, calls[g]>> \in Entries
      BY <2>2, CurrentEntry
    <3> QED
      BY <1>3, <2>2, <3>1 DEF AppendToFile
  <2> QED
    BY <1>3, <2>1, <2>3, LoggerMoves DEF AppendToFile, TypeOK, Messages
<1> QED
  BY <1>1, <1>2, <1>3

\* A step of the Runner on its own StatusModel keeps the types.
LEMMA RunnerTypeOK ==
  ASSUME TypeOK, UpdateStatusBegin \/ UpdateStatusEnd \/ UpdateProgress
  PROVE  TypeOK'
<1>1. \E from, to \in RunnerPhases : Moves(Runner, from, to)
  BY DEF UpdateStatusBegin, UpdateStatusEnd, UpdateProgress, RunnerPhases
<1>2. UNCHANGED <<main, loop, msg, quit, ticking, calls, holder, file, model, shown>>
  BY DEF UpdateStatusBegin, UpdateStatusEnd, UpdateProgress
<1>3. row' \in [text : Nat, percent : Nat]
  BY DEF TypeOK, UpdateStatusBegin, UpdateStatusEnd, UpdateProgress
<1> QED
  BY <1>1, <1>2, <1>3, RunnerMoves DEF TypeOK, Messages

\* What is drawn has its type, torn or not.
LEMMA ViewTypeOK == TypeOK /\ View => TypeOK'
<1> SUFFICES ASSUME TypeOK, View PROVE TypeOK'
  OBVIOUS
<1>1. shown' \in [text : Nat \cup {Torn}, percent : Nat]
  <2>1. TextsRead \subseteq Nat \cup {Torn} /\ model.bar \in Nat
    BY DEF TypeOK, TextsRead
  <2> QED
    BY <2>1 DEF TypeOK, View
<1> QED
  BY <1>1 DEF TypeOK, View, Messages

\* Every step keeps the types.
LEMMA NextTypeOK == TypeOK /\ [Next]_vars => TypeOK'
<1> SUFFICES ASSUME TypeOK, [Next]_vars PROVE TypeOK'
  OBVIOUS
<1>1. CASE Start \/ Run \/ Exit \/ Quit
  BY <1>1 DEF Start, Run, Exit, Quit, TypeOK, Messages
<1>2. ASSUME NEW g \in Loggers, Call(g) \/ WriteLock(g) \/ AppendToFile(g)
      PROVE  TypeOK'
  BY <1>2, LoggerTypeOK
<1>3. ASSUME NEW g \in Goroutines, Send(g) PROVE TypeOK'
  <2>1. /\ pc[g] \in {"log", "status", "error", "add"} /\ UNCHANGED calls
        /\ Moves(g, pc[g], AfterSend(g))
    BY <1>3 DEF Send
  <2> QED
    BY <1>3, <2>1, SenderMoves, SentMessage DEF Send, TypeOK
<1>4. ASSUME NEW g \in Goroutines, SendDropped(g) PROVE TypeOK'
  <2>1. /\ pc[g] \in {"log", "status", "error", "add"} /\ UNCHANGED calls
        /\ Moves(g, pc[g], AfterSend(g))
    BY <1>4 DEF SendDropped
  <2> QED
    BY <1>4, <2>1, SenderMoves DEF SendDropped, TypeOK, Messages
<1>5. CASE UpdateStatusBegin \/ UpdateStatusEnd \/ UpdateProgress
  BY <1>5, RunnerTypeOK
<1>6. CASE Key \/ Resize \/ Tick
  <2>1. ticking' \in BOOLEAN /\ \E kind \in {"key", "resize", "tick"} : Input(kind)
    BY <1>6 DEF Key, Resize, Tick, TypeOK
  <2> QED
    BY <2>1, InputMessage DEF Input, TypeOK
<1>7. CASE Update
  <2>1. quit' \in BOOLEAN /\ ticking' \in BOOLEAN
    BY <1>7 DEF Update, TypeOK
  <2> QED
    BY <1>7, <2>1, UpdateModel DEF Update, TypeOK
<1>8. CASE View
  BY <1>8, ViewTypeOK
<1>9. CASE UNCHANGED vars
  BY <1>9 DEF vars, TypeOK, Messages
<1> QED
  BY <1>1, <1>2, <1>3, <1>4, <1>5, <1>6, <1>7, <1>8, <1>9 DEF Next

-----------------------------------------------------------------------------
(* The event loop and the mutex *)

\* Nothing but Run starts the event loop, ...
LEMMA NextOffUntilRun == OffUntilRun /\ [Next]_vars => OffUntilRun'
<1> SUFFICES ASSUME OffUntilRun, [Next]_vars PROVE OffUntilRun'
  OBVIOUS
<1>1. CASE Start \/ Run \/ Exit
  BY <1>1 DEF Start, Run, Exit, OffUntilRun
<1>2. ASSUME NEW g \in Goroutines,
             Send(g) \/ SendDropped(g) \/ Call(g) \/ WriteLock(g) \/ AppendToFile(g)
      PROVE  OffUntilRun'
  BY <1>2 DEF Send, SendDropped, Call, WriteLock, AppendToFile, OffUntilRun
<1>3. CASE \/ UpdateStatusBegin \/ UpdateStatusEnd \/ UpdateProgress
           \/ Key \/ Resize \/ Tick \/ Update \/ View \/ Quit \/ UNCHANGED vars
  BY <1>3
  DEF UpdateStatusBegin, UpdateStatusEnd, UpdateProgress, Key, Resize, Tick, Input,
      Update, View, Quit, vars, OffUntilRun
<1> QED
  BY <1>1, <1>2, <1>3 DEF Next, Goroutines

\* ... and a goroutine between WriteLock and AppendToFile holds the mutex.
LEMMA NextHolderWrites ==
  ASSUME TypeOK, HolderWrites, [Next]_vars
  PROVE  HolderWrites'
<1> USE RunnerAssumption
<1>1. ASSUME NEW g \in Loggers, Call(g) PROVE HolderWrites'
  BY <1>1, CallMoves DEF Call, HolderWrites
<1>2. ASSUME NEW g \in Loggers, WriteLock(g) PROVE HolderWrites'
  BY <1>2 DEF WriteLock, Moves, HolderWrites, TypeOK, Goroutines
<1>3. ASSUME NEW g \in Loggers, AppendToFile(g) PROVE HolderWrites'
  BY <1>3 DEF AppendToFile, Moves, HolderWrites, TypeOK, Goroutines
<1>4. ASSUME NEW g \in Goroutines, Send(g) \/ SendDropped(g) PROVE HolderWrites'
  <2>1. /\ pc[g] \in {"log", "status", "error", "add"} /\ UNCHANGED holder
        /\ Moves(g, pc[g], AfterSend(g))
    BY <1>4 DEF Send, SendDropped
  <2>2. pc' = [pc EXCEPT ![g] = IF pc[g] = "log" THEN "append" ELSE "idle"]
    BY <2>1 DEF Moves, AfterSend
  <2> QED
    BY <2>1, <2>2 DEF HolderWrites, TypeOK, Goroutines
<1>5. CASE UpdateStatusBegin \/ UpdateStatusEnd \/ UpdateProgress
  <2>1. /\ \E from, to \in RunnerPhases : Moves(Runner, from, to)
        /\ UNCHANGED <<calls, holder>>
    BY <1>5 DEF UpdateStatusBegin, UpdateStatusEnd, UpdateProgress, RunnerPhases
  <2> QED
    BY <2>1, RunnerMoves DEF HolderWrites
<1>6. CASE UNCHANGED <<pc, holder>>
  BY <1>6 DEF HolderWrites
<1> QED
  BY <1>1, <1>2, <1>3, <1>4, <1>5, <1>6
  DEF Next, vars, Start, Run, Exit, Key, Resize, Tick, Input, Update, View, Quit

-----------------------------------------------------------------------------
(* Logs *)

\* Log t is log s with entry e after it.
Adds(s, e, t) == t = Append(s, e)

\* Appending an entry to a log.
LEMMA AppendEntry ==
  ASSUME NEW s \in Seq(Entries), NEW e \in Entries, NEW t, Adds(s, e, t)
  PROVE  /\ t \in Seq(Entries) /\ t # <<>> /\ Len(s) \in Nat /\ Len(t) = Len(s) + 1
         /\ DOMAIN s = 1..Len(s) /\ DOMAIN t = 1..(Len(s) + 1)
         /\ t[Len(s) + 1] = e /\ \A i \in 1..Len(s) : t[i] = s[i]
         /\ Logged(t) = Logged(s) \cup {e}
<1>1. /\ t \in Seq(Entries) /\ t # <<>> /\ Len(s) \in Nat /\ Len(t) = Len(s) + 1
      /\ DOMAIN s = 1..Len(s) /\ DOMAIN t = 1..(Len(s) + 1)
      /\ t[Len(s) + 1] = e /\ \A i \in 1..Len(s) : t[i] = s[i]
  BY DEF Adds
<1>2. 1..(Len(s) + 1) = 1..Len(s) \cup {Len(s) + 1}
  BY <1>1
<1> QED
  BY <1>1, <1>2 DEF Logged

\* A new entry leaves a log without duplicates.
LEMMA AppendDistinct ==
  ASSUME NEW s \in Seq(Entries), NEW e \in Entries, NEW t, Adds(s, e, t),
         Distinct(s), e \notin Logged(s)
  PROVE  Distinct(t)
<1>1. \A i \in 1..Len(s) : s[i] # e
  BY AppendEntry DEF Logged
<1>2. \A i \in DOMAIN t : i \in 1..Len(s) \/ i = Len(s) + 1
  BY AppendEntry
<1> QED
  BY <1>1, <1>2, AppendEntry DEF Distinct

\* If an entry is sent that is not filed yet, the order is kept, ...
LEMMA SendKeepsOrder ==
  ASSUME NEW s \in Seq(Entries), NEW t \in Seq(Entries), NEW e \in Entries,
         NEW u, Adds(t, e, u), SameOrder(s, t), e \notin Logged(s)
  PROVE  SameOrder(s, u)
<1> SUFFICES ASSUME NEW i \in DOMAIN s, NEW j \in DOMAIN s,
                    NEW k \in DOMAIN u, NEW l \in DOMAIN u,
                    s[i] = u[k], s[j] = u[l], i < j
             PROVE  k < l
  BY DEF SameOrder
<1>1. /\ Len(t) \in Nat /\ DOMAIN t = 1..Len(t) /\ DOMAIN u = 1..(Len(t) + 1)
      /\ u[Len(t) + 1] = e /\ \A m \in 1..Len(t) : u[m] = t[m]
  BY AppendEntry
<1>2. s[i] # e /\ s[j] # e
  BY DEF Logged
<1>3. k \in DOMAIN t /\ l \in DOMAIN t /\ u[k] = t[k] /\ u[l] = t[l]
  BY <1>1, <1>2
<1> QED
  BY <1>3 DEF SameOrder

\* ... and if an entry is filed that was sent last, or was not sent at all,
\* and is not filed yet, it is kept as well.
LEMMA FileKeepsOrder ==
  ASSUME NEW s \in Seq(Entries), NEW t \in Seq(Entries), NEW e \in Entries,
         NEW u, Adds(s, e, u), SameOrder(s, t), Distinct(t), e \notin Logged(s),
         (t # <<>> /\ t[Len(t)] = e) \/ e \notin Logged(t)
  PROVE  SameOrder(u, t)
<1> SUFFICES ASSUME NEW i \in DOMAIN u, NEW j \in DOMAIN u,
                    NEW k \in DOMAIN t, NEW l \in DOMAIN t,
                    u[i] = t[k], u[j] = t[l], i < j
             PROVE  k < l
  BY DEF SameOrder
<1>1. /\ Len(s) \in Nat /\ DOMAIN s = 1..Len(s) /\ DOMAIN u = 1..(Len(s) + 1)
      /\ u[Len(s) + 1] = e /\ \A m \in 1..Len(s) : u[m] = s[m]
  BY AppendEntry
<1>2. i \in DOMAIN s /\ u[i] = s[i] /\ s[i] # e
  BY <1>1 DEF Logged
<1>3. Len(t) \in Nat /\ DOMAIN t = 1..Len(t)
  OBVIOUS
<1>4. CASE j \in DOMAIN s
  BY <1>1, <1>2, <1>4 DEF SameOrder
<1>5. CASE j = Len(s) + 1
  <2>1. t[l] = e /\ e \in Logged(t)
    BY <1>1, <1>5 DEF Logged
  <2>2. l = Len(t)
    <3>1. Len(t) \in DOMAIN t /\ t[Len(t)] = e
      BY <1>3, <2>1
    <3> QED
      BY <2>1, <3>1 DEF Distinct
  <2>3. k # l
    BY <1>2, <2>1
  <2> QED
    BY <1>3, <2>2, <2>3
<1> QED
  BY <1>1, <1>4, <1>5

-----------------------------------------------------------------------------
(* What a step does to the logs *)

\* The log area with the entry in hand is a log.
LEMMA LogsToComeType == TypeOK => LogsToCome \in Seq(Entries)
<1> SUFFICES ASSUME TypeOK PROVE LogsToCome \in Seq(Entries)
  OBVIOUS
<1>1. model.logs \in Seq(Entries)
  BY DEF TypeOK
<1>2. CASE loop = "update" /\ msg.kind = "log"
  <2>1. msg.entry \in Entries
    BY <1>2 DEF TypeOK, Messages
  <2> QED
    BY <1>1, <1>2, <2>1 DEF LogsToCome
<1> QED
  BY <1>1, <1>2 DEF LogsToCome

\* Steps of logger h that neither send an entry nor append one to the file.
QuietStep(h) ==
  \/ UNCHANGED <<calls[h], pc[h]>>
  \/ calls'[h] = calls[h] + 1 /\ pc'[h] # "append"
  \/ /\ UNCHANGED calls[h]
     /\ pc[h] \notin {"append", "idle"}
     /\ pc'[h] = "append" => pc[h] = "log" /\ loop = "stopped"

Sends(g) == pc[g] = "log" /\ Send(g)

Quiet ==
  /\ UNCHANGED <<LogsToCome, file>>
  /\ loop = "stopped" => loop' = "stopped"
  /\ \A h \in Loggers : QuietStep(h)

\* A logger sends its entry: it comes last, and nobody else does anything.
LEMMA SendsEntry ==
  ASSUME TypeOK, NEW g \in Goroutines, Sends(g)
  PROVE  /\ g \in Loggers /\ <<g, calls[g]>> \in Entries
         /\ Adds(LogsToCome, <<g, calls[g]>>, LogsToCome')
         /\ UNCHANGED <<file, calls>> /\ loop # "stopped"
         /\ pc'[g] = "append" /\ \A h \in Loggers \ {g} : pc'[h] = pc[h]
<1>1. g \in Loggers
  BY DEF TypeOK, RunnerPhases, Goroutines, Sends
<1>2. <<g, calls[g]>> \in Entries
  BY <1>1, CurrentEntry DEF Sends
<1>3. /\ loop' = "update" /\ loop = "select" /\ model' = model
      /\ msg' = Message("log", <<g, calls[g]>>)
  BY DEF Sends, Send
<1>4. LogsToCome = model.logs /\ LogsToCome' = Append(model.logs, <<g, calls[g]>>)
  BY <1>3 DEF LogsToCome, Message
<1>5. pc' = [pc EXCEPT ![g] = "append"] /\ UNCHANGED <<file, calls>>
  BY DEF Sends, Send, Moves, AfterSend
<1> QED
  BY <1>1, <1>2, <1>3, <1>4, <1>5 DEF TypeOK, Goroutines, Adds

\* A logger appends its entry to the file, or fails to.
LEMMA AppendsEntry ==
  ASSUME TypeOK, NEW g \in Loggers, AppendToFile(g)
  PROVE  /\ <<g, calls[g]>> \in Entries
         /\ file' = file \/ Adds(file, <<g, calls[g]>>, file')
         /\ UNCHANGED <<LogsToCome, calls, loop>>
         /\ pc[g] = "append" /\ pc'[g] = "idle"
         /\ \A h \in Loggers \ {g} : pc'[h] = pc[h]
<1>1. pc[g] = "append" /\ pc' = [pc EXCEPT ![g] = "idle"]
  BY DEF AppendToFile, Moves
<1>2. <<g, calls[g]>> \in Entries
  BY <1>1, CurrentEntry
<1> QED
  BY <1>1, <1>2 DEF AppendToFile, LogsToCome, TypeOK, Goroutines, Adds

\* Whatever is sent, dropped or received otherwise leaves the logs alone.
LEMMA OtherSendQuiet ==
  ASSUME TypeOK, NEW g \in Goroutines, (Send(g) /\ pc[g] # "log") \/ SendDropped(g)
  PROVE  Quiet
<1>1. /\ pc' = [pc EXCEPT ![g] = IF pc[g] = "log" THEN "append" ELSE "idle"]
      /\ pc[g] \in {"log", "status", "error", "add"}
      /\ UNCHANGED <<file, calls, model>>
  BY DEF Send, SendDropped, Moves, AfterSend
<1>2. UNCHANGED LogsToCome /\ (loop = "stopped" => loop' = "stopped")
  <2>1. CASE Send(g) /\ pc[g] # "log"
    <3>1. loop = "select" /\ loop' = "update" /\ msg' = Message(pc[g], None)
      BY <2>1 DEF Send
    <3>2. msg'.kind # "log"
      BY <2>1, <3>1 DEF Message
    <3> QED
      BY <1>1, <3>1, <3>2 DEF LogsToCome
  <2>2. CASE SendDropped(g)
    BY <2>2 DEF SendDropped, LogsToCome
  <2> QED
    BY <2>1, <2>2
<1>3. pc[g] = "log" => loop = "stopped"
  BY DEF SendDropped
<1>4. ASSUME NEW h \in Loggers PROVE QuietStep(h)
  <2>1. h \in Goroutines /\ pc \in [Goroutines -> LoggerPhases \cup RunnerPhases]
    BY DEF TypeOK, Goroutines
  <2> QED
    BY <1>1, <1>3, <2>1 DEF QuietStep
<1> QED
  BY <1>1, <1>2, <1>4 DEF Quiet

\* A step sends an entry, appends one to the file, or leaves the logs alone.
LEMMA StepCases ==
  ASSUME TypeOK, OffUntilRun, [Next]_vars
  PROVE  \/ \E g \in Goroutines : Sends(g)
         \/ \E g \in Loggers : AppendToFile(g)
         \/ Quiet
<1>1. ASSUME NEW g \in Loggers, Call(g) PROVE Quiet
  <2>1. UNCHANGED <<loop, msg, file, model>>
    BY <1>1 DEF Call
  <2>2. \A h \in Loggers : QuietStep(h)
    BY <1>1, CallMoves DEF QuietStep
  <2> QED
    BY <2>1, <2>2 DEF Quiet, LogsToCome
<1>2. ASSUME NEW g \in Loggers, WriteLock(g) PROVE Quiet
  <2>1. /\ pc[g] = "locking" /\ pc' = [pc EXCEPT ![g] = "log"]
        /\ UNCHANGED <<loop, msg, calls, file, model>>
    BY <1>2 DEF WriteLock, Moves
  <2>2. \A h \in Loggers : QuietStep(h)
    BY <2>1 DEF QuietStep, TypeOK, Goroutines
  <2> QED
    BY <2>1, <2>2 DEF Quiet, LogsToCome
<1>3. ASSUME NEW g \in Goroutines, Send(g) \/ SendDropped(g)
      PROVE  Quiet \/ Sends(g)
  BY <1>3, OtherSendQuiet DEF Sends
<1>4. CASE UpdateStatusBegin \/ UpdateStatusEnd \/ UpdateProgress
  <2>1. /\ \E from, to \in RunnerPhases : Moves(Runner, from, to)
        /\ UNCHANGED <<loop, msg, calls, file, model>>
    BY <1>4 DEF UpdateStatusBegin, UpdateStatusEnd, UpdateProgress, RunnerPhases
  <2> QED
    BY <2>1, RunnerMoves DEF Quiet, QuietStep, LogsToCome
<1>5. CASE Start \/ Run \/ Exit \/ Key \/ Resize \/ Tick \/ Update \/ View \/ Quit
              \/ UNCHANGED vars
  <2>1. UNCHANGED <<pc, calls, file>> /\ (loop = "stopped" => loop' = "stopped")
    BY <1>5 DEF Start, Run, Exit, Key, Resize, Tick, Input, Update, View, Quit,
              vars, OffUntilRun
  <2>2. CASE Update
    <3>1. model'.logs = LogsToCome /\ loop' = "view"
      BY <2>2, UpdateModel DEF Update
    <3> QED
      BY <2>1, <3>1 DEF Quiet, QuietStep, LogsToCome
  <2>3. CASE Key \/ Resize \/ Tick
    <3>1. /\ loop = "select" /\ loop' = "update" /\ model' = model
          /\ msg'.kind \in {"key", "resize", "tick"}
      BY <2>3 DEF Key, Resize, Tick, Input, Message
    <3> QED
      BY <2>1, <3>1 DEF Quiet, QuietStep, LogsToCome
  <2>4. CASE Start \/ Run \/ Exit \/ View \/ Quit \/ UNCHANGED vars
    <3>1. /\ model' = model
          /\ loop' = "update" <=> loop = "update"
          /\ loop = "update" => msg' = msg
      BY <2>4 DEF Start, Run, Exit, View, Quit, vars, OffUntilRun
    <3> QED
      BY <2>1, <3>1 DEF Quiet, QuietStep, LogsToCome
  <2> QED
    BY <1>5, <2>2, <2>3, <2>4
<1> QED
  BY <1>1, <1>2, <1>3, <1>4, <1>5 DEF Next

-----------------------------------------------------------------------------
(* The inductive invariant *)

\* LogInv without the types and the mutex.
LogsAgree ==
  WrittenOnce /\ SentIsLast /\ SameOrder(file, LogsToCome) /\ FiledIsSent

\* Whoever made an entry is one of the Loggers.
LEMMA EntryWriter ==
  ASSUME TypeOK, NEW s \in Seq(Entries), NEW entry \in Logged(s)
  PROVE  /\ entry[1] \in Loggers /\ entry[2] \in Nat
         /\ entry = <<entry[1], entry[2]>> /\ calls[entry[1]] \in Nat
<1>1. entry \in Entries
  BY DEF Logged
<1> QED
  BY <1>1, BoundAssumption DEF Entries, TypeOK

\* A quiet step of everybody keeps an entry a finished one, or one in hand.
LEMMA QuietCalls ==
  ASSUME TypeOK, Quiet, NEW s \in Seq(Entries), NEW entry \in Logged(s)
  PROVE  /\ SentInCall(entry) => SentInCall(entry)'
         /\ FiledInCall(entry) => FiledInCall(entry)'
<1>1. /\ entry[1] \in Loggers /\ entry[2] \in Nat /\ calls[entry[1]] \in Nat
      /\ QuietStep(entry[1])
  BY EntryWriter DEF Quiet
<1> QED
  BY <1>1 DEF QuietStep, SentInCall, FiledInCall

\* A quiet step keeps the logs in agreement; an entry that is dropped is in
\* neither log.
LEMMA QuietAgrees ==
  ASSUME TypeOK, LogsAgree, Quiet
  PROVE  LogsAgree'
<1>1. LogsToCome \in Seq(Entries) /\ file \in Seq(Entries)
  BY LogsToComeType DEF TypeOK
<1>2. UNCHANGED <<LogsToCome, file>>
  BY DEF Quiet
<1>3. WrittenOnce'
  BY <1>1, <1>2, QuietCalls DEF LogsAgree, WrittenOnce, Distinct
<1>4. SentIsLast'
  <2> SUFFICES ASSUME NEW g \in Loggers, pc'[g] = "append"
               PROVE  \/ /\ LogsToCome # <<>>
                         /\ LogsToCome[Len(LogsToCome)] = <<g, calls'[g]>>
                      \/ loop' = "stopped" /\ <<g, calls'[g]>> \notin Logged(LogsToCome)
    BY <1>2 DEF SentIsLast, Logged
  <2>1. CASE UNCHANGED <<calls[g], pc[g]>>
    BY <2>1 DEF LogsAgree, SentIsLast, Quiet
  <2>2. CASE calls'[g] = calls[g] /\ pc[g] = "log" /\ loop = "stopped"
    <3> SUFFICES ASSUME <<g, calls[g]>> \in Logged(LogsToCome) PROVE FALSE
      BY <2>2 DEF Quiet
    <3>1. SentInCall(<<g, calls[g]>>)
      BY DEF LogsAgree, WrittenOnce
    <3>2. calls[g] \in Nat
      BY BoundAssumption DEF TypeOK
    <3> QED
      BY <2>2, <3>1, <3>2 DEF SentInCall
  <2> QED
    BY <2>1, <2>2 DEF Quiet, QuietStep
<1> QED
  BY <1>2, <1>3, <1>4 DEF LogsAgree, SameOrder, FiledIsSent, Logged, Quiet

\* Sending an entry keeps the logs in agreement: while its writer holds the
\* mutex nobody else is about to append one.
LEMMA SendAgrees ==
  ASSUME TypeOK, HolderWrites, LogsAgree, NEW g \in Goroutines, Sends(g)
  PROVE  LogsAgree'
<1>0. PICK e \in Entries : e = <<g, calls[g]>>
  BY SendsEntry
<1>1. /\ g \in Loggers /\ calls[g] \in Nat
      /\ Adds(LogsToCome, e, LogsToCome') /\ UNCHANGED <<file, calls>>
      /\ loop # "stopped" /\ pc[g] = "log" /\ pc'[g] = "append"
      /\ \A h \in Loggers \ {g} : pc'[h] = pc[h]
  BY <1>0, SendsEntry, BoundAssumption DEF Sends, TypeOK
<1>2. /\ LogsToCome \in Seq(Entries) /\ file \in Seq(Entries)
      /\ Logged(LogsToCome') = Logged(LogsToCome) \cup {e}
      /\ LogsToCome' # <<>> /\ LogsToCome'[Len(LogsToCome')] = e
  <2>1. LogsToCome \in Seq(Entries) /\ file \in Seq(Entries)
    BY LogsToComeType DEF TypeOK
  <2> QED
    BY <1>1, <2>1, AppendEntry
<1>3. e \notin Logged(LogsToCome) /\ e \notin Logged(file)
  <2>1. ~SentInCall(e) /\ ~FiledInCall(e)
    BY <1>0, <1>1 DEF SentInCall, FiledInCall
  <2> QED
    BY <2>1 DEF LogsAgree, WrittenOnce
<1>4. WrittenOnce'
  <2>1. Distinct(LogsToCome') /\ Distinct(file')
    <3> QED
      BY <1>1, <1>2, <1>3, AppendDistinct DEF LogsAgree, WrittenOnce
  <2>2. ASSUME NEW entry \in Logged(LogsToCome) PROVE SentInCall(entry)'
    <3>1. SentInCall(entry) /\ entry[1] \in Loggers
      BY <1>2, EntryWriter DEF LogsAgree, WrittenOnce
    <3> QED
      BY <1>1, <3>1 DEF SentInCall
  <2>3. SentInCall(e)'
    BY <1>0, <1>1 DEF SentInCall
  <2>4. ASSUME NEW entry \in Logged(file) PROVE FiledInCall(entry)'
    <3>1. FiledInCall(entry) /\ entry[1] \in Loggers
      BY <1>2, EntryWriter DEF LogsAgree, WrittenOnce
    <3> QED
      BY <1>1, <3>1 DEF FiledInCall
  <2>5. \A entry \in Logged(LogsToCome') : SentInCall(entry)'
    BY <1>2, <2>2, <2>3
  <2> QED
    BY <1>1, <2>1, <2>4, <2>5 DEF WrittenOnce, Distinct, Logged
<1>5. SentIsLast'
  <2> SUFFICES ASSUME NEW h \in Loggers, pc'[h] = "append"
               PROVE  /\ LogsToCome' # <<>>
                      /\ LogsToCome'[Len(LogsToCome')] = <<h, calls'[h]>>
    BY DEF SentIsLast
  <2>1. h = g
    BY <1>1 DEF HolderWrites
  <2> QED
    BY <1>0, <1>1, <1>2, <2>1
<1>6. SameOrder(file, LogsToCome)'
  <2>1. SameOrder(file, LogsToCome')
    BY <1>1, <1>2, <1>3, SendKeepsOrder DEF LogsAgree
  <2> QED
    BY <1>1, <2>1 DEF SameOrder
<1>7. FiledIsSent'
  <2>1. Logged(file) \subseteq Logged(LogsToCome) /\ Logged(file)' = Logged(file)
    BY <1>1 DEF LogsAgree, FiledIsSent, Logged
  <2> QED
    BY <1>2, <2>1 DEF FiledIsSent, Logged
<1> QED
  BY <1>4, <1>5, <1>6, <1>7 DEF LogsAgree

\* Filing an entry keeps the logs in agreement: it is the last one that was
\* sent, or has been dropped.
LEMMA AppendAgrees ==
  ASSUME TypeOK, HolderWrites, LogsAgree, NEW g \in Loggers, AppendToFile(g)
  PROVE  LogsAgree'
<1>0. PICK e \in Entries : e = <<g, calls[g]>>
  BY AppendsEntry
<1>1. /\ calls[g] \in Nat
      /\ file' = file \/ Adds(file, e, file')
      /\ UNCHANGED <<LogsToCome, calls, loop>>
      /\ pc[g] = "append" /\ pc'[g] = "idle"
      /\ \A h \in Loggers \ {g} : pc'[h] = pc[h]
  BY <1>0, AppendsEntry, BoundAssumption DEF TypeOK
<1>2. LogsToCome \in Seq(Entries) /\ file \in Seq(Entries)
  BY LogsToComeType DEF TypeOK
<1>3. \/ LogsToCome # <<>> /\ LogsToCome[Len(LogsToCome)] = e
      \/ loop = "stopped" /\ e \notin Logged(LogsToCome)
  BY <1>0, <1>1 DEF LogsAgree, SentIsLast
<1>4. e \notin Logged(file)
  <2>1. ~FiledInCall(e)
    BY <1>0, <1>1 DEF FiledInCall
  <2> QED
    BY <2>1 DEF LogsAgree, WrittenOnce
<1>5. ASSUME NEW entry \in Logged(LogsToCome) PROVE SentInCall(entry)'
  <2>1. SentInCall(entry) /\ entry[1] \in Loggers
    BY <1>2, EntryWriter DEF LogsAgree, WrittenOnce
  <2> QED
    BY <1>1, <2>1 DEF SentInCall
<1>6. ASSUME NEW entry \in Logged(file) PROVE FiledInCall(entry)'
  <2>1. FiledInCall(entry) /\ entry[1] \in Loggers
    BY <1>2, EntryWriter DEF LogsAgree, WrittenOnce
  <2> QED
    BY <1>1, <2>1 DEF FiledInCall
<1>7. FiledInCall(e)'
  BY <1>0, <1>1 DEF FiledInCall
<1>8. SentIsLast'
  <2> SUFFICES ASSUME NEW h \in Loggers, pc'[h] = "append"
               PROVE  \/ /\ LogsToCome # <<>>
                         /\ LogsToCome[Len(LogsToCome)] = <<h, calls[h]>>
                      \/ loop = "stopped" /\ <<h, calls[h]>> \notin Logged(LogsToCome)
    BY <1>1 DEF SentIsLast, Logged
  <2>1. h # g /\ pc[h] = "append"
    BY <1>1
  <2> QED
    BY <2>1 DEF LogsAgree, SentIsLast
<1>9. CASE file' = file
  BY <1>1, <1>5, <1>6, <1>8, <1>9
  DEF LogsAgree, WrittenOnce, SameOrder, FiledIsSent, Distinct, Logged
<1>10. CASE Adds(file, e, file')
  <2>1. Logged(file') = Logged(file) \cup {e} /\ Distinct(file')
    BY <1>1, <1>2, <1>4, <1>10, AppendEntry, AppendDistinct DEF LogsAgree, WrittenOnce
  <2>2. SameOrder(file', LogsToCome)
    BY <1>1, <1>2, <1>3, <1>4, <1>10, FileKeepsOrder DEF LogsAgree, WrittenOnce
  <2>3. loop # "stopped" => e \in Logged(LogsToCome)
    <3> SUFFICES ASSUME LogsToCome # <<>>, LogsToCome[Len(LogsToCome)] = e
                 PROVE  e \in Logged(LogsToCome)
      BY <1>3
    <3>1. Len(LogsToCome) \in DOMAIN LogsToCome
      BY <1>2
    <3> QED
      BY <3>1 DEF Logged
  <2>4. WrittenOnce'
    <3>1. \A entry \in Logged(file') : FiledInCall(entry)'
      BY <1>6, <1>7, <2>1
    <3> QED
      BY <1>1, <1>5, <2>1, <3>1 DEF LogsAgree, WrittenOnce, Distinct, Logged
  <2>5. FiledIsSent'
    <3>1. loop # "stopped" => Logged(file') \subseteq Logged(LogsToCome)
      BY <2>1, <2>3 DEF LogsAgree, FiledIsSent
    <3> QED
      BY <1>1, <3>1 DEF FiledIsSent, Logged
  <2>6. SameOrder(file, LogsToCome)'
    BY <1>1, <2>2 DEF SameOrder
  <2> QED
    BY <1>8, <2>4, <2>5, <2>6 DEF LogsAgree
<1> QED
  BY <1>1, <1>9, <1>10

\* Initially there are no logs.
LEMMA InitLogInv == Init => LogInv
<1> SUFFICES ASSUME Init PROVE LogInv
  OBVIOUS
<1>1. LogsToCome = <<>> /\ file = <<>>
  BY DEF Init, LogsToCome
<1>2. Logged(<<>>) = {} /\ DOMAIN <<>> = {}
  BY DEF Logged
<1>3. \A g \in Loggers : pc[g] = "idle" /\ holder # g
  BY RunnerAssumption DEF Init, Goroutines
<1> QED
  BY <1>1, <1>2, <1>3, InitTypeOK
  DEF LogInv, OffUntilRun, HolderWrites, WrittenOnce, Distinct, SentIsLast, SameOrder,
      FiledIsSent, Init

\* Every step keeps the invariant.
LEMMA NextLogInv == LogInv /\ [Next]_vars => LogInv'
<1> SUFFICES ASSUME LogInv, [Next]_vars PROVE LogInv'
  OBVIOUS
<1>1. TypeOK /\ OffUntilRun /\ HolderWrites /\ LogsAgree
  BY DEF LogInv, LogsAgree
<1>2. LogsAgree'
  BY <1>1, StepCases, QuietAgrees, SendAgrees, AppendAgrees
<1> QED
  BY <1>1, <1>2, NextTypeOK, NextOffUntilRun, NextHolderWrites DEF LogInv, LogsAgree

\* LogInv is an invariant of the log writer and the TUI, for any goroutines
\* and any number of calls.
THEOREM SpecLogInv == Spec => []LogInv
BY InitLogInv, NextLogInv, PTL DEF Spec

-----------------------------------------------------------------------------
(* The properties *)

\* Two entries in both the log area and the file are in the same order there,
\* whoever logs concurrently (Write of logging.go).
THEOREM SpecShownInFileOrder == Spec => []ShownInFileOrder
<1>1. LogInv => ShownInFileOrder
  <2> SUFFICES ASSUME LogInv PROVE ShownInFileOrder
    OBVIOUS
  <2>1. \A k \in DOMAIN model.logs :
          k \in DOMAIN LogsToCome /\ LogsToCome[k] = model.logs[k]
    <3>1. model.logs \in Seq(Entries)
      BY DEF LogInv, TypeOK
    <3>2. CASE loop = "update" /\ msg.kind = "log"
      <4>1. msg.entry \in Entries
        BY <3>2 DEF LogInv, TypeOK, Messages
      <4> QED
        BY <3>1, <3>2, <4>1 DEF LogsToCome
    <3> QED
      BY <3>2 DEF LogsToCome
  <2> QED
    BY <2>1 DEF LogInv, SameOrder, ShownInFileOrder
<1> QED
  BY <1>1, SpecLogInv, PTL

\* What is in the file is in the log area or on its way there, as long as the
\* program has not stopped; also what was logged before the program ran.
THEOREM SpecFiledIsShown == Spec => []FiledIsShown
<1>1. LogInv => FiledIsShown
  <2> SUFFICES ASSUME LogInv, loop # "stopped", NEW entry \in Logged(file)
               PROVE  entry \in Logged(model.logs) \/ msg = Message("log", entry)
    BY DEF FiledIsShown
  <2>1. entry \in Logged(LogsToCome) /\ model.logs \in Seq(Entries)
    BY DEF LogInv, TypeOK, FiledIsSent
  <2>2. CASE loop = "update" /\ msg.kind = "log"
    <3>1. msg \in [kind : {"log"}, entry : Entries]
      BY <2>2 DEF LogInv, TypeOK, Messages
    <3>2. Adds(model.logs, msg.entry, LogsToCome) /\ msg.entry \in Entries
      BY <2>2, <3>1 DEF LogsToCome, Adds
    <3>3. entry \in Logged(model.logs) \/ entry = msg.entry
      BY <2>1, <3>2, AppendEntry
    <3>4. msg = [kind |-> "log", entry |-> msg.entry]
      BY <3>1
    <3> QED
      BY <3>3, <3>4 DEF Message
  <2> QED
    BY <2>1, <2>2 DEF LogsToCome
<1> QED
  BY <1>1, SpecLogInv, PTL

\* From the moment there is a viewport it has all logs (model.go).
THEOREM SpecViewportHasLogs == Spec => []ViewportHasLogs
<1>1. Init => ViewportHasLogs
  BY DEF Init, ViewportHasLogs
<1>2. ASSUME LogInv, ViewportHasLogs, [Next]_vars PROVE ViewportHasLogs'
  <2>1. TypeOK
    BY <1>2 DEF LogInv
  <2>2. CASE Update
    BY <1>2, <2>1, <2>2, UpdateModel
  <2>3. Update \/ UNCHANGED model
    BY <1>2
    DEF Next, vars, Start, Run, Exit, Call, WriteLock, AppendToFile, Send, SendDropped,
        UpdateStatusBegin, UpdateStatusEnd, UpdateProgress, Key, Resize, Tick, Input,
        View, Quit
  <2> QED
    BY <1>2, <2>2, <2>3 DEF ViewportHasLogs
<1> QED
  BY <1>1, <1>2, SpecLogInv, PTL DEF Spec
=============================================================================
