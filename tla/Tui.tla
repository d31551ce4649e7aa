-------------------------------- MODULE Tui --------------------------------
(***************************************************************************)
(* The log writer (cmd/ibc/logging) and the terminal user interface        *)
(* (cmd/ibc/tui) that the transfer and script commands run.                *)
(*                                                                         *)
(* The main goroutine starts the command's goroutines and runs the event   *)
(* loop.  The Loggers write log entries: IBCLogWriter.Write holds its      *)
(* mutex while it hands the entry to the loop and appends it to the file.  *)
(* The Runner (run of script.go) adds a StatusModel and from then on sets  *)
(* its fields without any synchronisation with the loop that draws them.   *)
(*                                                                         *)
(* Bubbletea is external: Program.Send is a rendezvous with the event      *)
(* loop, blocks before Run, and does nothing once the program has stopped. *)
(***************************************************************************)
EXTENDS Naturals, Sequences

CONSTANTS
  Loggers,    \* goroutines that log and set the main status
  Runner,     \* the goroutine that owns a StatusModel
  MaxCalls,   \* bound on the calls of a logger
  MaxTexts,   \* bound on the updates of the StatusModel
  Torn,       \* what is drawn of a string that is being written
  None        \* nobody, no message

ASSUME RunnerAssumption == Runner \notin Loggers /\ None \notin Loggers \cup {Runner}
ASSUME BoundAssumption == MaxCalls \in Nat /\ MaxTexts \in Nat /\ Torn \notin Nat

VARIABLES
  main,     \* where the main goroutine stands
  loop,     \* where the event loop stands
  msg,      \* the message the event loop handles
  quit,     \* whether tea.Quit is on its way
  ticking,  \* whether a tick is scheduled
  pc,       \* pc[g]: where goroutine g stands
  calls,    \* calls[g]: calls that logger g has made
  holder,   \* who holds IBCLogWriter.mutex
  file,     \* the entries in the log file
  model,    \* what the event loop owns of Model
  row,      \* the fields of the Runner's StatusModel
  shown     \* what is drawn of the Runner's StatusModel

vars == <<main, loop, msg, quit, ticking, pc, calls, holder, file, model, row, shown>>

Goroutines == Loggers \cup {Runner}
Entries == Loggers \X (1..MaxCalls)
Logged(s) == {s[i] : i \in DOMAIN s}

Message(kind, entry) == [kind |-> kind, entry |-> entry]
\* A process whose main goroutine has returned does nothing any more.
Alive == main # "ended"
Started == main \in {"started", "running"}

Moves(g, from, to) ==
  /\ Started
  /\ pc[g] = from
  /\ pc' = [pc EXCEPT ![g] = to]

Init ==
  /\ main = "setup"
  /\ loop = "off"
  /\ msg = None
  /\ quit = FALSE
  /\ ticking = FALSE
  /\ pc = [g \in Goroutines |-> IF g = Runner THEN "add" ELSE "idle"]
  /\ calls = [g \in Loggers |-> 0]
  /\ holder = None
  /\ file = <<>>
  /\ model = [logs |-> <<>>, ready |-> FALSE, viewport |-> <<>>,
              error |-> FALSE, added |-> FALSE, bar |-> 0]
  /\ row = [text |-> 0, percent |-> 0]
  /\ shown = [text |-> 0, percent |-> 0]
-----------------------------------------------------------------------------
(* The main goroutine *)

\* The configuration is built, or is not and the command fails.
Start ==
  /\ main = "setup"
  /\ main' \in {"started", "ended"}
  /\ UNCHANGED <<loop, msg, quit, ticking, pc, calls, holder, file, model, row, shown>>

\* Mutant: the program is run when all has been logged.
RunLate ==
  /\ main = "started"
  /\ \A g \in Loggers : calls[g] = MaxCalls /\ pc[g] = "idle"
  /\ main' = "running"
  /\ loop' = "select"
  /\ ticking' = TRUE
  /\ UNCHANGED <<msg, quit, pc, calls, holder, file, model, row, shown>>

Run ==
  /\ main = "started"
  /\ main' = "running"
  /\ loop' = "select"
  /\ ticking' = TRUE
  /\ UNCHANGED <<msg, quit, pc, calls, holder, file, model, row, shown>>

\* Run returns, the command ends, and the process with all its goroutines.
Exit ==
  /\ main = "running" /\ loop = "stopped"
  /\ main' = "ended"
  /\ UNCHANGED <<loop, msg, quit, ticking, pc, calls, holder, file, model, row, shown>>
-----------------------------------------------------------------------------
(* The goroutines *)

\* A call of the logger, or of UpdateMainStatus or UpdateMainErrorStatus.
Call(g) ==
  /\ calls[g] < MaxCalls
  /\ \E to \in {"locking", "status", "error"} : Moves(g, "idle", to)
  /\ calls' = [calls EXCEPT ![g] = @ + 1]
  /\ UNCHANGED <<main, loop, msg, quit, ticking, holder, file, model, row, shown>>

\* Mutant: Write does not lock.
WriteUnlocked(g) ==
  /\ Moves(g, "locking", "log")
  /\ UNCHANGED <<main, loop, msg, quit, ticking, calls, holder, file, model, row, shown>>

\* Write locks the mutex, ...
WriteLock(g) ==
  /\ holder = None
  /\ Moves(g, "locking", "log")
  /\ holder' = g
  /\ UNCHANGED <<main, loop, msg, quit, ticking, calls, file, model, row, shown>>

\* ... sends the entry to the program, ...
AfterSend(g) == IF pc[g] = "log" THEN "append" ELSE "idle"

Send(g) ==
  /\ loop = "select"
  /\ pc[g] \in {"log", "status", "error", "add"}
  /\ Moves(g, pc[g], AfterSend(g))
  /\ loop' = "update"
  /\ msg' = Message(pc[g], IF pc[g] = "log" THEN <<g, calls[g]>> ELSE None)
  /\ UNCHANGED <<main, quit, ticking, calls, holder, file, model, row, shown>>

\* Mutant: a message is dropped when nobody receives it.
SendNonBlocking(g) ==
  /\ loop # "select"
  /\ pc[g] \in {"log", "status", "error", "add"}
  /\ Moves(g, pc[g], AfterSend(g))
  /\ UNCHANGED <<main, loop, msg, quit, ticking, calls, holder, file, model, row, shown>>

SendDropped(g) ==
  /\ loop = "stopped"
  /\ pc[g] \in {"log", "status", "error", "add"}
  /\ Moves(g, pc[g], AfterSend(g))
  /\ UNCHANGED <<main, loop, msg, quit, ticking, calls, holder, file, model, row, shown>>

\* ... and appends it to the file, which may fail.
AppendToFile(g) ==
  /\ Moves(g, "append", "idle")
  /\ file' \in {file, Append(file, <<g, calls[g]>>)}
  /\ holder' = None
  /\ UNCHANGED <<main, loop, msg, quit, ticking, calls, model, row, shown>>

\* UpdateStatus and UpdateProgress of the Runner's own StatusModel.
UpdateStatusBegin ==
  /\ row.text < MaxTexts
  /\ Moves(Runner, "idle", "text")
  /\ UNCHANGED <<main, loop, msg, quit, ticking, calls, holder, file, model, row, shown>>

UpdateStatusEnd ==
  /\ Moves(Runner, "text", "percent")
  /\ row' = [row EXCEPT !.text = @ + 1]
  /\ UNCHANGED <<main, loop, msg, quit, ticking, calls, holder, file, model, shown>>

UpdateProgress ==
  /\ Moves(Runner, "percent", "idle")
  /\ row' = [row EXCEPT !.percent = row.text]
  /\ UNCHANGED <<main, loop, msg, quit, ticking, calls, holder, file, model, shown>>
-----------------------------------------------------------------------------
(* The event loop *)

Input(kind) ==
  /\ Alive /\ loop = "select"
  /\ loop' = "update"
  /\ msg' = Message(kind, None)
  /\ UNCHANGED <<main, quit, pc, calls, holder, file, model, row, shown>>

\* ctrl+c, q or esc.  Any other key is a message like a later resize: it
\* changes nothing but the bars.
Key == Input("key") /\ UNCHANGED ticking
Resize == Input("resize") /\ UNCHANGED ticking
Tick == ticking /\ ticking' = FALSE /\ Input("tick")

UpdateLog ==
  LET logs == Append(model.logs, msg.entry) IN
    [model EXCEPT !.logs = logs, !.viewport = IF model.ready THEN logs ELSE @]

\* Mutant: the first size makes an empty viewport.
UpdateResizeEmpty == [model EXCEPT !.ready = TRUE]

UpdateResize ==
  IF model.ready THEN model
  ELSE [model EXCEPT !.ready = TRUE, !.viewport = model.logs]

UpdateByKind ==
  CASE msg.kind = "log"    -> UpdateLog
    [] msg.kind = "status" -> [model EXCEPT !.error = FALSE]
    [] msg.kind = "error"  -> [model EXCEPT !.error = TRUE]
    [] msg.kind = "add"    -> [model EXCEPT !.added = TRUE]
    [] msg.kind = "resize" -> UpdateResize
    [] OTHER               -> model

\* Every message also brings the progress bars up to date, except a key that
\* quits, on which Update returns first.
Updated ==
  IF msg.kind = "key" THEN model
  ELSE [UpdateByKind EXCEPT !.bar = IF UpdateByKind.added THEN row.percent ELSE @]

\* Mutant: no tick follows a tick.
UpdateTickOnce ==
  /\ Alive /\ loop = "update"
  /\ loop' = "view"
  /\ quit' = (quit \/ msg.kind = "key")
  /\ model' = Updated
  /\ UNCHANGED <<main, msg, ticking, pc, calls, holder, file, row, shown>>

Update ==
  /\ Alive /\ loop = "update"
  /\ loop' = "view"
  /\ quit' = (quit \/ msg.kind = "key")
  /\ ticking' = (ticking \/ msg.kind = "tick")
  /\ model' = Updated
  /\ UNCHANGED <<main, msg, pc, calls, holder, file, row, shown>>

\* Everything is drawn.  A string written meanwhile is read as it was, as it
\* will be, or half of each.
TextsRead ==
  IF pc[Runner] = "text" THEN {row.text, row.text + 1, Torn} ELSE {row.text}

View ==
  /\ Alive /\ loop = "view"
  /\ loop' = "select"
  /\ msg' = None
  /\ IF model.ready /\ model.added
     THEN \E text \in TextsRead : shown' = [text |-> text, percent |-> model.bar]
     ELSE UNCHANGED shown
  /\ UNCHANGED <<main, quit, ticking, pc, calls, holder, file, model, row>>

\* The message of tea.Quit.
Quit ==
  /\ Alive /\ loop = "select"
  /\ quit
  /\ loop' = "stopped"
  /\ UNCHANGED <<main, msg, quit, ticking, pc, calls, holder, file, model, row, shown>>
-----------------------------------------------------------------------------
Next ==
  \/ Start \/ Run \/ Exit
  \/ \E g \in Loggers : Call(g) \/ WriteLock(g) \/ AppendToFile(g)
  \/ \E g \in Goroutines : Send(g) \/ SendDropped(g)
  \/ UpdateStatusBegin \/ UpdateStatusEnd \/ UpdateProgress
  \/ Key \/ Resize \/ Tick \/ Update \/ View \/ Quit

Spec == Init /\ [][Next]_vars

\* The goroutines run, each of them one step after the other, Go's mutex and
\* channel serve every waiter, the ticker ticks, and bubbletea finds out the
\* size of the terminal once.  Nobody must press a key, or log.
LiveSpec ==
  /\ Spec
  /\ WF_vars(Start \/ Run \/ Exit)
  /\ \A g \in Loggers :
       SF_vars(WriteLock(g) \/ Send(g) \/ SendDropped(g) \/ AppendToFile(g))
  /\ SF_vars(Send(Runner) \/ SendDropped(Runner) \/ UpdateStatusEnd
               \/ UpdateProgress)
  /\ WF_vars(Update \/ View) /\ SF_vars(Quit)
  /\ SF_vars(~model.ready /\ Resize) /\ SF_vars(Tick)
-----------------------------------------------------------------------------
(* Properties *)

\* Two entries that are both in the log file and in the log area are in the
\* same order in both (logging.go:73-89), whoever logs concurrently, when the
\* program is quit or the file cannot be written.
ShownInFileOrder ==
  \A i, j \in DOMAIN file : \A k, l \in DOMAIN model.logs :
    (file[i] = model.logs[k] /\ file[j] = model.logs[l] /\ i < j) => k < l

\* What is in the file is in the log area, or the loop has it in hand: an
\* entry logged before the program runs is not lost (tui.go:68-70).
FiledIsShown ==
  loop # "stopped" =>
    \A entry \in Logged(file) :
      entry \in Logged(model.logs) \/ msg = Message("log", entry)

\* The viewport has all logs from the moment there is one (model.go:65-113).
ViewportHasLogs == model.ready => model.viewport = model.logs

\* Every log or status call returns, unless the command ends first.
CallsReturn ==
  \A g \in Goroutines : pc[g] # "idle" ~> (pc[g] = "idle" \/ ~Alive)

\* What the Runner has set last is what is drawn in the end, although the
\* fields are set behind the event loop's back (script.go:214-245).
LastStatusIsShown ==
  (row.text = MaxTexts /\ pc[Runner] = "idle")
    ~> (shown = row \/ ~Alive)

-----------------------------------------------------------------------------
(* The inductive invariant behind the first two properties *)

LoggerPhases == {"idle", "locking", "log", "append", "status", "error"}
RunnerPhases == {"add", "idle", "text", "percent"}
Messages ==
  [kind : {"log"}, entry : Entries]
    \cup [kind : {"status", "error", "add", "key", "resize", "tick"}, entry : {None}]

TypeOK ==
  /\ main \in {"setup", "started", "running", "ended"}
  /\ loop \in {"off", "select", "update", "view", "stopped"}
  /\ msg \in Messages \cup {None}
  /\ loop = "update" => msg \in Messages
  /\ quit \in BOOLEAN /\ ticking \in BOOLEAN
  /\ pc \in [Goroutines -> LoggerPhases \cup RunnerPhases]
  /\ pc[Runner] \in RunnerPhases
  /\ \A g \in Loggers : pc[g] \in LoggerPhases /\ (calls[g] = 0 => pc[g] = "idle")
  /\ calls \in [Loggers -> 0..MaxCalls]
  /\ holder \in Loggers \cup {None}
  /\ file \in Seq(Entries)
  /\ model \in [logs : Seq(Entries), ready : BOOLEAN, viewport : Seq(Entries),
                error : BOOLEAN, added : BOOLEAN, bar : Nat]
  /\ row \in [text : Nat, percent : Nat]
  /\ shown \in [text : Nat \cup {Torn}, percent : Nat]

\* The event loop does not run before Run.
OffUntilRun == main \in {"setup", "started"} => loop = "off"

\* The mutex excludes the others from Send to AppendToFile.
HolderWrites ==
  \A g \in Loggers : pc[g] \in {"log", "append"} <=> holder = g

\* The log area with the entry that the loop has in hand.
LogsToCome ==
  IF loop = "update" /\ msg.kind = "log" THEN Append(model.logs, msg.entry)
                                         ELSE model.logs

\* An entry of a call that goes on is only where the call has put it.
SentInCall(entry) ==
  \/ entry[2] < calls[entry[1]]
  \/ entry[2] = calls[entry[1]] /\ pc[entry[1]] \in {"append", "idle"}

FiledInCall(entry) ==
  \/ entry[2] < calls[entry[1]]
  \/ entry[2] = calls[entry[1]] /\ pc[entry[1]] = "idle"

Distinct(s) == \A i, j \in DOMAIN s : s[i] = s[j] => i = j

WrittenOnce ==
  /\ Distinct(LogsToCome) /\ \A entry \in Logged(LogsToCome) : SentInCall(entry)
  /\ Distinct(file) /\ \A entry \in Logged(file) : FiledInCall(entry)

\* The entry that AppendToFile appends is the last that was sent, or was
\* dropped because the program has stopped.
SentIsLast ==
  \A g \in Loggers : pc[g] = "append" =>
    \/ LogsToCome # <<>> /\ LogsToCome[Len(LogsToCome)] = <<g, calls[g]>>
    \/ loop = "stopped" /\ <<g, calls[g]>> \notin Logged(LogsToCome)

SameOrder(s, t) ==
  \A i, j \in DOMAIN s : \A k, l \in DOMAIN t :
    (s[i] = t[k] /\ s[j] = t[l] /\ i < j) => k < l

FiledIsSent == loop # "stopped" => Logged(file) \subseteq Logged(LogsToCome)

LogInv ==
  /\ TypeOK
  /\ OffUntilRun
  /\ HolderWrites
  /\ WrittenOnce
  /\ SentIsLast
  /\ SameOrder(file, LogsToCome)
  /\ FiledIsSent
=============================================================================
