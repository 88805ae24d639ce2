-------------------------------- MODULE Streams ---------------------------------
(***************************************************************************)
(* What watches a task: a role writes the ledger and then a line of the    *)
(* rig's event log; a task subscription (crates/console/src/server.rs,     *)
(* subscribe and updates) tails the log to the task's end, and the rig's   *)
(* event stream (rig_stream) pushes fresh tasks to the web interface       *)
(* (crates/console/ui/src), which also re-lists: on some kinds of event    *)
(* and on a timer.  One task of one rig, one subscriber, one browser.      *)
(***************************************************************************)
EXTENDS Naturals, Sequences, FiniteSets

CONSTANTS
    Versions,         \* bound: how often the task changes; the last change ends it
    MaxStreamFaults,  \* bound: crashes, failed reads and dropped connections
    StreamFailAt      \* where they may happen

StreamsAssumption ==
    /\ Versions \in Nat
    /\ MaxStreamFaults \in Nat

VARIABLES
    ledger,   \* the task, as the number of its changes
    due,      \* kinds of the events whose ledger change is written and whose line is not
    log,      \* kinds of the lines of events.jsonl, in order
    torn,     \* the last line is only half there
    sub,      \* the subscription: its place, what it read, what it has sent
    pump,     \* the rig stream: its place, how many tasks are to be sent, and the frames
    wire,     \* frames on their way to the browser
    view,     \* the task as the browser shows it
    refresh,  \* the browser's ListTasks for this rig
    all,      \* its refresh of every rig
    streamFaults  \* faults left to happen

streamsVars == <<ledger, due, log, torn, sub, pump, wire, view, refresh, all, streamFaults>>
rig == <<ledger, due, log, torn>>
browser == <<pump, wire, view, refresh, all>>

\* Kinds of events; those after which the console pushes the task (TASK_CHANGING, and remote),
\* and those after which the browser lists (REFRESH_KINDS).
Kinds == {"transition", "escalated", "remote"}
TaskChanging == {"transition", "remote"}
RefreshKinds == {"escalated", "remote"}

\* What the browser shows of a rig that could not be read: nothing.
Gone == Versions + 1

\* There may be no subscriber, and the stream may be down for good.
StreamsInit ==
    /\ ledger = 0
    /\ due = <<>>
    /\ log = <<>>
    /\ torn = FALSE
    /\ \E at \in {"idle", "away"} :
           sub = [at |-> at, cursor |-> 0, batch |-> <<>>, sent |-> <<>>, final |-> "none"]
    /\ \E at \in {"off", "down"} :
           pump = [at |-> at, cursor |-> 0, batch |-> 0, frames |-> <<>>]
    /\ wire = <<>>
    /\ view = 0
    /\ refresh = [at |-> "idle", again |-> FALSE, value |-> 0]
    /\ all = [at |-> "idle", value |-> 0]
    /\ streamFaults = MaxStreamFaults

Over(version) == version = Versions

StreamFault(at) ==
    /\ at \in StreamFailAt
    /\ streamFaults > 0
    /\ streamFaults' = streamFaults - 1

-----------------------------------------------------------------------------
(* The rig's roles: the ledger first, then one line (infra/src/jsonl.rs).  *)

ChangeTask ==
    /\ ~Over(ledger)
    /\ ledger' = ledger + 1
    /\ \E k \in Kinds : due' = Append(due, k)
    /\ UNCHANGED <<log, torn, sub, browser, streamFaults>>

\* A reader may meet the line before all of it is there.
BeginLine ==
    /\ due # <<>>
    /\ ~torn
    /\ log' = Append(log, Head(due))
    /\ due' = Tail(due)
    /\ torn' = TRUE
    /\ UNCHANGED <<ledger, sub, browser, streamFaults>>

EndLine ==
    /\ torn
    /\ torn' = FALSE
    /\ UNCHANGED <<ledger, due, log, sub, browser, streamFaults>>

\* A role dies after its change, or its write of the line fails (which is only logged).
LoseLine ==
    /\ due # <<>>
    /\ StreamFault("line")
    /\ due' = Tail(due)
    /\ UNCHANGED <<ledger, log, torn, sub, browser>>

-----------------------------------------------------------------------------
(* FileTail: a line is two halves of the file, and a cursor a place in it. *)

Size == 2 * Len(log) - (IF torn THEN 1 ELSE 0)

\* Mutant of ReadTo: the cursor moves to the end of the file.
ReadToEnd == Size

\* parse_from: the offset after the last complete line.
ReadTo == 2 * (Size \div 2)

\* The numbers of the complete lines after a cursor.
Lines(cursor) ==
    LET first == (cursor + 1) \div 2 + 1
        last == Size \div 2
    IN  [i \in 1..(IF last < first THEN 0 ELSE last - first + 1) |-> first + i - 1]

-----------------------------------------------------------------------------
(* SubscribeToTask.                                                        *)

Subscribed(x) ==
    /\ sub' = x
    /\ UNCHANGED <<rig, browser, streamFaults>>

Subscribe ==
    /\ sub.at = "idle"
    /\ Subscribed(IF Over(ledger) THEN [sub EXCEPT !.at = "closed", !.final = "over"]
                  ELSE [sub EXCEPT !.at = "log"])

\* events_after: the lines of the task after the cursor.
SubReadsLog ==
    /\ sub.at = "log"
    /\ Subscribed([sub EXCEPT !.at = "task", !.batch = Lines(sub.cursor), !.cursor = ReadTo])

\* A failed read of the log or of the epic's children ends the stream with an error.
SubLogFails ==
    /\ sub.at = "log"
    /\ StreamFault("log")
    /\ sub' = [sub EXCEPT !.at = "closed", !.final = "error"]
    /\ UNCHANGED <<rig, browser>>

Sent == [sub EXCEPT !.sent = @ \o sub.batch, !.batch = <<>>]

\* The lines go out with the task's state as it is now, and the stream ends with the task.
SubReadsTask ==
    /\ sub.at = "task"
    /\ Subscribed(IF Over(ledger) THEN [Sent EXCEPT !.at = "closed", !.final = "over"]
                  ELSE [Sent EXCEPT !.at = "log"])

\* A failed read of the task passes for a failed task.
SubTaskFails ==
    /\ sub.at = "task"
    /\ StreamFault("task")
    /\ sub' = [Sent EXCEPT !.at = "closed", !.final = "over"]
    /\ UNCHANGED <<rig, browser>>

-----------------------------------------------------------------------------
(* The rig's stream, as the browser uses it: no cursor, from the log's end.*)

\* stream_start.
Connect ==
    /\ pump.at = "off"
    /\ pump' = [pump EXCEPT !.at = "log", !.cursor = ReadTo]
    /\ UNCHANGED <<rig, sub, wire, view, refresh, all, streamFaults>>

\* How many of some lines are of certain kinds.
HowMany(lines, kinds) == Cardinality({i \in DOMAIN lines : log[lines[i]] \in kinds})

\* A frame that makes the browser list.
Minded == [kind |-> "listed", task |-> 0]

\* The lines of a batch become frames, of which the browser minds some; the tasks they are
\* about come after them all.
PumpReadsLog ==
    /\ pump.at = "log"
    /\ Lines(pump.cursor) # <<>>
    /\ LET lines == Lines(pump.cursor)
           tasks == HowMany(lines, TaskChanging)
           frames == [i \in 1..HowMany(lines, RefreshKinds) |-> Minded]
       IN  IF tasks = 0
           THEN /\ wire' = wire \o frames
                /\ pump' = [pump EXCEPT !.cursor = ReadTo]
           ELSE /\ pump' = [at |-> "tasks", cursor |-> ReadTo, batch |-> tasks,
                            frames |-> frames]
                /\ UNCHANGED wire
    /\ UNCHANGED <<rig, sub, view, refresh, all, streamFaults>>

\* The batch's next task; with the last one all its frames go out.
PumpWith(frames) ==
    /\ pump.at = "tasks"
    /\ IF pump.batch = 1
       THEN /\ wire' = wire \o frames
            /\ pump' = [pump EXCEPT !.at = "log", !.batch = 0, !.frames = <<>>]
       ELSE /\ pump' = [pump EXCEPT !.batch = @ - 1, !.frames = frames]
            /\ UNCHANGED wire
    /\ UNCHANGED <<rig, sub, view, refresh, all>>

\* task_update_frame: the task as it is when the frame is made.
PumpTask ==
    /\ PumpWith(Append(pump.frames, [kind |-> "task_update", task |-> ledger]))
    /\ UNCHANGED streamFaults

\* The read fails: no frame.
PumpTaskFails ==
    /\ PumpWith(pump.frames)
    /\ StreamFault("update")

\* The connection drops with all that is on it; eventStream retries for ever.
Drop ==
    /\ pump.at \in {"log", "tasks"}
    /\ StreamFault("stream")
    /\ pump' = [pump EXCEPT !.at = "off", !.batch = 0, !.frames = <<>>]
    /\ wire' = <<>>
    /\ UNCHANGED <<rig, sub, view, refresh, all>>

-----------------------------------------------------------------------------
(* The browser.                                                            *)

\* refreshRig: one ListTasks at a time; a request meanwhile runs once more after it.
Requested == IF refresh.at = "idle" THEN [refresh EXCEPT !.at = "asked"]
             ELSE [refresh EXCEPT !.again = TRUE]

\* onFrame: upsertTask, or a refresh.
OnFrame ==
    /\ wire # <<>>
    /\ wire' = Tail(wire)
    /\ IF Head(wire).kind = "task_update"
       THEN view' = Head(wire).task /\ UNCHANGED refresh
       ELSE refresh' = Requested /\ UNCHANGED view
    /\ UNCHANGED <<rig, sub, pump, all, streamFaults>>

Refreshes(x) ==
    /\ refresh' = x
    /\ UNCHANGED <<rig, sub, pump, wire, all>>

\* The console lists, and the list reaches the browser when it does.
ListTasks ==
    /\ refresh.at = "asked"
    /\ Refreshes([refresh EXCEPT !.at = "listed", !.value = ledger])
    /\ UNCHANGED <<view, streamFaults>>

Done == [refresh EXCEPT !.at = IF refresh.again THEN "asked" ELSE "idle", !.again = FALSE,
                        !.value = 0]

\* setTasks: the list replaces whatever frames have brought since.
SetTasks ==
    /\ refresh.at = "listed"
    /\ view' = refresh.value
    /\ Refreshes(Done)
    /\ UNCHANGED streamFaults

ListTasksFails ==
    /\ refresh.at \in {"asked", "listed"}
    /\ StreamFault("list")
    /\ Refreshes(Done)
    /\ UNCHANGED view

AllTo(at, value) ==
    /\ all' = [at |-> at, value |-> value]
    /\ UNCHANGED <<rig, sub, pump, wire, refresh>>

\* Mutant of Backstop: the timer has nothing to do while the stream is up.
BackstopUnlessLive ==
    /\ all.at = "idle"
    /\ pump.at \in {"off", "down"}
    /\ AllTo("asked", 0)
    /\ UNCHANGED <<view, streamFaults>>

\* The app shell's timer: refreshAll, which no refresh of one rig waits for.
Backstop ==
    /\ all.at = "idle"
    /\ AllTo("asked", 0)
    /\ UNCHANGED <<view, streamFaults>>

ListAll ==
    /\ all.at = "asked"
    /\ AllTo("listed", ledger)
    /\ UNCHANGED <<view, streamFaults>>

SetAll ==
    /\ all.at = "listed"
    /\ view' = all.value
    /\ AllTo("idle", 0)
    /\ UNCHANGED streamFaults

\* loadRigLenient: a rig that cannot be reached shows no tasks; other errors change nothing.
AllFails ==
    /\ all.at \in {"asked", "listed"}
    /\ StreamFault("list")
    /\ view' \in {view, Gone}
    /\ AllTo("idle", 0)

-----------------------------------------------------------------------------
StreamsNext ==
    \/ ChangeTask \/ BeginLine \/ EndLine \/ LoseLine
    \/ Subscribe \/ SubReadsLog \/ SubLogFails \/ SubReadsTask \/ SubTaskFails
    \/ Connect \/ PumpReadsLog \/ PumpTask \/ PumpTaskFails \/ Drop
    \/ OnFrame \/ ListTasks \/ SetTasks \/ ListTasksFails
    \/ Backstop \/ ListAll \/ SetAll \/ AllFails

StreamsSpec == StreamsInit /\ [][StreamsNext]_streamsVars

(* The console polls, the browser runs and its timer fires; a role that    *)
(* lives writes its line.  Nothing makes the task change.                  *)
StreamsFairness ==
    /\ WF_streamsVars(BeginLine) /\ WF_streamsVars(EndLine)
    /\ WF_streamsVars(SubReadsLog) /\ WF_streamsVars(SubReadsTask)
    /\ WF_streamsVars(Connect) /\ WF_streamsVars(PumpReadsLog) /\ WF_streamsVars(PumpTask)
    /\ WF_streamsVars(OnFrame) /\ WF_streamsVars(ListTasks) /\ WF_streamsVars(SetTasks)
    /\ WF_streamsVars(Backstop) /\ WF_streamsVars(ListAll) /\ WF_streamsVars(SetAll)

StreamsLiveSpec == StreamsSpec /\ StreamsFairness

-----------------------------------------------------------------------------
(* Properties.                                                             *)

\* The log, the streams and the view hold changes and lines that exist (FileTail, updates).
Frames == [kind : {"listed", "task_update"}, task : 0..ledger]

StreamsTypeOK ==
    /\ ledger \in 0..Versions /\ view \in 0..ledger \cup {Gone}
    /\ due \in Seq(Kinds) /\ log \in Seq(Kinds) /\ torn \in BOOLEAN
    /\ torn => log # <<>>
    /\ Len(log) + Len(due) <= ledger
    /\ sub \in [at : {"idle", "away", "log", "task", "closed"}, cursor : 0..Size,
                batch : Seq(1..Len(log)), sent : Seq(1..Len(log)),
                final : {"none", "over", "error"}]
    /\ pump \in [at : {"off", "down", "log", "tasks"}, cursor : 0..Size,
                 batch : 0..Len(log), frames : Seq(Frames)]
    /\ wire \in Seq(Frames)
    /\ refresh \in [at : {"idle", "asked", "listed"}, again : BOOLEAN, value : 0..ledger]
    /\ all \in [at : {"idle", "asked", "listed"}, value : 0..ledger]
    /\ streamFaults \in 0..MaxStreamFaults

\* What a subscriber got are the first lines of the log, each once and in their order, whatever
\* fails (FileTail::read_from, parse_from, updates).
SentInOrder == \A i \in DOMAIN sub.sent : sub.sent[i] = i

\* A subscriber gets every line once, in the order of the log, however its reads fall between
\* the halves of the lines (FileTail::read_from, parse_from), and is told that the task is over
\* only when it is ("closing once the task is terminal", server.rs:316); reads of the task that
\* fail are left out of StreamFailAt for the latter.
SubscriptionIsTrue ==
    /\ SentInOrder
    /\ sub.final = "over" => Over(ledger)

\* Whatever is lost between the ledger and the screen, the browser ends up showing the task as
\* it is, and keeps showing it (refreshRig, refreshAll and its timer, retry of the stream).
ViewConverges == <>[](view = ledger)
=============================================================================
