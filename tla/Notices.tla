-------------------------------- MODULE Notices ---------------------------------
(***************************************************************************)
(* Who tells chat about a task: the console's alerts                       *)
(* (crates/console/src/alerts.rs) and the Telegram bot                     *)
(* (crates/factory/src/telegram.rs), both on ListTasks with the tasks that *)
(* vanished from it and on the change of state between two polls           *)
(* (crates/app/src/remote/chat.rs, service_lists.rs).  The bot also runs   *)
(* the commands it reads with a long poll (crates/infra/src/telegram.rs).  *)
(* Tasks are told about one by one and watchers share nothing, so one task *)
(* and one watcher are modelled; the task's life is that of an epic, an    *)
(* incident or a plan request.                                             *)
(***************************************************************************)
EXTENDS Naturals, FiniteSetsExt

CONSTANTS
    Watchers,        \* who may be watching: a subset of {"alerts", "bot"}
    Messages,        \* bound: messages chat send the bot, numbered from 1
    Commands,        \* those that are text
    Batch,           \* how many updates Telegram gives at once
    MaxChanges,      \* bound: changes of the task
    MaxNoticeFaults, \* bound: failed calls and restarts
    NoticeFailAt     \* where they may happen

NoticesAssumption ==
    /\ Watchers \subseteq {"alerts", "bot"}
    /\ Messages \in Nat
    /\ Commands \subseteq 1..Messages
    /\ Batch \in Nat
    /\ MaxNoticeFaults \in Nat

VARIABLES
    task,     \* the task's state as A2A shows it, "absent" before it exists
    entered,  \* entered[s]: how often the task came to state s
    watcher,  \* which it is, its place in its loop, what it has seen and what it has to say
    said,     \* said[s]: messages that reached people: the task is in s
    lost,     \* a message was lost, or what the watcher had seen was
    written,  \* messages sent to the bot so far
    offset,   \* the bot's offset: the first update it has not handled
    kept,     \* Telegram's: the first update not confirmed
    ran,      \* ran[m]: how often the bot ran command m
    restarts, \* restarts of the bot
    noticeFaults  \* faults left to happen

noticesVars ==
    <<task, entered, watcher, said, lost, written, offset, kept, ran, restarts, noticeFaults>>
chat == <<written, offset, kept, ran, restarts>>

Terminal == {"completed", "canceled"}
Active == {"submitted", "working", "input_required"}
States == {"absent", "deferred"} \cup Active \cup Terminal

\* notifications: the states worth a message.
Told == Terminal \cup {"input_required"}

\* Where a watcher's loop starts.
Home(who) == IF who = "bot" THEN "poll" ELSE "list"

Fresh(who) == [who |-> who, at |-> Home(who), seen |-> "none", now |-> "none",
               primed |-> FALSE, say |-> "none", todo |-> {}]

NoticesInit ==
    /\ task = "absent"
    /\ entered = [s \in States |-> 0]
    /\ \E who \in Watchers : watcher = Fresh(who)
    /\ said = [s \in Told |-> 0]
    /\ lost = FALSE
    /\ written = 0
    /\ offset = 1
    /\ kept = 1
    /\ ran = [m \in Commands |-> 0]
    /\ restarts = 0
    /\ noticeFaults = MaxNoticeFaults

NoticeFault(at) ==
    /\ at \in NoticeFailAt
    /\ noticeFaults > 0
    /\ noticeFaults' = noticeFaults - 1

-----------------------------------------------------------------------------
(* The task.                                                               *)

NextStates(s) ==
    CASE s = "absent" -> {"deferred", "submitted"}
      [] s = "deferred" -> {"submitted", "canceled"}
      [] s = "submitted" -> {"working"} \cup Terminal
      [] s = "working" -> {"input_required", "completed", "canceled"}
      [] s = "input_required" -> {"working", "canceled"}
      [] OTHER -> {}

Changes == MapThenSumSet(LAMBDA s : entered[s], States)

MoveTask ==
    /\ Changes < MaxChanges
    /\ \E s \in NextStates(task) :
           /\ task' = s
           /\ entered' = [entered EXCEPT ![s] = @ + 1]
    /\ UNCHANGED <<watcher, said, lost, chat, noticeFaults>>

-----------------------------------------------------------------------------
(* A poll: the live tasks, the deferred requests, what vanished, the news. *)

At(at) == watcher.at = at

Steps(x) ==
    /\ watcher' = x
    /\ UNCHANGED <<task, entered, said, lost, chat>>

\* list_tasks: epics, the inbox and active requests.
ListActive ==
    /\ At("list")
    /\ Steps([watcher EXCEPT !.at = "deferred",
                                   !.now = IF task \in Active THEN task ELSE "none"])
    /\ UNCHANGED noticeFaults

\* And then the requests that wait: one released in between is on neither list.
ListWaiting ==
    /\ At("deferred")
    /\ Steps([watcher EXCEPT !.at = "vanished",
                                   !.now = IF task = "deferred" THEN task ELSE @])
    /\ UNCHANGED noticeFaults

\* The rig cannot be read: what was seen is kept.
PollTasksFails ==
    /\ watcher.at \in {"list", "deferred"}
    /\ NoticeFault("list")
    /\ Steps([watcher EXCEPT !.at = Home(watcher.who), !.now = "none"])

Vanished == watcher.now = "none" /\ watcher.seen \notin {"none"} \cup Terminal

\* Mutant of FetchVanished: the list is all there is.
FetchNothing ==
    /\ At("vanished")
    /\ Steps([watcher EXCEPT !.at = "notify"])
    /\ UNCHANGED noticeFaults

\* with_vanished: a task seen before and not listed is read by itself, so that its end is
\* observed once.
FetchVanished ==
    /\ At("vanished")
    /\ Steps([watcher EXCEPT !.at = "notify", !.now = IF Vanished THEN task ELSE @])
    /\ UNCHANGED noticeFaults

\* A read that fails is skipped, and with it the task: what is seen is built from the answers.
FetchFails ==
    /\ At("vanished")
    /\ Vanished
    /\ NoticeFault("fetch")
    /\ Steps([watcher EXCEPT !.at = "notify"])

\* Mutant of News: a message for every poll that finds the task so.
NewsEveryPoll(before, now) ==
    /\ now \in Told
    /\ ~(before = "none" /\ now \in Terminal)

\* notifications: what changed since the last poll; a task first seen at its end is not news.
News(before, now) ==
    /\ now \in Told
    /\ before # now
    /\ ~(before = "none" /\ now \in Terminal)

\* The first poll only learns.
Notify ==
    /\ At("notify")
    /\ LET news == watcher.primed /\ News(watcher.seen, watcher.now)
       IN  Steps([watcher EXCEPT !.seen = watcher.now, !.now = "none", !.primed = TRUE,
                      !.say = IF news THEN watcher.now ELSE "none",
                      !.at = IF news THEN "post" ELSE Home(watcher.who)])
    /\ UNCHANGED noticeFaults

Posted == [watcher EXCEPT !.at = Home(watcher.who), !.say = "none"]

Post ==
    /\ At("post")
    /\ said' = [said EXCEPT ![watcher.say] = @ + 1]
    /\ watcher' = Posted
    /\ UNCHANGED <<task, entered, lost, chat, noticeFaults>>

\* A post that fails is logged and not repeated.
PostFails ==
    /\ At("post")
    /\ NoticeFault("post")
    /\ lost' = TRUE
    /\ watcher' = Posted
    /\ UNCHANGED <<task, entered, said, chat>>

\* What a watcher has seen is in its memory.
Restart ==
    /\ NoticeFault("restart")
    /\ watcher' = Fresh(watcher.who)
    /\ lost' = TRUE
    /\ IF watcher.who = "bot" THEN offset' = 1 /\ restarts' = restarts + 1
       ELSE UNCHANGED <<offset, restarts>>
    /\ UNCHANGED <<task, entered, said, written, kept, ran>>

-----------------------------------------------------------------------------
(* The bot's commands.                                                     *)

WriteMessage ==
    /\ watcher.who = "bot"
    /\ written < Messages
    /\ written' = written + 1
    /\ UNCHANGED <<task, entered, watcher, said, lost, offset, kept, ran, restarts, noticeFaults>>

Later(i, j) == IF i < j THEN j ELSE i

\* updates: asking from an offset on confirms all before it; what is not text is dropped from
\* the answer, so the offset never moves over it by itself.
Poll ==
    /\ At("poll")
    /\ LET from == Later(offset, kept)
           answer == {m \in Commands : m \in from..written /\ m < from + Batch}
       IN  /\ watcher' = [watcher EXCEPT !.todo = answer,
                              !.at = IF answer = {} THEN "list" ELSE "commands"]
           /\ kept' = from
    /\ UNCHANGED <<task, entered, said, lost, written, offset, ran, restarts, noticeFaults>>

PollFails ==
    /\ At("poll")
    /\ NoticeFault("poll")
    /\ Steps([watcher EXCEPT !.at = "list"])

\* step: in the order they were written, the offset moves past the message, then the command
\* runs and is answered.
Command ==
    /\ At("commands")
    /\ \E m \in watcher.todo :
           /\ \A other \in watcher.todo : m <= other
           /\ offset' = Later(offset, m + 1)
           /\ ran' = [ran EXCEPT ![m] = @ + 1]
           /\ watcher' = [watcher EXCEPT !.todo = @ \ {m},
                              !.at = IF watcher.todo = {m} THEN "list" ELSE @]
    /\ UNCHANGED <<task, entered, said, lost, written, kept, restarts, noticeFaults>>

-----------------------------------------------------------------------------
Sweep == ListActive \/ ListWaiting \/ FetchVanished \/ Notify \/ Post

NoticesNext ==
    \/ MoveTask
    \/ Sweep
    \/ PollTasksFails \/ FetchFails \/ PostFails \/ Restart
    \/ WriteMessage \/ Poll \/ PollFails \/ Command

NoticesSpec == NoticesInit /\ [][NoticesNext]_noticesVars

(* Both loops run for ever; nothing makes the task change or people write. *)
NoticesFairness ==
    /\ WF_noticesVars(Sweep)
    /\ WF_noticesVars(Poll \/ Command)

NoticesLiveSpec == NoticesSpec /\ NoticesFairness

-----------------------------------------------------------------------------
(* Properties.                                                             *)

\* A watcher's memory and the chat's offsets are of these shapes (BotState, Seen).
Places == {"poll", "commands", "list", "deferred", "vanished", "notify", "post"}

NoticesTypeOK ==
    /\ task \in States
    /\ watcher \in [who : Watchers, at : Places, seen : States \cup {"none"},
                    now : States \cup {"none"}, primed : BOOLEAN, say : Told \cup {"none"},
                    todo : SUBSET Commands]
    /\ \A first, last \in watcher.todo : last < first + Batch
    /\ entered \in [States -> Nat] /\ said \in [Told -> Nat] /\ ran \in [Commands -> Nat]
    /\ lost \in BOOLEAN /\ restarts \in Nat
    /\ written \in 0..Messages /\ offset \in 1..Messages + 1 /\ kept \in 1..Messages + 1
    /\ noticeFaults \in 0..MaxNoticeFaults

\* Nothing is said or done twice: people are told that a task needs them, is done or was
\* canceled at most as often as it came to that, however polls, changes, failures and restarts
\* fall (notifications, seen), and a command runs again only when the bot was restarted since
\* it was written: the offset is in its memory and confirmed by the next poll (step).
NothingTwice ==
    /\ \A s \in Told : said[s] <= entered[s]
    /\ \A m \in Commands : ran[m] <= 1 + restarts

\* Nothing is missed: the end of a task that a watcher knew alive reaches people, unless a
\* post failed or the watcher was restarted ("fetched individually so its terminal state is
\* observed once", chat.rs:267; failed reads of a vanished task are left out here), and every
\* command that is written runs (updates, step), if fewer than a batch of updates that are
\* not text come before it.
NothingMissed ==
    /\ \A s \in Terminal :
           (task = s /\ watcher.seen \in Active \cup {"deferred"}) ~> (said[s] > 0 \/ lost)
    /\ []<>(\A m \in Commands : written >= m => ran[m] > 0)
=============================================================================
