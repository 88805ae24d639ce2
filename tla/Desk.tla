---------------------------------- MODULE Desk ----------------------------------
(***************************************************************************)
(* The console's operations on a rig, as its remote clients call them      *)
(* (crates/app/src/remote/service.rs, service_options.rs,                  *)
(* crates/console/src/server.rs, rpc.rs): who may do what (crates/domain/  *)
(* src/remote.rs), the choices an inbox item offers (remote/attention.rs), *)
(* each a sequence of checks and ledger commands any of which may fail,    *)
(* and the two planners (console/src/adapters.rs).  Clients' calls run at  *)
(* the same time as each other and as the rig, which escalates a task of   *)
(* an epic again and again.                                                *)
(***************************************************************************)
EXTENDS Naturals, Sequences, FiniteSets

CONSTANTS
    Clients,
    Grants,        \* Grants[c]: the scopes of a client on the rig
    TokenCap,      \* RigBudget.max_tokens, in incidents' worth of tokens
    MaxIncidents,  \* bound: escalations of the task
    MaxCalls,      \* bound: calls
    MaxDeskFaults, \* bound: failed ledger commands
    DeskFailAt     \* the steps whose command may fail

DeskAssumption ==
    /\ MaxIncidents \in Nat
    /\ MaxCalls \in Nat
    /\ MaxDeskFaults \in Nat

VARIABLES
    deskTask,      \* the task's state
    incidents,     \* how many incidents were filed on it; the last is about its present state
    items,         \* those whose bead is open in the inbox
    epic,          \* the epic: "open", "canceled" or "closed"
    requests,      \* requests[n]: "open", "planned" or "failed"
    call,          \* call[c]: the call of a client, or its answer
    did,           \* did[c]: what the client's present call has changed in the ledger
    calls,         \* calls so far
    planner,       \* how the console has plans made: "queue" or "command"
    deskFaults     \* faults left to happen

deskVars == <<deskTask, incidents, items, epic, requests, call, did, calls, planner, deskFaults>>
deskLedger == <<deskTask, incidents, items, epic, requests>>
others == <<planner, deskFaults>>

NoCall == [steps |-> <<>>, answer |-> "none", item |-> 0, request |-> 0]

DeskInit ==
    /\ deskTask = "open"
    /\ incidents = 0
    /\ items = {}
    /\ epic = "open"
    /\ requests = <<>>
    /\ call = [c \in Clients |-> NoCall]
    /\ did = [c \in Clients |-> {}]
    /\ calls = 0
    /\ planner \in {"queue", "command"}
    /\ deskFaults = MaxDeskFaults

-----------------------------------------------------------------------------
(* The rig: workers, the Steward, the Planner.                             *)

RigWrites(t, n, i) ==
    /\ deskTask' = t /\ incidents' = n /\ items' = i
    /\ UNCHANGED <<epic, requests, call, did, calls, others>>

Escalate ==
    /\ deskTask = "open"
    /\ incidents < MaxIncidents
    /\ RigWrites("incident", incidents + 1, items \cup {incidents + 1})

TaskLands == deskTask = "open" /\ RigWrites("closed", incidents, items)

StewardCloses ==
    /\ deskTask \in {"closed", "canceled"}
    /\ epic = "open"
    /\ epic' = "closed"
    /\ UNCHANGED <<deskTask, incidents, items, requests, call, did, calls, others>>

\* The planner's service may be down.
PlannerAnswers ==
    \E n \in DOMAIN requests, outcome \in {"planned", "failed"} :
        /\ requests[n] = "open"
        /\ requests' = [requests EXCEPT ![n] = outcome]
        /\ UNCHANGED <<deskTask, incidents, items, epic, call, did, calls, others>>

-----------------------------------------------------------------------------
(* The operations, as the checks and commands they make one after another. *)

\* send_message with an item: resolve.  RetryFresh and Answer are the same.
Retry == <<"may_resolve", "item_open", "close_item", "load", "retry", "may_watch">>

\* RetryWithGuidance and ResumeBranch: a note on the task first.
Guided == <<"may_resolve", "note">> \o Retry

\* Mutant of CancelEpic: whoever may watch may stop.
CancelUnchecked == <<"epic_open", "cancel_task", "close_items", "close_epic", "may_watch">>

\* Mutant of CancelEpic: the inbox is tidied before the tasks are stopped.
CancelItemsFirst ==
    <<"may_plan", "epic_open", "close_items", "cancel_task", "close_epic", "may_watch">>

\* cancel_task, StopEpic.
CancelEpic == <<"may_plan", "epic_open", "cancel_task", "close_items", "close_epic", "may_watch">>

\* send_message without an item: the text goes to the planner the rig is configured with.
Plan ==
    <<"may_plan", "admit">>
    \o (IF planner = "queue" THEN <<"create", "await">> ELSE <<"run">>) \o <<"may_watch">>

\* enqueue_plan_with_needs: returnImmediately.
Enqueue == <<"may_plan", "admit", "create">>

\* Replan: the epic is canceled before anything is known of the new plan.
Replan == CancelEpic \o Plan

\* ReplanWithout and CancelDependents answer questions about an upstream epic (CrossRig), which
\* an incident is not.
AboutUpstream == <<"may_resolve", "upstream">>

\* The operations on the rig, and the options of its items, offered or not.
Operations ==
    [get_task |-> <<"may_watch">>, list_tasks |-> <<"may_watch">>,
     plan |-> Plan, enqueue |-> Enqueue, cancel_task |-> CancelEpic]
Options ==
    [none |-> Retry, retry_fresh |-> Retry, answer |-> Retry, retry_with_guidance |-> Guided,
     resume_branch |-> Guided, replan |-> Replan, stop_epic |-> CancelEpic,
     replan_without |-> AboutUpstream, cancel_dependents |-> AboutUpstream]

-----------------------------------------------------------------------------
(* The endpoint.                                                           *)

\* The endpoint declines a request before an operation begins: no valid token, no such rig or
\* item, the rig's ledger not there, a method, option or parameter it does not know, or no text
\* where the operation needs one.
Declined == [NoCall EXCEPT !.answer = "declined"]

\* a2a, decode, execute.  An option takes any item of the rig, open or not.
Call(c) ==
    /\ call[c].steps = <<>>
    /\ calls < MaxCalls
    /\ calls' = calls + 1
    /\ did' = [did EXCEPT ![c] = {}]
    /\ \/ call' = [call EXCEPT ![c] = Declined]
       \/ \E o \in DOMAIN Operations :
              call' = [call EXCEPT ![c] = [NoCall EXCEPT !.steps = Operations[o]]]
       \/ \E o \in DOMAIN Options, i \in 1..incidents :
              call' = [call EXCEPT ![c] = [NoCall EXCEPT !.steps = Options[o], !.item = i]]
    /\ UNCHANGED <<deskLedger, others>>

-----------------------------------------------------------------------------
(* The steps.                                                              *)

At(c, step) == call[c].steps # <<>> /\ Head(call[c].steps) = step

\* The call goes on, to its answer after the last step.
Onward(c) == LET rest == Tail(call[c].steps)
             IN  [call[c] EXCEPT !.steps = rest, !.answer = IF rest = <<>> THEN "ok" ELSE @]

Goes(c) == call' = [call EXCEPT ![c] = Onward(c)]
Answers(c, answer) == call' = [call EXCEPT ![c].steps = <<>>, ![c].answer = answer]
Does(c, what) == did' = [did EXCEPT ![c] = @ \cup {what}]

\* The command of the step fails: the call is over, what it did before stays.
StepFails(c) ==
    /\ call[c].steps # <<>> /\ Head(call[c].steps) \in DeskFailAt
    /\ deskFaults > 0 /\ deskFaults' = deskFaults - 1
    /\ Answers(c, "failed")
    /\ UNCHANGED <<deskLedger, did, calls, planner>>

\* Principal::allows.
Allows(c, scope) == scope \in Grants[c] \/ "admin" \in Grants[c]

Authorize(c, scope) ==
    /\ IF Allows(c, scope) THEN Goes(c) ELSE Answers(c, "forbidden")
    /\ UNCHANGED <<deskLedger, did, calls, others>>

MayWatch(c) == At(c, "may_watch") /\ Authorize(c, "watch")
MayPlan(c) == At(c, "may_plan") /\ Authorize(c, "plan")
MayResolve(c) == At(c, "may_resolve") /\ Authorize(c, "resolve")

\* inbox_task and epic_state: what a client sees of an item, of the epic.
InboxState(i) == IF i \in items THEN "input_required" ELSE "completed"
EpicState ==
    CASE epic = "canceled" -> "canceled"
      [] epic = "closed" -> "completed"
      [] epic \notin {"canceled", "closed"} ->
             (IF deskTask = "incident" THEN "input_required"
              ELSE IF deskTask = "closed" THEN "working" ELSE "submitted")

\* A2aState::is_terminal.
IsTerminal(state) == state \in {"completed", "canceled"}

\* get_task before a change: the scope again, and what is over is refused.
Reads(c, state) ==
    /\ IF ~Allows(c, "watch") THEN Answers(c, "forbidden")
       ELSE IF IsTerminal(state) THEN Answers(c, "terminal") ELSE Goes(c)
    /\ UNCHANGED <<deskLedger, did, calls, others>>

ItemOpen(c) == At(c, "item_open") /\ Reads(c, InboxState(call[c].item))
EpicOpen(c) == At(c, "epic_open") /\ Reads(c, EpicState)

\* spend and RigBudget::admit: the tokens of active epics only.
Spend == IF epic = "open" THEN incidents ELSE 0

Admit(c) ==
    /\ At(c, "admit")
    /\ IF Spend < TokenCap THEN Goes(c) ELSE Answers(c, "budget")
    /\ UNCHANGED <<deskLedger, did, calls, others>>

Upstream(c) ==
    /\ At(c, "upstream")
    /\ Answers(c, "declined")
    /\ UNCHANGED <<deskLedger, did, calls, others>>

Note(c) ==
    /\ At(c, "note")
    /\ Does(c, "note") /\ Goes(c)
    /\ UNCHANGED <<deskLedger, calls, others>>

CloseItem(c) ==
    /\ At(c, "close_item")
    /\ items' = items \ {call[c].item}
    /\ Does(c, "resolve") /\ Goes(c)
    /\ UNCHANGED <<deskTask, incidents, epic, requests, calls, others>>

\* resolve: a task that has left its incident is not reopened.
Load(c) ==
    /\ At(c, "load")
    /\ IF deskTask = "incident" THEN Goes(c)
       ELSE call' = [call EXCEPT ![c].steps = <<"may_watch">>]
    /\ UNCHANGED <<deskLedger, did, calls, others>>

\* apply_event(OperatorRetry): an error unless the task is in incident, whichever it is.
RetryTask(c) ==
    /\ At(c, "retry")
    /\ IF deskTask = "incident" THEN deskTask' = "open" /\ Does(c, "resolve") /\ Goes(c)
       ELSE UNCHANGED <<deskTask, did>> /\ Answers(c, "refused")
    /\ UNCHANGED <<incidents, items, epic, requests, calls, others>>

\* cancel_unfinished.
CancelTask(c) ==
    /\ At(c, "cancel_task")
    /\ deskTask' = IF deskTask = "closed" THEN deskTask ELSE "canceled"
    /\ Does(c, "stop") /\ Goes(c)
    /\ UNCHANGED <<incidents, items, epic, requests, calls, others>>

\* close_all_children: the incidents filed on the epic's tasks.
CloseItems(c) ==
    /\ At(c, "close_items")
    /\ items' = {}
    /\ Does(c, "stop") /\ Goes(c)
    /\ UNCHANGED <<deskTask, incidents, epic, requests, calls, others>>

CloseEpic(c) ==
    /\ At(c, "close_epic")
    /\ epic' = "canceled"
    /\ Does(c, "stop") /\ Goes(c)
    /\ UNCHANGED <<deskTask, incidents, items, requests, calls, others>>

CreateRequest(c) ==
    /\ At(c, "create")
    /\ requests' = Append(requests, "open")
    /\ call' = [call EXCEPT ![c] = [Onward(c) EXCEPT !.request = Len(requests) + 1]]
    /\ Does(c, "plan")
    /\ UNCHANGED <<deskTask, incidents, items, epic, calls, others>>

\* QueuedPlanner::submit: the planner's answer.
PlannerAnswered(c) ==
    /\ At(c, "await")
    /\ requests[call[c].request] # "open"
    /\ IF requests[call[c].request] = "planned" THEN Goes(c) ELSE Answers(c, "rejected")
    /\ UNCHANGED <<deskLedger, did, calls, others>>

\* The deadline: the request stays open, and may yet be planned.
PlannerTimeout(c) ==
    /\ At(c, "await")
    /\ requests[call[c].request] = "open"
    /\ Answers(c, "unreachable")
    /\ UNCHANGED <<deskLedger, did, calls, others>>

\* CommandPlanner::submit: the whole plan is made within the call.
RunPlanner(c) ==
    /\ At(c, "run")
    /\ \/ requests' = Append(requests, "planned") /\ Does(c, "plan") /\ Goes(c)
       \/ /\ \E answer \in {"rejected", "unreachable"} : Answers(c, answer)
          /\ UNCHANGED <<requests, did>>
    /\ UNCHANGED <<deskTask, incidents, items, epic, calls, others>>

-----------------------------------------------------------------------------
CallStep(c) ==
    \/ MayWatch(c) \/ MayPlan(c) \/ MayResolve(c) \/ ItemOpen(c) \/ EpicOpen(c) \/ Admit(c)
    \/ Upstream(c) \/ StepFails(c)
    \/ Note(c) \/ CloseItem(c) \/ Load(c) \/ RetryTask(c)
    \/ CancelTask(c) \/ CloseItems(c) \/ CloseEpic(c)
    \/ CreateRequest(c) \/ PlannerAnswered(c) \/ PlannerTimeout(c) \/ RunPlanner(c)

DeskNext ==
    \/ Escalate \/ TaskLands \/ StewardCloses \/ PlannerAnswers
    \/ \E c \in Clients : Call(c) \/ CallStep(c)

DeskSpec == DeskInit /\ [][DeskNext]_deskVars

-----------------------------------------------------------------------------
(* Properties.                                                             *)

StepNames ==
    {"may_watch", "may_plan", "may_resolve", "item_open", "epic_open", "admit", "upstream",
     "note", "close_item", "load", "retry", "cancel_task", "close_items", "close_epic",
     "create", "await", "run"}
CallRecords ==
    [steps : Seq(StepNames),
     answer : {"none", "ok", "forbidden", "terminal", "refused", "budget", "rejected",
               "unreachable", "failed", "declined"},
     item : 0..MaxIncidents, request : Nat]

\* The ledger and the calls are of these shapes (Call, RemoteError).
DeskTypeOK ==
    /\ deskTask \in {"open", "incident", "closed", "canceled"}
    /\ incidents \in 0..MaxIncidents /\ items \subseteq 1..incidents
    /\ epic \in {"open", "closed", "canceled"}
    /\ requests \in Seq({"open", "planned", "failed"})
    /\ call \in [Clients -> CallRecords]
    /\ did \in [Clients -> SUBSET {"note", "resolve", "stop", "plan"}]
    /\ calls \in 0..MaxCalls
    /\ planner \in {"queue", "command"} /\ deskFaults \in 0..MaxDeskFaults

\* What a change asks for.
Needed(what) == IF what \in {"plan", "stop"} THEN "plan" ELSE "resolve"

\* What a client changes its scopes allow, down every path an option takes, and a call answered
\* with Forbidden has changed nothing: each scope is asked for before the first command that
\* needs it (authorize in service.rs, service_options.rs).  That a client who may change
\* things may also watch is the instance's: one who may not is told Forbidden too late.
GrantedOnly ==
    \A c \in Clients :
        /\ \A what \in did[c] : Allows(c, Needed(what))
        /\ call[c].answer = "forbidden" => did[c] = {}

\* A task in incident is in the inbox, or a call has just closed its bead to reopen it:
\* resolutions and cancels at the same moment, and a cancel broken off, never leave it where no
\* one sees it (resolve, cancel_task).  Epics are canceled here, never inbox items, and what a
\* resolution does after the close does not fail.
IncidentHasItem ==
    deskTask = "incident" =>
        \/ incidents \in items
        \/ \E c \in Clients : call[c].item = incidents /\ (At(c, "load") \/ At(c, "retry"))
=============================================================================
