--------------------------------- MODULE Epics ---------------------------------
(***************************************************************************)
(* From a plan request to a closed epic on one rig.  The Planner           *)
(* (crates/app/src/plan_queue.rs, planner.rs) takes a request, drafts a    *)
(* plan and writes it to the ledger bead by bead; workers take the tasks   *)
(* the ledger shows as ready; the Steward (steward.rs, steward_contract.rs)*)
(* closes the epic and writes its contract; an operator may cancel the     *)
(* epic or the request meanwhile (remote/service_options.rs).  Every step  *)
(* is one ledger command, and a process may die, or the command fail,      *)
(* before it.                                                              *)
(*                                                                         *)
(* The life of one task is Rig's; here it is open, being worked on, in     *)
(* incident, landed or canceled, and moves in one step.                    *)
(***************************************************************************)
EXTENDS Naturals, Sequences, FiniteSets, FiniteSetsExt

CONSTANTS
    Requests,    \* plan requests people queue
    PlanTasks,   \* the tasks of a plan, 1..n in the order they are written
    Needs,       \* Needs[t]: the tasks t needs, all written before it
    Overlap,     \* whether an operator may cancel, or work land, before the planner is done
                 \* writing the plan: seconds, against a session and a run of the checks
    MaxActs,     \* bound: cancels asked for and beads people add by hand
    MaxFaults,   \* bound: crashes and failed commands
    FailAt       \* the steps at which they may happen

EpicsAssumption ==
    /\ IsFiniteSet(Requests)
    /\ IsFiniteSet(PlanTasks) /\ PlanTasks # {} /\ PlanTasks = 1..Cardinality(PlanTasks)
    /\ Needs \in [PlanTasks -> SUBSET PlanTasks]
    /\ \A t \in PlanTasks : \A n \in Needs[t] : n < t
    /\ Overlap \in BOOLEAN
    /\ MaxActs \in Nat
    /\ MaxFaults \in Nat

VARIABLES
    request,   \* request[r]: its bead, and the answers noted on it
    epic,      \* epic[e]: the epic's bead and everything under it
    planner,   \* what the planner is doing
    steward,   \* what the steward's epic sweep is doing
    operator,  \* what the operator's cancel is doing
    acts,      \* what people may still do
    faults     \* faults left to happen

epicsVars == <<request, epic, planner, steward, operator, acts, faults>>

\* A request is planned at most once more than planners die on it.
Epics == 1..(Cardinality(Requests) + MaxFaults)

Beads == {"absent", "open", "closed"}
TaskStates == {"absent", "open", "working", "incident", "landed", "canceled"}
Failed == 0    \* the answer "failed: ..."

PlanRequest == [status |-> "open", answers |-> <<>>, canceled |-> FALSE]

NoEpic ==
    [status |-> "absent", canceled |-> FALSE, contract |-> "absent",
     reference |-> "absent",                 \* open while one of its reference beads is
     verify |-> [t \in PlanTasks |-> "absent"],  \* the verify beads
     bead   |-> [t \in PlanTasks |-> "absent"],  \* the task beads
     task   |-> [t \in PlanTasks |-> "absent"],  \* the state in the task's metadata
     hidden |-> {},                          \* tasks deferred until their edges are written
     edges  |-> [t \in PlanTasks |-> {}],        \* needs written to the ledger
     told   |-> {},                          \* tasks whose verify bead has its commands
     gated  |-> {},                          \* tasks their verify bead waits for
     filed  |-> {}]                          \* tasks with an open incident bead

IdlePlanner == [at |-> "idle", request |-> 0, epic |-> Failed, task |-> 1]
IdleSteward == [at |-> "idle", list |-> {}, epic |-> 0]
IdleOperator ==
    [at |-> "idle", on |-> 0, tasks |-> {}, pending |-> {}, blocked |-> {}, some |-> FALSE]

EpicsInit ==
    /\ request = [r \in Requests |-> PlanRequest]
    /\ epic = [e \in Epics |-> NoEpic]
    /\ planner = IdlePlanner
    /\ steward = IdleSteward
    /\ operator = IdleOperator
    /\ acts = MaxActs
    /\ faults = MaxFaults

\* The outcome a closed request reads back: the last epic noted, or else a refusal.
Outcome(r) ==
    LET answers == request[r].answers
        named == {i \in DOMAIN answers : answers[i] # Failed}
    IN  IF named = {} THEN Failed ELSE answers[Max(named)]

\* The ledger closes no bead before its blockers.
Closable(e, kind, t) ==
    CASE kind = "task"   -> \A n \in epic[e].edges[t] : epic[e].bead[n] = "closed"
      [] kind = "verify" -> t \in epic[e].gated => epic[e].bead[t] = "closed"
      [] OTHER           -> TRUE

OpenChildren(e) ==
    {child \in {"task", "verify"} \X PlanTasks :
        (IF child[1] = "task" THEN epic[e].bead ELSE epic[e].verify)[child[2]] = "open"}
    \cup {child \in {<<"reference", 0>>} : epic[e].reference = "open"}

Closing(x, child) ==
    CASE child[1] = "task"   -> [x EXCEPT !.bead[child[2]] = "closed"]
      [] child[1] = "verify" -> [x EXCEPT !.verify[child[2]] = "closed"]
      [] OTHER               -> [x EXCEPT !.reference = "closed"]

-----------------------------------------------------------------------------
(* The planner: plan_queued_once.                                          *)

PlannerGoes(step) == planner' = [planner EXCEPT !.at = step]

\* The epic at work on: its record becomes x, and the planner goes on to a step.
Writes(x, step) ==
    /\ epic' = [epic EXCEPT ![planner.epic] = x]
    /\ PlannerGoes(step)
    /\ UNCHANGED <<request, steward, operator, acts, faults>>

\* A ready request is taken; the note that says so is not told apart from taking it.
TakeRequest(r) ==
    /\ planner.at = "idle"
    /\ request[r].status = "open"
    /\ operator.at = "close_request" => Overlap
    /\ planner' = [IdlePlanner EXCEPT !.at = "draft", !.request = r]
    /\ UNCHANGED <<request, epic, steward, operator, acts, faults>>

\* The provider refuses the session: the request is left as it is and tried again.
ProviderRefuses ==
    /\ planner.at = "draft"
    /\ planner' = IdlePlanner
    /\ UNCHANGED <<request, epic, steward, operator, acts, faults>>

\* The model gives no plan, or one that does not validate.
DraftFails ==
    /\ planner.at = "draft"
    /\ PlannerGoes("answer")
    /\ UNCHANGED <<request, epic, steward, operator, acts, faults>>

Draft ==
    /\ planner.at = "draft"
    /\ PlannerGoes("epic")
    /\ UNCHANGED <<request, epic, steward, operator, acts, faults>>

CreateEpic ==
    /\ planner.at = "epic"
    /\ LET e == CHOOSE n \in Epics :
                    /\ epic[n].status = "absent"
                    /\ \A m \in 1..(n - 1) : epic[m].status # "absent"
       IN  /\ epic' = [epic EXCEPT ![e].status = "open"]
           /\ planner' = [planner EXCEPT !.at = "reference", !.epic = e]
    /\ UNCHANGED <<request, steward, operator, acts, faults>>

CreateReference ==
    /\ planner.at = "reference"
    /\ Writes([epic[planner.epic] EXCEPT !.reference = "open"], "close_reference")

CloseReference ==
    /\ planner.at = "close_reference"
    /\ Writes([epic[planner.epic] EXCEPT !.reference = "closed"], "verify")

\* verify_placeholder: it says neither what to run nor for which task.
CreateVerify ==
    /\ planner.at = "verify"
    /\ Writes([epic[planner.epic] EXCEPT !.verify[planner.task] = "open"], "task")

\* Mutant of CreateTask: the task is there for the taking before its edges are.
CreateTaskVisible ==
    /\ planner.at = "task"
    /\ LET t == planner.task
       IN  Writes([epic[planner.epic] EXCEPT !.bead[t] = "open", !.task[t] = "open"],
                  IF Needs[t] = {} THEN "tell" ELSE "edge")

\* A task with needs is created hidden: it is claimable from here on otherwise.
CreateTask ==
    /\ planner.at = "task"
    /\ LET t == planner.task
       IN  Writes([epic[planner.epic] EXCEPT
                      !.bead[t] = "open",
                      !.task[t] = "open",
                      !.hidden = IF Needs[t] = {} THEN @ ELSE @ \cup {t}],
                  IF Needs[t] = {} THEN "tell" ELSE "edge")

\* Mutant of AddNeed: the task is left hidden once its edges are in place.
AddNeedOnly ==
    /\ planner.at = "edge"
    /\ LET t == planner.task
           missing == Needs[t] \ epic[planner.epic].edges[t]
       IN  \E n \in missing :
               Writes([epic[planner.epic] EXCEPT !.edges[t] = @ \cup {n}],
                      IF missing = {n} THEN "tell" ELSE "edge")

AddNeed ==
    /\ planner.at = "edge"
    /\ LET t == planner.task
           missing == Needs[t] \ epic[planner.epic].edges[t]
       IN  \E n \in missing :
               Writes([epic[planner.epic] EXCEPT !.edges[t] = @ \cup {n}],
                      IF missing = {n} THEN "undefer" ELSE "edge")

Undefer ==
    /\ planner.at = "undefer"
    /\ Writes([epic[planner.epic] EXCEPT !.hidden = @ \ {planner.task}], "tell")

SetVerify ==
    /\ planner.at = "tell"
    /\ Writes([epic[planner.epic] EXCEPT !.told = @ \cup {planner.task}], "gate")

\* Mutant of GateVerify: one task more is written than the plan has.
GateVerifyPastEnd ==
    /\ planner.at = "gate"
    /\ epic' = [epic EXCEPT ![planner.epic].gated = @ \cup {planner.task}]
    /\ planner' = IF planner.task \in PlanTasks
                  THEN [planner EXCEPT !.at = "verify", !.task = @ + 1]
                  ELSE [planner EXCEPT !.at = "answer"]
    /\ UNCHANGED <<request, steward, operator, acts, faults>>

GateVerify ==
    /\ planner.at = "gate"
    /\ epic' = [epic EXCEPT ![planner.epic].gated = @ \cup {planner.task}]
    /\ planner' = IF planner.task + 1 \in PlanTasks
                  THEN [planner EXCEPT !.at = "verify", !.task = @ + 1]
                  ELSE [planner EXCEPT !.at = "answer"]
    /\ UNCHANGED <<request, steward, operator, acts, faults>>

\* Both outcomes are noted first and closed after.
NoteAnswer ==
    /\ planner.at = "answer"
    /\ request' = [request EXCEPT ![planner.request].answers = Append(@, planner.epic)]
    /\ PlannerGoes("close")
    /\ UNCHANGED <<epic, steward, operator, acts, faults>>

CloseRequest ==
    /\ planner.at = "close"
    /\ request' = [request EXCEPT ![planner.request].status = "closed"]
    /\ planner' = IdlePlanner
    /\ UNCHANGED <<epic, steward, operator, acts, faults>>

\* Mutant of PlanningFails: what was written so far is answered as the plan.
PlanningFailsAnyway ==
    /\ planner.at \in {"epic", "reference", "close_reference", "verify", "task", "edge",
                       "undefer", "tell", "gate"}
    /\ planner.at \in FailAt /\ faults > 0
    /\ faults' = faults - 1
    /\ PlannerGoes("answer")
    /\ UNCHANGED <<request, epic, steward, operator, acts>>

\* A ledger command fails while the plan is written: the request is answered as failed, and
\* what was written stays.
PlanningFails ==
    /\ planner.at \in {"epic", "reference", "close_reference", "verify", "task", "edge",
                       "undefer", "tell", "gate"}
    /\ planner.at \in FailAt /\ faults > 0
    /\ faults' = faults - 1
    /\ planner' = [planner EXCEPT !.at = "answer", !.epic = Failed]
    /\ UNCHANGED <<request, epic, steward, operator, acts>>

\* The process dies, or a command fails outside `plan` and ends it: the restarted planner
\* finds the request open.
PlannerDies ==
    /\ planner.at # "idle"
    /\ planner.at \in FailAt /\ faults > 0
    /\ faults' = faults - 1
    /\ planner' = IdlePlanner
    /\ UNCHANGED <<request, epic, steward, operator, acts>>

PlannerStep ==
    \/ \E r \in Requests : TakeRequest(r)
    \/ ProviderRefuses \/ DraftFails \/ Draft
    \/ CreateEpic \/ CreateReference \/ CloseReference
    \/ CreateVerify \/ CreateTask \/ AddNeed \/ Undefer \/ SetVerify \/ GateVerify
    \/ NoteAnswer \/ CloseRequest

-----------------------------------------------------------------------------
(* Workers, the verifier and the integrator; see Rig for their steps.      *)

\* The planner is writing this epic.
Writing(e) == planner.epic = e /\ planner.at \notin {"idle", "answer", "close"}

MovesTask(e, x) ==
    /\ epic' = [epic EXCEPT ![e] = x]
    /\ UNCHANGED <<request, planner, steward, operator, acts, faults>>

\* The ledger shows a task as ready once nothing it is known to need is open.
TakeTask(e, t) ==
    /\ epic[e].task[t] = "open" /\ epic[e].bead[t] = "open"
    /\ t \notin epic[e].hidden
    /\ \A n \in epic[e].edges[t] : epic[e].bead[n] = "closed"
    /\ MovesTask(e, [epic[e] EXCEPT !.task[t] = "working"])

\* The Verifier passes over a verify bead that says nothing yet.
LandTask(e, t) ==
    /\ epic[e].task[t] = "working"
    /\ t \in epic[e].told
    /\ Writing(e) => Overlap
    /\ MovesTask(e, [epic[e] EXCEPT !.task[t] = "landed", !.bead[t] = "closed",
                                    !.verify[t] = "closed"])

EscalateTask(e, t) ==
    /\ epic[e].task[t] = "working"
    /\ MovesTask(e, [epic[e] EXCEPT !.task[t] = "incident", !.filed = @ \cup {t}])

\* resolve: the incident is closed and its task reopened.
ResolveIncident(e, t) ==
    /\ t \in epic[e].filed
    /\ MovesTask(e, [epic[e] EXCEPT !.filed = @ \ {t},
                                    !.task[t] = IF @ = "incident" THEN "open" ELSE @])

TaskStep(e, t) == TakeTask(e, t) \/ LandTask(e, t) \/ EscalateTask(e, t)

-----------------------------------------------------------------------------
(* The steward: sweep_epic and write_contract for each active epic.        *)

StewardKeeps == UNCHANGED <<request, planner, operator, acts, faults>>

NextEpic ==
    steward' = IF steward.list = {} THEN IdleSteward
               ELSE [IdleSteward EXCEPT !.at = "read", !.list = steward.list]

ListEpics ==
    /\ steward.at = "idle"
    /\ \E e \in Epics : epic[e].status = "open"
    /\ steward' = [IdleSteward EXCEPT !.at = "read",
                                      !.list = {e \in Epics : epic[e].status = "open"}]
    /\ UNCHANGED epic /\ StewardKeeps

WorkIsClosed(e) ==
    /\ \E t \in PlanTasks : epic[e].verify[t] # "absent"
    /\ \A t \in PlanTasks : epic[e].verify[t] # "open" /\ epic[e].bead[t] # "open"

ReadChildren(e) ==
    /\ steward.at = "read"
    /\ e \in steward.list
    /\ LET rest == [steward EXCEPT !.list = @ \ {e}]
       IN  steward' = IF WorkIsClosed(e)
                      THEN [rest EXCEPT !.epic = e,
                               !.at = IF epic[e].reference = "open" THEN "context" ELSE "close"]
                      ELSE IF rest.list = {} THEN IdleSteward ELSE rest
    /\ UNCHANGED epic /\ StewardKeeps

CloseContext ==
    /\ steward.at = "context"
    /\ epic' = [epic EXCEPT ![steward.epic].reference = "closed"]
    /\ steward' = [steward EXCEPT !.at = "close"]
    /\ StewardKeeps

\* The ledger refuses to close an epic with an open child.
CloseEpic ==
    /\ steward.at = "close"
    /\ IF OpenChildren(steward.epic) = {}
       THEN /\ epic' = [epic EXCEPT ![steward.epic].status = "closed"]
            /\ steward' = [steward EXCEPT !.at = "recall"]
       ELSE UNCHANGED epic /\ NextEpic
    /\ StewardKeeps

\* The children are read again, for the contract; without a task there is no range to write.
Recall ==
    /\ steward.at = "recall"
    /\ IF \E t \in PlanTasks : epic[steward.epic].bead[t] # "absent"
       THEN steward' = [steward EXCEPT !.at = "contract"]
       ELSE NextEpic
    /\ UNCHANGED epic /\ StewardKeeps

CreateContract ==
    /\ steward.at = "contract"
    /\ epic' = [epic EXCEPT ![steward.epic].contract = "open"]
    /\ steward' = [steward EXCEPT !.at = "close_contract"]
    /\ StewardKeeps

CloseContract ==
    /\ steward.at = "close_contract"
    /\ epic' = [epic EXCEPT ![steward.epic].contract = "closed"]
    /\ NextEpic
    /\ StewardKeeps

\* A failed command is counted as an error and the sweep goes on; a crash ends the sweep.
StewardFails ==
    /\ steward.at # "idle"
    /\ steward.at \in FailAt /\ faults > 0
    /\ faults' = faults - 1
    /\ NextEpic \/ steward' = IdleSteward
    /\ UNCHANGED <<request, epic, planner, operator, acts>>

StewardStep ==
    \/ ListEpics \/ \E e \in Epics : ReadChildren(e)
    \/ CloseContext \/ CloseEpic \/ Recall \/ CreateContract \/ CloseContract

-----------------------------------------------------------------------------
(* The operator: cancel_task on an epic or on a plan request.              *)

OperatorKeeps == UNCHANGED <<request, planner, steward, acts, faults>>
OperatorGoes(step) == operator' = [operator EXCEPT !.at = step]

AskCancel(e) ==
    /\ operator.at = "idle"
    /\ acts > 0
    /\ epic[e].status = "open"
    /\ Writing(e) => Overlap
    /\ acts' = acts - 1
    /\ operator' = [IdleOperator EXCEPT !.at = "list", !.on = e]
    /\ UNCHANGED <<request, epic, planner, steward, faults>>

\* cancel_unfinished reads the children once; what is landed or canceled is passed over.
ListUnfinished ==
    /\ operator.at = "list"
    /\ LET todo == {t \in PlanTasks :
                       epic[operator.on].task[t] \in {"open", "working", "incident"}}
       IN  operator' = [operator EXCEPT !.tasks = todo,
                                        !.at = IF todo = {} THEN "children" ELSE "cancel"]
    /\ UNCHANGED epic /\ OperatorKeeps

\* A task that landed since cannot be canceled, and the rest of the cancel is not done.
CancelTask(t) ==
    /\ operator.at = "cancel"
    /\ t \in operator.tasks
    /\ LET e == operator.on
           left == operator.tasks \ {t}
       IN  IF epic[e].task[t] = "landed"
           THEN UNCHANGED epic /\ operator' = IdleOperator
           ELSE /\ epic' = [epic EXCEPT ![e].task[t] = "canceled"]
                /\ operator' = [operator EXCEPT !.tasks = left,
                                    !.at = IF left = {} THEN "children" ELSE "cancel"]
    /\ OperatorKeeps

\* close_all_children reads the children once.
ListChildren ==
    /\ operator.at = "children"
    /\ operator' = [operator EXCEPT !.pending = OpenChildren(operator.on), !.at = "pass"]
    /\ UNCHANGED epic /\ OperatorKeeps

CloseChild(child) ==
    /\ operator.at = "pass"
    /\ child \in operator.pending
    /\ LET e == operator.on
           left == operator.pending \ {child}
       IN  IF Closable(e, child[1], child[2])
           THEN /\ epic' = [epic EXCEPT ![e] = Closing(@, child)]
                /\ operator' = [operator EXCEPT !.pending = left, !.some = TRUE]
           ELSE /\ UNCHANGED epic
                /\ operator' = [operator EXCEPT !.pending = left, !.blocked = @ \cup {child}]
    /\ OperatorKeeps

\* Another pass over what was refused, unless a whole pass closed nothing.
EndPass ==
    /\ operator.at = "pass"
    /\ operator.pending = {}
    /\ \/ operator.blocked = {} /\ OperatorGoes("incidents")
       \/ /\ operator.blocked # {} /\ operator.some
          /\ operator' = [operator EXCEPT !.pending = operator.blocked, !.blocked = {},
                                          !.some = FALSE]
       \/ operator.blocked # {} /\ ~operator.some /\ operator' = IdleOperator
    /\ UNCHANGED epic /\ OperatorKeeps

CloseIncidents ==
    /\ operator.at = "incidents"
    /\ epic' = [epic EXCEPT ![operator.on].filed = {}]
    /\ OperatorGoes("label")
    /\ OperatorKeeps

\* Mutant of LabelEpic: it is left for the close to say why.
LabelEpicNot ==
    /\ operator.at = "label"
    /\ UNCHANGED epic
    /\ OperatorGoes("close_epic")
    /\ OperatorKeeps

LabelEpic ==
    /\ operator.at = "label"
    /\ epic' = [epic EXCEPT ![operator.on].canceled = TRUE]
    /\ OperatorGoes("close_epic")
    /\ OperatorKeeps

CloseCanceled ==
    /\ operator.at = "close_epic"
    /\ epic' = [epic EXCEPT ![operator.on].status =
                    IF OpenChildren(operator.on) = {} THEN "closed" ELSE @]
    /\ operator' = IdleOperator
    /\ OperatorKeeps

\* A person adds reference material and leaves it open.
AddReference(e) ==
    /\ operator.at = "idle"
    /\ acts > 0
    /\ epic[e].status = "open"
    /\ acts' = acts - 1
    /\ epic' = [epic EXCEPT ![e].reference = "open"]
    /\ UNCHANGED <<request, planner, steward, operator, faults>>

\* A request has no children: it is labelled and closed, planned or not.
AskCancelRequest(r) ==
    /\ operator.at = "idle"
    /\ acts > 0
    /\ request[r].status = "open"
    /\ (planner.at # "idle" /\ planner.request = r) => Overlap
    /\ acts' = acts - 1
    /\ request' = [request EXCEPT ![r].canceled = TRUE]
    /\ operator' = [IdleOperator EXCEPT !.at = "close_request", !.on = r]
    /\ UNCHANGED <<epic, planner, steward, faults>>

CloseCanceledRequest ==
    /\ operator.at = "close_request"
    /\ request' = [request EXCEPT ![operator.on].status = "closed"]
    /\ operator' = IdleOperator
    /\ UNCHANGED <<epic, planner, steward, acts, faults>>

OperatorFails ==
    /\ operator.at # "idle"
    /\ operator.at \in FailAt /\ faults > 0
    /\ faults' = faults - 1
    /\ operator' = IdleOperator
    /\ UNCHANGED <<request, epic, planner, steward, acts>>

OperatorStep ==
    \/ ListUnfinished \/ (\E t \in PlanTasks : CancelTask(t))
    \/ ListChildren \/ (\E child \in operator.pending : CloseChild(child)) \/ EndPass
    \/ CloseIncidents \/ LabelEpic \/ CloseCanceled \/ CloseCanceledRequest

-----------------------------------------------------------------------------
EpicsNext ==
    \/ PlannerStep \/ PlanningFails \/ PlannerDies
    \/ \E e \in Epics : \E t \in PlanTasks : TaskStep(e, t) \/ ResolveIncident(e, t)
    \/ StewardStep \/ StewardFails
    \/ \E e \in Epics : AskCancel(e) \/ AddReference(e)
    \/ \E r \in Requests : AskCancelRequest(r)
    \/ OperatorStep \/ OperatorFails

EpicsSpec == EpicsInit /\ [][EpicsNext]_epicsVars

\* The roles poll for ever; a provider that refuses sessions takes them again some day; a
\* cancel asked for is carried through, and a task taken lands or is escalated.
EpicsFairness ==
    /\ WF_epicsVars(PlannerStep)
    /\ SF_epicsVars(DraftFails \/ Draft)
    /\ WF_epicsVars(StewardStep)
    /\ WF_epicsVars(OperatorStep)
    /\ \A e \in Epics : WF_epicsVars(\E t \in PlanTasks : TaskStep(e, t))

EpicsLiveSpec == EpicsSpec /\ EpicsFairness

-----------------------------------------------------------------------------
EpicsTypeOK ==
    /\ request \in [Requests -> [status : {"open", "closed"}, answers : Seq(Epics \cup {Failed}),
                                 canceled : BOOLEAN]]
    /\ epic \in [Epics -> [status : Beads, canceled : BOOLEAN, reference : Beads,
                           contract : Beads,
                           verify : [PlanTasks -> Beads], bead : [PlanTasks -> Beads],
                           task : [PlanTasks -> TaskStates], hidden : SUBSET PlanTasks,
                           edges : [PlanTasks -> SUBSET PlanTasks], told : SUBSET PlanTasks,
                           gated : SUBSET PlanTasks, filed : SUBSET PlanTasks]]
    /\ planner.epic \in Epics \cup {Failed} /\ planner.task \in PlanTasks
    /\ steward.list \subseteq Epics /\ steward.epic \in Epics \cup {0}
    /\ operator.tasks \subseteq PlanTasks
    /\ acts \in 0..MaxActs /\ faults \in 0..MaxFaults

\* Everything the plan says is in the ledger and in sight.
Whole(e) ==
    /\ epic[e].reference # "absent"
    /\ epic[e].hidden = {}
    /\ \A t \in PlanTasks :
           /\ epic[e].verify[t] # "absent" /\ epic[e].bead[t] # "absent"
           /\ epic[e].edges[t] = Needs[t]
    /\ epic[e].told = PlanTasks /\ epic[e].gated = PlanTasks

\* The submitter is never given a plan that is half written: an epic named in an answer has
\* every task, edge and check of the plan, whatever failed on the way
\* (crates/app/src/plan_queue.rs:182).
AnswerIsWhole ==
    \A r \in Requests : request[r].status = "closed" /\ Outcome(r) # Failed => Whole(Outcome(r))

\* An epic reads as completed only when all of its work landed, though the steward may close
\* it between the steps of a cancel: once the cancel is over it carries the label
\* (crates/app/src/remote/service_options.rs:193).
CompletedMeansLanded ==
    \A e \in Epics :
        epic[e].status = "closed" /\ ~epic[e].canceled /\ operator.on # e =>
            \A t \in PlanTasks : epic[e].task[t] \in {"absent", "landed"}

\* The abstract promise (module Delivery): answers given once, tasks in the order of their
\* needs although they are written one by one and taken meanwhile, and nothing done under an
\* epic that is over.
Promise == INSTANCE Delivery WITH
    answer <- [r \in Requests |->
                   [given |-> request[r].status = "closed",
                    epic |-> IF request[r].status = "closed" THEN Outcome(r) ELSE Failed]],
    Tasks <- PlanTasks,
    done <- [e \in Epics |-> {t \in PlanTasks : epic[e].task[t] = "landed"}],
    over <- {e \in Epics : epic[e].status = "closed"}

ImplementsDelivery == Promise!DeliverySpec

-----------------------------------------------------------------------------
\* Over, or waiting for a person: an incident of it is filed, or the cancel an operator
\* asked for was broken off by a task that landed meanwhile.
Ends(e) ==
    \/ epic[e].status = "closed"
    \/ epic[e].filed # {}
    \/ operator.on # e /\ \E t \in PlanTasks : epic[e].task[t] = "canceled"

\* Every request gets its answer, though planners crash and providers refuse
\* (crates/app/src/plan_queue.rs:126), and the plan it was answered with comes to an end:
\* no task of it is left that nobody works on and nobody is asked about.
EveryRequestSettles ==
    \A r \in Requests :
        []<>(request[r].status = "closed" /\ (Outcome(r) # Failed => Ends(Outcome(r))))
=============================================================================
