-------------------------------- MODULE CrossRig --------------------------------
(***************************************************************************)
(* A plan request that waits for epics on other rigs: the console's sweep  *)
(* (crates/console/src/deps.rs) reads each needed epic on its rig, appends *)
(* the contracts to the request and releases it, or asks the operator when *)
(* an epic was canceled; the operator's answer (resolve_upstream_failure)  *)
(* drops the need or cancels the request.  Meanwhile the needed epics      *)
(* close, are canceled and get their contracts (steward.rs,                *)
(* remote/service_options.rs), a command at a time; see Epics.  Requests   *)
(* are swept one after another and share nothing, so one is modelled.      *)
(***************************************************************************)
EXTENDS Naturals, Sequences, FiniteSets, SequencesExt

CONSTANTS
    Upstream,   \* the epics on other rigs
    NeedList,   \* those the request was submitted with, in order
    MetWhole,   \* whether the console only meets epics whose closing or cancel is complete
    MaxFaults,  \* bound: crashes and failed commands
    FailAt      \* the steps at which they may happen

CrossRigAssumption ==
    /\ NeedList \in Seq(Upstream) /\ NeedList # <<>>
    /\ IsInjective(NeedList)
    /\ MetWhole \in BOOLEAN
    /\ MaxFaults \in Nat

VARIABLES
    up,         \* up[u]: a needed epic, on its rig
    request,    \* the waiting plan request
    questions,  \* questions[u]: open questions on the request's rig that u failed
    sweep,      \* what the console's sweep is doing
    operator,   \* what the operator's answer is doing
    faults      \* faults left to happen

crossRigVars == <<up, request, questions, sweep, operator, faults>>

NewEpic == [work |-> "going", status |-> "open", canceled |-> FALSE, contract |-> "none",
            cancel |-> "no"]
IdleSweep == [at |-> "idle", needs |-> <<>>, text |-> <<>>, landed |-> <<>>]
IdleOperator == [at |-> "idle", on |-> "none", kept |-> <<>>]

CrossRigInit ==
    /\ up = [u \in Upstream |-> NewEpic]
    /\ request = [status |-> "deferred", needs |-> NeedList, text |-> <<>>, dropped |-> {}]
    /\ questions = [u \in Upstream |-> 0]
    /\ sweep = IdleSweep
    /\ operator = IdleOperator
    /\ faults = MaxFaults

-----------------------------------------------------------------------------
(* The needed epics, each on its own rig.                                  *)

Epic(u, x) ==
    /\ up' = [up EXCEPT ![u] = x]
    /\ UNCHANGED <<request, questions, sweep, operator, faults>>

\* The last task lands and is closed.
Land(u) ==
    /\ up[u].work = "going"
    /\ Epic(u, [up[u] EXCEPT !.work = "landed"])

\* sweep_epic: every child is closed; the contract is written only after the epic.
StewardCloses(u) ==
    /\ up[u].work # "going"
    /\ up[u].status = "open"
    /\ Epic(u, [up[u] EXCEPT !.status = "closed", !.contract = "due"])

WriteContract(u) ==
    /\ up[u].contract = "due"
    /\ Epic(u, [up[u] EXCEPT !.contract = "written"])

\* A crash or an error here loses it for good: closed epics are not swept again.
LoseContract(u) ==
    /\ up[u].contract = "due"
    /\ faults > 0
    /\ faults' = faults - 1
    /\ up' = [up EXCEPT ![u].contract = "none"]
    /\ UNCHANGED <<request, questions, sweep, operator>>

\* cancel_task: the children first, then the label, then the epic.
CancelChildren(u) ==
    /\ up[u].work = "going"
    /\ Epic(u, [up[u] EXCEPT !.work = "canceled", !.cancel = "label"])

LabelCanceled(u) ==
    /\ up[u].cancel = "label"
    /\ Epic(u, [up[u] EXCEPT !.canceled = TRUE, !.cancel = "close"])

CloseCanceled(u) ==
    /\ up[u].cancel = "close"
    /\ Epic(u, [up[u] EXCEPT !.status = "closed", !.cancel = "no"])

RigStep(u) ==
    Land(u) \/ StewardCloses(u) \/ WriteContract(u) \/ LabelCanceled(u) \/ CloseCanceled(u)

-----------------------------------------------------------------------------
(* sweep_rig.                                                              *)

Sweeps(x) ==
    /\ sweep' = x
    /\ UNCHANGED <<up, request, questions, operator, faults>>

\* The epic the sweep is at, and whether its rig leaves it be.
Need == sweep.needs[Len(sweep.landed) + 1]
Quiet(u) == MetWhole => up[u].contract # "due" /\ up[u].cancel = "no"

\* The request's needs and text are read here and used to the end of the sweep.
ListDeferred ==
    /\ sweep.at = "idle"
    /\ request.status = "deferred" /\ request.needs # <<>>
    /\ Sweeps([IdleSweep EXCEPT !.at = "show", !.needs = request.needs, !.text = request.text])

\* Mutant of ShowNeed: a closed epic has landed.
ShowNeedClosed ==
    /\ sweep.at = "show"
    /\ Quiet(Need)
    /\ Sweeps(IF up[Need].status = "closed" THEN [sweep EXCEPT !.at = "children"]
              ELSE IdleSweep)

\* resolve: an open epic is waited for, a canceled one will never land.
ShowNeed ==
    /\ sweep.at = "show"
    /\ Quiet(Need)
    /\ Sweeps(IF up[Need].status # "closed" THEN IdleSweep
              ELSE [sweep EXCEPT !.at = IF up[Need].canceled THEN "ask" ELSE "children"])

\* What is read of the contract: a failed read is taken for an epic without one.
HasContract(u, readFails) == IF readFails THEN "none" ELSE up[u].contract

AppendsContract(readFails) ==
    LET landed == Append(sweep.landed, <<Need, HasContract(Need, readFails)>>)
    IN  sweep' = [sweep EXCEPT !.landed = landed,
                               !.at = IF Len(landed) = Len(sweep.needs) THEN "describe" ELSE "show"]

ReadContract ==
    /\ sweep.at = "children"
    /\ Quiet(Need)
    /\ AppendsContract(FALSE)
    /\ UNCHANGED <<up, request, questions, operator, faults>>

\* raise_failure: not again while the question is open.
ListQuestions ==
    /\ sweep.at = "ask"
    /\ Sweeps(IF questions[Need] > 0 THEN IdleSweep ELSE [sweep EXCEPT !.at = "raise"])

Raise ==
    /\ sweep.at = "raise"
    /\ questions' = [questions EXCEPT ![Need] = @ + 1]
    /\ sweep' = IdleSweep
    /\ UNCHANGED <<up, request, operator, faults>>

\* Mutant of Describe: the text keeps only the contract read last.
DescribeLast ==
    /\ sweep.at = "describe"
    /\ request' = [request EXCEPT !.text = Append(sweep.text, Last(sweep.landed))]
    /\ sweep' = [sweep EXCEPT !.at = "undefer"]
    /\ UNCHANGED <<up, questions, operator, faults>>

Describe ==
    /\ sweep.at = "describe"
    /\ request' = [request EXCEPT !.text = sweep.text \o sweep.landed]
    /\ sweep' = [sweep EXCEPT !.at = "undefer"]
    /\ UNCHANGED <<up, questions, operator, faults>>

Undeferred == [request EXCEPT !.status = IF @ = "deferred" THEN "open" ELSE @]

Release ==
    /\ sweep.at = "undefer"
    /\ request' = Undeferred
    /\ sweep' = IdleSweep
    /\ UNCHANGED <<up, questions, operator, faults>>

\* A failed read of an epic is a need not met yet, of the contracts an epic without any, of
\* the questions a question not asked yet; a failed write leaves the rest to the next sweep.
SweepFails ==
    /\ sweep.at # "idle"
    /\ sweep.at \in FailAt /\ faults > 0
    /\ faults' = faults - 1
    /\ CASE sweep.at = "children" -> AppendsContract(TRUE)
         [] sweep.at = "ask"      -> sweep' = [sweep EXCEPT !.at = "raise"]
         [] OTHER                 -> sweep' = IdleSweep
    /\ UNCHANGED <<up, request, questions, operator>>

SweepStep ==
    \/ ListDeferred \/ ShowNeed \/ ReadContract \/ ListQuestions \/ Raise
    \/ Describe \/ Release

-----------------------------------------------------------------------------
(* The operator answers: apply_option, resolve_upstream_failure.           *)

Answers(x) ==
    /\ operator' = x
    /\ UNCHANGED <<up, questions, sweep, faults>>

\* A request names an epic once.
Without(u) ==
    IF u \in ToSet(request.needs)
    THEN RemoveAt(request.needs, CHOOSE i \in DOMAIN request.needs : request.needs[i] = u)
    ELSE request.needs

\* replan_without: the needs are read again here, not taken from the question.
ContinueWithout(u) ==
    /\ operator.at = "idle"
    /\ questions[u] > 0
    /\ Answers([at |-> "set_needs", on |-> u, kept |-> Without(u)])
    /\ UNCHANGED request

\* Mutant of SetNeeds: a request left without needs is not released.
SetNeedsOnly ==
    /\ operator.at = "set_needs"
    /\ request' = [request EXCEPT !.needs = operator.kept, !.dropped = @ \cup {operator.on}]
    /\ Answers([operator EXCEPT !.at = "resolve"])

SetNeeds ==
    /\ operator.at = "set_needs"
    /\ request' = [request EXCEPT !.needs = operator.kept, !.dropped = @ \cup {operator.on}]
    /\ Answers([operator EXCEPT !.at = IF operator.kept = <<>> THEN "undefer" ELSE "resolve"])

OperatorReleases ==
    /\ operator.at = "undefer"
    /\ request' = Undeferred
    /\ Answers([operator EXCEPT !.at = "resolve"])

\* cancel_dependents: the label, read by no one before the close, goes with it.
CancelDependents(u) ==
    /\ operator.at = "idle"
    /\ questions[u] > 0
    /\ Answers([at |-> "close", on |-> u, kept |-> <<>>])
    /\ UNCHANGED request

CloseRequest ==
    /\ operator.at = "close"
    /\ request' = [request EXCEPT !.status = "closed"]
    /\ Answers([operator EXCEPT !.at = "resolve"])

\* Mutant of ResolveQuestion: the answer is not over with it.
ResolveQuestionAgain ==
    /\ operator.at = "resolve"
    /\ questions' = [questions EXCEPT ![operator.on] = @ - 1]
    /\ UNCHANGED <<up, request, operator, sweep, faults>>

ResolveQuestion ==
    /\ operator.at = "resolve"
    /\ questions' = [questions EXCEPT ![operator.on] = @ - 1]
    /\ operator' = IdleOperator
    /\ UNCHANGED <<up, request, sweep, faults>>

OperatorFails ==
    /\ operator.at # "idle"
    /\ operator.at \in FailAt /\ faults > 0
    /\ faults' = faults - 1
    /\ operator' = IdleOperator
    /\ UNCHANGED <<up, request, questions, sweep>>

OperatorStep == SetNeeds \/ OperatorReleases \/ CloseRequest \/ ResolveQuestion

-----------------------------------------------------------------------------
CrossRigNext ==
    \/ \E u \in Upstream : RigStep(u) \/ CancelChildren(u) \/ LoseContract(u)
    \/ SweepStep \/ SweepFails
    \/ \E u \in Upstream : ContinueWithout(u) \/ CancelDependents(u)
    \/ OperatorStep \/ OperatorFails

CrossRigSpec == CrossRigInit /\ [][CrossRigNext]_crossRigVars

\* Rigs finish or cancel their epics, the sweep runs for ever, and an answer begun is carried
\* through; nobody has to answer.
CrossRigFairness ==
    /\ \A u \in Upstream : WF_crossRigVars(RigStep(u))
    /\ WF_crossRigVars(SweepStep)
    /\ WF_crossRigVars(OperatorStep)

CrossRigLiveSpec == CrossRigSpec /\ CrossRigFairness

-----------------------------------------------------------------------------
Texts == {"none", "due", "written"}

CrossRigTypeOK ==
    /\ up \in [Upstream -> [work : {"going", "landed", "canceled"}, status : {"open", "closed"},
                            canceled : BOOLEAN, contract : Texts,
                            cancel : {"no", "label", "close"}]]
    /\ request.status \in {"deferred", "open", "closed"}
    /\ request.needs \in Seq(Upstream)
    /\ request.text \in Seq(Upstream \X Texts)
    /\ questions \in [Upstream -> Nat]
    /\ sweep.needs \in Seq(Upstream) /\ sweep.landed \in Seq(Upstream \X Texts)
    /\ operator.kept \in Seq(Upstream)
    /\ faults \in 0..MaxFaults

\* "A canceled upstream epic is a product decision the dependent rig's operator makes ...;
\* nothing is re-planned ... behind their back" (docs/exec-plans/completed/
\* cross-rig-dependencies.md:54): a request is released only when each epic it was submitted
\* with landed or was dropped by the operator, whatever sweeps and answers overlap.
ReleasedMeansDecided ==
    request.status = "open" =>
        \A u \in ToSet(NeedList) : up[u].work = "landed" \/ u \in request.dropped

\* "Each dependent planner sees the upstream contract in its plan text" (docs/exec-plans/
\* completed/cross-rig-dependencies.md:48), for every contract that was written.
PlannerSeesContract ==
    request.status = "open" =>
        \A u \in ToSet(NeedList) \ request.dropped :
            up[u].contract # "none" => <<u, "written">> \in ToSet(request.text)

Heard == request.status # "deferred" \/ \E u \in Upstream : questions[u] > 0

\* A waiting request is never forgotten: it is released or closed, or a question asks about
\* it, though sweeps fail half-way and answers break off between two of their commands.
NoSilentWait == []<>Heard
=============================================================================
