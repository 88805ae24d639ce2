-------------------------------- MODULE MCWork ---------------------------------
(***************************************************************************)
(* TLC instances of what work is: TaskLife, one task by itself, and Epics, *)
(* two tasks of which the second needs the first, from request to          *)
(* contract.  They share no state, so each is explored by itself: `part`   *)
(* says which, and the other stays as it starts.                           *)
(***************************************************************************)
EXTENDS MCTaskLife, Epics

CONSTANT r1

VARIABLE part

SecondNeedsFirst == [t \in PlanTasks |-> {n \in PlanTasks : n < t}]

\* Where a process may die or a command fail: every step of the planner and the steward,
\* and of a cancel all but those between the pass that closes the last child and the label.
\* A cancel broken off there leaves an epic the steward closes as if it had landed.
BreakableSteps ==
    {"draft", "epic", "reference", "close_reference", "verify", "task", "edge", "undefer",
     "tell", "gate", "answer", "close", "read", "context", "recall", "contract",
     "close_contract", "list", "cancel", "children", "close_epic", "close_request"}

mcvars == <<part, vars, epicsVars>>

ASSUME WorkAssumption == EpicsAssumption

MCInit == part \in {"task", "epics"} /\ Init /\ EpicsInit

MCNext ==
    /\ part' = part
    /\ \/ part = "task" /\ Next /\ UNCHANGED epicsVars
       \/ part = "epics" /\ EpicsNext /\ UNCHANGED vars

\* The fairness of Epics while it is the part that runs.
MCFairness ==
    /\ WF_epicsVars(part = "epics" /\ PlannerStep)
    /\ SF_epicsVars(part = "epics" /\ (DraftFails \/ Draft))
    /\ WF_epicsVars(part = "epics" /\ StewardStep)
    /\ WF_epicsVars(part = "epics" /\ OperatorStep)
    /\ \A e \in Epics : WF_epicsVars(part = "epics" /\ \E t \in PlanTasks : TaskStep(e, t))

MCSpec == MCInit /\ [][MCNext]_mcvars /\ MCFairness

-----------------------------------------------------------------------------
(* The properties are in TaskLife and Epics, but for the part they need.   *)

\* Every request gets its answer, though planners crash and providers refuse, and the plan it
\* was answered with comes to an end (crates/app/src/plan_queue.rs:126).
RequestsSettle == part = "epics" => EveryRequestSettles
=============================================================================
