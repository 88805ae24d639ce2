-------------------------------- MODULE PlanOrder --------------------------------
(***************************************************************************)
(* What becomes of the plan a model gives: RawPlan::validate and topo_sort *)
(* (crates/domain/src/plan.rs) check it and put its tasks in order, and    *)
(* materialize (crates/app/src/planner.rs) writes them in that order.  A   *)
(* need whose task is not written yet gets no edge in the ledger, and      *)
(* nobody is told: that it does not happen is up to the order.             *)
(***************************************************************************)
EXTENDS Integers, Sequences, FiniteSets, Functions

CONSTANTS
    Words,      \* what the model may write for a key, trimmed
    Keys,       \* those parse_key takes
    RawPlans    \* the plans the model may give

\* RawPlan and RawPlannedTask: whether each title and each verify command is one is a Boolean.
RawTasks == [key : Words, needs : Seq(Words), formed : BOOLEAN]

ASSUME PlanOrderAssumption ==
    /\ Keys \subseteq Words
    /\ \A p \in RawPlans : p \in [blocked : BOOLEAN, titled : BOOLEAN, tasks : Seq(RawTasks)]

VARIABLES
    plan,      \* the tasks of the raw plan
    titled,    \* whether its summary is a title
    stage,     \* "none", a PlanError, "sorting", "writing" or "written"
    pending,   \* topo_sort: the tasks not placed, by their place in the plan
    indegree,  \* topo_sort: needs not placed, of each task
    ordered,   \* the tasks in the order found
    count,     \* materialize: how many of them are written
    edges      \* the needs each task has an edge for

vars == <<plan, titled, stage, pending, indegree, ordered, count, edges>>

Init ==
    /\ plan = <<>>
    /\ titled = FALSE
    /\ stage = "none"
    /\ pending = {}
    /\ indegree = <<>>
    /\ ordered = <<>>
    /\ count = 0
    /\ edges = <<>>

NeedsOf(p, n) == Range(p[n].needs)
KeysOf(p, S) == {p[n].key : n \in S}

\* What is wrong with the n-th task by itself.
Flaw(p, n) ==
    IF p[n].key \notin Keys THEN "bad_key"
    ELSE IF \E m \in 1..(n - 1) : p[m].key = p[n].key THEN "duplicate_key"
    ELSE IF ~p[n].formed THEN "bad_text"
    ELSE IF ~(NeedsOf(p, n) \subseteq Keys) THEN "bad_key"
    ELSE IF p[n].key \in NeedsOf(p, n) THEN "self_need"
    ELSE "none"

Unknown(p, n) == ~(NeedsOf(p, n) \subseteq KeysOf(p, DOMAIN p))

\* Mutant of InDegree: needs said twice are counted twice.
InDegreeRaw(p, n) == Len(p[n].needs)

\* Needs said twice count once.
InDegree(p, n) == Cardinality(NeedsOf(p, n))

\* The plan arrives and goes on to a stage.
Receive(p, next) ==
    /\ plan' = p.tasks
    /\ titled' = p.titled
    /\ stage' = next
    /\ pending' = DOMAIN p.tasks
    /\ indegree' = [n \in DOMAIN p.tasks |-> InDegree(p.tasks, n)]
    /\ edges' = [n \in DOMAIN p.tasks |-> {}]
    /\ UNCHANGED <<ordered, count>>

Blocked(p) == p.blocked /\ Receive(p, "blocked")

Empty(p) == ~p.blocked /\ p.tasks = <<>> /\ Receive(p, "empty")

\* validate returns at the first flaw it meets.
Flawed(p) ==
    /\ ~p.blocked
    /\ \E n \in DOMAIN p.tasks :
           /\ Flaw(p.tasks, n) # "none"
           /\ \A m \in 1..(n - 1) : Flaw(p.tasks, m) = "none"
           /\ Receive(p, Flaw(p.tasks, n))

Flawless(p) ==
    ~p.blocked /\ p.tasks # <<>> /\ \A n \in DOMAIN p.tasks : Flaw(p.tasks, n) = "none"

UnknownNeed(p) ==
    /\ Flawless(p)
    /\ \E n \in DOMAIN p.tasks : Unknown(p.tasks, n)
    /\ Receive(p, "unknown_need")

StartSort(p) ==
    /\ Flawless(p)
    /\ \A n \in DOMAIN p.tasks : ~Unknown(p.tasks, n)
    /\ Receive(p, "sorting")

\* saturating_sub.
Less(n) == IF n > 0 THEN n - 1 ELSE 0

\* Mutant of Ready: a need still to be placed does not hold the task back.
ReadyOffByOne(n) == indegree[n] <= 1

Ready(n) == indegree[n] = 0

\* The first pending task, in the plan's order, with nothing left to wait for.
Place(n) ==
    /\ stage = "sorting"
    /\ n \in pending
    /\ Ready(n)
    /\ \A m \in pending : Ready(m) => n <= m
    /\ pending' = pending \ {n}
    /\ indegree' = [m \in DOMAIN plan |->
                       IF m \in pending' /\ plan[n].key \in NeedsOf(plan, m)
                       THEN Less(indegree[m])
                       ELSE indegree[m]]
    /\ ordered' = Append(ordered, n)
    /\ UNCHANGED <<plan, titled, stage, count, edges>>

Stuck ==
    /\ stage = "sorting"
    /\ pending # {}
    /\ \A n \in pending : ~Ready(n)
    /\ stage' = "cycle"
    /\ UNCHANGED <<plan, titled, pending, indegree, ordered, count, edges>>

Sorted ==
    /\ stage = "sorting"
    /\ pending = {}
    /\ stage' = IF titled THEN "writing" ELSE "bad_summary"
    /\ UNCHANGED <<plan, titled, pending, indegree, ordered, count, edges>>

\* The keys of the tasks written so far: ids.
Ids == KeysOf(plan, {ordered[k] : k \in 1..count})

Write ==
    /\ stage = "writing"
    /\ count < Len(ordered)
    /\ edges' = [edges EXCEPT ![ordered[count + 1]] = NeedsOf(plan, ordered[count + 1]) \cap Ids]
    /\ count' = count + 1
    /\ UNCHANGED <<plan, titled, stage, pending, indegree, ordered>>

Written ==
    /\ stage = "writing"
    /\ count = Len(ordered)
    /\ stage' = "written"
    /\ UNCHANGED <<plan, titled, pending, indegree, ordered, count, edges>>

Validate ==
    /\ stage = "none"
    /\ \E p \in RawPlans :
           Blocked(p) \/ Empty(p) \/ Flawed(p) \/ UnknownNeed(p) \/ StartSort(p)

Sort == (\E n \in DOMAIN plan : Place(n)) \/ Stuck \/ Sorted

Next == Validate \/ Sort \/ Write \/ Written

Spec == Init /\ [][Next]_vars

-----------------------------------------------------------------------------
(* Properties.                                                             *)

\* Every variable keeps its shape.
Problems ==
    {"blocked", "empty", "bad_key", "duplicate_key", "bad_text", "self_need", "unknown_need",
     "cycle", "bad_summary"}
TypeOK ==
    /\ plan \in Seq(RawTasks)
    /\ titled \in BOOLEAN
    /\ stage \in Problems \cup {"none", "sorting", "writing", "written"}
    /\ pending \subseteq DOMAIN plan
    /\ indegree \in [DOMAIN plan -> Nat]
    /\ ordered \in Seq(DOMAIN plan)
    /\ count \in 0..Len(ordered)
    /\ edges \in [DOMAIN plan -> SUBSET Words]

\* No need is lost between the model's answer and the ledger: when a plan is written, each of
\* its tasks is, with an edge for everything it needs (filter_map in materialize drops those
\* whose task comes later).
EdgesKept ==
    stage = "written" =>
        /\ Range(ordered) = DOMAIN plan
        /\ \A n \in DOMAIN plan : edges[n] = NeedsOf(plan, n)

\* A plan is refused as cyclic only if it is: some of its tasks all need one another
\* (PlanError::Cycle).
CycleIsReal ==
    stage = "cycle" =>
        \E S \in SUBSET DOMAIN plan :
            S # {} /\ \A n \in S : NeedsOf(plan, n) \cap KeysOf(plan, S) # {}
=============================================================================
