------------------------------ MODULE EpicsProofs -------------------------------
(***************************************************************************)
(* Theorems of Epics for every set of requests, every plan, and any number *)
(* of cancels, crashes and failed commands.                                *)
(***************************************************************************)
EXTENDS Epics, FiniteSetTheorems, NaturalsInduction, WellFoundedInduction, TLAPS

-----------------------------------------------------------------------------
(* The shapes of the beads and of the processes.                           *)

Flags == BOOLEAN

WritingSteps ==
    {"reference", "close_reference", "verify", "task", "edge", "undefer", "tell", "gate"}
PlannerSteps == WritingSteps \cup {"idle", "draft", "epic", "answer", "close"}
ClosingSteps == {"context", "close", "recall", "contract", "close_contract"}
CancelSteps == {"list", "cancel", "children", "pass", "incidents", "label", "close_epic"}
Unfinished == {"open", "working", "incident"}

Children == ({"task", "verify"} \X PlanTasks) \cup ({"reference"} \X {0})

PlanRequests ==
    [status : {"open", "closed"}, answers : Seq(Epics \cup {Failed}), canceled : Flags]

EpicBeads ==
    [status : Beads, canceled : Flags, reference : Beads, contract : Beads,
     verify : [PlanTasks -> Beads], bead : [PlanTasks -> Beads],
     task : [PlanTasks -> TaskStates], hidden : SUBSET PlanTasks,
     edges : [PlanTasks -> SUBSET PlanTasks], told : SUBSET PlanTasks,
     gated : SUBSET PlanTasks, filed : SUBSET PlanTasks]

PlannerOK ==
    /\ planner \in [at : PlannerSteps, request : Requests \cup {0},
                    epic : Epics \cup {Failed}, task : PlanTasks]
    /\ planner.at # "idle" => planner.request \in Requests
    /\ planner.at \in WritingSteps => planner.epic \in Epics
    /\ planner.at \in {"draft", "epic"} => planner.epic = Failed /\ planner.task = 1

\* Whoever is at work on an epic works on one that exists.
Present(e) == e \in Epics /\ epic[e].status # "absent"

StewardOK ==
    /\ steward \in [at : ClosingSteps \cup {"idle", "read"}, list : SUBSET Epics,
                    epic : Epics \cup {0}]
    /\ \A e \in steward.list : Present(e)
    /\ steward.at \in ClosingSteps => Present(steward.epic)

OperatorOK ==
    /\ operator \in [at : CancelSteps \cup {"idle", "close_request"},
                     on : Epics \cup Requests \cup {0}, tasks : SUBSET PlanTasks,
                     pending : SUBSET Children, blocked : SUBSET Children, some : Flags]
    /\ operator.at \in CancelSteps => Present(operator.on)
    /\ operator.at = "close_request" => operator.on \in Requests
    /\ operator.at = "cancel" =>
           \A t \in operator.tasks : epic[operator.on].task[t] # "absent"
    /\ operator.at \in {"list", "cancel", "children"} => operator.blocked = {}
    /\ operator.at = "pass" =>
           \A child \in operator.pending \cup operator.blocked :
               child[1] = "task" => epic[operator.on].bead[child[2]] # "absent"

Shape ==
    /\ request \in [Requests -> PlanRequests]
    /\ epic \in [Epics -> EpicBeads]
    /\ acts \in 0..MaxActs /\ faults \in 0..MaxFaults

-----------------------------------------------------------------------------
(* How far a plan has been written.                                        *)

Unwritten(x, t) ==
    /\ x.bead[t] = "absent" /\ x.edges[t] = {}
    /\ t \notin x.hidden /\ t \notin x.gated

Written(x, t) ==
    /\ x.verify[t] # "absent" /\ x.bead[t] # "absent"
    /\ x.edges[t] = Needs[t]
    /\ t \notin x.hidden /\ t \in x.told /\ t \in x.gated

\* What is there of the task the planner is writing.
Halfway(x, t, at) ==
    /\ t \notin x.gated
    /\ at \in {"reference", "close_reference", "verify", "task"} => Unwritten(x, t)
    /\ at \notin {"reference", "close_reference", "verify"} => x.verify[t] # "absent"
    /\ at \in {"edge", "undefer", "tell", "gate"} => x.bead[t] # "absent"
    /\ at = "edge" => x.edges[t] # Needs[t]
    /\ at \in {"undefer", "tell", "gate"} => x.edges[t] = Needs[t]
    /\ at \in {"tell", "gate"} => t \notin x.hidden
    /\ at = "gate" => t \in x.told

Progress(x, t, at) ==
    /\ x.status # "absent"
    /\ at # "reference" => x.reference # "absent"
    /\ \A u \in PlanTasks : u < t => Written(x, u)
    /\ \A u \in PlanTasks : u > t => Unwritten(x, u)
    /\ Halfway(x, t, at)

\* A bead is there with its task; edges are as the plan has them once the task is in sight,
\* and lead to beads that are there.
EpicOK(x) ==
    /\ x.status = "absent" => x = NoEpic
    /\ \A t \in PlanTasks :
           /\ x.bead[t] = "absent" <=> x.task[t] = "absent"
           /\ x.bead[t] # "absent" /\ t \notin x.hidden => x.edges[t] = Needs[t]
           /\ x.edges[t] \subseteq Needs[t]
           /\ \A n \in x.edges[t] : x.bead[n] # "absent"
           /\ t \in x.gated => x.bead[t] # "absent"

Answered ==
    /\ \A r \in Requests :
           /\ Outcome(r) \in Epics \cup {Failed}
           /\ Outcome(r) # Failed => Whole(Outcome(r))
    /\ planner.at \in {"answer", "close"} /\ planner.epic # Failed => Whole(planner.epic)

\* The requests that will not be planned again, or whose epic is there already.
Planned ==
    {r \in Requests :
        IF planner.request = r /\ planner.at # "idle" THEN planner.at \notin {"draft", "epic"}
        ELSE request[r].status = "closed"}

\* Epics are numbered as they come, one for each request and each planner that failed.
Numbered ==
    \E c \in {0} \cup Epics :
        /\ {e \in Epics : epic[e].status # "absent"} = 1..c
        /\ c + faults <= Cardinality(Planned) + MaxFaults

Inv ==
    /\ Shape /\ PlannerOK /\ StewardOK /\ OperatorOK
    /\ \A e \in Epics : EpicOK(epic[e])
    /\ planner.at \in WritingSteps => Progress(epic[planner.epic], planner.task, planner.at)
    /\ Answered /\ Numbered

-----------------------------------------------------------------------------
(* What holds if nobody interferes with a plan being written.              *)

InOrder(x) ==
    /\ \A t \in PlanTasks :
           /\ x.bead[t] = "closed" => x.task[t] \in {"landed", "canceled"}
           /\ x.task[t] = "landed" => x.bead[t] = "closed"
           /\ x.task[t] \in {"working", "landed"} =>
                  \A n \in Needs[t] : x.task[n] = "landed"
           /\ x.status = "closed" => x.bead[t] # "open"
    /\ (\E t \in PlanTasks : x.task[t] = "canceled" /\ x.bead[t] = "closed") =>
           \A t \in PlanTasks : x.task[t] \notin Unfinished

\* The epic the planner is writing.
Alone(e) ==
    /\ epic[e].status = "open"
    /\ \A t \in PlanTasks :
           /\ epic[e].bead[t] \in {"absent", "open"} /\ epic[e].verify[t] \in {"absent", "open"}
           /\ epic[e].task[t] \notin {"landed", "canceled"}
    /\ ~(operator.at \in CancelSteps /\ operator.on = e)
    /\ ~(steward.at \in ClosingSteps /\ steward.epic = e)

CancelOK ==
    /\ operator.at = "cancel" =>
           \A t \in PlanTasks :
               epic[operator.on].task[t] \in Unfinished => t \in operator.tasks
    /\ operator.at \in {"children", "pass", "incidents", "label", "close_epic"} =>
           \A t \in PlanTasks : epic[operator.on].task[t] \notin Unfinished

Undecided ==
    /\ planner.at # "idle" =>
           /\ request[planner.request].status = "open"
           /\ ~(operator.at = "close_request" /\ operator.on = planner.request)
    /\ operator.at = "close_request" => request[operator.on].status = "open"

OrderInv ==
    /\ \A e \in Epics : InOrder(epic[e])
    /\ planner.at \in WritingSteps => Alone(planner.epic)
    /\ CancelOK /\ Undecided

-----------------------------------------------------------------------------
(* What holds if a cancel is carried through once it has begun to close.   *)

Undone(x) == \E t \in PlanTasks : x.bead[t] = "open"
Done(x) == \A t \in PlanTasks : x.task[t] \in {"absent", "landed"}

CarryInv ==
    /\ \A e \in Epics :
           \/ operator.at \in {"pass", "incidents", "label"} /\ operator.on = e
           \/ epic[e].canceled \/ Undone(epic[e]) \/ Done(epic[e])
    /\ operator.at = "close_epic" => epic[operator.on].canceled
    /\ operator.at = "pass" /\ operator.blocked # {} /\ ~operator.some =>
           Undone(epic[operator.on])

-----------------------------------------------------------------------------
(* The constants, and what a change of one bead leaves of an epic.         *)

LEMMA Constants ==
    ASSUME EpicsAssumption
    PROVE  /\ Cardinality(PlanTasks) \in Nat /\ PlanTasks \subseteq Nat /\ 1 \in PlanTasks
           /\ 0 \notin PlanTasks
           /\ Cardinality(Requests) \in Nat
           /\ Epics = 1..(Cardinality(Requests) + MaxFaults)
           /\ Failed = 0 /\ 0 \notin Epics /\ MaxFaults \in Nat /\ MaxActs \in Nat
           /\ TRUE \in Flags /\ FALSE \in Flags
<1>1. Cardinality(PlanTasks) \in Nat /\ Cardinality(Requests) \in Nat
  BY FS_CardinalityType DEF EpicsAssumption
<1>2. 1 \in PlanTasks /\ PlanTasks \subseteq Nat /\ 0 \notin PlanTasks
  BY <1>1 DEF EpicsAssumption
<1> QED
  BY <1>1, <1>2 DEF EpicsAssumption, Epics, Failed, Flags

LEMMA EpicIsOK ==
    ASSUME NEW y, y.status # "absent",
           \A u \in PlanTasks : /\ y.bead[u] = "absent" <=> y.task[u] = "absent"
                                /\ u \in y.gated => y.bead[u] # "absent",
           \A u \in PlanTasks :
               y.bead[u] # "absent" /\ u \notin y.hidden => y.edges[u] = Needs[u],
           \A u \in PlanTasks : y.edges[u] \subseteq Needs[u],
           \A u \in PlanTasks : \A m \in y.edges[u] : y.bead[m] # "absent"
    PROVE  EpicOK(y)
BY DEF EpicOK

LEMMA EdgeFields ==
    ASSUME NEW x \in EpicBeads, NEW g \in [PlanTasks -> SUBSET PlanTasks], NEW y,
           y = [x EXCEPT !.edges = g]
    PROVE  /\ y \in EpicBeads /\ y.bead = x.bead /\ y.task = x.task
           /\ y.edges = g /\ y.hidden = x.hidden
           /\ y.status = x.status /\ y.reference = x.reference
           /\ y.verify = x.verify /\ y.told = x.told /\ y.gated = x.gated
BY DEF EpicBeads

LEMMA LandFields ==
    ASSUME NEW x \in EpicBeads, NEW t \in PlanTasks
    PROVE  LET y == [x EXCEPT !.task[t] = "landed", !.bead[t] = "closed", !.verify[t] = "closed"]
           IN  /\ y \in EpicBeads
               /\ y.bead = [x.bead EXCEPT ![t] = "closed"]
               /\ y.task = [x.task EXCEPT ![t] = "landed"]
               /\ y.verify = [x.verify EXCEPT ![t] = "closed"]
               /\ y.hidden = x.hidden
               /\ y.status = x.status /\ y.canceled = x.canceled /\ y.reference = x.reference
               /\ y.edges = x.edges /\ y.told = x.told
               /\ y.gated = x.gated
BY DEF EpicBeads, Beads, TaskStates

-----------------------------------------------------------------------------
(* Steps of everybody but the planner.                                     *)

WholeOf(x) ==
    /\ x.reference # "absent"
    /\ x.hidden = {}
    /\ \A t \in PlanTasks :
           x.verify[t] # "absent" /\ x.bead[t] # "absent" /\ x.edges[t] = Needs[t]
    /\ x.told = PlanTasks /\ x.gated = PlanTasks

\* Nothing the planner wrote goes away.
Grows(x, y) ==
    /\ y \in EpicBeads
    /\ y.hidden = x.hidden /\ y.edges = x.edges /\ y.told = x.told /\ y.gated = x.gated
    /\ \A t \in PlanTasks :
           /\ y.bead[t] = "absent" <=> x.bead[t] = "absent"
           /\ x.verify[t] # "absent" => y.verify[t] # "absent"
           /\ y.task[t] = "absent" <=> x.task[t] = "absent"
    /\ x.reference # "absent" => y.reference # "absent"
    /\ x.status # "absent" /\ y.status # "absent"

AllGrow ==
    /\ epic' \in [Epics -> EpicBeads]
    /\ \A e \in Epics : epic'[e] = epic[e] \/ Grows(epic[e], epic'[e])

LEMMA GrowsKeeps ==
    ASSUME NEW x \in EpicBeads, NEW y \in EpicBeads, Grows(x, y)
    PROVE  /\ EpicOK(x) => EpicOK(y)
           /\ WholeOf(x) => WholeOf(y)
           /\ \A t \in PlanTasks, at \in WritingSteps : Progress(x, t, at) => Progress(y, t, at)
<1>1. EpicOK(x) => EpicOK(y)
  <2>1. \A t \in PlanTasks : x.edges[t] \subseteq PlanTasks
    BY DEF EpicBeads
  <2> QED
    BY <2>1 DEF EpicOK, Grows
<1>2. WholeOf(x) => WholeOf(y)
  BY DEF WholeOf, Grows
<1>3. ASSUME NEW t \in PlanTasks, NEW at \in WritingSteps, Progress(x, t, at)
      PROVE  Progress(y, t, at)
  <2>1. Halfway(y, t, at)
    BY <1>3 DEF Progress, Halfway, Unwritten, Grows
  <2>2. ASSUME NEW u \in PlanTasks
        PROVE  (u < t => Written(y, u)) /\ (u > t => Unwritten(y, u))
    BY <1>3 DEF Progress, Written, Unwritten, Grows
  <2> QED
    BY <1>3, <2>1, <2>2 DEF Progress, Grows
<1> QED
  BY <1>1, <1>2, <1>3

LEMMA Grown ==
    ASSUME Inv, NEW e \in Epics, NEW y, Grows(epic[e], y), epic' = [epic EXCEPT ![e] = y]
    PROVE  AllGrow /\ epic'[e] = y /\ \A f \in Epics \ {e} : epic'[f] = epic[f]
BY DEF Grows, AllGrow, Inv, Shape

LEMMA Unchanged ==
    ASSUME Inv, epic' = epic
    PROVE  AllGrow
BY DEF AllGrow, Inv, Shape

\* What an answer and a plan say of epics that keep what they have.
LEMMA GrownKeeps ==
    ASSUME Inv, AllGrow
    PROVE  /\ \A e \in Epics : EpicOK(epic'[e])
           /\ \A e \in Epics : Whole(e) => Whole(e)'
           /\ \A e \in Epics : Present(e) => Present(e)'
           /\ {e \in Epics : epic'[e].status # "absent"} = {e \in Epics : epic[e].status # "absent"}
           /\ planner.at \in WritingSteps =>
                  Progress(epic'[planner.epic], planner.task, planner.at)
<1>1. ASSUME NEW e \in Epics
      PROVE  /\ EpicOK(epic'[e])
             /\ Whole(e) => Whole(e)'
             /\ Present(e) => Present(e)'
             /\ epic'[e].status # "absent" <=> epic[e].status # "absent"
  <2>1. CASE epic'[e] = epic[e]
    BY <2>1 DEF Inv, Whole, Present
  <2>2. CASE Grows(epic[e], epic'[e])
    <3>1. epic[e] \in EpicBeads /\ epic'[e] \in EpicBeads
      BY DEF Inv, Shape, AllGrow
    <3>2. WholeOf(epic[e]) => WholeOf(epic'[e])
      BY <2>2, <3>1, GrowsKeeps
    <3> QED
      BY <2>2, <3>1, <3>2, GrowsKeeps DEF Inv, Grows, Present, Whole, WholeOf
  <2> QED
    BY <2>1, <2>2 DEF AllGrow
<1>2. ASSUME planner.at \in WritingSteps
      PROVE  Progress(epic'[planner.epic], planner.task, planner.at)
  <2> DEFINE e == planner.epic
  <2>1. e \in Epics /\ planner.task \in PlanTasks
    BY <1>2 DEF Inv, PlannerOK
  <2>2. Progress(epic[e], planner.task, planner.at)
    BY <1>2 DEF Inv
  <2>3. epic[e] \in EpicBeads /\ epic'[e] \in EpicBeads
    BY <2>1 DEF Inv, Shape, AllGrow
  <2> HIDE DEF e
  <2>4. CASE epic'[e] = epic[e]
    BY <2>2, <2>4 DEF e
  <2>5. CASE Grows(epic[e], epic'[e])
    BY <1>2, <2>1, <2>2, <2>3, <2>5, GrowsKeeps DEF e
  <2> QED
    BY <2>1, <2>4, <2>5 DEF AllGrow
<1> QED
  BY <1>1, <1>2

\* A request keeps its answers, and stays closed.
RequestsGrow ==
    /\ request' \in [Requests -> PlanRequests]
    /\ \A r \in Requests :
           /\ request'[r].answers = request[r].answers
           /\ request[r].status = "closed" => request'[r].status = "closed"

LEMMA PlannedFinite ==
    ASSUME EpicsAssumption
    PROVE  /\ IsFiniteSet(Planned) /\ Cardinality(Planned) \in Nat
           /\ Cardinality(Planned) <= Cardinality(Requests)
<1>1. Planned \subseteq Requests
  BY DEF Planned
<1> QED
  BY <1>1, FS_Subset, FS_CardinalityType DEF EpicsAssumption

\* A step of the others leaves the plans and the answers as they should be.
LEMMA OthersKeep ==
    ASSUME EpicsAssumption, Inv, AllGrow, RequestsGrow \/ request' = request, planner' = planner,
           acts' \in 0..MaxActs, faults' \in 0..faults, StewardOK', OperatorOK'
    PROVE  Inv'
<1>0. RequestsGrow
  BY DEF RequestsGrow, Inv, Shape
<1>1. PlannerOK'
  BY DEF Inv, PlannerOK
<1>2. Shape'
  BY <1>0, Constants DEF Inv, Shape, AllGrow, RequestsGrow
<1>3. Answered'
  <2>1. \A r \in Requests : Outcome(r)' = Outcome(r)
    BY <1>0 DEF Outcome, RequestsGrow
  <2> QED
    BY <2>1, GrownKeeps DEF Answered, Inv, PlannerOK
<1>4. Numbered'
  <2>1. Planned \subseteq Planned'
    BY <1>0 DEF Planned, RequestsGrow
  <2>2. Cardinality(Planned) \in Nat /\ Cardinality(Planned') \in Nat
        /\ Cardinality(Planned) <= Cardinality(Planned')
    <3>1. Planned' \subseteq Requests
      BY DEF Planned
    <3>2. IsFiniteSet(Planned')
      BY <3>1, FS_Subset DEF EpicsAssumption
    <3> QED
      BY <2>1, <3>2, FS_Subset, FS_CardinalityType
  <2>3. PICK c \in {0} \cup Epics :
            /\ {e \in Epics : epic[e].status # "absent"} = 1..c
            /\ c + faults <= Cardinality(Planned) + MaxFaults
    BY DEF Inv, Numbered
  <2>4. c + faults' <= Cardinality(Planned') + MaxFaults
    <3>1. c \in Nat /\ MaxFaults \in Nat /\ MaxFaults + 0 = MaxFaults
      BY Constants
    <3>2. faults \in 0..MaxFaults /\ faults' \in 0..faults
      BY <1>0 DEF Inv, Shape
    <3> QED
      BY <2>2, <2>3, <3>1, <3>2
  <2>5. {e \in Epics : epic'[e].status # "absent"} = 1..c
    BY <2>3, GrownKeeps
  <2> QED
    BY <2>4, <2>5 DEF Numbered
<1> QED
  BY <1>1, <1>2, <1>3, <1>4, GrownKeeps DEF Inv

\* A role that does nothing meanwhile.
LEMMA RolesKept ==
    ASSUME Inv, AllGrow
    PROVE  /\ steward' = steward => StewardOK'
           /\ operator' = operator => OperatorOK'
<1>1. ASSUME steward' = steward PROVE StewardOK'
  BY <1>1, GrownKeeps DEF Inv, StewardOK, Present
<1>2. ASSUME operator' = operator PROVE OperatorOK'
  <2> USE <1>2
  <2>1. \A e \in Epics, t \in PlanTasks :
            /\ epic[e].task[t] # "absent" => epic'[e].task[t] # "absent"
            /\ epic[e].bead[t] # "absent" => epic'[e].bead[t] # "absent"
    BY DEF AllGrow, Grows
  <2>2. \A child \in Children : child[1] = "task" => child[2] \in PlanTasks
    BY DEF Children
  <2>3. operator.at \in CancelSteps => Present(operator.on)'
    BY GrownKeeps DEF Inv, OperatorOK, Present
  <2>4. operator.at = "cancel" =>
            \A t \in operator.tasks : epic'[operator.on].task[t] # "absent"
    BY <2>1 DEF Inv, OperatorOK, Present, CancelSteps
  <2>5. operator.at = "pass" =>
           \A child \in operator.pending \cup operator.blocked :
               child[1] = "task" => epic'[operator.on].bead[child[2]] # "absent"
    BY <2>1, <2>2 DEF Inv, OperatorOK, Present, CancelSteps
  <2> QED
    BY <2>3, <2>4, <2>5 DEF OperatorOK, Inv
<1> QED
  BY <1>1, <1>2

LEMMA InvParts ==
    ASSUME EpicsAssumption, Inv
    PROVE  /\ \A e \in Epics : epic[e] \in EpicBeads /\ EpicOK(epic[e])
           /\ \A e \in Epics, t \in PlanTasks :
                  /\ epic[e].task[t] = "absent" <=> epic[e].bead[t] = "absent"
                  /\ epic[e].status = "absent" =>
                         epic[e].task[t] = "absent" /\ t \notin epic[e].filed
           /\ 0..faults \subseteq 0..MaxFaults /\ faults \in 0..faults
           /\ faults > 0 => faults - 1 \in 0..faults
           /\ acts \in 0..MaxActs /\ (acts > 0 => acts - 1 \in 0..MaxActs)
<1>1. \A e \in Epics : epic[e] \in EpicBeads /\ EpicOK(epic[e])
  BY DEF Inv, Shape
<1>2. ASSUME NEW e \in Epics, NEW t \in PlanTasks
      PROVE  /\ epic[e].task[t] = "absent" <=> epic[e].bead[t] = "absent"
             /\ epic[e].status = "absent" =>
                         epic[e].task[t] = "absent" /\ t \notin epic[e].filed
  BY <1>1 DEF EpicOK, NoEpic
<1> QED
  BY <1>1, <1>2, Constants DEF Inv, Shape

LEMMA TaskStepsKeep ==
    ASSUME EpicsAssumption, Inv, NEW e \in Epics, NEW t \in PlanTasks,
           TaskStep(e, t) \/ ResolveIncident(e, t)
    PROVE  AllGrow /\ Inv'
<1> DEFINE x == epic[e]
<1>0. x \in EpicBeads
  BY InvParts
<1>1. /\ x.task[t] = "absent" <=> x.bead[t] = "absent"
      /\ x.status = "absent" => x.task[t] = "absent" /\ t \notin x.filed
  BY InvParts
<1>2. UNCHANGED <<request, planner, steward, operator, acts, faults>>
  BY DEF TaskStep, TakeTask, LandTask, EscalateTask, ResolveIncident, MovesTask
<1>3. AllGrow
  <2>1. CASE TakeTask(e, t)
    <3> DEFINE y == [x EXCEPT !.task[t] = "working"]
    <3>1. Grows(x, y)
      BY <1>0, <1>1, <2>1 DEF TakeTask, EpicBeads, TaskStates, Grows
    <3> QED
      BY <2>1, <3>1, Grown DEF TakeTask, MovesTask
  <2>2. CASE LandTask(e, t)
    <3> DEFINE y == [x EXCEPT !.task[t] = "landed", !.bead[t] = "closed", !.verify[t] = "closed"]
    <3>1. Grows(x, y)
      <4>1. /\ y \in EpicBeads
            /\ y.bead = [x.bead EXCEPT ![t] = "closed"]
            /\ y.task = [x.task EXCEPT ![t] = "landed"]
            /\ y.verify = [x.verify EXCEPT ![t] = "closed"]
            /\ y.hidden = x.hidden /\ y.edges = x.edges /\ y.told = x.told /\ y.gated = x.gated
            /\ y.status = x.status /\ y.reference = x.reference
        BY <1>0, LandFields
      <4>2. x.task[t] # "absent" /\ x.bead[t] # "absent" /\ x.status # "absent"
        BY <1>1, <2>2 DEF LandTask
      <4>3. /\ x.bead \in [PlanTasks -> Beads] /\ x.task \in [PlanTasks -> TaskStates]
            /\ x.verify \in [PlanTasks -> Beads]
        BY <1>0 DEF EpicBeads
      <4> HIDE DEF x, y
      <4> QED
        BY <4>1, <4>2, <4>3 DEF Grows
    <3> QED
      BY <2>2, <3>1, Grown DEF LandTask, MovesTask
  <2>3. CASE EscalateTask(e, t)
    <3> DEFINE y == [x EXCEPT !.task[t] = "incident", !.filed = @ \cup {t}]
    <3>1. Grows(x, y)
      BY <1>0, <1>1, <2>3 DEF EscalateTask, EpicBeads, TaskStates, Grows
    <3> QED
      BY <2>3, <3>1, Grown DEF EscalateTask, MovesTask
  <2>4. CASE ResolveIncident(e, t)
    <3> DEFINE y == [x EXCEPT !.filed = @ \ {t},
                              !.task[t] = IF @ = "incident" THEN "open" ELSE @]
    <3>1. Grows(x, y)
      BY <1>0, <1>1, <2>4 DEF ResolveIncident, EpicBeads, TaskStates, Grows
    <3> QED
      BY <2>4, <3>1, Grown DEF ResolveIncident, MovesTask
  <2> QED
    BY <2>1, <2>2, <2>3, <2>4 DEF TaskStep
<1> QED
  BY <1>2, <1>3, RolesKept, InvParts, OthersKeep

\* What is no bead of a task, a verification or a need.
LEMMA EdgeGrows ==
    ASSUME NEW x \in EpicBeads, NEW b \in {"open", "closed"}, x.status # "absent"
    PROVE  /\ Grows(x, [x EXCEPT !.status = b])
           /\ Grows(x, [x EXCEPT !.reference = b])
           /\ Grows(x, [x EXCEPT !.contract = b])
           /\ Grows(x, [x EXCEPT !.filed = {}])
           /\ Grows(x, [x EXCEPT !.canceled = TRUE])
<1> HIDE DEF Flags
<1>0. TRUE \in Flags
  BY DEF Flags
<1> QED
  BY <1>0 DEF EpicBeads, Beads, Grows

LEMMA StewardStepsKeep ==
    ASSUME EpicsAssumption, Inv, StewardStep \/ StewardFails
    PROVE  AllGrow /\ Inv'
<1> DEFINE e == steward.epic
<1>1. /\ UNCHANGED <<request, planner, operator, acts>> /\ faults' \in 0..faults
  BY InvParts DEF StewardStep, StewardFails, StewardKeeps, ListEpics, ReadChildren, CloseContext,
     CloseEpic, Recall, CreateContract, CloseContract
<1>2. steward \in [at : ClosingSteps \cup {"idle", "read"}, list : SUBSET Epics,
                    epic : Epics \cup {0}]
  BY DEF Inv, StewardOK
<1>3. /\ \A f \in steward.list : Present(f)
      /\ steward.at \in ClosingSteps =>
             Present(e) /\ e \in Epics /\ epic[e] \in EpicBeads /\ epic[e].status # "absent"
  BY InvParts DEF Inv, StewardOK, Present
<1>4. AllGrow
  <2>1. CASE epic' = epic
    BY <2>1, Unchanged
  <2>2. CASE CloseContext
    <3>1. /\ steward.at \in ClosingSteps
          /\ epic' = [epic EXCEPT ![e] = [epic[e] EXCEPT !.reference = "closed"]]
      BY <2>2 DEF CloseContext, ClosingSteps
    <3> QED
      BY <1>3, <3>1, EdgeGrows, Grown
  <2>3. CASE CloseEpic
    <3>1. CASE OpenChildren(e) = {}
      <4>1. /\ steward.at \in ClosingSteps
            /\ epic' = [epic EXCEPT ![e] = [epic[e] EXCEPT !.status = "closed"]]
        BY <2>3, <3>1 DEF CloseEpic, ClosingSteps
      <4> QED
        BY <1>3, <4>1, EdgeGrows, Grown
    <3> QED
      BY <2>1, <2>3, <3>1 DEF CloseEpic
  <2>4. CASE CreateContract
    <3>1. /\ steward.at \in ClosingSteps
          /\ epic' = [epic EXCEPT ![e] = [epic[e] EXCEPT !.contract = "open"]]
      BY <2>4 DEF CreateContract, ClosingSteps
    <3> QED
      BY <1>3, <3>1, EdgeGrows, Grown
  <2>5. CASE CloseContract
    <3>1. /\ steward.at \in ClosingSteps
          /\ epic' = [epic EXCEPT ![e] = [epic[e] EXCEPT !.contract = "closed"]]
      BY <2>5 DEF CloseContract, ClosingSteps
    <3> QED
      BY <1>3, <3>1, EdgeGrows, Grown
  <2> QED
    BY <2>1, <2>2, <2>3, <2>4, <2>5
       DEF StewardStep, StewardFails, ListEpics, ReadChildren, Recall
<1>5. StewardOK'
  <2>1. \A f \in Epics : Present(f) => Present(f)'
    BY <1>4, GrownKeeps
  <2>2. IdleSteward.at = "idle" /\ IdleSteward.list = {} /\ IdleSteward.epic = 0
    BY DEF IdleSteward
  <2>3. ASSUME steward' = IdleSteward \/ NextEpic PROVE StewardOK'
    <3>1. CASE steward' = IdleSteward
      BY <2>2, <3>1 DEF StewardOK, IdleSteward, ClosingSteps
    <3>2. CASE steward' = [IdleSteward EXCEPT !.at = "read", !.list = steward.list]
      <4>1. /\ steward'.at = "read" /\ steward'.list = steward.list
            /\ steward' \in [at : ClosingSteps \cup {"idle", "read"}, list : SUBSET Epics,
                              epic : Epics \cup {0}]
        BY <1>2, <3>2 DEF IdleSteward
      <4> QED
        BY <1>2, <1>3, <2>1, <4>1 DEF StewardOK, ClosingSteps
    <3> QED
      BY <2>3, <3>1, <3>2 DEF NextEpic
  <2>4. CASE ListEpics
    <3>1. /\ steward'.at = "read" /\ steward'.epic = 0
          /\ steward'.list = {f \in Epics : epic[f].status = "open"}
      BY <2>4 DEF ListEpics, IdleSteward
    <3>2. steward' \in [at : ClosingSteps \cup {"idle", "read"}, list : SUBSET Epics,
                        epic : Epics \cup {0}]
      BY <2>4 DEF ListEpics, IdleSteward
    <3> QED
      BY <2>4, <3>1, <3>2 DEF StewardOK, ListEpics, ClosingSteps, Present
  <2>5. ASSUME NEW f \in Epics, ReadChildren(f) PROVE StewardOK'
    BY <1>2, <1>3, <2>1, <2>5 DEF StewardOK, ReadChildren, IdleSteward, ClosingSteps, Present
  <2>6. CASE CloseContext
    BY <1>2, <1>3, <2>1, <2>6 DEF StewardOK, CloseContext, ClosingSteps, Present
  <2>7. CASE CloseEpic
    BY <1>2, <1>3, <2>1, <2>3, <2>7 DEF StewardOK, CloseEpic, ClosingSteps, Present
  <2>8. CASE Recall
    BY <1>2, <1>3, <2>1, <2>3, <2>8 DEF StewardOK, Recall, ClosingSteps, Present
  <2>9. CASE CreateContract
    BY <1>2, <1>3, <2>1, <2>9 DEF StewardOK, CreateContract, ClosingSteps, Present
  <2>10. CASE CloseContract
    BY <2>3, <2>10 DEF CloseContract
  <2>11. CASE StewardFails
    BY <2>3, <2>11 DEF StewardFails
  <2> QED
    BY <2>4, <2>5, <2>6, <2>7, <2>8, <2>9, <2>10, <2>11 DEF StewardStep
<1> QED
  BY <1>1, <1>4, <1>5, RolesKept, InvParts, OthersKeep

\* What closing a child leaves of an epic.
LEMMA ClosingGrows ==
    ASSUME NEW x \in EpicBeads, NEW child \in Children, x.status # "absent",
           child[1] = "task" => x.bead[child[2]] # "absent"
    PROVE  Grows(x, Closing(x, child))
<1>1. CASE child[1] = "task"
  <2>1. child[2] \in PlanTasks
    BY <1>1 DEF Children
  <2> QED
    BY <1>1, <2>1 DEF Closing, Grows, EpicBeads, Beads
<1>2. CASE child[1] = "verify"
  <2>1. child[2] \in PlanTasks
    BY <1>2 DEF Children
  <2> QED
    BY <1>2, <2>1 DEF Closing, Grows, EpicBeads, Beads
<1>3. CASE child[1] \notin {"task", "verify"}
  <2>1. Closing(x, child) = [x EXCEPT !.reference = "closed"]
    BY <1>3 DEF Closing
  <2> QED
    BY <2>1, EdgeGrows
<1> QED
  BY <1>1, <1>2, <1>3

LEMMA OpenChildrenAre ==
    ASSUME NEW e \in Epics
    PROVE  /\ OpenChildren(e) \subseteq Children
           /\ \A child \in OpenChildren(e) :
                  child[1] = "task" => epic[e].bead[child[2]] = "open"
           /\ \A t \in PlanTasks :
                  /\ epic[e].bead[t] = "open" => <<"task", t>> \in OpenChildren(e)
BY DEF OpenChildren, Children

OperatorShape(o) ==
    o \in [at : CancelSteps \cup {"idle", "close_request"},
           on : Epics \cup Requests \cup {0}, tasks : SUBSET PlanTasks,
           pending : SUBSET Children, blocked : SUBSET Children, some : Flags]

LEMMA OperatorParts ==
    ASSUME EpicsAssumption, Inv
    PROVE  /\ OperatorShape(operator)
           /\ OperatorShape(IdleOperator)
           /\ operator.at \in CancelSteps =>
                  /\ operator.on \in Epics
                  /\ epic[operator.on].status # "absent"
                  /\ epic[operator.on] \in EpicBeads
           /\ operator.at = "close_request" => operator.on \in Requests
<1>1. OperatorShape(IdleOperator)
  BY Constants DEF OperatorShape, IdleOperator
<1> QED
  BY <1>1, InvParts DEF Inv, OperatorOK, Present, OperatorShape

LEMMA OperatorIdles ==
    ASSUME EpicsAssumption, Inv, operator' = IdleOperator
    PROVE  OperatorOK'
BY OperatorParts DEF OperatorOK, IdleOperator, OperatorShape, CancelSteps

\* The operator's steps on an epic.
LEMMA OperatorStepsGrow ==
    ASSUME EpicsAssumption, Inv,
           (OperatorStep /\ ~CloseCanceledRequest) \/ OperatorFails
           \/ (\E e \in Epics : AskCancel(e) \/ AddReference(e))
    PROVE  AllGrow
<1> DEFINE e == operator.on
           x == epic[e]
<1>1. CASE epic' = epic
  BY <1>1, Unchanged
<1>2. ASSUME NEW t \in PlanTasks, CancelTask(t) PROVE AllGrow
  <2>1. CASE x.task[t] = "landed"
    BY <1>1, <1>2, <2>1 DEF CancelTask
  <2>2. CASE x.task[t] # "landed"
    <3>1. /\ x \in EpicBeads /\ e \in Epics /\ x.status # "absent" /\ x.task[t] # "absent"
      BY <1>2, OperatorParts DEF CancelTask, CancelSteps, Inv, OperatorOK
    <3>2. Grows(x, [x EXCEPT !.task[t] = "canceled"])
      BY <3>1 DEF Grows, EpicBeads, TaskStates
    <3> QED
      BY <1>2, <2>2, <3>1, <3>2, Grown DEF CancelTask
  <2> QED
    BY <2>1, <2>2
<1>3. ASSUME NEW child \in operator.pending, CloseChild(child) PROVE AllGrow
  <2>1. /\ x \in EpicBeads /\ e \in Epics /\ x.status # "absent" /\ child \in Children
        /\ child[1] = "task" => x.bead[child[2]] # "absent"
    BY <1>3, OperatorParts DEF CloseChild, CancelSteps, Inv, OperatorOK, OperatorShape
  <2>2. Grows(x, Closing(x, child))
    BY <2>1, ClosingGrows
  <2>3. epic' = epic \/ epic' = [epic EXCEPT ![e] = Closing(x, child)]
    BY <1>3 DEF CloseChild
  <2> QED
    <3> HIDE DEF x
    <3>1. CASE epic' = epic
      BY <1>1, <3>1
    <3>2. CASE epic' # epic
      BY <2>1, <2>2, <2>3, <3>2, Grown DEF x
    <3> QED
      BY <3>1, <3>2
<1>4. CASE CloseIncidents
  <2>1. /\ operator.at \in CancelSteps
        /\ epic' = [epic EXCEPT ![e] = [epic[e] EXCEPT !.filed = {}]]
    BY <1>4 DEF CloseIncidents, CancelSteps
  <2> QED
    BY <2>1, OperatorParts, EdgeGrows, Grown
<1>5. CASE LabelEpic
  <2>1. /\ operator.at \in CancelSteps
        /\ epic' = [epic EXCEPT ![e] = [epic[e] EXCEPT !.canceled = TRUE]]
    BY <1>5 DEF LabelEpic, CancelSteps
  <2> QED
    BY <2>1, OperatorParts, EdgeGrows, Grown
<1>6. CASE CloseCanceled
  <2>1. CASE OpenChildren(e) = {}
    <3>1. /\ operator.at \in CancelSteps
          /\ epic' = [epic EXCEPT ![e] = [epic[e] EXCEPT !.status = "closed"]]
      BY <1>6, <2>1 DEF CloseCanceled, CancelSteps
    <3> QED
      BY <3>1, OperatorParts, EdgeGrows, Grown
  <2>2. CASE OpenChildren(e) # {}
    <3>1. x \in EpicBeads /\ e \in Epics
      BY <1>6, OperatorParts DEF CloseCanceled, CancelSteps
    <3>2. epic' = epic
      BY <1>6, <2>2, <3>1 DEF CloseCanceled, EpicBeads, Inv, Shape
    <3> QED
      BY <1>1, <3>2
  <2> QED
    BY <2>1, <2>2
<1>7. ASSUME NEW f \in Epics, AddReference(f) PROVE AllGrow
  <2>1. epic[f] \in EpicBeads /\ epic[f].status # "absent"
    BY <1>7, InvParts DEF AddReference
  <2> QED
    BY <1>7, <2>1, EdgeGrows, Grown DEF AddReference
<1> QED
  BY <1>1, <1>2, <1>3, <1>4, <1>5, <1>6, <1>7
     DEF OperatorStep, OperatorFails, AskCancel, ListUnfinished, ListChildren, EndPass

\* What the operator holds after each step.
LEMMA OperatorStepsHold ==
    ASSUME EpicsAssumption, Inv, AllGrow,
           OperatorStep \/ OperatorFails
           \/ (\E e \in Epics : AskCancel(e) \/ AddReference(e))
           \/ (\E r \in Requests : AskCancelRequest(r))
    PROVE  OperatorOK'
<1> SUFFICES ASSUME NEW e, e = operator.on PROVE OperatorOK'
  OBVIOUS
<1> DEFINE x == epic[e]
<1>1. /\ OperatorShape(operator) /\ OperatorShape(IdleOperator)
      /\ operator.at \in CancelSteps =>
             e \in Epics /\ x.status # "absent" /\ x \in EpicBeads /\ e \in Epics /\ Present(e)
  BY OperatorParts DEF Present
<1>2. \A f \in Epics : Present(f) => Present(f)'
  BY GrownKeeps
<1>3. CASE operator' = IdleOperator
  BY <1>3, OperatorIdles
<1>4. ASSUME NEW f \in Epics, AskCancel(f) PROVE OperatorOK'
  <2>1. /\ OperatorShape(operator') /\ operator'.at = "list" /\ operator'.on = f
        /\ operator'.blocked = {}
    BY <1>1, <1>4 DEF AskCancel, OperatorShape, IdleOperator, CancelSteps
  <2>2. Present(f)'
    BY <1>2, <1>4 DEF AskCancel, Present
  <2> QED
    BY <2>1, <2>2 DEF OperatorOK, OperatorShape, CancelSteps
<1>5. ASSUME NEW r \in Requests, AskCancelRequest(r) PROVE OperatorOK'
  <2>1. /\ OperatorShape(operator') /\ operator'.at = "close_request" /\ operator'.on = r
    BY <1>1, <1>5 DEF AskCancelRequest, OperatorShape, IdleOperator, CancelSteps
  <2> QED
    BY <2>1 DEF OperatorOK, OperatorShape, CancelSteps
<1>6. ASSUME NEW f \in Epics, AddReference(f) PROVE OperatorOK'
  BY <1>6, RolesKept DEF AddReference
<1>7. CASE ListUnfinished
  <2> DEFINE todo == {t \in PlanTasks : x.task[t] \in {"open", "working", "incident"}}
  <2>1. /\ OperatorShape(operator') /\ operator'.at \in {"cancel", "children"}
        /\ operator'.on = e /\ operator'.tasks = todo
        /\ operator'.blocked = operator.blocked
    BY <1>1, <1>7 DEF ListUnfinished, OperatorShape, CancelSteps
  <2>2. operator.blocked = {} /\ epic' = epic /\ Present(e)'
    BY <1>1, <1>2, <1>7 DEF ListUnfinished, Inv, OperatorOK, CancelSteps
  <2> QED
    BY <2>1, <2>2 DEF OperatorOK, OperatorShape, CancelSteps
<1>8. ASSUME NEW t \in PlanTasks, CancelTask(t) PROVE OperatorOK'
  <2>1. CASE operator' = IdleOperator
    BY <1>3, <2>1
  <2>2. CASE operator' # IdleOperator
    <3>1. /\ OperatorShape(operator') /\ operator'.at \in {"cancel", "children"}
          /\ operator'.on = e /\ operator'.tasks \subseteq operator.tasks
          /\ operator'.blocked = operator.blocked
      <4>1. operator' = [operator EXCEPT
                !.tasks = operator.tasks \ {t},
                !.at = IF operator.tasks \ {t} = {} THEN "children" ELSE "cancel"]
        BY <1>8, <2>2 DEF CancelTask
      <4> QED
        BY <1>1, <4>1 DEF OperatorShape, CancelSteps
    <3>2. operator.blocked = {} /\ Present(e)' /\ e \in Epics
      BY <1>1, <1>2, <1>8 DEF CancelTask, Inv, OperatorOK, CancelSteps
    <3>3. \A u \in operator.tasks : u \in PlanTasks /\ x.task[u] # "absent"
      BY <1>1, <1>8 DEF CancelTask, Inv, OperatorOK, OperatorShape
    <3>4. \A u \in operator.tasks : epic'[e].task[u] # "absent"
      BY <3>2, <3>3 DEF AllGrow, Grows
    <3> QED
      BY <3>1, <3>2, <3>4 DEF OperatorOK, OperatorShape, CancelSteps
  <2> QED
    BY <2>1, <2>2
<1>9. CASE ListChildren
  <2>1. OpenChildren(e) \subseteq Children /\ Present(e)' /\ epic' = epic /\ e \in Epics
    BY <1>1, <1>2, <1>9, OpenChildrenAre DEF ListChildren, CancelSteps
  <2>2. /\ OperatorShape(operator') /\ operator'.at = "pass" /\ operator'.on = e
        /\ operator'.pending = OpenChildren(e) /\ operator'.blocked = operator.blocked
    BY <1>1, <1>9, <2>1 DEF ListChildren, OperatorShape, CancelSteps
  <2>3. operator.blocked = {}
    BY <1>9 DEF ListChildren, Inv, OperatorOK
  <2>4. \A child \in OpenChildren(e) : child[1] = "task" => x.bead[child[2]] # "absent"
    BY <2>1, OpenChildrenAre
  <2> QED
    BY <2>1, <2>2, <2>3, <2>4 DEF OperatorOK, OperatorShape, CancelSteps
<1>10. CASE operator.at = "pass" /\ operator'.at = "pass" /\ operator'.on = e
            /\ OperatorShape(operator')
            /\ operator'.pending \cup operator'.blocked \subseteq operator.pending \cup operator.blocked
  <2>1. Present(e)' /\ e \in Epics
    BY <1>1, <1>2, <1>10 DEF CancelSteps
  <2>2. \A child \in operator.pending \cup operator.blocked :
            child[1] = "task" => x.bead[child[2]] # "absent" /\ child[2] \in PlanTasks
    BY <1>1, <1>10 DEF Inv, OperatorOK, OperatorShape, Children
  <2>3. \A child \in operator.pending \cup operator.blocked :
            child[1] = "task" => epic'[e].bead[child[2]] # "absent"
    BY <2>1, <2>2 DEF AllGrow, Grows
  <2> QED
    BY <1>10, <2>1, <2>3 DEF OperatorOK, OperatorShape, CancelSteps
<1>11. ASSUME NEW child \in operator.pending, CloseChild(child) PROVE OperatorOK'
  <2>1. child \in Children /\ operator.at = "pass" /\ TRUE \in Flags
    BY <1>1, <1>11 DEF CloseChild, OperatorShape, Flags
  <2> HIDE DEF Children
  <2>2. /\ operator'.at = "pass" /\ operator'.on = e /\ OperatorShape(operator')
        /\ operator'.pending \cup operator'.blocked \subseteq operator.pending \cup operator.blocked
    <3>1. CASE Closable(e, child[1], child[2])
      <4>1. operator' = [operator EXCEPT !.pending = operator.pending \ {child}, !.some = TRUE]
        BY <1>11, <3>1 DEF CloseChild
      <4> QED
        BY <1>1, <2>1, <4>1 DEF OperatorShape, CancelSteps
    <3>2. CASE ~Closable(e, child[1], child[2])
      <4>1. operator' = [operator EXCEPT !.pending = operator.pending \ {child},
                                         !.blocked = operator.blocked \cup {child}]
        BY <1>11, <3>2 DEF CloseChild
      <4> QED
        BY <1>1, <2>1, <4>1 DEF OperatorShape, CancelSteps
    <3> QED
      BY <3>1, <3>2
  <2> QED
    BY <1>10, <2>1, <2>2
<1>12. CASE EndPass
  <2>1. CASE operator.blocked = {}
    <3>1. OperatorShape(operator') /\ operator'.at = "incidents" /\ operator'.on = e
      BY <1>1, <1>12, <2>1 DEF EndPass, OperatorGoes, OperatorShape, CancelSteps
    <3> QED
      BY <1>1, <1>2, <1>12, <2>1, <3>1 DEF EndPass, OperatorGoes, OperatorOK, OperatorShape, CancelSteps
  <2>2. CASE operator.blocked # {} /\ operator.some
    <3>1. FALSE \in Flags /\ {} \subseteq Children
      BY DEF Flags
    <3>2. operator' = [operator EXCEPT !.pending = operator.blocked, !.blocked = {}, !.some = FALSE]
      BY <1>12, <2>2 DEF EndPass
    <3>3. /\ operator.at = "pass" /\ operator'.at = "pass" /\ operator'.on = e
          /\ OperatorShape(operator')
          /\ operator'.pending = operator.blocked /\ operator'.blocked = {}
      BY <1>1, <1>12, <3>1, <3>2 DEF EndPass, OperatorShape, CancelSteps
    <3> QED
      BY <1>10, <3>3
  <2>3. CASE operator.blocked # {} /\ ~operator.some
    BY <1>3, <1>12, <2>3 DEF EndPass
  <2> QED
    BY <2>1, <2>2, <2>3
<1>13. CASE CloseIncidents
  <2>1. OperatorShape(operator') /\ operator'.at = "label" /\ operator'.on = e
    BY <1>1, <1>13 DEF CloseIncidents, OperatorGoes, OperatorShape, CancelSteps
  <2> QED
    BY <1>1, <1>2, <1>13, <2>1 DEF CloseIncidents, OperatorOK, OperatorShape, CancelSteps
<1>14. CASE LabelEpic
  <2>1. OperatorShape(operator') /\ operator'.at = "close_epic" /\ operator'.on = e
    BY <1>1, <1>14 DEF LabelEpic, OperatorGoes, OperatorShape, CancelSteps
  <2> QED
    BY <1>1, <1>2, <1>14, <2>1 DEF LabelEpic, OperatorOK, OperatorShape, CancelSteps
<1> QED
  BY <1>3, <1>4, <1>5, <1>6, <1>7, <1>8, <1>9, <1>11, <1>12, <1>13, <1>14
     DEF OperatorStep, OperatorFails, CloseCanceled, CloseCanceledRequest

LEMMA OperatorStepsKeep ==
    ASSUME EpicsAssumption, Inv,
           OperatorStep \/ OperatorFails
           \/ (\E e \in Epics : AskCancel(e) \/ AddReference(e))
           \/ (\E r \in Requests : AskCancelRequest(r))
    PROVE  AllGrow /\ Inv'
<1>1. AllGrow
  <2>1. CASE CloseCanceledRequest \/ \E r \in Requests : AskCancelRequest(r)
    BY <2>1, Unchanged DEF CloseCanceledRequest, AskCancelRequest
  <2> QED
    BY <2>1, OperatorStepsGrow
<1>2. OperatorOK'
  BY <1>1, OperatorStepsHold
<1>3. /\ UNCHANGED <<planner, steward>> /\ acts' \in 0..MaxActs /\ faults' \in 0..faults
  BY InvParts
     DEF OperatorStep, OperatorFails, OperatorKeeps, AskCancel, AddReference, AskCancelRequest,
         ListUnfinished, CancelTask, ListChildren, CloseChild, EndPass, CloseIncidents, LabelEpic,
         CloseCanceled, CloseCanceledRequest
<1>4. RequestsGrow \/ request' = request
  <2>1. CASE request' = request
    BY <2>1
  <2>2. ASSUME NEW r \in Requests, AskCancelRequest(r) PROVE RequestsGrow
    <3>1. TRUE \in Flags
      BY DEF Flags
    <3> QED
      BY <2>2, <3>1 DEF AskCancelRequest, RequestsGrow, Inv, Shape, PlanRequests
  <2>3. CASE CloseCanceledRequest
    <3>1. operator.on \in Requests
      BY <2>3, OperatorParts DEF CloseCanceledRequest
    <3> QED
      BY <2>3, <3>1 DEF CloseCanceledRequest, RequestsGrow, Inv, Shape, PlanRequests
  <2> QED
    BY <2>1, <2>2, <2>3
     DEF OperatorStep, OperatorFails, OperatorKeeps, AskCancel, AddReference,
         ListUnfinished, CancelTask, ListChildren, CloseChild, EndPass, CloseIncidents, LabelEpic,
         CloseCanceled
<1> QED
  BY <1>1, <1>2, <1>3, <1>4, RolesKept, OthersKeep

-----------------------------------------------------------------------------
(* Steps of the planner.                                                   *)

LEMMA PlannerParts ==
    ASSUME EpicsAssumption, Inv
    PROVE  /\ planner \in [at : PlannerSteps, request : Requests \cup {0},
                           epic : Epics \cup {Failed}, task : PlanTasks]
           /\ planner.at # "idle" => planner.request \in Requests
           /\ planner.at \in WritingSteps =>
                  /\ planner.epic \in Epics /\ epic[planner.epic] \in EpicBeads
                  /\ EpicOK(epic[planner.epic])
                  /\ Progress(epic[planner.epic], planner.task, planner.at)
           /\ IdlePlanner \in [at : PlannerSteps, request : Requests \cup {0},
                               epic : Epics \cup {Failed}, task : PlanTasks]
<1>1. planner.at \in WritingSteps =>
          /\ planner.epic \in Epics /\ epic[planner.epic] \in EpicBeads
          /\ EpicOK(epic[planner.epic])
          /\ Progress(epic[planner.epic], planner.task, planner.at)
  BY DEF Inv, PlannerOK, Shape
<1>2. IdlePlanner \in [at : PlannerSteps, request : Requests \cup {0},
                       epic : Epics \cup {Failed}, task : PlanTasks]
  BY Constants DEF IdlePlanner, PlannerSteps
<1> QED
  BY <1>1, <1>2 DEF Inv, PlannerOK

\* The answers noted on a request, and the last epic among them.
LastNamed(answers) ==
    LET named == {i \in DOMAIN answers : answers[i] # Failed}
    IN  IF named = {} THEN Failed ELSE answers[Max(named)]

\* A set of positions has a last one.
LEMMA MaxOf ==
    ASSUME NEW n \in Nat, NEW S \in SUBSET (1..n), S # {}
    PROVE  \E m \in S : \A i \in S : m >= i
<1> DEFINE R == OpToRel(<, Nat)
           T == {n - i : i \in S}
<1>1. IsWellFoundedOn(R, Nat)
  BY NatLessThanWellFounded
<1>2. \A i \in S : n - i \in Nat /\ i \in Nat
  OBVIOUS
<1>3. T \subseteq Nat
  BY <1>2
<1>4. PICK j \in S : TRUE
  OBVIOUS
<1>5. T # {}
  BY <1>4
<1> HIDE DEF R
<1>6. PICK x \in T : \A y \in T : ~(<<y, x>> \in R)
  <2> HIDE DEF T
  <2> QED
    BY <1>1, <1>3, <1>5, WFMin
<1>7. \A y \in T : y \in Nat /\ x \in Nat
  BY <1>3
<1>8. \A y \in T : ~(y < x)
  BY <1>6, <1>7 DEF R, OpToRel
<1>9. PICK m \in S : x = n - m
  OBVIOUS
<1>10. \A i \in S : ~(n - i < n - m)
  BY <1>8, <1>9
<1>11. \A i \in S : m >= i
  <2> HIDE DEF T
  <2> QED
    BY <1>2, <1>10
<1> QED
  BY <1>11

LEMMA Noting ==
    ASSUME EpicsAssumption, NEW s \in Seq(Epics \cup {Failed}), NEW a \in Epics \cup {Failed}
    PROVE  /\ Append(s, a) \in Seq(Epics \cup {Failed})
           /\ LastNamed(Append(s, a)) = IF a = Failed THEN LastNamed(s) ELSE a
<1> DEFINE z == Append(s, a)
           named == {i \in DOMAIN s : s[i] # Failed}
           more == {i \in DOMAIN z : z[i] # Failed}
<1>1. /\ Len(s) \in Nat /\ DOMAIN s = 1..Len(s) /\ DOMAIN z = 1..(Len(s) + 1)
      /\ z[Len(s) + 1] = a /\ \A i \in 1..Len(s) : z[i] = s[i]
  OBVIOUS
<1>2. z \in Seq(Epics \cup {Failed})
  OBVIOUS
<1> HIDE DEF z
<1>3. CASE a = Failed
  <2>1. more = named
    BY <1>1, <1>3
  <2>2. named # {} => Max(named) \in DOMAIN s
    <3>1. named \in SUBSET (1..Len(s))
      BY <1>1
    <3>2. named # {} => \E m \in named : \A i \in named : m >= i
      BY <1>1, <3>1, MaxOf
    <3> QED
      BY <1>1, <3>1, <3>2 DEF Max
  <2> QED
    BY <1>1, <1>2, <1>3, <2>1, <2>2 DEF LastNamed, z
<1>4. CASE a # Failed
  <2>1. more = named \cup {Len(s) + 1}
    BY <1>1, <1>4
  <2>2. \A i \in more : Len(s) + 1 >= i
    BY <1>1, <2>1
  <2>3. Max(more) = Len(s) + 1
    BY <1>1, <2>1, <2>2 DEF Max
  <2> QED
    BY <1>1, <1>2, <1>4, <2>1, <2>3 DEF LastNamed, z
<1> QED
  BY <1>3, <1>4, <1>2 DEF z

-----------------------------------------------------------------------------
(* The planner's steps that write an epic.                                 *)

\* The epic is not whole yet, so no answer names it, and the step leaves it in good order.
LEMMA WritesKeep ==
    ASSUME EpicsAssumption, Inv, planner.at \in WritingSteps,
           NEW e, e = planner.epic, NEW y \in EpicBeads, EpicOK(y),
           y.status # "absent",
           \A t \in PlanTasks : /\ epic[e].bead[t] # "absent" => y.bead[t] # "absent"
                                /\ epic[e].task[t] # "absent" => y.task[t] # "absent",
           epic' = [epic EXCEPT ![e] = y],
           UNCHANGED <<request, steward, operator, acts, faults>>,
           planner' \in [at : PlannerSteps, request : Requests \cup {0},
                         epic : Epics \cup {Failed}, task : PlanTasks],
           planner'.request = planner.request, planner'.epic = e,
           \/ planner'.at \in WritingSteps /\ Progress(y, planner'.task, planner'.at)
           \/ planner'.at = "answer" /\ WholeOf(y)
    PROVE  Inv'
<1>1. /\ e \in Epics /\ epic[e] \in EpicBeads /\ planner.at \notin {"idle", "draft", "epic"}
      /\ epic[e].status # "absent" /\ planner.task \in PlanTasks
      /\ planner.task \notin epic[e].gated
  BY PlannerParts DEF Progress, Halfway, WritingSteps
<1>2. /\ planner'.at \in WritingSteps \cup {"answer"}
      /\ planner'.at \notin {"idle", "draft", "epic"}
  BY DEF WritingSteps
<1>3. /\ epic' \in [Epics -> EpicBeads] /\ epic'[e] = y
      /\ \A f \in Epics \ {e} : epic'[f] = epic[f]
  BY <1>1 DEF Inv, Shape
<1>4. \A f \in Epics : epic'[f].status # "absent" <=> epic[f].status # "absent"
  BY <1>1, <1>3
<1>5. \A f \in Epics : Whole(f) => f # e /\ Whole(f)'
  <2>1. ~Whole(e)
    BY <1>1 DEF Whole
  <2> QED
    BY <1>3, <2>1 DEF Whole
<1>6. Shape'
  BY <1>3 DEF Inv, Shape
<1>7. PlannerOK'
  BY <1>1, <1>2, PlannerParts DEF PlannerOK
<1>8. StewardOK'
  BY <1>4 DEF Inv, StewardOK, Present
<1>9. OperatorOK'
  <2>1. \A f \in Epics, t \in PlanTasks :
            /\ epic[f].task[t] # "absent" => epic'[f].task[t] # "absent"
            /\ epic[f].bead[t] # "absent" => epic'[f].bead[t] # "absent"
    BY <1>3
  <2>2. \A child \in Children : child[1] = "task" => child[2] \in PlanTasks
    BY DEF Children
  <2>3. operator.at \in CancelSteps => Present(operator.on)'
    BY <1>4 DEF Inv, OperatorOK, Present
  <2>4. operator.at = "cancel" =>
            \A t \in operator.tasks : epic'[operator.on].task[t] # "absent"
    BY <2>1 DEF Inv, OperatorOK, Present, CancelSteps
  <2>5. operator.at = "pass" =>
           \A child \in operator.pending \cup operator.blocked :
               child[1] = "task" => epic'[operator.on].bead[child[2]] # "absent"
    BY <2>1, <2>2 DEF Inv, OperatorOK, Present, CancelSteps
  <2> QED
    BY <2>3, <2>4, <2>5 DEF OperatorOK, Inv
<1>10. \A f \in Epics : EpicOK(epic'[f])
  BY <1>3 DEF Inv
<1>11. planner'.at \in WritingSteps => Progress(epic'[e], planner'.task, planner'.at)
  BY <1>3 DEF WritingSteps
<1>12. Answered'
  <2>1. \A r \in Requests : Outcome(r)' = Outcome(r)
    BY DEF Outcome
  <2>2. planner'.at \in {"answer", "close"} => Whole(e)'
    BY <1>3 DEF WritingSteps, Whole, WholeOf
  <2> QED
    BY <1>5, <2>1, <2>2 DEF Answered, Inv
<1>13. Numbered'
  <2>1. Planned' = Planned
    BY <1>1, <1>2 DEF Planned
  <2>2. {f \in Epics : epic'[f].status # "absent"} = {f \in Epics : epic[f].status # "absent"}
    BY <1>4
  <2> QED
    BY <2>1, <2>2 DEF Inv, Numbered
<1> QED
  BY <1>6, <1>7, <1>8, <1>9, <1>10, <1>11, <1>12, <1>13 DEF Inv

\* The planner's next step on the same task.
LEMMA WritesNext ==
    ASSUME EpicsAssumption, Inv, planner.at \in WritingSteps,
           NEW e, e = planner.epic, NEW y \in EpicBeads, EpicOK(y),
           y.status # "absent",
           \A t \in PlanTasks : /\ epic[e].bead[t] # "absent" => y.bead[t] # "absent"
                                /\ epic[e].task[t] # "absent" => y.task[t] # "absent",
           NEW step \in WritingSteps, Progress(y, planner.task, step), Writes(y, step)
    PROVE  Inv'
<1>1. /\ planner' = [planner EXCEPT !.at = step]
      /\ epic' = [epic EXCEPT ![e] = y]
      /\ UNCHANGED <<request, steward, operator, acts, faults>>
  BY DEF Writes, PlannerGoes
<1>2. planner' \in [at : PlannerSteps, request : Requests \cup {0},
                    epic : Epics \cup {Failed}, task : PlanTasks]
      /\ planner'.request = planner.request /\ planner'.epic = e
      /\ planner'.task = planner.task /\ planner'.at = step
  BY <1>1, PlannerParts DEF PlannerSteps
<1> QED
  BY <1>1, <1>2, WritesKeep

LEMMA WritingStepsKeep ==
    ASSUME EpicsAssumption, Inv,
           \/ CreateReference \/ CloseReference \/ CreateVerify \/ CreateTask \/ AddNeed
           \/ Undefer \/ SetVerify \/ GateVerify
    PROVE  Inv'
<1> SUFFICES ASSUME NEW e, e = planner.epic, NEW t, t = planner.task,
                    NEW x, x = epic[e]
             PROVE  Inv'
  OBVIOUS
<1>1. planner.at \in WritingSteps
  BY DEF CreateReference, CloseReference, CreateVerify, CreateTask, AddNeed, Undefer, SetVerify,
         GateVerify, WritingSteps
<1>2. /\ e \in Epics /\ t \in PlanTasks /\ x \in EpicBeads /\ EpicOK(x)
      /\ Progress(x, t, planner.at) /\ x.status # "absent"
  BY <1>1, PlannerParts DEF Progress
<1>3. \A u \in PlanTasks : /\ u \in Nat /\ Needs[u] \subseteq PlanTasks
                           /\ \A n \in Needs[u] : n < u
  BY Constants DEF EpicsAssumption
<1>0. {"close_reference", "verify", "task", "tell", "edge", "undefer", "gate"} \subseteq WritingSteps
  BY DEF WritingSteps
<1>4. CASE CreateReference
  <2> DEFINE y == [x EXCEPT !.reference = "open"]
  <2>1. y \in EpicBeads
    BY <1>2 DEF EpicBeads, Beads
  <2>2. EpicOK(y) /\ y.bead = x.bead /\ y.task = x.task /\ y.status # "absent"
    BY <1>2 DEF EpicBeads, EpicOK
  <2>3. Progress(y, t, "close_reference")
    BY <1>2, <1>4 DEF CreateReference, EpicBeads, Progress, Halfway, Written, Unwritten
  <2>4. Writes(y, "close_reference")
    BY <1>4 DEF CreateReference
  <2> HIDE DEF y
  <2> QED
    BY <1>0, <1>1, <2>1, <2>2, <2>3, <2>4, WritesNext
<1>5. CASE CloseReference
  <2> DEFINE y == [x EXCEPT !.reference = "closed"]
  <2>1. y \in EpicBeads
    BY <1>2 DEF EpicBeads, Beads
  <2>2. EpicOK(y) /\ y.bead = x.bead /\ y.task = x.task /\ y.status # "absent"
    BY <1>2 DEF EpicBeads, EpicOK
  <2>3. Progress(y, t, "verify")
    BY <1>2, <1>5 DEF CloseReference, EpicBeads, Progress, Halfway, Written, Unwritten
  <2>4. Writes(y, "verify")
    BY <1>5 DEF CloseReference
  <2> HIDE DEF y
  <2> QED
    BY <1>0, <1>1, <2>1, <2>2, <2>3, <2>4, WritesNext
<1>6. CASE CreateVerify
  <2> DEFINE y == [x EXCEPT !.verify[t] = "open"]
  <2>1. y \in EpicBeads
    BY <1>2 DEF EpicBeads, Beads
  <2>2. EpicOK(y) /\ y.bead = x.bead /\ y.task = x.task /\ y.status # "absent"
    BY <1>2 DEF EpicBeads, EpicOK
  <2>3. Progress(y, t, "task")
    BY <1>2, <1>6 DEF CreateVerify, EpicBeads, Progress, Halfway, Written, Unwritten
  <2>4. Writes(y, "task")
    BY <1>6 DEF CreateVerify
  <2> HIDE DEF y
  <2> QED
    BY <1>0, <1>1, <2>1, <2>2, <2>3, <2>4, WritesNext
<1>7. CASE CreateTask
  <2> DEFINE h == IF Needs[t] = {} THEN x.hidden ELSE x.hidden \cup {t}
             step == IF Needs[t] = {} THEN "tell" ELSE "edge"
             y == [x EXCEPT !.bead[t] = "open", !.task[t] = "open", !.hidden = h]
  <2>1. h \in SUBSET PlanTasks
    BY <1>2 DEF EpicBeads
  <2> HIDE DEF h
  <2>2. /\ y \in EpicBeads
        /\ y.bead = [x.bead EXCEPT ![t] = "open"]
        /\ y.task = [x.task EXCEPT ![t] = "open"]
        /\ y.hidden = h
        /\ y.status = x.status /\ y.reference = x.reference
        /\ y.verify = x.verify /\ y.edges = x.edges /\ y.told = x.told /\ y.gated = x.gated
    BY <1>2, <2>1 DEF EpicBeads, Beads, TaskStates
  <2>3. /\ x.bead \in [PlanTasks -> Beads] /\ x.task \in [PlanTasks -> TaskStates]
        /\ x.edges \in [PlanTasks -> SUBSET PlanTasks]
    BY <1>2 DEF EpicBeads
  <2>4. Writes(y, step)
    BY <1>7 DEF CreateTask, h
  <2>5. Unwritten(x, t)
    BY <1>2, <1>7 DEF CreateTask, Progress, Halfway
  <2> HIDE DEF y
  <2>6. EpicOK(y)
    <3>1. \A u \in PlanTasks : x.edges[u] \subseteq PlanTasks
      BY <2>3
    <3>2. \A u \in PlanTasks :
              /\ y.bead[u] = IF u = t THEN "open" ELSE x.bead[u]
              /\ y.task[u] = IF u = t THEN "open" ELSE x.task[u]
              /\ u \in y.hidden <=> (u \in x.hidden \/ (u = t /\ Needs[t] # {}))
      BY <2>2, <2>3 DEF h
    <3> QED
      <4>1. ASSUME NEW u \in PlanTasks
            PROVE  /\ y.bead[u] = "absent" <=> y.task[u] = "absent"
                   /\ y.bead[u] # "absent" /\ u \notin y.hidden => y.edges[u] = Needs[u]
                   /\ y.edges[u] \subseteq Needs[u]
                   /\ u \in y.gated => y.bead[u] # "absent"
        <5>1. CASE u = t
          <6>1. x.edges[t] = {} /\ t \notin x.gated /\ t \notin x.hidden
            BY <2>5 DEF Unwritten
          <6> QED
            BY <1>2, <2>2, <3>2, <5>1, <6>1
        <5>2. CASE u # t
          <6>1. /\ y.bead[u] = x.bead[u] /\ y.task[u] = x.task[u] /\ y.edges[u] = x.edges[u]
                /\ u \in y.hidden <=> u \in x.hidden
                /\ u \in y.gated <=> u \in x.gated
            BY <2>2, <3>2, <5>2
          <6> QED
            BY <1>2, <6>1 DEF EpicOK
        <5> QED
          BY <5>1, <5>2
      <4>2. ASSUME NEW u \in PlanTasks, NEW n \in y.edges[u]
            PROVE  y.bead[n] # "absent"
        <5>1. n \in x.edges[u] /\ x.edges[u] \subseteq PlanTasks
          BY <1>2, <2>2 DEF EpicBeads
        <5>2. x.bead[n] # "absent"
          BY <1>2, <5>1 DEF EpicOK
        <5> QED
          BY <2>2, <3>1, <3>2, <5>1, <5>2
      <4> QED
        BY <1>2, <2>2, <4>1, <4>2 DEF EpicOK
  <2>7. Progress(y, t, step)
    <3>1. Halfway(y, t, step)
      BY <1>2, <1>7, <2>2, <2>3, <2>5 DEF CreateTask, Progress, Halfway, Unwritten, h
    <3>2. \A u \in PlanTasks : (u < t => Written(y, u)) /\ (u > t => Unwritten(y, u))
      BY <1>2, <1>3, <2>2, <2>3 DEF Progress, Written, Unwritten, h
    <3> QED
      BY <1>2, <1>7, <2>2, <3>1, <3>2 DEF CreateTask, Progress
  <2>8. step \in WritingSteps
    BY DEF WritingSteps
  <2>9. y.status # "absent" /\ \A u \in PlanTasks :
            /\ x.bead[u] # "absent" => y.bead[u] # "absent"
            /\ x.task[u] # "absent" => y.task[u] # "absent"
    BY <1>2, <2>2, <2>3
  <2> HIDE DEF step
  <2> QED
    <3>1. y \in EpicBeads /\ Progress(y, planner.task, step)
      BY <2>2, <2>7
    <3> QED
      BY <1>1, <2>4, <2>6, <2>8, <2>9, <3>1, WritesNext
<1>8. CASE AddNeed
  <2>1. PICK n \in Needs[t] \ x.edges[t] :
            Writes([x EXCEPT !.edges[t] = @ \cup {n}],
                   IF Needs[t] \ x.edges[t] = {n} THEN "undefer" ELSE "edge")
    BY <1>8 DEF AddNeed
  <2> DEFINE y == [x EXCEPT !.edges[t] = @ \cup {n}]
             step == IF Needs[t] \ x.edges[t] = {n} THEN "undefer" ELSE "edge"
  <2>2. /\ n \in PlanTasks /\ n < t
        /\ x.edges \in [PlanTasks -> SUBSET PlanTasks]
        /\ [x.edges EXCEPT ![t] = @ \cup {n}] \in [PlanTasks -> SUBSET PlanTasks]
    <3>1. n \in PlanTasks /\ n < t
      BY <1>2, <1>3, <2>1
    <3>2. x.edges \in [PlanTasks -> SUBSET PlanTasks]
      BY <1>2 DEF EpicBeads
    <3>3. x.edges[t] \cup {n} \in SUBSET PlanTasks
      BY <1>2, <3>1, <3>2
    <3> QED
      BY <3>1, <3>2, <3>3
  <2>3. /\ y \in EpicBeads /\ y.bead = x.bead /\ y.task = x.task
        /\ y.edges = [x.edges EXCEPT ![t] = @ \cup {n}] /\ y.hidden = x.hidden
        /\ y.status = x.status /\ y.reference = x.reference
        /\ y.verify = x.verify /\ y.told = x.told /\ y.gated = x.gated
        /\ x.edges \in [PlanTasks -> SUBSET PlanTasks]
    <3>1. y = [x EXCEPT !.edges = [x.edges EXCEPT ![t] = @ \cup {n}]]
      OBVIOUS
    <3> HIDE DEF y
    <3> QED
      BY <1>2, <2>2, <3>1, EdgeFields
  <2> HIDE DEF y
  <2>4. /\ t \in x.hidden /\ x.bead[t] # "absent" /\ x.edges[t] \subseteq Needs[t]
        /\ x.edges[t] # Needs[t] /\ x.bead[n] # "absent"
    BY <1>2, <1>8, <2>2 DEF AddNeed, Progress, Halfway, Written, EpicOK
  <2>5. EpicOK(y)
    <3>1. \A u \in PlanTasks :
              y.edges[u] = IF u = t THEN x.edges[t] \cup {n} ELSE x.edges[u]
      BY <2>2, <2>3
    <3> QED
      <4>0. /\ x.status # "absent" /\ n \in Needs[t]
            /\ \A u \in PlanTasks :
                   /\ x.bead[u] = "absent" <=> x.task[u] = "absent"
                   /\ x.bead[u] # "absent" /\ u \notin x.hidden => x.edges[u] = Needs[u]
                   /\ x.edges[u] \subseteq Needs[u]
                   /\ \A m \in x.edges[u] : x.bead[m] # "absent"
                   /\ u \in x.gated => x.bead[u] # "absent"
        BY <1>2, <2>1 DEF EpicOK
      <4>1. t \in y.hidden /\ \A u \in PlanTasks : y.edges[u] \subseteq Needs[u]
        <5>1. y.edges[t] \subseteq Needs[t]
          BY <1>2, <2>4, <3>1, <4>0
        <5>2. ASSUME NEW u \in PlanTasks, u # t PROVE y.edges[u] \subseteq Needs[u]
          BY <3>1, <4>0, <5>2
        <5> QED
          BY <2>3, <2>4, <5>1, <5>2
      <4>2. ASSUME NEW u \in PlanTasks, NEW m \in y.edges[u]
            PROVE  y.bead[m] # "absent"
        BY <2>3, <2>4, <3>1, <4>0
      <4>3. ASSUME NEW u \in PlanTasks, y.bead[u] # "absent", u \notin y.hidden
            PROVE  y.edges[u] = Needs[u]
        <5>1. u # t /\ x.bead[u] # "absent" /\ u \notin x.hidden
          BY <2>3, <4>1, <4>3
        <5> QED
          BY <3>1, <4>0, <5>1
      <4>4. \A u \in PlanTasks : /\ y.bead[u] = "absent" <=> y.task[u] = "absent"
                                 /\ u \in y.gated => y.bead[u] # "absent"
        BY <2>3, <4>0
      <4>5. y.status # "absent"
        BY <2>3, <4>0
      <4>6. \A u \in PlanTasks : \A m \in y.edges[u] : y.bead[m] # "absent"
        BY <4>2
      <4>7. \A u \in PlanTasks :
                y.bead[u] # "absent" /\ u \notin y.hidden => y.edges[u] = Needs[u]
        BY <4>3
      <4> QED
        BY <4>1, <4>4, <4>5, <4>6, <4>7, EpicIsOK
  <2>6. Progress(y, t, step)
    <3>1. Halfway(y, t, step)
      <4>1. y.edges[t] = x.edges[t] \cup {n} /\ n \in Needs[t] /\ n \notin x.edges[t]
        BY <1>2, <2>1, <2>2, <2>3
      <4>2. \/ step = "undefer" /\ y.edges[t] = Needs[t]
            \/ step = "edge" /\ y.edges[t] # Needs[t]
        <5>1. CASE Needs[t] \ x.edges[t] = {n}
          <6>1. y.edges[t] = Needs[t]
            BY <2>4, <4>1, <5>1
          <6>2. step = "undefer"
            BY <5>1, Zenon
          <6> HIDE DEF step
          <6> QED
            BY <6>1, <6>2
        <5>2. CASE Needs[t] \ x.edges[t] # {n}
          BY <2>4, <4>1, <5>2
        <5> QED
          BY <5>1, <5>2
      <4>3. Halfway(x, t, "edge")
        BY <1>2, <1>8 DEF AddNeed, Progress
      <4> HIDE DEF step
      <4> QED
        BY <2>3, <4>2, <4>3 DEF Halfway
    <3>2. \A u \in PlanTasks : (u < t => Written(y, u)) /\ (u > t => Unwritten(y, u))
      BY <1>2, <1>3, <2>3 DEF Progress, Written, Unwritten
    <3> QED
      BY <1>2, <1>8, <2>3, <3>1, <3>2 DEF AddNeed, Progress
  <2>7. step \in WritingSteps
    BY DEF WritingSteps
  <2>8. Writes(y, step)
    BY <2>1 DEF y
  <2> HIDE DEF step
  <2> QED
    BY <1>1, <1>2, <2>3, <2>5, <2>6, <2>7, <2>8, WritesNext
<1>9. CASE Undefer
  <2> DEFINE y == [x EXCEPT !.hidden = @ \ {t}]
  <2>1. y \in EpicBeads
    BY <1>2 DEF EpicBeads
  <2>2. EpicOK(y) /\ y.bead = x.bead /\ y.task = x.task /\ y.status # "absent"
    BY <1>2, <1>9 DEF EpicBeads, EpicOK, Undefer, Progress, Halfway
  <2>3. Progress(y, t, "tell")
    BY <1>2, <1>9 DEF Undefer, EpicBeads, Progress, Halfway, Written, Unwritten
  <2>4. Writes(y, "tell")
    BY <1>9 DEF Undefer
  <2> HIDE DEF y
  <2> QED
    BY <1>0, <1>1, <2>1, <2>2, <2>3, <2>4, WritesNext
<1>10. CASE SetVerify
  <2> DEFINE y == [x EXCEPT !.told = @ \cup {t}]
  <2>1. y \in EpicBeads
    BY <1>2 DEF EpicBeads
  <2>2. EpicOK(y) /\ y.bead = x.bead /\ y.task = x.task /\ y.status # "absent"
    BY <1>2 DEF EpicBeads, EpicOK
  <2>3. Progress(y, t, "gate")
    BY <1>2, <1>10 DEF SetVerify, EpicBeads, Progress, Halfway, Written, Unwritten
  <2>4. Writes(y, "gate")
    BY <1>10 DEF SetVerify
  <2> HIDE DEF y
  <2> QED
    BY <1>0, <1>1, <2>1, <2>2, <2>3, <2>4, WritesNext
<1>11. CASE GateVerify
  <2> DEFINE y == [x EXCEPT !.gated = @ \cup {t}]
  <2>1. y \in EpicBeads
    BY <1>2 DEF EpicBeads
  <2>2. Halfway(x, t, "gate")
    BY <1>2, <1>11 DEF GateVerify, Progress
  <2>3. EpicOK(y) /\ y.bead = x.bead /\ y.task = x.task /\ y.status # "absent"
    BY <1>2, <2>2 DEF EpicBeads, EpicOK, Halfway
  <2>4. /\ \A u \in PlanTasks : u <= t => Written(y, u)
        /\ y.reference # "absent"
    BY <1>2, <1>3, <1>11, <2>2 DEF GateVerify, EpicBeads, Progress, Halfway, Written
  <2>5. /\ epic' = [epic EXCEPT ![e] = y]
        /\ UNCHANGED <<request, steward, operator, acts, faults>>
    BY <1>2, <1>11 DEF GateVerify, EpicBeads, Inv, Shape
  <2>6. CASE t + 1 \in PlanTasks
    <3>1. planner' = [planner EXCEPT !.at = "verify", !.task = t + 1]
      BY <1>11, <2>6 DEF GateVerify
    <3>2. planner' \in [at : PlannerSteps, request : Requests \cup {0},
                        epic : Epics \cup {Failed}, task : PlanTasks]
          /\ planner'.request = planner.request /\ planner'.epic = e
          /\ planner'.task = t + 1 /\ planner'.at = "verify"
      BY <2>6, <3>1, PlannerParts DEF PlannerSteps, WritingSteps
    <3>3. \A u \in PlanTasks : u > t => Unwritten(y, u)
      BY <1>2, <1>3 DEF EpicBeads, Progress, Unwritten
    <3>4. Halfway(y, t + 1, "verify")
      BY <1>3, <2>6, <3>3, <1>2 DEF Halfway, Unwritten
    <3>5. Progress(y, t + 1, "verify")
      <4>1. \A u \in PlanTasks : u < t + 1 => Written(y, u)
        <5>1. \A u \in PlanTasks : u < t + 1 => u <= t
          BY <1>2, <1>3
        <5> HIDE DEF y
        <5> QED
          BY <2>4, <5>1
      <4>2. \A u \in PlanTasks : u > t + 1 => Unwritten(y, u)
        <5>1. \A u \in PlanTasks : u > t + 1 => u > t
          BY <1>2, <1>3
        <5> HIDE DEF y
        <5> QED
          BY <3>3, <5>1
      <4> HIDE DEF y
      <4> QED
        BY <2>3, <2>4, <3>4, <4>1, <4>2 DEF Progress
    <3> QED
      <4> HIDE DEF y
      <4> QED
        BY <1>0, <1>1, <1>2, <2>1, <2>3, <2>5, <3>2, <3>5, WritesKeep
  <2>7. CASE t + 1 \notin PlanTasks
    <3>1. planner' = [planner EXCEPT !.at = "answer"]
      BY <1>11, <2>7 DEF GateVerify
    <3>2. planner' \in [at : PlannerSteps, request : Requests \cup {0},
                        epic : Epics \cup {Failed}, task : PlanTasks]
          /\ planner'.request = planner.request /\ planner'.epic = e
          /\ planner'.at = "answer"
      BY <3>1, PlannerParts DEF PlannerSteps, WritingSteps
    <3>3. \A u \in PlanTasks : u <= t
      <4>1. PICK k \in Nat : PlanTasks = 1..k
        BY Constants DEF EpicsAssumption
      <4> QED
        BY <1>2, <2>7, <4>1
    <3>4. WholeOf(y)
      <4>1. \A u \in PlanTasks : Written(y, u)
        BY <2>4, <3>3
      <4>2. y.hidden \subseteq PlanTasks /\ y.told \subseteq PlanTasks /\ y.gated \subseteq PlanTasks
        BY <2>1 DEF EpicBeads
      <4> HIDE DEF y
      <4> QED
        BY <2>4, <4>1, <4>2 DEF WholeOf, Written
    <3> QED
      <4> HIDE DEF y
      <4> QED
        BY <1>1, <1>2, <2>1, <2>3, <2>5, <3>2, <3>4, WritesKeep
  <2> QED
    BY <2>6, <2>7
<1> QED
  BY <1>4, <1>5, <1>6, <1>7, <1>8, <1>9, <1>10, <1>11

-----------------------------------------------------------------------------
(* The planner's other steps.                                              *)

\* Each planner that fails may cost one epic more, and no other step does.
LEMMA CountKept ==
    ASSUME EpicsAssumption, Inv, epic' = epic, faults' \in 0..faults,
           \/ Planned \subseteq Planned'
           \/ faults' = faults - 1 /\ \E r \in Requests : Planned \ {r} \subseteq Planned'
    PROVE  Numbered'
<1>1. PICK c \in {0} \cup Epics :
          /\ {e \in Epics : epic[e].status # "absent"} = 1..c
          /\ c + faults <= Cardinality(Planned) + MaxFaults
  BY DEF Inv, Numbered
<1>2. Planned' \subseteq Requests
  BY DEF Planned
<1>3. IsFiniteSet(Planned') /\ Cardinality(Planned') \in Nat
  BY <1>2, FS_Subset, FS_CardinalityType DEF EpicsAssumption
<1>4. c + faults' <= Cardinality(Planned') + MaxFaults
  <2>1. c \in Nat /\ faults \in Nat /\ faults' \in Nat /\ faults' <= faults /\ MaxFaults \in Nat
    BY <1>1, Constants DEF Inv, Shape
  <2>2. CASE Planned \subseteq Planned'
    <3>1. Cardinality(Planned) <= Cardinality(Planned')
      BY <1>3, <2>2, FS_Subset
    <3> QED
      BY <1>1, <1>3, <2>1, <3>1, PlannedFinite
  <2>3. ASSUME NEW r \in Requests, Planned \ {r} \subseteq Planned', faults' = faults - 1
        PROVE  c + faults' <= Cardinality(Planned') + MaxFaults
    <3>1. Cardinality(Planned \ {r}) <= Cardinality(Planned')
      BY <1>3, <2>3, FS_Subset
    <3>2. Cardinality(Planned) - 1 <= Cardinality(Planned \ {r})
      <4>1. CASE r \in Planned
        <5>1. Cardinality(Planned \ {r}) = Cardinality(Planned) - 1
          BY <4>1, PlannedFinite, FS_RemoveElement
        <5> QED
          BY <5>1, PlannedFinite
      <4>2. CASE r \notin Planned
        <5>1. Planned \ {r} = Planned
          BY <4>2
        <5> QED
          BY <5>1, PlannedFinite
      <4> QED
        BY <4>1, <4>2
    <3>3. Cardinality(Planned \ {r}) \in Nat
      BY PlannedFinite, FS_Subset, FS_CardinalityType
    <3> QED
      BY <1>1, <1>3, <2>1, <2>3, <3>1, <3>2, <3>3, PlannedFinite
  <2> QED
    BY <2>2, <2>3
<1> QED
  BY <1>1, <1>4 DEF Numbered

LEMMA PausesKeep ==
    ASSUME EpicsAssumption, Inv, epic' = epic, UNCHANGED <<steward, operator, acts>>,
           faults' \in 0..faults, request' \in [Requests -> PlanRequests],
           PlannerOK', planner'.at \notin WritingSteps, Answered', Numbered'
    PROVE  Inv'
<1>1. AllGrow
  BY Unchanged
<1>2. Shape'
  BY InvParts DEF Inv, Shape
<1> QED
  BY <1>1, <1>2, RolesKept DEF Inv

LEMMA OutcomeAre ==
    ASSUME EpicsAssumption, Inv
    PROVE  \A r \in Requests : /\ Outcome(r) = LastNamed(request[r].answers)
                               /\ request[r] \in PlanRequests
BY DEF Outcome, LastNamed, Inv, Shape

LEMMA PausingStepsKeep ==
    ASSUME EpicsAssumption, Inv,
           \/ \E r \in Requests : TakeRequest(r)
           \/ ProviderRefuses \/ DraftFails \/ Draft \/ PlanningFails \/ PlannerDies
           \/ NoteAnswer \/ CloseRequest
    PROVE  Inv'
<1>0. epic' = epic /\ UNCHANGED <<steward, operator, acts>> /\ faults' \in 0..faults
  BY InvParts DEF TakeRequest, ProviderRefuses, DraftFails, Draft, PlanningFails, PlannerDies,
     NoteAnswer, CloseRequest
<1>1. PlannerOK'
  BY PlannerParts, Constants DEF Inv, PlannerOK, TakeRequest, ProviderRefuses, DraftFails, Draft,
     PlanningFails, PlannerDies, NoteAnswer, CloseRequest, PlannerGoes, IdlePlanner, PlannerSteps,
     WritingSteps
<1>2. CASE request' = request /\ ~NoteAnswer /\ ~CloseRequest
  <2>1. /\ planner'.at \in {"idle", "draft", "epic", "answer"}
        /\ planner'.at = "answer" => planner'.epic = Failed
    <3>1. planner.at = "draft" => planner.epic = Failed
      BY DEF Inv, PlannerOK
    <3>2. CASE ProviderRefuses \/ PlannerDies
      BY <3>2 DEF ProviderRefuses, PlannerDies, IdlePlanner
    <3>3. CASE DraftFails \/ Draft \/ PlanningFails
      BY <3>1, <3>3, PlannerParts DEF DraftFails, Draft, PlanningFails, PlannerGoes
    <3>4. ASSUME NEW r \in Requests, TakeRequest(r)
          PROVE  planner'.at = "draft"
      BY <3>4 DEF TakeRequest, IdlePlanner
    <3> QED
      BY <1>2, <3>2, <3>3, <3>4
  <2>2. Answered'
    <3>1. \A r \in Requests : Outcome(r)' = Outcome(r)
      BY <1>2 DEF Outcome
    <3>2. \A e \in Epics : Whole(e)' <=> Whole(e)
      BY <1>0 DEF Whole
    <3> QED
      BY <2>1, <3>1, <3>2 DEF Answered, Inv
  <2>3. Numbered'
    <3>1. CASE PlannerDies
      <4>1. Planned \ {planner.request} \subseteq Planned' /\ planner.request \in Requests
        BY <1>2, <3>1, PlannerParts DEF PlannerDies, IdlePlanner, Planned
      <4> QED
        BY <1>0, <3>1, <4>1, CountKept DEF PlannerDies
    <3>2. CASE ProviderRefuses
      <4>1. Planned \subseteq Planned'
        BY <1>2, <3>2 DEF Planned, ProviderRefuses, IdlePlanner
      <4> QED
        BY <1>0, <4>1, CountKept
    <3>4. ASSUME NEW r \in Requests, TakeRequest(r)
          PROVE  Numbered'
      <4>1. /\ planner'.at = "draft" /\ planner'.request = r
            /\ planner.at = "idle" /\ request[r].status = "open"
        BY <3>4 DEF TakeRequest, IdlePlanner
      <4>2. Planned \subseteq Planned'
        BY <1>2, <4>1 DEF Planned
      <4> QED
        BY <1>0, <4>2, CountKept
    <3>3. CASE DraftFails \/ Draft \/ PlanningFails
      <4>1. /\ planner'.request = planner.request /\ planner.at # "idle" /\ planner'.at # "idle"
            /\ planner'.at \in {"draft", "epic"} => planner.at \in {"draft", "epic"}
        BY <3>3, PlannerParts DEF DraftFails, Draft, PlanningFails, PlannerGoes
      <4>2. Planned \subseteq Planned'
        BY <1>2, <4>1 DEF Planned
      <4> QED
        BY <1>0, <4>2, CountKept
    <3> QED
      BY <1>2, <3>1, <3>2, <3>3, <3>4
  <2>4. planner'.at \notin WritingSteps
    BY <2>1 DEF WritingSteps
  <2> QED
    BY <1>0, <1>1, <1>2, <2>2, <2>3, <2>4, PausesKeep DEF Inv, Shape
<1>3. CASE NoteAnswer
  <2> DEFINE r == planner.request
             a == planner.epic
  <2>1. r \in Requests /\ a \in Epics \cup {Failed} /\ planner' = [planner EXCEPT !.at = "close"]
    BY <1>3, PlannerParts DEF NoteAnswer, PlannerGoes
  <2>2. /\ request' \in [Requests -> PlanRequests]
        /\ request'[r].answers = Append(request[r].answers, a)
        /\ request'[r].status = request[r].status
        /\ \A q \in Requests \ {r} : request'[q] = request[q]
    <3>1. /\ request[r] \in PlanRequests
          /\ Append(request[r].answers, a) \in Seq(Epics \cup {Failed})
      BY <2>1, OutcomeAre DEF PlanRequests
    <3>2. request' = [request EXCEPT ![r].answers = Append(request[r].answers, a)]
      BY <1>3, <2>1 DEF NoteAnswer, Inv, Shape
    <3> HIDE DEF r, a
    <3> QED
      BY <2>1, <3>1, <3>2 DEF PlanRequests, Inv, Shape
  <2>3. Answered'
    <3>1. \A q \in Requests : Outcome(q)' = IF q = r /\ a # Failed THEN a ELSE Outcome(q)
      <4>1. request[r].answers \in Seq(Epics \cup {Failed})
        BY <2>1, OutcomeAre DEF PlanRequests
      <4>2. \A q \in Requests : Outcome(q)' = LastNamed(request'[q].answers)
        BY DEF Outcome, LastNamed
      <4>3. LastNamed(Append(request[r].answers, a)) =
                IF a = Failed THEN LastNamed(request[r].answers) ELSE a
        BY <2>1, <4>1, Noting
      <4> HIDE DEF r, a
      <4> QED
        BY <2>1, <2>2, <4>2, <4>3, OutcomeAre
    <3>2. \A e \in Epics : Whole(e)' <=> Whole(e)
      BY <1>0 DEF Whole
    <3>3. a # Failed => Whole(a) /\ a \in Epics
      BY <1>3, <2>1 DEF NoteAnswer, Inv, Answered
    <3>4. planner'.epic = a
      BY <2>1, PlannerParts
    <3> HIDE DEF r, a
    <3> QED
      BY <2>1, <3>1, <3>2, <3>3, <3>4 DEF Answered, Inv
  <2>4. Numbered'
    <3>1. Planned \subseteq Planned'
      BY <1>3, <2>1, <2>2, PlannerParts DEF Planned, NoteAnswer
    <3> QED
      BY <1>0, <3>1, CountKept
  <2>5. planner'.at \notin WritingSteps
    BY <2>1, PlannerParts DEF WritingSteps
  <2> QED
    BY <1>0, <1>1, <2>2, <2>3, <2>4, <2>5, PausesKeep
<1>4. CASE CloseRequest
  <2> DEFINE r == planner.request
  <2>1. r \in Requests /\ planner' = IdlePlanner
    BY <1>4, PlannerParts DEF CloseRequest
  <2>2. /\ request' \in [Requests -> PlanRequests]
        /\ request'[r].answers = request[r].answers
        /\ request'[r].status = "closed"
        /\ \A q \in Requests \ {r} : request'[q] = request[q]
    BY <1>4, <2>1 DEF CloseRequest, PlanRequests, Inv, Shape
  <2>3. Answered'
    <3>1. \A q \in Requests : Outcome(q)' = Outcome(q)
      BY <2>2 DEF Outcome
    <3>2. \A e \in Epics : Whole(e)' <=> Whole(e)
      BY <1>0 DEF Whole
    <3> QED
      BY <2>1, <3>1, <3>2 DEF Answered, Inv, IdlePlanner
  <2>4. Numbered'
    <3>1. Planned \subseteq Planned'
      BY <1>4, <2>1, <2>2, PlannerParts DEF Planned, CloseRequest, IdlePlanner
    <3> QED
      BY <1>0, <3>1, CountKept
  <2>5. planner'.at \notin WritingSteps
    BY <2>1 DEF WritingSteps, IdlePlanner
  <2> QED
    BY <1>0, <1>1, <2>2, <2>3, <2>4, <2>5, PausesKeep
<1> QED
  BY <1>2, <1>3, <1>4
     DEF TakeRequest, ProviderRefuses, DraftFails, Draft, PlanningFails, PlannerDies

\* The planner finds a number for its epic.
LEMMA CreateEpicTakes ==
    ASSUME EpicsAssumption, Inv, CreateEpic
    PROVE  /\ planner.request \in Requests \ Planned
           /\ Planned' = Planned \cup {planner.request}
           /\ \E c \in {0} \cup Epics :
                  /\ {e \in Epics : epic[e].status # "absent"} = 1..c
                  /\ c + faults <= Cardinality(Planned) + MaxFaults
                  /\ c + 1 \in Epics /\ epic[c + 1] = NoEpic
                  /\ epic' = [epic EXCEPT ![c + 1].status = "open"]
                  /\ planner' = [planner EXCEPT !.at = "reference", !.epic = c + 1]
<1>1. /\ planner.request \in Requests /\ planner.at = "epic"
      /\ planner'.at = "reference" /\ planner'.request = planner.request
      /\ request' = request
  BY PlannerParts DEF CreateEpic
<1>2. Planned' = Planned \cup {planner.request} /\ planner.request \notin Planned
  BY <1>1 DEF Planned
<1>3. PICK c \in {0} \cup Epics :
          /\ {e \in Epics : epic[e].status # "absent"} = 1..c
          /\ c + faults <= Cardinality(Planned) + MaxFaults
  BY DEF Inv, Numbered
<1>4. c + 1 \in Epics
  <2>1. Cardinality(Planned \cup {planner.request}) = Cardinality(Planned) + 1
    BY <1>2, PlannedFinite, FS_AddElement
  <2>2. Planned \cup {planner.request} \subseteq Requests
    BY <1>1 DEF Planned
  <2>3. Cardinality(Planned) + 1 <= Cardinality(Requests)
    BY <2>1, <2>2, FS_Subset DEF EpicsAssumption
  <2>4. c \in Nat /\ faults \in Nat
    BY <1>3, Constants DEF Inv, Shape
  <2> QED
    BY <1>3, <2>3, <2>4, PlannedFinite, Constants
<1>5. c \in Nat /\ Epics \subseteq Nat \ {0} /\ \A n \in Epics : 1..(n - 1) \subseteq Epics
  BY <1>3, Constants
<1>6. \A n \in Epics : epic[n].status # "absent" <=> n <= c
  BY <1>3, <1>5
<1>7. (CHOOSE n \in Epics : /\ epic[n].status = "absent"
                            /\ \A m \in 1..(n - 1) : epic[m].status # "absent") = c + 1
  <2> DEFINE P(n) == /\ epic[n].status = "absent"
                     /\ \A m \in 1..(n - 1) : epic[m].status # "absent"
  <2>1. P(c + 1)
    BY <1>4, <1>5, <1>6
  <2>2. \A n \in Epics : P(n) => n = c + 1
    <3> SUFFICES ASSUME NEW n \in Epics, P(n), n # c + 1 PROVE FALSE
      OBVIOUS
    <3>1. n > c + 1
      BY <1>4, <1>5, <1>6
    <3>2. c + 1 \in 1..(n - 1)
      BY <1>4, <1>5, <3>1
    <3> QED
      BY <1>4, <1>5, <1>6, <3>2
  <2> HIDE DEF P
  <2>3. (CHOOSE n \in Epics : P(n)) = c + 1
    BY <1>4, <2>1, <2>2
  <2> QED
    BY <2>3 DEF P
<1>8. epic[c + 1] = NoEpic
  BY <1>4, <1>5, <1>6, InvParts DEF EpicOK
<1> QED
  BY <1>1, <1>2, <1>3, <1>4, <1>7, <1>8 DEF CreateEpic

LEMMA CreateEpicKeeps ==
    ASSUME EpicsAssumption, Inv, CreateEpic
    PROVE  Inv'
<1>1. PICK c \in {0} \cup Epics :
          /\ {e \in Epics : epic[e].status # "absent"} = 1..c
          /\ c + faults <= Cardinality(Planned) + MaxFaults
          /\ c + 1 \in Epics /\ epic[c + 1] = NoEpic
          /\ epic' = [epic EXCEPT ![c + 1].status = "open"]
          /\ planner' = [planner EXCEPT !.at = "reference", !.epic = c + 1]
  BY CreateEpicTakes
<1> DEFINE e == c + 1
           y == [NoEpic EXCEPT !.status = "open"]
<1>2. /\ UNCHANGED <<request, steward, operator, acts, faults>> /\ planner.at = "epic"
      /\ planner.task = 1 /\ 1 \in PlanTasks
  BY Constants DEF CreateEpic, Inv, PlannerOK
<1>3. /\ y \in EpicBeads /\ y.status = "open" /\ y.reference = "absent" /\ y.hidden = {}
      /\ y.gated = {} /\ y.bead = [t \in PlanTasks |-> "absent"]
      /\ y.task = [t \in PlanTasks |-> "absent"]
      /\ y.edges = [t \in PlanTasks |-> {}]
  BY DEF NoEpic, EpicBeads, Beads, TaskStates, Flags
<1> HIDE DEF e, y
<1>4. /\ epic' \in [Epics -> EpicBeads] /\ epic'[e] = y
      /\ \A f \in Epics \ {e} : epic'[f] = epic[f]
  BY <1>1, <1>3 DEF Inv, Shape, e, y
<1>5. /\ planner' \in [at : PlannerSteps, request : Requests \cup {0},
                       epic : Epics \cup {Failed}, task : PlanTasks]
      /\ planner'.at = "reference" /\ planner'.epic = e /\ planner'.task = 1
      /\ planner'.request \in Requests /\ e \in Epics /\ epic[e] = NoEpic
  BY <1>1, <1>2, PlannerParts DEF PlannerSteps, WritingSteps, e
<1>6. epic[e].status = "absent" /\ epic[e].reference = "absent"
      /\ \A t \in PlanTasks : epic[e].task[t] = "absent" /\ epic[e].bead[t] = "absent"
  BY <1>5 DEF NoEpic
<1>7. PlannerOK'
  BY <1>5 DEF PlannerOK
<1>8. Shape'
  BY <1>2, <1>4 DEF Inv, Shape
<1>9. StewardOK'
  BY <1>2, <1>4, <1>6 DEF Inv, StewardOK, Present
<1>10. OperatorOK'
  <2>1. operator.at \in CancelSteps => operator.on # e /\ Present(operator.on)
    BY <1>6 DEF Inv, OperatorOK, Present
  <2>2. operator.at \in CancelSteps => Present(operator.on)' /\ epic'[operator.on] = epic[operator.on]
    BY <1>2, <1>4, <2>1 DEF Present
  <2> QED
    BY <1>2, <2>2 DEF Inv, OperatorOK, CancelSteps
<1>11. EpicOK(y) /\ Progress(y, 1, "reference")
  <2>1. \A t \in PlanTasks : /\ Unwritten(y, t) /\ y.task[t] = "absent" /\ y.edges[t] = {}
                             /\ y.bead[t] = "absent"
    BY <1>3 DEF Unwritten
  <2>2. \A t \in PlanTasks : ~(t < 1)
    <3>1. \A t \in PlanTasks : t \in Nat /\ t >= 1
      BY Constants
    <3> QED
      BY <3>1
  <2> QED
    BY <1>2, <1>3, <2>1, <2>2 DEF EpicOK, Progress, Halfway
<1>12. \A f \in Epics : EpicOK(epic'[f])
  BY <1>4, <1>11 DEF Inv
<1>13. Answered'
  <2>1. \A f \in Epics : Whole(f) => f # e /\ Whole(f)'
    BY <1>4, <1>6 DEF Whole
  <2>2. \A r \in Requests : Outcome(r)' = Outcome(r)
    BY <1>2 DEF Outcome
  <2> QED
    BY <1>5, <2>1, <2>2 DEF Answered, Inv
<1>14. Numbered'
  <2>1. {f \in Epics : epic'[f].status # "absent"} = 1..e
    <3>1. \A f \in Epics : epic'[f].status # "absent" <=> epic[f].status # "absent" \/ f = e
      BY <1>3, <1>4
    <3>2. {f \in Epics : epic'[f].status # "absent"} = 1..c \cup {e}
      BY <1>1, <1>5, <3>1
    <3>3. c \in Nat
      BY <1>1, Constants
    <3> QED
      BY <3>2, <3>3 DEF e
  <2>2. Cardinality(Planned') = Cardinality(Planned) + 1
    BY CreateEpicTakes, PlannedFinite, FS_AddElement
  <2>3. e + faults' <= Cardinality(Planned') + MaxFaults
    <3>1. c \in Nat /\ MaxFaults \in Nat
      BY <1>1, Constants
    <3>2. faults \in Nat
      BY Constants DEF Inv, Shape
    <3> QED
      BY <1>1, <1>2, <2>2, <3>1, <3>2, PlannedFinite DEF e
  <2> QED
    BY <1>5, <2>1, <2>3 DEF Numbered
<1>15. Progress(epic'[planner'.epic], planner'.task, planner'.at)
  BY <1>4, <1>5, <1>11
<1> QED
  BY <1>7, <1>8, <1>9, <1>10, <1>12, <1>13, <1>14, <1>15 DEF Inv

-----------------------------------------------------------------------------
LEMMA InvInit ==
    ASSUME EpicsAssumption, EpicsInit
    PROVE  Inv
<1>1. NoEpic \in EpicBeads /\ EpicOK(NoEpic) /\ NoEpic.status = "absent"
      /\ PlanRequest \in PlanRequests /\ PlanRequest.answers = <<>> /\ PlanRequest.status = "open"
  BY DEF NoEpic, EpicBeads, Beads, TaskStates, Flags, EpicOK, PlanRequest, PlanRequests
<1>2. Shape
  BY <1>1, Constants DEF EpicsInit, Shape
<1>3. PlannerOK
  BY Constants DEF EpicsInit, IdlePlanner, PlannerOK, PlannerSteps, WritingSteps
<1>4. StewardOK
  BY DEF EpicsInit, IdleSteward, StewardOK, ClosingSteps
<1>5. OperatorOK
  BY Constants DEF EpicsInit, IdleOperator, OperatorOK, CancelSteps
<1>6. Answered
  <2>1. \A r \in Requests : Outcome(r) = Failed
    BY <1>1 DEF EpicsInit, Outcome
  <2> QED
    BY <2>1 DEF EpicsInit, IdlePlanner, Answered
<1>7. Numbered
  <2>1. {e \in Epics : epic[e].status # "absent"} = 1..0
    BY <1>1 DEF EpicsInit
  <2>2. 0 + faults <= Cardinality(Planned) + MaxFaults
    BY PlannedFinite, Constants DEF EpicsInit
  <2> QED
    BY <2>1, <2>2 DEF Numbered
<1> QED
  BY <1>1, <1>2, <1>3, <1>4, <1>5, <1>6, <1>7
     DEF Inv, EpicsInit, IdlePlanner, WritingSteps

LEMMA InvStep ==
    ASSUME EpicsAssumption, Inv, [EpicsNext]_epicsVars
    PROVE  Inv'
<1>1. CASE UNCHANGED epicsVars
  <2>1. /\ epic' = epic /\ request' = request /\ planner' = planner /\ steward' = steward
        /\ operator' = operator /\ acts' \in 0..MaxActs /\ faults' \in 0..faults
    BY <1>1, InvParts DEF epicsVars
  <2>2. AllGrow /\ StewardOK' /\ OperatorOK'
    BY <2>1, Unchanged, RolesKept
  <2> QED
    BY <2>1, <2>2, OthersKeep
<1>2. CASE EpicsNext
  BY <1>2, TaskStepsKeep, StewardStepsKeep, OperatorStepsKeep, WritingStepsKeep, PausingStepsKeep,
     CreateEpicKeeps DEF EpicsNext, PlannerStep
<1> QED
  BY <1>1, <1>2

THEOREM InvHolds == ASSUME EpicsAssumption PROVE EpicsSpec => []Inv
<1>1. EpicsInit => Inv
  BY InvInit
<1>2. Inv /\ [EpicsNext]_epicsVars => Inv'
  BY InvStep
<1> QED
  BY <1>1, <1>2, PTL DEF EpicsSpec

\* The beads and the processes keep their shapes (EpicsTypeOK).
THEOREM EpicsTypesHold == ASSUME EpicsAssumption PROVE EpicsSpec => []EpicsTypeOK
<1>1. Inv => EpicsTypeOK
  <2> SUFFICES ASSUME Inv PROVE EpicsTypeOK
    OBVIOUS
  <2>1. /\ planner.epic \in Epics \cup {Failed} /\ planner.task \in PlanTasks
        /\ steward.list \subseteq Epics /\ steward.epic \in Epics \cup {0}
        /\ operator.tasks \subseteq PlanTasks
    BY PlannerParts, OperatorParts DEF Inv, StewardOK, OperatorShape
  <2> QED
    BY <2>1 DEF EpicsTypeOK, Inv, Shape, PlanRequests, EpicBeads, Flags
<1> QED
  BY <1>1, InvHolds, PTL

\* However many planners die and commands fail while plans are written, and whatever workers,
\* the steward and operators do to them meanwhile, an epic given in an answer has every task,
\* edge and check of its plan (plan_queued_once notes the epic after `plan` returned).
THEOREM AnswersAreWhole == ASSUME EpicsAssumption PROVE EpicsSpec => []AnswerIsWhole
<1>1. Inv => AnswerIsWhole
  BY DEF Inv, Answered, AnswerIsWhole
<1> QED
  BY <1>1, InvHolds, PTL

-----------------------------------------------------------------------------
(* The order of the tasks, when nobody interferes with a plan being        *)
(* written.                                                                *)

LEMMA OrderedSame ==
    ASSUME NEW x, NEW y, y.bead = x.bead, y.task = x.task, y.status = x.status, InOrder(x)
    PROVE  InOrder(y)
BY DEF InOrder

LEMMA OrderedClosed ==
    ASSUME NEW x, NEW y, y.bead = x.bead, y.task = x.task, InOrder(x),
           \A t \in PlanTasks : x.bead[t] # "open"
    PROVE  InOrder(y)
BY DEF InOrder

LEMMA OrderParts ==
    ASSUME EpicsAssumption, Inv, OrderInv
    PROVE  /\ \A e \in Epics : /\ InOrder(epic[e]) /\ EpicOK(epic[e]) /\ epic[e] \in EpicBeads
                               /\ epic[e].bead \in [PlanTasks -> Beads]
                               /\ epic[e].task \in [PlanTasks -> TaskStates]
                               /\ epic[e].verify \in [PlanTasks -> Beads]
           /\ \A t \in PlanTasks : Needs[t] \subseteq PlanTasks
<1>1. \A e \in Epics : InOrder(epic[e]) /\ EpicOK(epic[e]) /\ epic[e] \in EpicBeads
  BY InvParts DEF OrderInv
<1>2. \A e \in Epics : /\ epic[e].bead \in [PlanTasks -> Beads]
                       /\ epic[e].task \in [PlanTasks -> TaskStates]
                       /\ epic[e].verify \in [PlanTasks -> Beads]
  BY <1>1 DEF EpicBeads
<1> QED
  BY <1>1, <1>2 DEF EpicsAssumption

\* A task in sight has its edges, so the ledger shows it as ready only when what it needs
\* has landed: a task canceled and closed would mean that none is open any more.
LEMMA TakenInOrder ==
    ASSUME EpicsAssumption, Inv, OrderInv, NEW e \in Epics, NEW t \in PlanTasks, TakeTask(e, t)
    PROVE  \A n \in Needs[t] : epic[e].task[n] = "landed"
<1> SUFFICES ASSUME NEW x, x = epic[e], NEW n \in Needs[t] PROVE x.task[n] = "landed"
  OBVIOUS
<1>1. /\ x.task[t] = "open" /\ x.bead[t] = "open" /\ t \notin x.hidden
      /\ \A m \in x.edges[t] : x.bead[m] = "closed"
  BY DEF TakeTask
<1>2. InOrder(x) /\ EpicOK(x) /\ n \in PlanTasks
  BY OrderParts
<1>3. x.bead[n] = "closed"
  BY <1>1, <1>2 DEF EpicOK
<1>4. x.task[n] \in {"landed", "canceled"}
  BY <1>2, <1>3 DEF InOrder
<1>5. x.task[n] # "canceled"
  BY <1>1, <1>2, <1>3 DEF InOrder, Unfinished
<1> QED
  BY <1>4, <1>5

\* A task at work on belongs to an epic that is not over.
LEMMA WorkingIsOpen ==
    ASSUME EpicsAssumption, Inv, OrderInv, NEW e \in Epics, NEW t \in PlanTasks,
           epic[e].task[t] = "working"
    PROVE  epic[e].bead[t] = "open" /\ epic[e].status # "closed"
<1>1. InOrder(epic[e]) /\ EpicOK(epic[e]) /\ epic[e].bead[t] \in Beads
  BY OrderParts
<1>2. epic[e].bead[t] # "absent"
  BY <1>1 DEF EpicOK
<1>3. epic[e].bead[t] # "closed"
  BY <1>1 DEF InOrder
<1> QED
  BY <1>1, <1>2, <1>3 DEF InOrder, Beads

\* What a step on a task may make of the epic: y.
Reworked(e, y) ==
    /\ epic' = [epic EXCEPT ![e] = y]
    /\ InOrder(y) /\ y.status = epic[e].status
    /\ \A u \in PlanTasks : y.task[u] \in Unfinished => epic[e].task[u] \in Unfinished
    /\ planner.at \in WritingSteps /\ planner.epic = e =>
           /\ y.bead = epic[e].bead /\ y.verify = epic[e].verify
           /\ \A u \in PlanTasks : y.task[u] \in {"landed", "canceled"} =>
                                       epic[e].task[u] \in {"landed", "canceled"}

LEMMA TasksKeepOrder ==
    ASSUME EpicsAssumption, Overlap = FALSE, Inv, OrderInv, NEW e \in Epics, NEW t \in PlanTasks,
           TaskStep(e, t) \/ ResolveIncident(e, t)
    PROVE  OrderInv'
<1> SUFFICES ASSUME NEW x, x = epic[e] PROVE OrderInv'
  OBVIOUS
<1>0. UNCHANGED <<request, planner, steward, operator, acts, faults>>
  BY DEF TaskStep, TakeTask, LandTask, EscalateTask, ResolveIncident, MovesTask
<1>1. InOrder(x) /\ EpicOK(x) /\ x \in EpicBeads
      /\ x.bead \in [PlanTasks -> Beads] /\ x.task \in [PlanTasks -> TaskStates]
      /\ x.verify \in [PlanTasks -> Beads]
  BY OrderParts
<1>2. \E y \in EpicBeads : Reworked(e, y)
  <2>1. CASE TakeTask(e, t)
    <3> DEFINE y == [x EXCEPT !.task[t] = "working"]
    <3>1. /\ y \in EpicBeads /\ y.bead = x.bead /\ y.verify = x.verify /\ y.status = x.status
          /\ \A u \in PlanTasks : y.task[u] = IF u = t THEN "working" ELSE x.task[u]
      BY <1>1 DEF EpicBeads, TaskStates
    <3>2. x.task[t] = "open" /\ x.bead[t] = "open" /\ epic' = [epic EXCEPT ![e] = y]
      BY <2>1 DEF TakeTask, MovesTask
    <3> HIDE DEF y
    <3>3. \A n \in Needs[t] : x.task[n] = "landed" /\ n \in PlanTasks
      BY <2>1, TakenInOrder, OrderParts
    <3>4. InOrder(y)
      BY <1>1, <3>1, <3>2, <3>3, OrderParts DEF InOrder, Unfinished
    <3>6. Reworked(e, y)
      BY <3>1, <3>2, <3>4 DEF Unfinished, Reworked
    <3> QED
      BY <3>1, <3>6
  <2>2. CASE LandTask(e, t)
    <3> DEFINE y == [x EXCEPT !.task[t] = "landed", !.bead[t] = "closed", !.verify[t] = "closed"]
    <3>1. /\ y \in EpicBeads /\ y.bead = [x.bead EXCEPT ![t] = "closed"]
          /\ y.task = [x.task EXCEPT ![t] = "landed"] /\ y.status = x.status
      <4>1. x \in EpicBeads
        BY <1>1
      <4> QED
        BY <4>1, LandFields
    <3>2. x.task[t] = "working" /\ epic' = [epic EXCEPT ![e] = y] /\ ~Writing(e)
      BY <2>2 DEF LandTask, MovesTask
    <3> HIDE DEF y
    <3>3. \A u \in PlanTasks : /\ y.task[u] = IF u = t THEN "landed" ELSE x.task[u]
                               /\ y.bead[u] = IF u = t THEN "closed" ELSE x.bead[u]
      BY <1>1, <3>1
    <3>4. InOrder(y)
      BY <1>1, <3>1, <3>2, <3>3, OrderParts DEF InOrder, Unfinished
    <3>5. planner.at \in WritingSteps => planner.epic # e
      BY <3>2 DEF Writing, WritingSteps
    <3>6. Reworked(e, y)
      BY <3>1, <3>2, <3>3, <3>4, <3>5 DEF Unfinished, Reworked
    <3> QED
      BY <3>1, <3>6
  <2>3. CASE EscalateTask(e, t)
    <3> DEFINE y == [x EXCEPT !.task[t] = "incident", !.filed = @ \cup {t}]
    <3>1. /\ y \in EpicBeads /\ y.bead = x.bead /\ y.verify = x.verify /\ y.status = x.status
          /\ \A u \in PlanTasks : y.task[u] = IF u = t THEN "incident" ELSE x.task[u]
      BY <1>1 DEF EpicBeads, TaskStates
    <3>2. x.task[t] = "working" /\ epic' = [epic EXCEPT ![e] = y]
      BY <2>3 DEF EscalateTask, MovesTask
    <3> HIDE DEF y
    <3>3. InOrder(y)
      BY <1>1, <3>1, <3>2, OrderParts DEF InOrder, Unfinished
    <3>6. Reworked(e, y)
      BY <3>1, <3>2, <3>3 DEF Unfinished, Reworked
    <3> QED
      BY <3>1, <3>6
  <2>4. CASE ResolveIncident(e, t)
    <3> DEFINE s == IF x.task[t] = "incident" THEN "open" ELSE x.task[t]
               y == [x EXCEPT !.filed = @ \ {t}, !.task[t] = s]
    <3>1. /\ y \in EpicBeads /\ y.bead = x.bead /\ y.verify = x.verify /\ y.status = x.status
          /\ \A u \in PlanTasks : y.task[u] = IF u = t THEN s ELSE x.task[u]
      BY <1>1 DEF EpicBeads, TaskStates
    <3>2. epic' = [epic EXCEPT ![e] = y]
      BY <1>1, <2>4 DEF ResolveIncident, MovesTask
    <3> HIDE DEF y
    <3>3. InOrder(y)
      BY <1>1, <3>1, OrderParts DEF InOrder, Unfinished
    <3>6. Reworked(e, y)
      BY <3>1, <3>2, <3>3 DEF Unfinished, Reworked
    <3> QED
      BY <3>1, <3>6
  <2> QED
    BY <2>1, <2>2, <2>3, <2>4 DEF TaskStep
<1>3. PICK y \in EpicBeads : Reworked(e, y)
  BY <1>2
<1>4. epic'[e] = y /\ \A f \in Epics \ {e} : epic'[f] = epic[f]
  BY <1>3 DEF Inv, Shape, Reworked
<1>5. \A f \in Epics : InOrder(epic'[f])
  BY <1>3, <1>4 DEF OrderInv, Reworked
<1>6. planner.at \in WritingSteps => Alone(planner.epic)'
  <2> SUFFICES ASSUME planner.at \in WritingSteps PROVE Alone(planner.epic)'
    OBVIOUS
  <2>1. Alone(planner.epic) /\ planner.epic \in Epics
    BY PlannerParts DEF OrderInv
  <2>2. CASE planner.epic # e
    BY <1>0, <1>4, <2>1, <2>2 DEF Alone
  <2>3. CASE planner.epic = e
    BY <1>0, <1>3, <1>4, <2>1, <2>3 DEF Alone, Reworked
  <2> QED
    BY <2>2, <2>3
<1>7. CancelOK'
  <2>1. operator.at \in CancelSteps => operator.on \in Epics
    BY OperatorParts
  <2> QED
    BY <1>0, <1>3, <1>4, <2>1 DEF OrderInv, CancelOK, CancelSteps, Reworked
<1>8. Undecided'
  BY <1>0 DEF OrderInv, Undecided
<1> QED
  BY <1>0, <1>5, <1>6, <1>7, <1>8 DEF OrderInv

\* The steward closes an epic whose beads are all closed, and never one being written: there
\* a verify bead is open from the start.
LEMMA StewardKeepsOrder ==
    ASSUME EpicsAssumption, Inv, OrderInv, StewardStep \/ StewardFails
    PROVE  OrderInv'
<1> SUFFICES ASSUME NEW e, e = steward.epic PROVE OrderInv'
  OBVIOUS
<1>0. UNCHANGED <<request, planner, operator>>
  BY DEF StewardStep, StewardFails, StewardKeeps, ListEpics, ReadChildren, CloseContext,
     CloseEpic, Recall, CreateContract, CloseContract
<1>1. /\ steward.at \in ClosingSteps => e \in Epics /\ epic[e] \in EpicBeads
      /\ steward \in [at : ClosingSteps \cup {"idle", "read"}, list : SUBSET Epics,
                      epic : Epics \cup {0}]
  BY InvParts DEF Inv, StewardOK, Present
<1>2. \/ epic' = epic
      \/ /\ steward.at \in ClosingSteps
         /\ \A f \in Epics \ {e} : epic'[f] = epic[f]
         /\ epic'[e].bead = epic[e].bead /\ epic'[e].task = epic[e].task
         /\ \/ epic'[e].status = epic[e].status
            \/ OpenChildren(e) = {}
  <2>1. CASE CloseContext \/ CreateContract \/ CloseContract
    <3>1. steward.at \in ClosingSteps
      BY <2>1 DEF CloseContext, CreateContract, CloseContract, ClosingSteps
    <3> QED
      BY <2>1, <1>1, <3>1 DEF CloseContext, CreateContract, CloseContract, EpicBeads, Inv, Shape
  <2>2. CASE CloseEpic
    BY <2>2, <1>1 DEF CloseEpic, EpicBeads, ClosingSteps, Inv, Shape
  <2> QED
    BY <2>1, <2>2 DEF StewardStep, StewardFails, ListEpics, ReadChildren, Recall
<1>3. ASSUME NEW f \in Epics PROVE InOrder(epic'[f])
  <2>1. InOrder(epic[f])
    BY DEF OrderInv
  <2>2. CASE epic'[f] = epic[f]
    BY <2>1, <2>2
  <2>3. CASE f = e /\ epic'[e].bead = epic[e].bead /\ epic'[e].task = epic[e].task
             /\ epic'[e].status = epic[e].status
    BY <2>1, <2>3, OrderedSame
  <2>4. CASE f = e /\ epic'[e].bead = epic[e].bead /\ epic'[e].task = epic[e].task
             /\ OpenChildren(e) = {}
    <3>1. \A t \in PlanTasks : epic[e].bead[t] # "open"
      BY <2>4, OpenChildrenAre
    <3> QED
      BY <2>1, <2>4, <3>1 DEF InOrder
  <2> QED
    BY <1>2, <2>2, <2>3, <2>4
<1>4. ASSUME planner.at \in WritingSteps PROVE Alone(planner.epic)'
  <2> SUFFICES ASSUME NEW p, p = planner.epic PROVE Alone(planner.epic)'
    OBVIOUS
  <2>1. Alone(p) /\ p \in Epics
    BY <1>4, PlannerParts DEF OrderInv
  <2>2. epic'[p] = epic[p]
    BY <1>2, <2>1 DEF Alone
  <2>3. ~(steward'.at \in ClosingSteps /\ steward'.epic = p)
    <3>1. ASSUME NEW f \in Epics, ReadChildren(f)
          PROVE  ~(steward'.at \in ClosingSteps /\ steward'.epic = p)
      <4>1. CASE WorkIsClosed(f)
        <5>1. f # p
          BY <2>1, <4>1, OrderParts DEF Alone, WorkIsClosed
        <5>2. steward'.epic = f
          BY <1>1, <3>1, <4>1 DEF ReadChildren
        <5> QED
          BY <5>1, <5>2
      <4>2. CASE ~WorkIsClosed(f)
        <5>1. steward'.at \in {"idle", "read"}
          BY <1>1, <3>1, <4>2 DEF ReadChildren, IdleSteward
        <5> QED
          BY <5>1 DEF ClosingSteps
      <4> QED
        BY <4>1, <4>2
    <3>2. ASSUME NextEpic \/ steward' = IdleSteward \/ ListEpics
          PROVE  ~(steward'.at \in ClosingSteps /\ steward'.epic = p)
      <4>1. steward'.at \in {"idle", "read"}
        <5>1. CASE steward' = IdleSteward
          BY <5>1 DEF IdleSteward
        <5>2. ASSUME NEW l, steward' = [IdleSteward EXCEPT !.at = "read", !.list = l]
              PROVE  steward'.at = "read"
          BY <5>2 DEF IdleSteward
        <5> QED
          BY <3>2, <5>1, <5>2 DEF NextEpic, ListEpics
      <4> QED
        BY <4>1 DEF ClosingSteps
    <3>3. ASSUME steward.at \in ClosingSteps, steward'.epic = steward.epic
          PROVE  ~(steward'.at \in ClosingSteps /\ steward'.epic = p)
      BY <2>1, <3>3 DEF Alone
    <3>4. CASE CloseContext \/ CloseEpic \/ Recall \/ CreateContract
      <4>1. steward.at \in ClosingSteps
        BY <3>4 DEF CloseContext, CloseEpic, Recall, CreateContract, ClosingSteps
      <4>2. steward'.epic = steward.epic \/ NextEpic
        BY <1>1, <3>4 DEF CloseContext, CloseEpic, Recall, CreateContract
      <4> QED
        BY <3>2, <3>3, <4>1, <4>2
    <3> QED
      BY <3>1, <3>2, <3>4 DEF StewardStep, StewardFails, CloseContract
  <2> QED
    BY <1>0, <2>1, <2>2, <2>3 DEF Alone
<1>5. CancelOK'
  <2>1. \A f \in Epics : epic'[f].task = epic[f].task
    BY <1>2
  <2>2. operator.at \in CancelSteps => operator.on \in Epics
    BY OperatorParts
  <2> QED
    BY <1>0, <2>1, <2>2 DEF OrderInv, CancelOK, CancelSteps
<1>6. Undecided'
  BY <1>0 DEF OrderInv, Undecided
<1> QED
  BY <1>0, <1>3, <1>4, <1>5, <1>6 DEF OrderInv

\* A cancel closes children when nothing of the epic is unfinished.
LEMMA CloseChildInOrder ==
    ASSUME EpicsAssumption, Inv, OrderInv, NEW child \in operator.pending, CloseChild(child)
    PROVE  InOrder(epic'[operator.on]) /\ epic'[operator.on].task = epic[operator.on].task
<1> SUFFICES ASSUME NEW e, e = operator.on, NEW x, x = epic[e]
             PROVE  InOrder(epic'[e]) /\ epic'[e].task = x.task
  OBVIOUS
<1>1. /\ operator.at = "pass" /\ e \in Epics /\ x \in EpicBeads /\ InOrder(x) /\ EpicOK(x)
      /\ child \in Children
      /\ child[1] = "task" => x.bead[child[2]] # "absent"
      /\ x.bead \in [PlanTasks -> Beads] /\ x.task \in [PlanTasks -> TaskStates]
  BY OperatorParts, OrderParts DEF CloseChild, CancelSteps, Inv, OperatorOK, OperatorShape
<1>2. \A t \in PlanTasks : x.task[t] \notin Unfinished
  BY <1>1 DEF OrderInv, CancelOK
<1>3. CASE epic' = epic
  BY <1>1, <1>3
<1>4. CASE epic' = [epic EXCEPT ![e] = Closing(x, child)]
  <2> DEFINE y == Closing(x, child)
  <2>1. epic'[e] = y
    BY <1>1, <1>4 DEF Inv, Shape
  <2>2. CASE child[1] = "task"
    <3> DEFINE t == child[2]
    <3>1. t \in PlanTasks /\ x.bead[t] # "absent"
      BY <1>1, <2>2 DEF Children
    <3>2. y = [x EXCEPT !.bead[t] = "closed"]
      BY <2>2 DEF Closing
    <3>3. y.bead = [x.bead EXCEPT ![t] = "closed"] /\ y.task = x.task /\ y.status = x.status
      BY <1>1, <3>1, <3>2 DEF EpicBeads
    <3>4. x.task[t] \in {"landed", "canceled"}
      BY <1>1, <1>2, <3>1 DEF EpicOK, Unfinished, TaskStates
    <3> HIDE DEF t, y
    <3>5. InOrder(y)
      BY <1>1, <1>2, <3>1, <3>3, <3>4 DEF InOrder
    <3> QED
      BY <2>1, <3>3, <3>5
  <2>3. CASE child[1] # "task"
    <3>1. y.bead = x.bead /\ y.task = x.task /\ y.status = x.status
      BY <1>1, <2>3 DEF Closing, EpicBeads
    <3> HIDE DEF y
    <3> QED
      BY <1>1, <2>1, <3>1, OrderedSame
  <2> QED
    BY <2>2, <2>3
<1> QED
  BY <1>1, <1>3, <1>4 DEF CloseChild

\* What the operator's steps do to the work of the epics.
LEMMA OperatorsOrder ==
    ASSUME EpicsAssumption, Inv, OrderInv,
           OperatorStep \/ OperatorFails
           \/ (\E e \in Epics : AskCancel(e) \/ AddReference(e))
           \/ (\E r \in Requests : AskCancelRequest(r))
    PROVE  /\ \A f \in Epics :
                  /\ InOrder(epic'[f])
                  /\ \A t \in PlanTasks : epic'[f].task[t] \in Unfinished =>
                                              epic[f].task[t] \in Unfinished
                  /\ \/ operator.at \in CancelSteps /\ operator.on = f
                     \/ /\ epic'[f].bead = epic[f].bead /\ epic'[f].task = epic[f].task
                        /\ epic'[f].verify = epic[f].verify /\ epic'[f].status = epic[f].status
<1> SUFFICES ASSUME NEW e, e = operator.on, NEW x, x = epic[e],
                    NEW f \in Epics
             PROVE  /\ InOrder(epic'[f])
                    /\ \A t \in PlanTasks : epic'[f].task[t] \in Unfinished =>
                                                epic[f].task[t] \in Unfinished
                    /\ \/ operator.at \in CancelSteps /\ e = f
                       \/ /\ epic'[f].bead = epic[f].bead /\ epic'[f].task = epic[f].task
                          /\ epic'[f].verify = epic[f].verify /\ epic'[f].status = epic[f].status
  OBVIOUS
<1>1. /\ InOrder(epic[f]) /\ epic[f] \in EpicBeads
      /\ operator.at \in CancelSteps => e \in Epics /\ x \in EpicBeads /\ InOrder(x)
      /\ epic \in [Epics -> EpicBeads]
  BY OperatorParts, OrderParts DEF Inv, Shape
<1>2. CASE epic'[f] = epic[f]
  BY <1>1, <1>2
<1>3. CASE epic'[f].bead = epic[f].bead /\ epic'[f].task = epic[f].task
           /\ epic'[f].verify = epic[f].verify /\ epic'[f].status = epic[f].status
  BY <1>1, <1>3, OrderedSame
<1>4. ASSUME NEW t \in PlanTasks, CancelTask(t), epic'[f] # epic[f]
      PROVE  /\ operator.at \in CancelSteps /\ e = f
             /\ InOrder(epic'[f])
             /\ \A u \in PlanTasks : epic'[f].task[u] \in Unfinished =>
                                         epic[f].task[u] \in Unfinished
  <2> DEFINE y == [x EXCEPT !.task[t] = "canceled"]
  <2>1. /\ operator.at \in CancelSteps /\ e = f /\ x.task[t] # "landed"
        /\ epic'[f] = y
    BY <1>1, <1>4 DEF CancelTask, CancelSteps
  <2>2. /\ y.bead = x.bead /\ y.status = x.status
        /\ \A u \in PlanTasks : y.task[u] = IF u = t THEN "canceled" ELSE x.task[u]
    BY <1>1, <2>1 DEF EpicBeads
  <2>3. x.bead[t] = "closed" => x.task[t] = "canceled"
    BY <1>1, <2>1 DEF InOrder
  <2> HIDE DEF y
  <2>4. InOrder(y)
    <3>1. InOrder(x) /\ \A u \in PlanTasks : Needs[u] \subseteq PlanTasks
      BY <1>1, <2>1, OrderParts
    <3>2. ASSUME NEW u \in PlanTasks
          PROVE  /\ y.bead[u] = "closed" => y.task[u] \in {"landed", "canceled"}
                 /\ y.task[u] = "landed" => y.bead[u] = "closed"
                 /\ y.task[u] \in {"working", "landed"} =>
                        \A n \in Needs[u] : y.task[n] = "landed"
                 /\ y.status = "closed" => y.bead[u] # "open"
      <4>1. /\ x.bead[u] = "closed" => x.task[u] \in {"landed", "canceled"}
            /\ x.task[u] = "landed" => x.bead[u] = "closed"
            /\ x.status = "closed" => x.bead[u] # "open"
        BY <3>1 DEF InOrder
      <4>2. ASSUME NEW n \in Needs[u], y.task[u] \in {"working", "landed"}
            PROVE  y.task[n] = "landed"
        <5>1. n \in PlanTasks /\ x.task[u] \in {"working", "landed"}
          BY <2>2, <3>1, <4>2
        <5>2. x.task[n] = "landed"
          BY <3>1, <5>1 DEF InOrder
        <5> QED
          BY <2>1, <2>2, <5>1, <5>2
      <4> QED
        BY <2>2, <2>1, <4>1, <4>2
    <3>3. ASSUME NEW u \in PlanTasks, y.task[u] = "canceled", y.bead[u] = "closed",
                 NEW v \in PlanTasks
          PROVE  y.task[v] \notin Unfinished
      <4>1. x.task[u] = "canceled" /\ x.bead[u] = "closed"
        BY <2>2, <2>3, <3>3
      <4>2. x.task[v] \notin Unfinished
        BY <3>1, <4>1 DEF InOrder
      <4> QED
        BY <2>2, <4>2 DEF Unfinished
    <3> QED
      BY <3>2, <3>3 DEF InOrder
  <2> QED
    BY <2>1, <2>2, <2>4 DEF Unfinished
<1>5. ASSUME NEW child \in operator.pending, CloseChild(child), epic'[f] # epic[f]
      PROVE  /\ operator.at \in CancelSteps /\ e = f
             /\ InOrder(epic'[f])
             /\ \A u \in PlanTasks : epic'[f].task[u] \in Unfinished =>
                                         epic[f].task[u] \in Unfinished
  <2>1. operator.at \in CancelSteps /\ e = f
    BY <1>1, <1>5 DEF CloseChild, CancelSteps
  <2> QED
    BY <1>5, <2>1, CloseChildInOrder
<1>6. ASSUME CloseIncidents \/ LabelEpic
      PROVE  epic'[f].bead = epic[f].bead /\ epic'[f].task = epic[f].task
             /\ epic'[f].verify = epic[f].verify /\ epic'[f].status = epic[f].status
  BY <1>1, <1>6 DEF CloseIncidents, LabelEpic, CancelSteps, EpicBeads
<1>7. ASSUME CloseCanceled, epic'[f] # epic[f]
      PROVE  /\ operator.at \in CancelSteps /\ e = f
             /\ InOrder(epic'[f]) /\ epic'[f].task = epic[f].task
  <2>1. operator.at \in CancelSteps /\ e = f
    BY <1>1, <1>7 DEF CloseCanceled, CancelSteps
  <2>2. epic'[f] = [x EXCEPT !.status = IF OpenChildren(e) = {} THEN "closed" ELSE x.status]
    BY <1>1, <1>7, <2>1 DEF CloseCanceled
  <2>3. CASE OpenChildren(e) = {}
    <3>1. \A t \in PlanTasks : x.bead[t] # "open"
      BY <2>1, <2>3, OpenChildrenAre
    <3>2. epic'[f] = [x EXCEPT !.status = "closed"]
      BY <2>2, <2>3
    <3>3. epic'[f].bead = x.bead /\ epic'[f].task = x.task /\ epic'[f].status = "closed"
      BY <1>1, <2>1, <3>2 DEF EpicBeads
    <3>4. InOrder(x) /\ e = f /\ operator.at \in CancelSteps
      BY <1>1, <2>1
    <3> QED
      BY <3>1, <3>3, <3>4, OrderedClosed
  <2>4. CASE OpenChildren(e) # {}
    BY <1>1, <1>7, <2>1, <2>2, <2>4 DEF EpicBeads
  <2> QED
    BY <2>3, <2>4
<1>8. ASSUME NEW g \in Epics, AddReference(g)
      PROVE  epic'[f].bead = epic[f].bead /\ epic'[f].task = epic[f].task
             /\ epic'[f].verify = epic[f].verify /\ epic'[f].status = epic[f].status
  BY <1>1, <1>8 DEF AddReference, EpicBeads
<1> QED
  <2>1. CASE epic' = epic
    BY <1>2, <2>1
  <2>2. CASE CloseIncidents \/ LabelEpic \/ \E g \in Epics : AddReference(g)
    BY <1>3, <1>6, <1>8, <2>2
  <2>3. CASE CloseCanceled
    BY <1>2, <1>7, <2>3
  <2>4. CASE \/ \E t \in PlanTasks : CancelTask(t)
             \/ \E child \in operator.pending : CloseChild(child)
    BY <1>2, <1>4, <1>5, <2>4
  <2> QED
    BY <2>1, <2>2, <2>3, <2>4
       DEF OperatorStep, OperatorFails, AskCancel, ListUnfinished, ListChildren, EndPass,
           CloseCanceledRequest, AskCancelRequest

\* Where the operator's steps lead.
LEMMA OperatorMoves ==
    ASSUME EpicsAssumption, Inv,
           OperatorStep \/ OperatorFails
           \/ (\E e \in Epics : AskCancel(e) \/ AddReference(e))
           \/ (\E r \in Requests : AskCancelRequest(r))
    PROVE  \/ operator' = IdleOperator \/ operator' = operator
           \/ /\ operator.at \in CancelSteps /\ operator'.at \in CancelSteps
              /\ operator'.on = operator.on
           \/ \E e \in Epics :
                  AskCancel(e) /\ operator'.at = "list" /\ operator'.on = e
           \/ \E r \in Requests :
                  AskCancelRequest(r) /\ operator'.at = "close_request" /\ operator'.on = r
<1>1. OperatorShape(operator)
  BY OperatorParts
<1>2. ASSUME NEW e \in Epics, AskCancel(e)
      PROVE  operator'.at = "list" /\ operator'.on = e
  BY <1>2 DEF AskCancel, IdleOperator
<1>3. ASSUME NEW r \in Requests, AskCancelRequest(r)
      PROVE  operator'.at = "close_request" /\ operator'.on = r
  BY <1>3 DEF AskCancelRequest, IdleOperator
<1>4. ASSUME ListUnfinished \/ ListChildren \/ CloseIncidents \/ LabelEpic
      PROVE  /\ operator.at \in CancelSteps /\ operator'.at \in CancelSteps
             /\ operator'.on = operator.on
  BY <1>1, <1>4 DEF ListUnfinished, ListChildren, CloseIncidents, LabelEpic, OperatorGoes,
     OperatorShape, CancelSteps
<1>5. ASSUME NEW t \in PlanTasks, CancelTask(t)
      PROVE  \/ operator' = IdleOperator
             \/ /\ operator.at \in CancelSteps /\ operator'.at \in CancelSteps
                /\ operator'.on = operator.on
  BY <1>1, <1>5 DEF CancelTask, OperatorShape, CancelSteps
<1>6. ASSUME NEW child \in operator.pending, CloseChild(child)
      PROVE  /\ operator.at \in CancelSteps /\ operator'.at \in CancelSteps
             /\ operator'.on = operator.on
  BY <1>1, <1>6 DEF CloseChild, OperatorShape, CancelSteps
<1>7. ASSUME EndPass
      PROVE  \/ operator' = IdleOperator
             \/ /\ operator.at \in CancelSteps /\ operator'.at \in CancelSteps
                /\ operator'.on = operator.on
  BY <1>1, <1>7 DEF EndPass, OperatorGoes, OperatorShape, CancelSteps
<1> QED
  BY <1>2, <1>3, <1>4, <1>5, <1>6, <1>7
     DEF OperatorStep, OperatorFails, AddReference, CloseCanceled, CloseCanceledRequest

LEMMA OperatorKeepsOrder ==
    ASSUME EpicsAssumption, Overlap = FALSE, Inv, OrderInv,
           OperatorStep \/ OperatorFails
           \/ (\E e \in Epics : AskCancel(e) \/ AddReference(e))
           \/ (\E r \in Requests : AskCancelRequest(r))
    PROVE  OrderInv'
<1> SUFFICES ASSUME NEW e, e = operator.on PROVE OrderInv'
  OBVIOUS
<1>0. UNCHANGED <<planner, steward>>
  BY DEF OperatorStep, OperatorFails, OperatorKeeps, AskCancel, AddReference, AskCancelRequest,
     ListUnfinished, CancelTask, ListChildren, CloseChild, EndPass, CloseIncidents, LabelEpic,
     CloseCanceled, CloseCanceledRequest
<1>1. \A f \in Epics :
          /\ InOrder(epic'[f])
          /\ \A t \in PlanTasks : epic'[f].task[t] \in Unfinished => epic[f].task[t] \in Unfinished
          /\ \/ operator.at \in CancelSteps /\ e = f
             \/ /\ epic'[f].bead = epic[f].bead /\ epic'[f].task = epic[f].task
                /\ epic'[f].verify = epic[f].verify /\ epic'[f].status = epic[f].status
  BY OperatorsOrder
<1>2. \/ operator' = IdleOperator \/ operator' = operator
      \/ operator.at \in CancelSteps /\ operator'.at \in CancelSteps /\ operator'.on = e
      \/ \E f \in Epics : AskCancel(f) /\ operator'.at = "list" /\ operator'.on = f
      \/ \E r \in Requests :
             AskCancelRequest(r) /\ operator'.at = "close_request" /\ operator'.on = r
  BY OperatorMoves
<1>3. /\ IdleOperator.at = "idle" /\ OperatorShape(operator)
      /\ operator.at \in CancelSteps => e \in Epics
  BY OperatorParts DEF IdleOperator
<1>4. ASSUME planner.at \in WritingSteps PROVE Alone(planner.epic)'
  <2> SUFFICES ASSUME NEW p, p = planner.epic PROVE Alone(planner.epic)'
    OBVIOUS
  <2>1. Alone(p) /\ p \in Epics /\ ~(operator.at \in CancelSteps /\ e = p) /\ Writing(p)
    BY <1>4, PlannerParts DEF OrderInv, Alone, Writing, WritingSteps
  <2>2. /\ epic'[p].bead = epic[p].bead /\ epic'[p].task = epic[p].task
        /\ epic'[p].verify = epic[p].verify /\ epic'[p].status = epic[p].status
    BY <1>1, <2>1
  <2>3. ~(operator'.at \in CancelSteps /\ operator'.on = p)
    <3>1. ASSUME NEW f \in Epics, AskCancel(f) PROVE f # p
      BY <2>1, <3>1 DEF AskCancel
    <3> QED
      BY <1>2, <1>3, <2>1, <3>1 DEF CancelSteps
  <2> QED
    BY <1>0, <2>1, <2>2, <2>3 DEF Alone
<1>5. CancelOK'
  <2>1. CASE operator'.at \notin {"cancel", "children", "pass", "incidents", "label", "close_epic"}
    BY <2>1 DEF CancelOK
  <2>2. CASE /\ operator.at \in {"children", "pass", "incidents", "label", "close_epic"}
             /\ operator'.on = e
             /\ operator'.at \in {"children", "pass", "incidents", "label", "close_epic"}
    BY <1>1, <1>3, <2>2 DEF OrderInv, CancelOK, CancelSteps
  <2>3. CASE operator' = operator
    BY <1>1, <1>3, <2>3 DEF OrderInv, CancelOK, CancelSteps
  <2>4. CASE ListUnfinished
    <3> DEFINE todo == {t \in PlanTasks : epic[e].task[t] \in {"open", "working", "incident"}}
    <3>1. /\ operator'.on = e /\ epic' = epic
          /\ operator'.at = IF todo = {} THEN "children" ELSE "cancel"
          /\ operator'.tasks = todo
      BY <1>3, <2>4 DEF ListUnfinished, OperatorShape
    <3>2. \A t \in PlanTasks : epic[e].task[t] \in Unfinished => t \in todo
      BY DEF Unfinished
    <3> HIDE DEF todo
    <3> QED
      BY <3>1, <3>2 DEF CancelOK
  <2>5. ASSUME NEW t \in PlanTasks, CancelTask(t), operator' # IdleOperator PROVE CancelOK'
    <3> DEFINE left == operator.tasks \ {t}
    <3>1. operator' = [operator EXCEPT
              !.tasks = left,
              !.at = IF left = {} THEN "children" ELSE "cancel"]
      BY <2>5 DEF CancelTask
    <3>2. /\ operator'.on = e /\ operator'.tasks = left
          /\ operator'.at = IF left = {} THEN "children" ELSE "cancel"
      BY <1>3, <3>1 DEF OperatorShape
    <3>3. /\ e \in Epics /\ epic'[e].task[t] = "canceled"
      <4>1. epic[e].task[t] # "landed" /\ e \in Epics
        BY <1>3, <2>5 DEF CancelTask, CancelSteps
      <4> QED
        BY <2>5, <4>1, OrderParts DEF CancelTask, Inv, Shape, EpicBeads
    <3>4. \A u \in PlanTasks : epic[e].task[u] \in Unfinished => u \in operator.tasks
      BY <2>5 DEF CancelTask, OrderInv, CancelOK
    <3>5. \A u \in PlanTasks : epic'[e].task[u] \in Unfinished => u \in left
      BY <1>1, <3>3, <3>4 DEF Unfinished
    <3> HIDE DEF left
    <3> QED
      BY <3>2, <3>5 DEF CancelOK
  <2>6. ASSUME ListChildren \/ EndPass \/ CloseIncidents \/ LabelEpic
               \/ (\E child \in operator.pending : CloseChild(child)),
               operator' # IdleOperator
        PROVE  /\ operator.at \in {"children", "pass", "incidents", "label", "close_epic"}
               /\ operator'.on = e
               /\ operator'.at \in {"children", "pass", "incidents", "label", "close_epic"}
    <3>1. CASE ListChildren \/ CloseIncidents \/ LabelEpic
      BY <1>3, <3>1 DEF ListChildren, CloseIncidents, LabelEpic, OperatorGoes, OperatorShape
    <3>2. CASE EndPass
      BY <1>3, <2>6, <3>2 DEF EndPass, OperatorGoes, OperatorShape
    <3>3. ASSUME NEW child \in operator.pending, CloseChild(child)
          PROVE  operator.at = "pass" /\ operator'.on = e /\ operator'.at = "pass"
      BY <1>3, <3>3 DEF CloseChild, OperatorShape
    <3> QED
      BY <2>6, <3>1, <3>2, <3>3
  <2>7. CASE operator' = IdleOperator
    BY <1>3, <2>1, <2>7
  <2>8. ASSUME NEW f \in Epics, AskCancel(f) PROVE operator'.at = "list"
    BY <2>8 DEF AskCancel, IdleOperator
  <2>9. ASSUME NEW r \in Requests, AskCancelRequest(r) PROVE operator'.at = "close_request"
    BY <2>9 DEF AskCancelRequest, IdleOperator
  <2>10. CASE ListChildren \/ EndPass \/ CloseIncidents \/ LabelEpic
              \/ \E child \in operator.pending : CloseChild(child)
    BY <2>2, <2>6, <2>7, <2>10
  <2>11. ASSUME NEW f \in Epics, AskCancel(f) \/ AddReference(f) PROVE CancelOK'
    <3>1. CASE AskCancel(f)
      BY <2>1, <2>8, <3>1
    <3> QED
      BY <2>3, <2>11, <3>1 DEF AddReference
  <2>12. ASSUME NEW r \in Requests, AskCancelRequest(r) PROVE CancelOK'
    BY <2>1, <2>9, <2>12
  <2>13. CASE CloseCanceled \/ CloseCanceledRequest \/ OperatorFails
    BY <2>7, <2>13 DEF CloseCanceled, CloseCanceledRequest, OperatorFails
  <2> QED
    BY <2>4, <2>5, <2>7, <2>10, <2>11, <2>12, <2>13 DEF OperatorStep
<1>6. Undecided'
  <2>1. planner.at # "idle" => planner.request \in Requests
    BY PlannerParts
  <2>2. ASSUME NEW r \in Requests, AskCancelRequest(r) PROVE Undecided'
    <3>1. operator'.at = "close_request" /\ operator'.on = r
      BY <2>2 DEF AskCancelRequest, IdleOperator
    <3>2. \A q \in Requests : request'[q].status = request[q].status
      BY <2>2 DEF AskCancelRequest, Inv, Shape, PlanRequests
    <3>3. ~(planner.at # "idle" /\ planner.request = r) /\ request[r].status = "open"
      BY <2>2 DEF AskCancelRequest
    <3>4. planner.at # "idle" => request[planner.request].status = "open"
      BY DEF OrderInv, Undecided
    <3> QED
      BY <1>0, <2>1, <3>1, <3>2, <3>3, <3>4 DEF Undecided
  <2>3. CASE CloseCanceledRequest
    <3>1. /\ operator.at = "close_request" /\ operator'.at = "idle" /\ e \in Requests
      BY <1>3, <2>3, OperatorParts DEF CloseCanceledRequest
    <3>2. \A q \in Requests \ {e} : request'[q].status = request[q].status
      BY <2>3, <3>1 DEF CloseCanceledRequest, Inv, Shape, PlanRequests
    <3> QED
      BY <1>0, <2>1, <3>1, <3>2 DEF OrderInv, Undecided
  <2>4. CASE request' = request
    <3>1. operator'.at = "close_request" =>
              operator' = operator \/ \E r \in Requests : AskCancelRequest(r)
      BY <1>2, <1>3 DEF CancelSteps
    <3> QED
      BY <1>0, <2>2, <2>4, <3>1 DEF OrderInv, Undecided
  <2> QED
    BY <2>2, <2>3, <2>4
       DEF OperatorStep, OperatorFails, OperatorKeeps, AskCancel, AddReference,
           ListUnfinished, CancelTask, ListChildren, CloseChild, EndPass, CloseIncidents, LabelEpic,
           CloseCanceled
<1> QED
  BY <1>0, <1>1, <1>4, <1>5, <1>6 DEF OrderInv

\* An epic that is being written and where nothing is over yet.
Calm(x) ==
    /\ x.status = "open"
    /\ \A t \in PlanTasks : /\ x.bead[t] \in {"absent", "open"}
                            /\ x.verify[t] \in {"absent", "open"}
                            /\ x.task[t] \notin {"landed", "canceled"}

LEMMA CalmInOrder ==
    ASSUME EpicsAssumption, NEW x, NEW y, Calm(x), Calm(y), InOrder(x),
           \A t \in PlanTasks : y.task[t] = "working" => x.task[t] = "working"
    PROVE  InOrder(y)
<1>1. \A t \in PlanTasks : Needs[t] \subseteq PlanTasks
  BY DEF EpicsAssumption
<1>2. ASSUME NEW t \in PlanTasks, NEW n \in Needs[t], y.task[t] = "working" PROVE FALSE
  <2>1. x.task[n] = "landed" /\ n \in PlanTasks
    BY <1>1, <1>2 DEF InOrder
  <2> QED
    BY <2>1 DEF Calm
<1> QED
  BY <1>2 DEF InOrder, Calm

\* A step of the planner leaves the epic it is writing so, and no other is touched.
LEMMA WritingStaysCalm ==
    ASSUME EpicsAssumption, Inv, OrderInv,
           \/ CreateReference \/ CloseReference \/ CreateVerify \/ CreateTask \/ AddNeed
           \/ Undefer \/ SetVerify \/ GateVerify
    PROVE  /\ planner.epic \in Epics /\ planner.at \in WritingSteps
           /\ UNCHANGED <<request, steward, operator>>
           /\ planner'.request = planner.request /\ planner'.epic = planner.epic
           /\ planner'.at # "idle"
           /\ Calm(epic[planner.epic]) /\ Alone(planner.epic)
           /\ Calm(epic'[planner.epic])
           /\ \A u \in PlanTasks : epic'[planner.epic].task[u] = "working" =>
                                       epic[planner.epic].task[u] = "working"
           /\ \A f \in Epics \ {planner.epic} : epic'[f] = epic[f]
<1> SUFFICES ASSUME NEW e, e = planner.epic, NEW t, t = planner.task, NEW x, x = epic[e]
             PROVE  /\ e \in Epics /\ planner.at \in WritingSteps
                    /\ UNCHANGED <<request, steward, operator>>
                    /\ planner'.request = planner.request /\ planner'.epic = e
                    /\ planner'.at # "idle"
                    /\ Calm(x) /\ Alone(e)
                    /\ Calm(epic'[e])
                    /\ \A u \in PlanTasks : epic'[e].task[u] = "working" => x.task[u] = "working"
                    /\ \A f \in Epics \ {e} : epic'[f] = epic[f]
  OBVIOUS
<1>1. planner.at \in WritingSteps
  BY DEF CreateReference, CloseReference, CreateVerify, CreateTask, AddNeed, Undefer, SetVerify,
         GateVerify, WritingSteps
<1>2. /\ e \in Epics /\ t \in PlanTasks /\ x \in EpicBeads /\ InOrder(x)
      /\ Alone(e) /\ Calm(x)
      /\ x.bead \in [PlanTasks -> Beads] /\ x.task \in [PlanTasks -> TaskStates]
      /\ x.verify \in [PlanTasks -> Beads] /\ x.edges \in [PlanTasks -> SUBSET PlanTasks]
  <2>1. e \in Epics /\ t \in PlanTasks /\ x \in EpicBeads /\ InOrder(x) /\ Alone(e)
    BY <1>1, PlannerParts, OrderParts DEF OrderInv
  <2> QED
    BY <2>1 DEF Alone, Calm, EpicBeads
<1>3. /\ UNCHANGED <<request, steward, operator>>
      /\ planner'.request = planner.request /\ planner'.epic = e /\ planner'.at # "idle"
  <2>1. ASSUME NEW y, NEW step \in PlannerSteps \ {"idle"}, Writes(y, step)
        PROVE  /\ UNCHANGED <<request, steward, operator>>
               /\ planner'.request = planner.request /\ planner'.epic = e /\ planner'.at # "idle"
    BY <2>1, PlannerParts DEF Writes, PlannerGoes
  <2>2. {"close_reference", "verify", "task", "edge", "undefer", "tell", "gate"}
            \subseteq PlannerSteps \ {"idle"}
    BY DEF PlannerSteps, WritingSteps
  <2>3. CASE GateVerify
    BY <1>1, <2>3, PlannerParts DEF GateVerify
  <2>4. CASE CreateReference \/ CloseReference \/ CreateVerify \/ Undefer \/ SetVerify
    BY <2>1, <2>2, <2>4 DEF CreateReference, CloseReference, CreateVerify, Undefer, SetVerify
  <2>5. CASE CreateTask
    BY <2>1, <2>2, <2>5 DEF CreateTask
  <2>6. CASE AddNeed
    BY <2>1, <2>2, <2>6 DEF AddNeed
  <2> QED
    BY <2>3, <2>4, <2>5, <2>6
<1>4. \E y \in EpicBeads :
          /\ epic' = [epic EXCEPT ![e] = y]
          /\ Calm(y)
          /\ \A u \in PlanTasks : y.task[u] = "working" => x.task[u] = "working"
  <2>1. ASSUME NEW y \in EpicBeads, epic' = [epic EXCEPT ![e] = y], y.status = x.status,
               y.bead = x.bead, y.task = x.task, y.verify = x.verify
        PROVE  Calm(y) /\ \A u \in PlanTasks : y.task[u] = "working" => x.task[u] = "working"
    BY <1>2, <2>1 DEF Calm
  <2>2. CASE CreateReference
    <3> DEFINE y == [x EXCEPT !.reference = "open"]
    <3>1. y \in EpicBeads /\ y.status = x.status /\ y.bead = x.bead /\ y.task = x.task
          /\ y.verify = x.verify
      BY <1>2 DEF EpicBeads, Beads
    <3>2. epic' = [epic EXCEPT ![e] = y]
      BY <2>2 DEF CreateReference, Writes
    <3> QED
      BY <2>1, <3>1, <3>2
  <2>3. CASE CloseReference
    <3> DEFINE y == [x EXCEPT !.reference = "closed"]
    <3>1. y \in EpicBeads /\ y.status = x.status /\ y.bead = x.bead /\ y.task = x.task
          /\ y.verify = x.verify
      BY <1>2 DEF EpicBeads, Beads
    <3>2. epic' = [epic EXCEPT ![e] = y]
      BY <2>3 DEF CloseReference, Writes
    <3> QED
      BY <2>1, <3>1, <3>2
  <2>4. CASE CreateVerify
    <3> DEFINE y == [x EXCEPT !.verify[t] = "open"]
    <3>1. y \in EpicBeads /\ y.status = x.status /\ y.bead = x.bead /\ y.task = x.task
          /\ y.verify = [x.verify EXCEPT ![t] = "open"]
      BY <1>2 DEF EpicBeads, Beads
    <3>2. epic' = [epic EXCEPT ![e] = y]
      BY <2>4 DEF CreateVerify, Writes
    <3> HIDE DEF y
    <3>3. Calm(y)
      BY <1>2, <3>1 DEF Calm
    <3> QED
      BY <3>1, <3>2, <3>3
  <2>5. CASE CreateTask
    <3> DEFINE h == IF Needs[t] = {} THEN x.hidden ELSE x.hidden \cup {t}
               y == [x EXCEPT !.bead[t] = "open", !.task[t] = "open", !.hidden = h]
    <3>1. epic' = [epic EXCEPT ![e] = y]
      BY <2>5 DEF CreateTask, Writes
    <3>2. h \in SUBSET PlanTasks
      BY <1>2 DEF EpicBeads
    <3> HIDE DEF h
    <3>3. /\ y \in EpicBeads /\ y.status = x.status /\ y.verify = x.verify
          /\ y.bead = [x.bead EXCEPT ![t] = "open"]
          /\ y.task = [x.task EXCEPT ![t] = "open"]
      BY <1>2, <3>2 DEF EpicBeads, Beads, TaskStates
    <3> HIDE DEF y
    <3>4. Calm(y)
      BY <1>2, <3>3 DEF Calm
    <3> QED
      BY <1>2, <3>1, <3>3, <3>4
  <2>6. CASE AddNeed
    <3>1. PICK n \in Needs[t] : epic' = [epic EXCEPT ![e] = [x EXCEPT !.edges[t] = @ \cup {n}]]
      BY <2>6 DEF AddNeed, Writes
    <3> DEFINE y == [x EXCEPT !.edges[t] = @ \cup {n}]
    <3>2. n \in PlanTasks
      BY <1>2, <3>1, OrderParts
    <3>3. y \in EpicBeads /\ y.status = x.status /\ y.bead = x.bead /\ y.task = x.task
          /\ y.verify = x.verify
      <4>1. [x.edges EXCEPT ![t] = @ \cup {n}] \in [PlanTasks -> SUBSET PlanTasks]
        BY <1>2, <3>2
      <4> QED
        BY <1>2, <4>1 DEF EpicBeads
    <3> QED
      BY <2>1, <3>1, <3>3
  <2>7. CASE Undefer
    <3> DEFINE y == [x EXCEPT !.hidden = @ \ {t}]
    <3>1. y \in EpicBeads /\ y.status = x.status /\ y.bead = x.bead /\ y.task = x.task
          /\ y.verify = x.verify
      BY <1>2 DEF EpicBeads
    <3>2. epic' = [epic EXCEPT ![e] = y]
      BY <2>7 DEF Undefer, Writes
    <3> QED
      BY <2>1, <3>1, <3>2
  <2>8. CASE SetVerify
    <3> DEFINE y == [x EXCEPT !.told = @ \cup {t}]
    <3>1. y \in EpicBeads /\ y.status = x.status /\ y.bead = x.bead /\ y.task = x.task
          /\ y.verify = x.verify
      BY <1>2 DEF EpicBeads
    <3>2. epic' = [epic EXCEPT ![e] = y]
      BY <2>8 DEF SetVerify, Writes
    <3> QED
      BY <2>1, <3>1, <3>2
  <2>9. CASE GateVerify
    <3> DEFINE y == [x EXCEPT !.gated = @ \cup {t}]
    <3>1. y \in EpicBeads /\ y.status = x.status /\ y.bead = x.bead /\ y.task = x.task
          /\ y.verify = x.verify
      BY <1>2 DEF EpicBeads
    <3>2. epic' = [epic EXCEPT ![e] = y]
      BY <1>2, <2>9 DEF GateVerify, Inv, Shape
    <3> QED
      BY <2>1, <3>1, <3>2
  <2> QED
    BY <2>2, <2>3, <2>4, <2>5, <2>6, <2>7, <2>8, <2>9
<1>5. PICK y \in EpicBeads :
          /\ epic' = [epic EXCEPT ![e] = y]
          /\ Calm(y)
          /\ \A u \in PlanTasks : y.task[u] = "working" => x.task[u] = "working"
  BY <1>4
<1>6. epic'[e] = y /\ \A f \in Epics \ {e} : epic'[f] = epic[f]
  BY <1>2, <1>5 DEF Inv, Shape
<1> QED
  BY <1>1, <1>2, <1>3, <1>5, <1>6

LEMMA WritingKeepsOrder ==
    ASSUME EpicsAssumption, Inv, OrderInv,
           \/ CreateReference \/ CloseReference \/ CreateVerify \/ CreateTask \/ AddNeed
           \/ Undefer \/ SetVerify \/ GateVerify
    PROVE  OrderInv'
<1> SUFFICES ASSUME NEW e, e = planner.epic PROVE OrderInv'
  OBVIOUS
<1>1. /\ e \in Epics /\ planner.at \in WritingSteps
      /\ UNCHANGED <<request, steward, operator>>
      /\ planner'.request = planner.request /\ planner'.epic = e /\ planner'.at # "idle"
      /\ Calm(epic[e]) /\ Alone(e)
      /\ Calm(epic'[e])
      /\ \A u \in PlanTasks : epic'[e].task[u] = "working" => epic[e].task[u] = "working"
      /\ \A f \in Epics \ {e} : epic'[f] = epic[f]
  BY WritingStaysCalm
<1>2. \A f \in Epics : InOrder(epic'[f])
  BY <1>1, CalmInOrder DEF OrderInv
<1>3. Alone(e)'
  BY <1>1 DEF Alone, Calm
<1>4. CancelOK'
  <2>1. operator.at \in CancelSteps => operator.on \in Epics \ {e}
    BY <1>1, OperatorParts DEF Alone
  <2> QED
    BY <1>1, <2>1 DEF OrderInv, CancelOK, CancelSteps
<1>5. Undecided'
  BY <1>1 DEF OrderInv, Undecided, WritingSteps
<1> QED
  BY <1>1, <1>2, <1>3, <1>4, <1>5 DEF OrderInv

LEMMA CreatingKeepsOrder ==
    ASSUME EpicsAssumption, Inv, OrderInv, CreateEpic
    PROVE  OrderInv'
<1>1. PICK c \in {0} \cup Epics :
          /\ c + 1 \in Epics /\ epic[c + 1] = NoEpic
          /\ epic' = [epic EXCEPT ![c + 1].status = "open"]
          /\ planner' = [planner EXCEPT !.at = "reference", !.epic = c + 1]
  BY CreateEpicTakes
<1> DEFINE e == c + 1
           y == [NoEpic EXCEPT !.status = "open"]
<1>2. UNCHANGED <<request, steward, operator>> /\ planner.at = "epic"
  BY DEF CreateEpic
<1>3. Calm(y) /\ InOrder(y)
  BY DEF NoEpic, Calm, InOrder
<1> HIDE DEF e, y
<1>4. /\ epic'[e] = y /\ \A f \in Epics \ {e} : epic'[f] = epic[f]
      /\ e \in Epics /\ ~Present(e)
      /\ planner'.epic = e /\ planner'.request = planner.request
      /\ planner'.at = "reference"
  BY <1>1, PlannerParts DEF Inv, Shape, Present, NoEpic, e, y
<1>5. \A f \in Epics : InOrder(epic'[f])
  BY <1>3, <1>4 DEF OrderInv
<1>6. /\ operator.at \in CancelSteps => operator.on # e /\ operator.on \in Epics
      /\ steward.at \in ClosingSteps => steward.epic # e
  BY <1>4, OperatorParts DEF Inv, OperatorOK, StewardOK, Present
<1>7. Alone(e)'
  BY <1>2, <1>3, <1>4, <1>6 DEF Alone, Calm
<1>8. CancelOK'
  BY <1>2, <1>4, <1>6 DEF OrderInv, CancelOK, CancelSteps
<1>9. Undecided'
  BY <1>2, <1>4 DEF OrderInv, Undecided
<1> QED
  BY <1>4, <1>5, <1>7, <1>8, <1>9 DEF OrderInv

LEMMA PausingKeepsOrder ==
    ASSUME EpicsAssumption, Overlap = FALSE, Inv, OrderInv,
           \/ \E r \in Requests : TakeRequest(r)
           \/ ProviderRefuses \/ DraftFails \/ Draft \/ PlanningFails \/ PlannerDies
           \/ NoteAnswer \/ CloseRequest
    PROVE  OrderInv'
<1>0. epic' = epic /\ UNCHANGED <<steward, operator>>
  BY DEF TakeRequest, ProviderRefuses, DraftFails, Draft, PlanningFails, PlannerDies,
     NoteAnswer, CloseRequest
<1>1. CancelOK'
  BY <1>0 DEF OrderInv, CancelOK
<1>2. ASSUME NEW r \in Requests, TakeRequest(r)
      PROVE  planner'.at = "draft" /\ planner'.request = r
  BY <1>2 DEF TakeRequest, IdlePlanner
<1>3. ASSUME ProviderRefuses \/ PlannerDies \/ CloseRequest
      PROVE  planner'.at = "idle"
  BY <1>3 DEF ProviderRefuses, PlannerDies, CloseRequest, IdlePlanner
<1>4. ASSUME DraftFails \/ Draft \/ PlanningFails \/ NoteAnswer
      PROVE  /\ planner.at # "idle" /\ planner'.at \in {"epic", "answer", "close"}
             /\ planner'.request = planner.request
  BY <1>4, PlannerParts DEF DraftFails, Draft, PlanningFails, NoteAnswer, PlannerGoes
<1>5. planner'.at \notin WritingSteps
  <2>1. planner'.at \in {"idle", "draft", "epic", "answer", "close"}
    BY <1>2, <1>3, <1>4
  <2> QED
    BY <2>1 DEF WritingSteps
<1>6. Undecided'
  <2>1. ASSUME NEW r \in Requests, TakeRequest(r) PROVE Undecided'
    BY <1>0, <1>2, <2>1 DEF TakeRequest, OrderInv, Undecided
  <2>2. CASE ProviderRefuses \/ PlannerDies
    BY <1>0, <1>3, <2>2 DEF ProviderRefuses, PlannerDies, OrderInv, Undecided
  <2>3. CASE DraftFails \/ Draft \/ PlanningFails
    BY <1>0, <1>4, <2>3 DEF DraftFails, Draft, PlanningFails, OrderInv, Undecided
  <2>4. CASE NoteAnswer
    <3>1. \A r \in Requests : request'[r].status = request[r].status
      BY <2>4 DEF NoteAnswer, Inv, Shape, PlanRequests
    <3>2. /\ planner.request \in Requests
          /\ operator.at = "close_request" => operator.on \in Requests
      BY <1>4, <2>4, PlannerParts, OperatorParts
    <3> QED
      BY <1>0, <1>4, <2>4, <3>1, <3>2 DEF OrderInv, Undecided
  <2>5. CASE CloseRequest
    <3>1. \A r \in Requests \ {planner.request} : request'[r].status = request[r].status
      BY <2>5 DEF CloseRequest, Inv, Shape, PlanRequests
    <3>2. operator.at = "close_request" => operator.on \in Requests /\ operator.on # planner.request
      BY <2>5, OperatorParts DEF CloseRequest, OrderInv, Undecided
    <3> QED
      BY <1>0, <1>3, <2>5, <3>1, <3>2 DEF OrderInv, Undecided
  <2> QED
    BY <2>1, <2>2, <2>3, <2>4, <2>5
<1> QED
  BY <1>0, <1>1, <1>5, <1>6 DEF OrderInv

LEMMA OrderInit ==
    ASSUME EpicsAssumption, EpicsInit
    PROVE  OrderInv
BY DEF EpicsInit, OrderInv, InOrder, NoEpic, IdlePlanner, IdleOperator, CancelOK, Undecided,
       WritingSteps

LEMMA OrderStep ==
    ASSUME EpicsAssumption, Overlap = FALSE, Inv, OrderInv, [EpicsNext]_epicsVars
    PROVE  OrderInv'
<1>1. CASE UNCHANGED epicsVars
  BY <1>1 DEF epicsVars, OrderInv, Alone, CancelOK, Undecided
<1>2. CASE EpicsNext
  BY <1>2, TasksKeepOrder, StewardKeepsOrder, OperatorKeepsOrder, WritingKeepsOrder,
     PausingKeepsOrder, CreatingKeepsOrder DEF EpicsNext, PlannerStep
<1> QED
  BY <1>1, <1>2

THEOREM OrderHolds ==
    ASSUME EpicsAssumption, Overlap = FALSE
    PROVE  EpicsSpec => [](Inv /\ OrderInv)
<1>1. EpicsInit => Inv /\ OrderInv
  BY InvInit, OrderInit
<1>2. Inv /\ OrderInv /\ [EpicsNext]_epicsVars => (Inv /\ OrderInv)'
  BY InvStep, OrderStep
<1> QED
  BY <1>1, <1>2, PTL DEF EpicsSpec

-----------------------------------------------------------------------------
(* What the rig promises about plans (module Delivery).                    *)

AnswerOf == [r \in Requests |->
                [given |-> request[r].status = "closed",
                 epic |-> IF request[r].status = "closed" THEN Outcome(r) ELSE Failed]]
DoneOf == [e \in Epics |-> {t \in PlanTasks : epic[e].task[t] = "landed"}]
OverOf == {e \in Epics : epic[e].status = "closed"}

\* A step that gives no answer, lands nothing and closes no epic.
LEMMA PromiseStutters ==
    ASSUME \A r \in Requests :
               /\ request'[r].status = "closed" <=> request[r].status = "closed"
               /\ request[r].status = "closed" => Outcome(r)' = Outcome(r),
           \A e \in Epics :
               /\ epic'[e].status = "closed" <=> epic[e].status = "closed"
               /\ \A t \in PlanTasks :
                      epic'[e].task[t] = "landed" <=> epic[e].task[t] = "landed"
    PROVE  UNCHANGED Promise!deliveryVars
<1>1. AnswerOf' = AnswerOf
  <2>1. \A r \in Requests : AnswerOf'[r] = AnswerOf[r]
    BY Zenon DEF AnswerOf
  <2> QED
    BY <2>1 DEF AnswerOf
<1>2. DoneOf' = DoneOf
  BY DEF DoneOf
<1>3. OverOf' = OverOf
  BY DEF OverOf
<1> QED
  BY <1>1, <1>2, <1>3 DEF Promise!deliveryVars, AnswerOf, DoneOf, OverOf

LEMMA RequestsSame ==
    ASSUME request' = request
    PROVE  \A r \in Requests :
               /\ request'[r].status = "closed" <=> request[r].status = "closed"
               /\ request[r].status = "closed" => Outcome(r)' = Outcome(r)
BY DEF Outcome

\* Work lands under an epic that is not over, after all it needs.
LEMMA PromiseDoes ==
    ASSUME EpicsAssumption, Inv, OrderInv, NEW e \in Epics, NEW t \in PlanTasks, LandTask(e, t)
    PROVE  Promise!Do(e, t)
<1>1. /\ epic[e].task[t] = "working" /\ epic[e].status # "closed"
      /\ \A n \in Needs[t] : epic[e].task[n] = "landed" /\ n \in PlanTasks
  BY WorkingIsOpen, OrderParts DEF LandTask, InOrder
<1>2. /\ epic'[e].task = [epic[e].task EXCEPT ![t] = "landed"]
      /\ epic'[e].status = epic[e].status
      /\ \A f \in Epics \ {e} : epic'[f] = epic[f]
      /\ request' = request
      /\ epic[e].task \in [PlanTasks -> TaskStates]
  <2>1. epic[e] \in EpicBeads
    BY OrderParts
  <2> DEFINE y == [epic[e] EXCEPT !.task[t] = "landed", !.bead[t] = "closed",
                                  !.verify[t] = "closed"]
  <2>2. y.task = [epic[e].task EXCEPT ![t] = "landed"] /\ y.status = epic[e].status
    BY <2>1, LandFields
  <2>3. epic' = [epic EXCEPT ![e] = y] /\ request' = request
    BY DEF LandTask, MovesTask
  <2> HIDE DEF y
  <2> QED
    BY <2>2, <2>3, OrderParts DEF Inv, Shape
<1>3. DoneOf' = [DoneOf EXCEPT ![e] = @ \cup {t}]
  <2>1. \A f \in Epics : DoneOf'[f] = IF f = e THEN DoneOf[e] \cup {t} ELSE DoneOf[f]
    BY <1>2 DEF DoneOf
  <2>2. /\ DoneOf = [f \in Epics |-> DoneOf[f]]
        /\ DoneOf' = [f \in Epics |-> DoneOf'[f]]
    BY DEF DoneOf
  <2> QED
    BY <2>1, <2>2
<1>4. OverOf' = OverOf
  BY <1>2 DEF OverOf
<1>5. AnswerOf' = AnswerOf
  BY <1>2 DEF AnswerOf, Outcome
<1>6. e \notin OverOf /\ t \notin DoneOf[e] /\ Needs[t] \subseteq DoneOf[e]
  BY <1>1 DEF OverOf, DoneOf
<1> QED
  BY <1>3, <1>4, <1>5, <1>6 DEF Promise!Do, AnswerOf, DoneOf, OverOf

LEMMA PromiseFinishes ==
    ASSUME Inv, NEW e \in Epics, request' = request, epic[e].status # "closed",
           epic' = [epic EXCEPT ![e].status = "closed"]
    PROVE  Promise!Finish(e)
<1>1. \A f \in Epics : /\ epic'[f].task = epic[f].task
                       /\ epic'[f].status = IF f = e THEN "closed" ELSE epic[f].status
  BY DEF Inv, Shape, EpicBeads
<1>2. DoneOf' = DoneOf /\ OverOf' = OverOf \cup {e} /\ e \notin OverOf
  BY <1>1 DEF DoneOf, OverOf
<1>3. AnswerOf' = AnswerOf
  BY DEF AnswerOf, Outcome
<1> QED
  BY <1>2, <1>3 DEF Promise!Finish, AnswerOf, DoneOf, OverOf

LEMMA PromiseAnswers ==
    ASSUME Inv, NEW r \in Requests, request[r].status = "open", epic' = epic,
           request' = [request EXCEPT ![r].status = "closed"]
    PROVE  Promise!AnswerRequest(r)
<1>1. /\ request'[r].status = "closed" /\ request'[r].answers = request[r].answers
      /\ \A q \in Requests \ {r} : request'[q] = request[q]
  BY DEF Inv, Shape, PlanRequests
<1>2. Outcome(r)' = Outcome(r) /\ Outcome(r) \in Epics \cup {Failed}
  <2>1. Outcome(r)' = Outcome(r)
    BY <1>1 DEF Outcome
  <2> QED
    BY <2>1 DEF Inv, Answered
<1>3. \A q \in Requests \ {r} : Outcome(q)' = Outcome(q)
  BY <1>1 DEF Outcome
<1>4. AnswerOf' = [AnswerOf EXCEPT ![r] = [given |-> TRUE, epic |-> Outcome(r)]]
  <2>1. AnswerOf'[r] = [given |-> TRUE, epic |-> Outcome(r)]
    BY <1>1, <1>2 DEF AnswerOf
  <2>2. \A q \in Requests \ {r} : AnswerOf'[q] = AnswerOf[q]
    BY <1>1, <1>3 DEF AnswerOf
  <2>3. /\ AnswerOf' = [q \in Requests |-> AnswerOf'[q]]
        /\ AnswerOf = [q \in Requests |-> AnswerOf[q]]
    BY DEF AnswerOf
  <2> QED
    BY <2>1, <2>2, <2>3
<1>5. ~AnswerOf[r].given
  BY DEF AnswerOf
<1>6. DoneOf' = DoneOf /\ OverOf' = OverOf
  BY DEF DoneOf, OverOf
<1>7. Failed = Promise!None
  BY DEF Failed, Promise!None
<1> QED
  BY <1>2, <1>4, <1>5, <1>6, <1>7 DEF Promise!AnswerRequest, AnswerOf, DoneOf, OverOf

LEMMA PromiseStep ==
    ASSUME EpicsAssumption, Overlap = FALSE, Inv, OrderInv, [EpicsNext]_epicsVars
    PROVE  [Promise!DeliveryNext]_(Promise!deliveryVars)
<1> DEFINE SameRequests ==
               \A r \in Requests :
                   /\ request'[r].status = "closed" <=> request[r].status = "closed"
                   /\ request[r].status = "closed" => Outcome(r)' = Outcome(r)
           SameWork(f) ==
               /\ epic'[f].status = "closed" <=> epic[f].status = "closed"
               /\ \A t \in PlanTasks :
                      epic'[f].task[t] = "landed" <=> epic[f].task[t] = "landed"
<1>1. ASSUME SameRequests, \A f \in Epics : SameWork(f)
      PROVE  [Promise!DeliveryNext]_(Promise!deliveryVars)
  BY <1>1, PromiseStutters
<1>2. request' = request => SameRequests
  BY RequestsSame
<1>3. \A f \in Epics : epic'[f] = epic[f] => SameWork(f)
  OBVIOUS
<1>4. epic \in [Epics -> EpicBeads]
  BY DEF Inv, Shape
<1>5. ASSUME NEW e \in Epics, NEW y, epic' = [epic EXCEPT ![e] = y],
               y.status = epic[e].status,
               \A t \in PlanTasks : y.task[t] = "landed" <=> epic[e].task[t] = "landed"
       PROVE  \A f \in Epics : SameWork(f)
  BY <1>4, <1>5
<1>6. ASSUME NEW e \in Epics, epic[e] \in EpicBeads, NEW b,
              \/ epic' = [epic EXCEPT ![e].reference = b]
              \/ epic' = [epic EXCEPT ![e].contract = b]
              \/ epic' = [epic EXCEPT ![e].filed = b]
              \/ epic' = [epic EXCEPT ![e].canceled = b]
       PROVE  \A f \in Epics : SameWork(f)
  <2>1. CASE epic' = [epic EXCEPT ![e].reference = b]
    <3> DEFINE y == [epic[e] EXCEPT !.reference = b]
    <3>1. y.status = epic[e].status /\ y.task = epic[e].task /\ epic' = [epic EXCEPT ![e] = y]
      BY <1>6, <2>1 DEF EpicBeads
    <3> HIDE DEF y
    <3>2. \A t \in PlanTasks : y.task[t] = "landed" <=> epic[e].task[t] = "landed"
      BY <3>1
    <3> QED
      BY <1>4, <3>1, <3>2
  <2>2. CASE epic' = [epic EXCEPT ![e].contract = b]
    <3> DEFINE y == [epic[e] EXCEPT !.contract = b]
    <3>1. y.status = epic[e].status /\ y.task = epic[e].task /\ epic' = [epic EXCEPT ![e] = y]
      BY <1>6, <2>2 DEF EpicBeads
    <3> HIDE DEF y
    <3>2. \A t \in PlanTasks : y.task[t] = "landed" <=> epic[e].task[t] = "landed"
      BY <3>1
    <3> QED
      BY <1>4, <3>1, <3>2
  <2>3. CASE epic' = [epic EXCEPT ![e].filed = b]
    <3> DEFINE y == [epic[e] EXCEPT !.filed = b]
    <3>1. y.status = epic[e].status /\ y.task = epic[e].task /\ epic' = [epic EXCEPT ![e] = y]
      BY <1>6, <2>3 DEF EpicBeads
    <3> HIDE DEF y
    <3>2. \A t \in PlanTasks : y.task[t] = "landed" <=> epic[e].task[t] = "landed"
      BY <3>1
    <3> QED
      BY <1>4, <3>1, <3>2
  <2>4. CASE epic' = [epic EXCEPT ![e].canceled = b]
    <3> DEFINE y == [epic[e] EXCEPT !.canceled = b]
    <3>1. y.status = epic[e].status /\ y.task = epic[e].task /\ epic' = [epic EXCEPT ![e] = y]
      BY <1>6, <2>4 DEF EpicBeads
    <3> HIDE DEF y
    <3>2. \A t \in PlanTasks : y.task[t] = "landed" <=> epic[e].task[t] = "landed"
      BY <3>1
    <3> QED
      BY <1>4, <3>1, <3>2
  <2> QED
    BY <1>6, <2>1, <2>2, <2>3, <2>4
<1> HIDE DEF SameRequests, SameWork
<1>7. CASE UNCHANGED epicsVars
  BY <1>1, <1>2, <1>3, <1>7 DEF epicsVars
<1>8. ASSUME NEW e \in Epics, NEW t \in PlanTasks, TaskStep(e, t) \/ ResolveIncident(e, t)
      PROVE  [Promise!DeliveryNext]_(Promise!deliveryVars)
  <2>1. CASE LandTask(e, t)
    BY <2>1, PromiseDoes DEF Promise!DeliveryNext
  <2>2. CASE TakeTask(e, t) \/ EscalateTask(e, t) \/ ResolveIncident(e, t)
    <3>1. request' = request /\ epic[e] \in EpicBeads
      BY <1>4, <2>2 DEF TakeTask, EscalateTask, ResolveIncident, MovesTask
    <3>2. CASE TakeTask(e, t)
      <4> DEFINE y == [epic[e] EXCEPT !.task[t] = "working"]
      <4>1. /\ epic' = [epic EXCEPT ![e] = y] /\ y.status = epic[e].status
            /\ \A u \in PlanTasks : y.task[u] = "landed" <=> epic[e].task[u] = "landed"
        BY <3>1, <3>2 DEF TakeTask, MovesTask, EpicBeads
      <4> HIDE DEF y
      <4> QED
        BY <1>1, <1>2, <1>5, <3>1, <4>1
    <3>3. CASE EscalateTask(e, t)
      <4> DEFINE y == [epic[e] EXCEPT !.task[t] = "incident", !.filed = @ \cup {t}]
      <4>1. /\ epic' = [epic EXCEPT ![e] = y] /\ y.status = epic[e].status
            /\ \A u \in PlanTasks : y.task[u] = "landed" <=> epic[e].task[u] = "landed"
        BY <3>1, <3>3 DEF EscalateTask, MovesTask, EpicBeads
      <4> HIDE DEF y
      <4> QED
        BY <1>1, <1>2, <1>5, <3>1, <4>1
    <3>4. CASE ResolveIncident(e, t)
      <4> DEFINE y == [epic[e] EXCEPT !.filed = @ \ {t},
                                      !.task[t] = IF @ = "incident" THEN "open" ELSE @]
      <4>1. /\ epic' = [epic EXCEPT ![e] = y] /\ y.status = epic[e].status
            /\ \A u \in PlanTasks : y.task[u] = "landed" <=> epic[e].task[u] = "landed"
        BY <3>1, <3>4 DEF ResolveIncident, MovesTask, EpicBeads
      <4> HIDE DEF y
      <4> QED
        BY <1>1, <1>2, <1>5, <3>1, <4>1
    <3> QED
      BY <2>2, <3>2, <3>3, <3>4
  <2> QED
    BY <1>8, <2>1, <2>2 DEF TaskStep
\* Closing an epic, by the steward or at the end of a cancel.
<1>9. ASSUME NEW e \in Epics, request' = request, epic' = [epic EXCEPT ![e].status = "closed"]
      PROVE  [Promise!DeliveryNext]_(Promise!deliveryVars)
  <2>1. CASE epic[e].status = "closed"
    <3>1. epic' = epic
      BY <1>4, <1>9, <2>1 DEF EpicBeads
    <3> QED
      BY <1>1, <1>2, <1>3, <1>9, <3>1
  <2>2. CASE epic[e].status # "closed"
    BY <1>9, <2>2, PromiseFinishes DEF Promise!DeliveryNext
  <2> QED
    BY <2>1, <2>2
<1>10. ASSUME StewardStep \/ StewardFails
      PROVE  [Promise!DeliveryNext]_(Promise!deliveryVars)
  <2>1. request' = request
    BY <1>10 DEF StewardStep, StewardFails, StewardKeeps, ListEpics, ReadChildren, CloseContext,
       CloseEpic, Recall, CreateContract, CloseContract
  <2>2. steward.at \in ClosingSteps => steward.epic \in Epics
    BY DEF Inv, StewardOK, Present
  <2>3. CASE epic' = epic
    BY <1>1, <1>2, <1>3, <2>1, <2>3
  <2>4. CASE CloseContext \/ CreateContract \/ CloseContract
    <3>1. steward.epic \in Epics /\ epic[steward.epic] \in EpicBeads
      BY <1>4, <2>2, <2>4 DEF CloseContext, CreateContract, CloseContract, ClosingSteps
    <3>2. \A f \in Epics : SameWork(f)
      BY <1>6, <2>4, <3>1 DEF CloseContext, CreateContract, CloseContract
    <3> QED
      BY <1>1, <1>2, <2>1, <3>2
  <2>5. CASE CloseEpic
    BY <1>9, <2>1, <2>2, <2>3, <2>5 DEF CloseEpic, ClosingSteps
  <2> QED
    BY <1>10, <2>3, <2>4, <2>5 DEF StewardStep, StewardFails, ListEpics, ReadChildren, Recall
<1>11. ASSUME OperatorStep \/ OperatorFails
             \/ (\E e \in Epics : AskCancel(e) \/ AddReference(e))
             \/ (\E r \in Requests : AskCancelRequest(r))
      PROVE  [Promise!DeliveryNext]_(Promise!deliveryVars)
  <2>1. operator.at \in CancelSteps => operator.on \in Epics
    BY OperatorParts
  <2>2. CASE CloseCanceledRequest
    BY <2>2, OperatorParts, PromiseAnswers
       DEF CloseCanceledRequest, OrderInv, Undecided, Promise!DeliveryNext
  <2>3. ASSUME NEW r \in Requests, AskCancelRequest(r)
        PROVE  [Promise!DeliveryNext]_(Promise!deliveryVars)
    <3>1. \A q \in Requests : request'[q].status = request[q].status
                              /\ request'[q].answers = request[q].answers
      BY <2>3 DEF AskCancelRequest, Inv, Shape, PlanRequests
    <3>2. SameRequests
      BY <3>1 DEF SameRequests, Outcome
    <3> QED
      BY <1>1, <1>3, <2>3, <3>2 DEF AskCancelRequest
  <2>4. CASE CloseCanceled
    <3>1. request' = request /\ operator.on \in Epics
      BY <2>1, <2>4 DEF CloseCanceled, OperatorKeeps, CancelSteps
    <3>2. CASE OpenChildren(operator.on) = {}
      BY <1>9, <2>4, <3>1, <3>2 DEF CloseCanceled
    <3>3. CASE OpenChildren(operator.on) # {}
      <4>1. epic' = epic
        BY <1>4, <2>4, <3>1, <3>3 DEF CloseCanceled, EpicBeads
      <4> QED
        BY <1>1, <1>2, <1>3, <3>1, <4>1
    <3> QED
      BY <3>2, <3>3
  <2>5. ASSUME CloseIncidents \/ LabelEpic
               \/ (\E e \in Epics : AddReference(e))
               \/ (\E child \in operator.pending : CloseChild(child))
        PROVE  [Promise!DeliveryNext]_(Promise!deliveryVars)
    <3>1. request' = request
      BY <2>5 DEF CloseIncidents, LabelEpic, AddReference, CloseChild, OperatorKeeps
    <3>2. CASE CloseIncidents \/ LabelEpic
      <4>1. operator.on \in Epics /\ epic[operator.on] \in EpicBeads
        BY <1>4, <2>1, <3>2 DEF CloseIncidents, LabelEpic, CancelSteps
      <4>2. \A f \in Epics : SameWork(f)
        BY <1>6, <3>2, <4>1 DEF CloseIncidents, LabelEpic
      <4> QED
        BY <1>1, <1>2, <3>1, <4>2
    <3>3. ASSUME NEW e \in Epics, AddReference(e) PROVE \A f \in Epics : SameWork(f)
      BY <1>4, <3>3 DEF AddReference, SameWork, EpicBeads
    <3>4. ASSUME NEW child \in operator.pending, CloseChild(child)
          PROVE  \A f \in Epics : SameWork(f)
      <4>1. operator.on \in Epics /\ child \in Children
        BY <2>1, <3>4, OperatorParts DEF CloseChild, CancelSteps, OperatorShape
      <4>2. epic[operator.on] \in EpicBeads
        BY <1>4, <4>1
      <4>3. /\ Closing(epic[operator.on], child).status = epic[operator.on].status
            /\ Closing(epic[operator.on], child).task = epic[operator.on].task
        BY <4>2 DEF Closing, EpicBeads
      <4>4. \A f \in Epics : epic'[f].status = epic[f].status /\ epic'[f].task = epic[f].task
        BY <1>4, <3>4, <4>1, <4>3 DEF CloseChild
      <4> QED
        BY <4>4 DEF SameWork
    <3> QED
      BY <1>1, <1>2, <2>5, <3>1, <3>2, <3>3, <3>4
  <2>6. ASSUME NEW t \in PlanTasks, CancelTask(t)
        PROVE  [Promise!DeliveryNext]_(Promise!deliveryVars)
    <3>1. request' = request /\ operator.on \in Epics
      BY <2>1, <2>6 DEF CancelTask, OperatorKeeps, CancelSteps
    <3>2. CASE epic[operator.on].task[t] = "landed"
      BY <1>1, <1>2, <1>3, <2>6, <3>1, <3>2 DEF CancelTask
    <3>3. CASE epic[operator.on].task[t] # "landed"
      <4> DEFINE y == [epic[operator.on] EXCEPT !.task[t] = "canceled"]
      <4>1. epic[operator.on] \in EpicBeads
        BY <1>4, <3>1
      <4>2. /\ epic' = [epic EXCEPT ![operator.on] = y] /\ y.status = epic[operator.on].status
            /\ \A u \in PlanTasks :
                   y.task[u] = "landed" <=> epic[operator.on].task[u] = "landed"
        BY <2>6, <3>3, <4>1 DEF CancelTask, EpicBeads
      <4> HIDE DEF y
      <4> QED
        BY <1>1, <1>2, <1>5, <3>1, <4>2
    <3> QED
      BY <3>2, <3>3
  <2>7. CASE epic' = epic /\ request' = request
    BY <1>1, <1>2, <1>3, <2>7
  <2> QED
    BY <1>11, <2>2, <2>3, <2>4, <2>5, <2>6, <2>7
       DEF OperatorStep, OperatorFails, OperatorKeeps, AskCancel, ListUnfinished, ListChildren,
           EndPass
<1>12. ASSUME \/ CreateReference \/ CloseReference \/ CreateVerify \/ CreateTask \/ AddNeed
              \/ Undefer \/ SetVerify \/ GateVerify
       PROVE  [Promise!DeliveryNext]_(Promise!deliveryVars)
  <2>1. /\ request' = request /\ Calm(epic[planner.epic]) /\ Calm(epic'[planner.epic])
        /\ \A f \in Epics \ {planner.epic} : epic'[f] = epic[f]
    BY <1>12, WritingStaysCalm
  <2>2. SameWork(planner.epic)
    BY <2>1 DEF SameWork, Calm
  <2> QED
    BY <1>1, <1>2, <1>3, <2>1, <2>2
<1>13. ASSUME CreateEpic
       PROVE  [Promise!DeliveryNext]_(Promise!deliveryVars)
  <2>1. PICK e \in Epics : epic[e] = NoEpic /\ epic' = [epic EXCEPT ![e].status = "open"]
    BY <1>13, CreateEpicTakes
  <2>2. \A f \in Epics : SameWork(f)
    BY <1>4, <2>1 DEF SameWork, NoEpic, EpicBeads
  <2> QED
    BY <1>1, <1>2, <1>13, <2>2 DEF CreateEpic
<1>14. ASSUME \/ \E r \in Requests : TakeRequest(r)
              \/ ProviderRefuses \/ DraftFails \/ Draft \/ PlanningFails \/ PlannerDies
              \/ NoteAnswer \/ CloseRequest
       PROVE  [Promise!DeliveryNext]_(Promise!deliveryVars)
  <2>1. epic' = epic
    BY <1>14 DEF TakeRequest, ProviderRefuses, DraftFails, Draft, PlanningFails, PlannerDies,
       NoteAnswer, CloseRequest
  <2>2. CASE CloseRequest
    BY <2>2, PlannerParts, PromiseAnswers
       DEF CloseRequest, OrderInv, Undecided, Promise!DeliveryNext
  <2>3. CASE NoteAnswer
    <3>1. request[planner.request].status = "open" /\ planner.request \in Requests
      BY <2>3, PlannerParts DEF NoteAnswer, OrderInv, Undecided
    <3>2. /\ \A q \in Requests : request'[q].status = request[q].status
          /\ \A q \in Requests \ {planner.request} : request'[q] = request[q]
      BY <2>3, <3>1 DEF NoteAnswer, Inv, Shape, PlanRequests
    <3>3. SameRequests
      BY <3>1, <3>2 DEF SameRequests, Outcome
    <3> QED
      BY <1>1, <1>3, <2>1, <3>3
  <2>4. CASE request' = request
    BY <1>1, <1>2, <1>3, <2>1, <2>4
  <2> QED
    BY <1>14, <2>2, <2>3, <2>4
       DEF TakeRequest, ProviderRefuses, DraftFails, Draft, PlanningFails, PlannerDies
<1> QED
  BY <1>7, <1>8, <1>10, <1>11, <1>12, <1>13, <1>14 DEF EpicsNext, PlannerStep

\* The beads of a rig keep Delivery's promise: a request is answered once, an epic's tasks land
\* in the order of their needs although they are written one by one while workers take them,
\* nothing lands under an epic that is over, and none is reopened.
THEOREM DeliveryKept ==
    ASSUME EpicsAssumption, Overlap = FALSE
    PROVE  EpicsSpec => ImplementsDelivery
<1>1. EpicsInit => Promise!DeliveryInit
  <2> SUFFICES ASSUME EpicsInit PROVE Promise!DeliveryInit
    OBVIOUS
  <2>1. AnswerOf = [r \in Requests |-> [given |-> FALSE, epic |-> Failed]]
    BY DEF EpicsInit, AnswerOf, PlanRequest
  <2>2. DoneOf = [e \in Epics |-> {}] /\ OverOf = {}
    BY DEF EpicsInit, DoneOf, OverOf, NoEpic
  <2> QED
    BY <2>1, <2>2 DEF Promise!DeliveryInit, Promise!Waiting, Promise!None, AnswerOf, DoneOf,
       OverOf, Failed
<1>2. Inv /\ OrderInv /\ [EpicsNext]_epicsVars => [Promise!DeliveryNext]_(Promise!deliveryVars)
  BY PromiseStep
<1> QED
  BY <1>1, <1>2, OrderHolds, PTL DEF EpicsSpec, ImplementsDelivery, Promise!DeliverySpec

-----------------------------------------------------------------------------
(* What an epic that reads as completed shows, when a cancel is carried    *)
(* through once it has begun to close.                                     *)

\* The last steps of a cancel, where an epic may look complete for a while.
ClosingPass == {"pass", "incidents", "label"}

\* Nothing of an epic being written is closed yet.
LEMMA CalmIsOpen ==
    ASSUME NEW x, Calm(x), EpicOK(x)
    PROVE  Undone(x) \/ Done(x)
BY DEF Calm, EpicOK, Undone, Done

LEMMA TasksKeepCarry ==
    ASSUME EpicsAssumption, Inv, OrderInv, CarryInv, NEW e \in Epics, NEW t \in PlanTasks,
           TaskStep(e, t) \/ ResolveIncident(e, t)
    PROVE  CarryInv'
<1> SUFFICES ASSUME NEW x, x = epic[e] PROVE CarryInv'
  OBVIOUS
<1>0. UNCHANGED <<request, planner, steward, operator, acts, faults>>
  BY DEF TaskStep, TakeTask, LandTask, EscalateTask, ResolveIncident, MovesTask
<1>1. InOrder(x) /\ EpicOK(x) /\ x \in EpicBeads
      /\ x.bead \in [PlanTasks -> Beads] /\ x.task \in [PlanTasks -> TaskStates]
  BY OrderParts
<1>2. \/ operator.at \in ClosingPass /\ operator.on = e
      \/ x.canceled \/ Undone(x) \/ Done(x)
  BY DEF CarryInv, ClosingPass
<1>3. \E y \in EpicBeads :
          /\ epic' = [epic EXCEPT ![e] = y]
          /\ y.canceled = x.canceled
          /\ Undone(x) \/ Done(x) => Undone(y) \/ Done(y)
          /\ (\A u \in PlanTasks : x.task[u] \notin Unfinished) /\ Undone(x) => Undone(y)
  <2>1. CASE TakeTask(e, t)
    <3> DEFINE y == [x EXCEPT !.task[t] = "working"]
    <3>1. y \in EpicBeads /\ y.bead = x.bead /\ y.canceled = x.canceled
          /\ x.bead[t] = "open" /\ epic' = [epic EXCEPT ![e] = y]
      BY <1>1, <2>1 DEF TakeTask, MovesTask, EpicBeads, TaskStates
    <3> HIDE DEF y
    <3> QED
      BY <3>1 DEF Undone
  <2>2. CASE LandTask(e, t)
    <3> DEFINE y == [x EXCEPT !.task[t] = "landed", !.bead[t] = "closed", !.verify[t] = "closed"]
    <3>1. /\ y \in EpicBeads /\ y.bead = [x.bead EXCEPT ![t] = "closed"]
          /\ y.task = [x.task EXCEPT ![t] = "landed"] /\ y.canceled = x.canceled
      <4>1. x \in EpicBeads
        BY <1>1
      <4> QED
        BY <4>1, LandFields
    <3>2. x.task[t] = "working" /\ epic' = [epic EXCEPT ![e] = y]
      BY <2>2 DEF LandTask, MovesTask
    <3> HIDE DEF y
    <3>3. \A u \in PlanTasks : /\ y.task[u] = IF u = t THEN "landed" ELSE x.task[u]
                               /\ y.bead[u] = IF u = t THEN "closed" ELSE x.bead[u]
      BY <1>1, <3>1
    <3>4. ASSUME ~Undone(y), NEW u \in PlanTasks, u # t
          PROVE  x.task[u] \in {"absent", "landed"}
      <4>1. x.bead[u] \in {"absent", "closed"}
        BY <1>1, <3>3, <3>4 DEF Undone, Beads
      <4>2. CASE x.bead[u] = "absent"
        BY <1>1, <4>2 DEF EpicOK
      <4>3. CASE x.bead[u] = "closed"
        <5>1. x.task[u] # "canceled"
          BY <1>1, <3>2, <4>3 DEF InOrder, Unfinished
        <5> QED
          BY <1>1, <4>3, <5>1 DEF InOrder
      <4> QED
        BY <4>1, <4>2, <4>3
    <3>5. Undone(y) \/ Done(y)
      BY <3>3, <3>4 DEF Done
    <3>6. x.task[t] \in Unfinished
      BY <3>2 DEF Unfinished
    <3> QED
      BY <3>1, <3>2, <3>5, <3>6
  <2>3. CASE EscalateTask(e, t)
    <3> DEFINE y == [x EXCEPT !.task[t] = "incident", !.filed = @ \cup {t}]
    <3>1. y \in EpicBeads /\ y.bead = x.bead /\ y.canceled = x.canceled
          /\ x.task[t] = "working" /\ epic' = [epic EXCEPT ![e] = y]
      BY <1>1, <2>3 DEF EscalateTask, MovesTask, EpicBeads, TaskStates
    <3>2. x.bead[t] = "open"
      BY <3>1, WorkingIsOpen
    <3> HIDE DEF y
    <3> QED
      BY <3>1, <3>2 DEF Undone
  <2>4. CASE ResolveIncident(e, t)
    <3> DEFINE s == IF x.task[t] = "incident" THEN "open" ELSE x.task[t]
               y == [x EXCEPT !.filed = @ \ {t}, !.task[t] = s]
    <3>1. /\ y \in EpicBeads /\ y.bead = x.bead /\ y.canceled = x.canceled
          /\ \A u \in PlanTasks : y.task[u] = IF u = t THEN s ELSE x.task[u]
      BY <1>1 DEF EpicBeads, TaskStates
    <3>2. epic' = [epic EXCEPT ![e] = y]
      BY <1>1, <2>4 DEF ResolveIncident, MovesTask
    <3> HIDE DEF y
    <3>3. Undone(x) => Undone(y)
      BY <3>1 DEF Undone
    <3>4. Done(x) => Done(y)
      BY <3>1 DEF Done
    <3> QED
      BY <3>1, <3>2, <3>3, <3>4
  <2> QED
    BY <2>1, <2>2, <2>3, <2>4 DEF TaskStep
<1>4. PICK y \in EpicBeads :
          /\ epic' = [epic EXCEPT ![e] = y]
          /\ y.canceled = x.canceled
          /\ Undone(x) \/ Done(x) => Undone(y) \/ Done(y)
          /\ (\A u \in PlanTasks : x.task[u] \notin Unfinished) /\ Undone(x) => Undone(y)
  BY <1>3
<1>5. epic'[e] = y /\ \A f \in Epics \ {e} : epic'[f] = epic[f]
  BY <1>4 DEF Inv, Shape
<1>6. \A f \in Epics :
          \/ operator'.at \in ClosingPass /\ operator'.on = f
          \/ epic'[f].canceled \/ Undone(epic'[f]) \/ Done(epic'[f])
  BY <1>0, <1>2, <1>4, <1>5 DEF CarryInv, ClosingPass
<1>7. operator.at \in CancelSteps => operator.on \in Epics
  BY OperatorParts
<1>8. operator'.at = "close_epic" => epic'[operator'.on].canceled
  BY <1>0, <1>4, <1>5, <1>7 DEF CarryInv, CancelSteps
<1>9. operator'.at = "pass" /\ operator'.blocked # {} /\ ~operator'.some =>
          Undone(epic'[operator'.on])
  <2> SUFFICES ASSUME operator.at = "pass", operator.blocked # {}, ~operator.some
               PROVE  Undone(epic'[operator.on])
    BY <1>0
  <2>1. Undone(epic[operator.on]) /\ operator.on \in Epics
    BY <1>7 DEF CarryInv, CancelSteps
  <2>2. \A u \in PlanTasks : epic[operator.on].task[u] \notin Unfinished
    BY DEF OrderInv, CancelOK
  <2> QED
    BY <1>4, <1>5, <2>1, <2>2
<1> QED
  BY <1>6, <1>8, <1>9 DEF CarryInv, ClosingPass


\* The steward changes neither the tasks of an epic nor its label.
LEMMA StewardKeepsCarry ==
    ASSUME EpicsAssumption, Inv, CarryInv, StewardStep \/ StewardFails
    PROVE  CarryInv'
<1> SUFFICES ASSUME NEW e, e = steward.epic PROVE CarryInv'
  OBVIOUS
<1>0. UNCHANGED operator
  BY DEF StewardStep, StewardFails, StewardKeeps, ListEpics, ReadChildren, CloseContext,
     CloseEpic, Recall, CreateContract, CloseContract
<1>1. steward.at \in ClosingSteps => e \in Epics /\ epic[e] \in EpicBeads
  BY InvParts DEF Inv, StewardOK, Present
<1>2. \/ epic' = epic
      \/ /\ \A f \in Epics \ {e} : epic'[f] = epic[f]
         /\ epic'[e].bead = epic[e].bead /\ epic'[e].task = epic[e].task
         /\ epic'[e].canceled = epic[e].canceled
  <2>1. CASE CloseContext \/ CreateContract \/ CloseContract
    <3>1. steward.at \in ClosingSteps
      BY <2>1 DEF CloseContext, CreateContract, CloseContract, ClosingSteps
    <3> QED
      BY <2>1, <1>1, <3>1 DEF CloseContext, CreateContract, CloseContract, EpicBeads, Inv, Shape
  <2>2. CASE CloseEpic
    <3>1. steward.at \in ClosingSteps
      BY <2>2 DEF CloseEpic, ClosingSteps
    <3>2. epic' = epic \/ epic' = [epic EXCEPT ![e].status = "closed"]
      BY <2>2 DEF CloseEpic
    <3> QED
      BY <1>1, <3>1, <3>2 DEF EpicBeads, Inv, Shape
  <2> QED
    BY <2>1, <2>2 DEF StewardStep, StewardFails, ListEpics, ReadChildren, Recall
<1>3. \A f \in Epics : /\ epic'[f].bead = epic[f].bead /\ epic'[f].task = epic[f].task
                       /\ epic'[f].canceled = epic[f].canceled
  BY <1>2
<1>4. operator.at \in CancelSteps => operator.on \in Epics
  BY OperatorParts DEF Inv
<1> QED
  BY <1>0, <1>3, <1>4 DEF CarryInv, Undone, Done, CancelSteps

\* The planner's steps: an epic being written has nothing closed, and a new one nothing at all.
LEMMA PlannerKeepsCarry ==
    ASSUME EpicsAssumption, Inv, Inv', OrderInv, CarryInv,
           PlannerStep \/ PlanningFails \/ PlannerDies
    PROVE  CarryInv'
<1> SUFFICES ASSUME NEW e, e = planner.epic PROVE CarryInv'
  OBVIOUS
<1>0. operator.at \in CancelSteps => operator.on \in Epics /\ Present(operator.on)
  BY OperatorParts DEF Present
<1>1. CASE \/ CreateReference \/ CloseReference \/ CreateVerify \/ CreateTask \/ AddNeed
           \/ Undefer \/ SetVerify \/ GateVerify
  <2>1. /\ e \in Epics /\ Alone(e) /\ Calm(epic'[e])
        /\ UNCHANGED operator
        /\ \A f \in Epics \ {e} : epic'[f] = epic[f]
    BY <1>1, WritingStaysCalm
  <2>2. EpicOK(epic'[e])
    BY <2>1 DEF Inv
  <2>3. Undone(epic'[e]) \/ Done(epic'[e])
    BY <2>1, <2>2, CalmIsOpen
  <2>4. operator.at \in CancelSteps => operator.on \in Epics \ {e}
    BY <1>0, <2>1 DEF Alone
  <2> QED
    BY <2>1, <2>3, <2>4 DEF CarryInv, CancelSteps
<1>2. CASE CreateEpic
  <2>1. PICK c \in {0} \cup Epics :
            /\ c + 1 \in Epics /\ epic[c + 1] = NoEpic
            /\ epic' = [epic EXCEPT ![c + 1].status = "open"]
    BY <1>2, CreateEpicTakes
  <2> DEFINE n == c + 1
             y == [NoEpic EXCEPT !.status = "open"]
  <2>2. Done(y) /\ UNCHANGED operator
    BY <1>2 DEF CreateEpic, NoEpic, Done
  <2> HIDE DEF n, y
  <2>3. epic'[n] = y /\ (\A f \in Epics \ {n} : epic'[f] = epic[f]) /\ n \in Epics /\ ~Present(n)
    BY <2>1 DEF Inv, Shape, Present, NoEpic, n, y
  <2>4. operator.at \in CancelSteps => operator.on \in Epics \ {n}
    BY <1>0, <2>3
  <2> QED
    BY <2>2, <2>3, <2>4 DEF CarryInv, CancelSteps
<1>3. CASE UNCHANGED <<epic, operator>>
  BY <1>3 DEF CarryInv
<1> QED
  BY <1>1, <1>2, <1>3
     DEF PlannerStep, TakeRequest, ProviderRefuses, DraftFails, Draft, PlanningFails, PlannerDies,
         NoteAnswer, CloseRequest


\* A child that cannot be closed waits for a task that is still open.
LEMMA RefusedIsUndone ==
    ASSUME EpicsAssumption, Inv, NEW e \in Epics, NEW child \in Children,
           ~Closable(e, child[1], child[2])
    PROVE  Undone(epic[e])
<1>1. /\ EpicOK(epic[e])
      /\ \A t \in PlanTasks : epic[e].bead[t] \in Beads /\ Needs[t] \subseteq PlanTasks
  BY InvParts DEF EpicsAssumption, EpicBeads
<1>2. CASE child[1] = "task"
  <2>1. PICK n \in epic[e].edges[child[2]] : epic[e].bead[n] # "closed"
    BY <1>2 DEF Closable
  <2>2. child[2] \in PlanTasks
    BY <1>2 DEF Children
  <2>3. n \in PlanTasks /\ epic[e].bead[n] # "absent"
    BY <1>1, <2>1, <2>2 DEF EpicOK
  <2> QED
    BY <1>1, <2>1, <2>3 DEF Undone, Beads
<1>3. CASE child[1] = "verify"
  <2>1. child[2] \in epic[e].gated /\ epic[e].bead[child[2]] # "closed"
    BY <1>3 DEF Closable
  <2>2. child[2] \in PlanTasks
    BY <1>3 DEF Children
  <2> QED
    BY <1>1, <2>1, <2>2 DEF Undone, Beads, EpicOK
<1>4. CASE child[1] = "reference"
  BY <1>4 DEF Closable
<1> QED
  BY <1>2, <1>3, <1>4 DEF Children

\* What the operator's steps make of the epics they are not closing.
LEMMA OperatorsCarry ==
    ASSUME EpicsAssumption, Inv, OrderInv,
           OperatorStep \/ OperatorFails
           \/ (\E e \in Epics : AskCancel(e) \/ AddReference(e))
           \/ (\E r \in Requests : AskCancelRequest(r)),
           NEW f \in Epics
    PROVE  \/ operator.at = "pass" /\ operator.on = f
           \/ /\ epic'[f].canceled = epic[f].canceled \/ epic'[f].canceled
              /\ Undone(epic[f]) => Undone(epic'[f])
              /\ Done(epic[f]) => Undone(epic'[f]) \/ Done(epic'[f])
<1> SUFFICES ASSUME NEW e, e = operator.on, NEW x, x = epic[f], NEW y, y = epic'[f],
                    ~(operator.at = "pass" /\ e = f)
             PROVE  /\ y.canceled = x.canceled \/ y.canceled
                    /\ Undone(x) => Undone(y)
                    /\ Done(x) => Undone(y) \/ Done(y)
  OBVIOUS
<1>1. /\ InOrder(x) /\ EpicOK(x) /\ x \in EpicBeads
      /\ operator.at \in CancelSteps => e \in Epics
      /\ epic \in [Epics -> EpicBeads]
  BY OperatorParts, OrderParts DEF Inv, Shape
<1>2. CASE y.bead = x.bead /\ y.task = x.task /\ (y.canceled = x.canceled \/ y.canceled)
  BY <1>2 DEF Undone, Done
<1>3. ASSUME NEW t \in PlanTasks, CancelTask(t), y # x
      PROVE  /\ y.canceled = x.canceled
             /\ y.bead = x.bead /\ (y.task = x.task \/ Undone(x))
  <2>1. /\ operator.at = "cancel" /\ e = f /\ x.task[t] # "landed" /\ t \in operator.tasks
        /\ y = [x EXCEPT !.task[t] = "canceled"]
    BY <1>1, <1>3 DEF CancelTask, CancelSteps
  <2>2. /\ y.bead = x.bead /\ y.canceled = x.canceled
        /\ y.task = [x.task EXCEPT ![t] = "canceled"]
        /\ x.task \in [PlanTasks -> TaskStates] /\ x.bead[t] \in Beads
    BY <1>1, <2>1 DEF EpicBeads
  <2>3. x.bead[t] # "absent"
    <3>1. x.task[t] # "absent"
      BY <2>1 DEF Inv, OperatorOK
    <3> QED
      BY <1>1, <3>1 DEF EpicOK
  <2>4. CASE x.bead[t] = "open"
    BY <2>2, <2>4 DEF Undone
  <2>5. CASE x.bead[t] = "closed"
    <3>1. x.task[t] = "canceled"
      BY <1>1, <2>1, <2>5 DEF InOrder
    <3> QED
      BY <2>2, <3>1
  <2> QED
    BY <2>2, <2>3, <2>4, <2>5 DEF Beads
<1>4. ASSUME CloseIncidents \/ LabelEpic \/ CloseCanceled \/ (\E g \in Epics : AddReference(g))
      PROVE  y.bead = x.bead /\ y.task = x.task /\ (y.canceled = x.canceled \/ y.canceled)
  <2>1. CASE CloseIncidents
    BY <1>1, <2>1 DEF CloseIncidents, CancelSteps, EpicBeads
  <2>2. CASE LabelEpic
    BY <1>1, <2>2 DEF LabelEpic, CancelSteps, EpicBeads
  <2>3. CASE CloseCanceled
    BY <1>1, <2>3 DEF CloseCanceled, CancelSteps, EpicBeads
  <2>4. ASSUME NEW g \in Epics, AddReference(g)
        PROVE  y.bead = x.bead /\ y.task = x.task /\ y.canceled = x.canceled
    BY <1>1, <2>4 DEF AddReference, EpicBeads
  <2> QED
    BY <1>4, <2>1, <2>2, <2>3, <2>4
<1>5. ASSUME NEW child \in operator.pending, CloseChild(child) PROVE y = x
  <2>1. operator.at = "pass" /\ e # f
    BY <1>5 DEF CloseChild
  <2> QED
    BY <1>1, <1>5, <2>1 DEF CloseChild, CancelSteps
<1> QED
  <2>1. CASE epic' = epic
    BY <2>1
  <2>2. CASE CloseIncidents \/ LabelEpic \/ CloseCanceled \/ \E g \in Epics : AddReference(g)
    BY <1>2, <1>4, <2>2
  <2>3. CASE \E t \in PlanTasks : CancelTask(t)
    <3>1. y # x => /\ y.canceled = x.canceled /\ y.bead = x.bead
                   /\ y.task = x.task \/ Undone(x)
      BY <1>3, <2>3
    <3> QED
      BY <3>1 DEF Undone, Done
  <2>4. CASE \E child \in operator.pending : CloseChild(child)
    BY <1>5, <2>4
  <2> QED
    BY <2>1, <2>2, <2>3, <2>4
       DEF OperatorStep, OperatorFails, AskCancel, ListUnfinished, ListChildren, EndPass,
           CloseCanceledRequest, AskCancelRequest


\* What holds while a pass closes children: what it refused waits for something still open.
LEMMA PassKeepsCarry ==
    ASSUME EpicsAssumption, Inv, OrderInv, CarryInv,
           \/ \E child \in operator.pending : CloseChild(child)
           \/ EndPass
    PROVE  /\ operator'.at = "pass" /\ operator'.blocked # {} /\ ~operator'.some =>
                  Undone(epic'[operator'.on])
           /\ \/ operator'.at \in ClosingPass /\ operator'.on = operator.on
              \/ Undone(epic'[operator.on])
           /\ operator'.at # "close_epic"
<1> SUFFICES ASSUME NEW e, e = operator.on
             PROVE  /\ operator'.at = "pass" /\ operator'.blocked # {} /\ ~operator'.some =>
                           Undone(epic'[operator'.on])
                    /\ \/ operator'.at \in ClosingPass /\ operator'.on = e
                       \/ Undone(epic'[e])
                    /\ operator'.at # "close_epic"
  OBVIOUS
<1>1. /\ operator.at = "pass" /\ e \in Epics /\ operator.pending \subseteq Children
      /\ OperatorShape(operator)
  BY OperatorParts DEF CloseChild, EndPass, CancelSteps, OperatorShape
<1>2. ASSUME NEW child \in operator.pending, CloseChild(child),
             Closable(e, child[1], child[2])
      PROVE  operator'.at = "pass" /\ operator'.on = e /\ operator'.some = TRUE
  BY <1>1, <1>2 DEF CloseChild, OperatorShape
<1>3. ASSUME NEW child \in operator.pending, CloseChild(child),
             ~Closable(e, child[1], child[2])
      PROVE  operator'.at = "pass" /\ operator'.on = e /\ Undone(epic'[e])
  <2>1. epic' = epic /\ operator'.at = "pass" /\ operator'.on = e
    BY <1>1, <1>3 DEF CloseChild, OperatorShape
  <2>2. Undone(epic[e])
    BY <1>1, <1>3, RefusedIsUndone
  <2> QED
    BY <2>1, <2>2
<1>4. CASE EndPass
  <2>1. epic' = epic
    BY <1>4 DEF EndPass
  <2>2. CASE operator.blocked = {}
    <3>1. operator'.at = "incidents" /\ operator'.on = e
      BY <1>1, <1>4, <2>2 DEF EndPass, OperatorGoes, OperatorShape
    <3> QED
      BY <3>1 DEF ClosingPass
  <2>3. CASE operator.blocked # {} /\ operator.some
    <3>1. operator'.at = "pass" /\ operator'.on = e /\ operator'.blocked = {}
      BY <1>1, <1>4, <2>3 DEF EndPass, OperatorShape
    <3> QED
      BY <3>1 DEF ClosingPass
  <2>4. CASE operator.blocked # {} /\ ~operator.some
    <3>1. operator'.at = "idle" /\ Undone(epic[e])
      BY <1>1, <1>4, <2>4 DEF EndPass, IdleOperator, CarryInv
    <3> QED
      BY <2>1, <3>1
  <2> QED
    BY <2>2, <2>3, <2>4
<1> QED
  BY <1>2, <1>3, <1>4 DEF ClosingPass

LEMMA OperatorKeepsCarry ==
    ASSUME EpicsAssumption, FailAt \cap ClosingPass = {}, Inv, OrderInv, CarryInv,
           OperatorStep \/ OperatorFails
           \/ (\E e \in Epics : AskCancel(e) \/ AddReference(e))
           \/ (\E r \in Requests : AskCancelRequest(r))
    PROVE  CarryInv'
<1> SUFFICES ASSUME NEW e, e = operator.on PROVE CarryInv'
  OBVIOUS
<1>1. \A f \in Epics :
          \/ operator.at = "pass" /\ e = f
          \/ /\ epic'[f].canceled = epic[f].canceled \/ epic'[f].canceled
             /\ Undone(epic[f]) => Undone(epic'[f])
             /\ Done(epic[f]) => Undone(epic'[f]) \/ Done(epic'[f])
  BY OperatorsCarry
<1>2. /\ OperatorShape(operator) /\ IdleOperator.at = "idle"
      /\ operator.at \in CancelSteps => e \in Epics
      /\ epic \in [Epics -> EpicBeads]
  BY OperatorParts DEF IdleOperator, Inv, Shape
<1>3. \A f \in Epics :
          \/ operator.at \in ClosingPass /\ e = f
          \/ epic[f].canceled \/ Undone(epic[f]) \/ Done(epic[f])
  BY DEF CarryInv, ClosingPass
<1>4. ASSUME \A f \in Epics : operator.at \in ClosingPass /\ e = f =>
                 \/ operator'.at \in ClosingPass /\ operator'.on = e
                 \/ epic'[e].canceled \/ Undone(epic'[e]),
             operator'.at # "close_epic" \/ epic'[operator'.on].canceled,
             operator'.at = "pass" /\ operator'.blocked # {} /\ ~operator'.some =>
                 Undone(epic'[operator'.on])
      PROVE  CarryInv'
  <2>1. ASSUME NEW f \in Epics
        PROVE  \/ operator'.at \in ClosingPass /\ operator'.on = f
               \/ epic'[f].canceled \/ Undone(epic'[f]) \/ Done(epic'[f])
    <3>1. CASE operator.at \in ClosingPass /\ e = f
      BY <1>4, <3>1
    <3>2. CASE ~(operator.at \in ClosingPass /\ e = f)
      <4>1. ~(operator.at = "pass" /\ e = f)
        BY <3>2 DEF ClosingPass
      <4>2. CASE epic[f].canceled
        BY <1>1, <4>1, <4>2
      <4>3. CASE Undone(epic[f]) \/ Done(epic[f])
        BY <1>1, <4>1, <4>3
      <4> QED
        BY <1>3, <3>2, <4>2, <4>3
    <3> QED
      BY <3>1, <3>2
  <2> QED
    BY <1>4, <2>1 DEF CarryInv, ClosingPass
<1>5. CASE EndPass \/ \E child \in operator.pending : CloseChild(child)
  <2>1. /\ operator'.at = "pass" /\ operator'.blocked # {} /\ ~operator'.some =>
               Undone(epic'[operator'.on])
        /\ \/ operator'.at \in ClosingPass /\ operator'.on = e
           \/ Undone(epic'[e])
        /\ operator'.at # "close_epic"
    BY <1>5, PassKeepsCarry
  <2> QED
    BY <1>4, <2>1
<1>6. CASE CloseIncidents
  <2>1. operator'.at = "label" /\ operator'.on = e
    BY <1>2, <1>6 DEF CloseIncidents, OperatorGoes, OperatorShape
  <2> QED
    BY <1>4, <2>1 DEF ClosingPass
<1>7. CASE LabelEpic
  <2>1. operator'.at = "close_epic" /\ operator'.on = e /\ e \in Epics
    BY <1>2, <1>7 DEF LabelEpic, OperatorGoes, OperatorShape, CancelSteps
  <2>2. epic'[e].canceled
    BY <1>2, <1>7, <2>1 DEF LabelEpic, EpicBeads
  <2> QED
    BY <1>4, <2>1, <2>2
<1>8. CASE OperatorFails
  <2>1. operator.at \notin ClosingPass /\ operator' = IdleOperator
    BY <1>8 DEF OperatorFails
  <2> QED
    BY <1>2, <1>4, <2>1
<1>9. CASE ListUnfinished \/ ListChildren \/ (\E t \in PlanTasks : CancelTask(t))
  <2>1. operator.at \in {"list", "children", "cancel"}
    BY <1>9 DEF ListUnfinished, ListChildren, CancelTask
  <2>2. operator'.at \in {"idle", "children", "cancel", "pass"}
    BY <1>2, <1>9 DEF ListUnfinished, ListChildren, CancelTask, OperatorShape
  <2>3. operator'.at = "pass" => operator'.blocked = {}
    <3>1. operator.blocked = {}
      BY <2>1 DEF Inv, OperatorOK
    <3> QED
      BY <1>2, <1>9, <3>1 DEF ListUnfinished, ListChildren, CancelTask, OperatorShape
  <2> QED
    BY <1>4, <2>1, <2>2, <2>3 DEF ClosingPass
<1>10. CASE CloseCanceled \/ CloseCanceledRequest
            \/ (\E f \in Epics : AskCancel(f)) \/ (\E r \in Requests : AskCancelRequest(r))
  <2>1. operator.at \notin ClosingPass
    BY <1>10 DEF CloseCanceled, CloseCanceledRequest, AskCancel, AskCancelRequest, ClosingPass
  <2>2. operator'.at \in {"idle", "list", "close_request"}
    <3>1. ASSUME NEW f \in Epics, AskCancel(f) PROVE operator'.at = "list"
      BY <3>1 DEF AskCancel, IdleOperator
    <3>2. ASSUME NEW r \in Requests, AskCancelRequest(r) PROVE operator'.at = "close_request"
      BY <3>2 DEF AskCancelRequest, IdleOperator
    <3> QED
      BY <1>2, <1>10, <3>1, <3>2 DEF CloseCanceled, CloseCanceledRequest
  <2>3. operator'.at \notin {"pass", "close_epic"}
    BY <2>2
  <2> QED
    BY <1>4, <2>1, <2>3
<1>11. ASSUME NEW f \in Epics, AddReference(f) PROVE CarryInv'
  <2>1. operator.at = "idle" /\ operator' = operator
    BY <1>11 DEF AddReference
  <2> QED
    BY <1>4, <2>1 DEF ClosingPass
<1> QED
  BY <1>5, <1>6, <1>7, <1>8, <1>9, <1>10, <1>11 DEF OperatorStep

LEMMA CarryInit ==
    ASSUME EpicsInit
    PROVE  CarryInv
BY DEF EpicsInit, CarryInv, Done, NoEpic, IdleOperator

LEMMA CarryStep ==
    ASSUME EpicsAssumption, FailAt \cap ClosingPass = {},
           Inv, Inv', OrderInv, CarryInv, [EpicsNext]_epicsVars
    PROVE  CarryInv'
<1>1. CASE UNCHANGED epicsVars
  BY <1>1 DEF epicsVars, CarryInv
<1>2. CASE EpicsNext
  BY <1>2, TasksKeepCarry, StewardKeepsCarry, OperatorKeepsCarry, PlannerKeepsCarry DEF EpicsNext
<1> QED
  BY <1>1, <1>2

\* A closed epic without the label, and with no cancel of it going on, is one whose tasks all
\* landed, though the steward may close it in the middle of a cancel: no step of a cancel
\* leaves an epic that looks complete unlabelled, if it is not broken off between its first
\* closed child and the label.
THEOREM CompletedIsLanded ==
    ASSUME EpicsAssumption, Overlap = FALSE, FailAt \cap ClosingPass = {}
    PROVE  EpicsSpec => []CompletedMeansLanded
<1>1. EpicsInit => Inv /\ OrderInv /\ CarryInv
  BY InvInit, OrderInit, CarryInit
<1>2. Inv /\ OrderInv /\ CarryInv /\ [EpicsNext]_epicsVars => (Inv /\ OrderInv /\ CarryInv)'
  BY InvStep, OrderStep, CarryStep
<1>3. Inv /\ OrderInv /\ CarryInv => CompletedMeansLanded
  <2> SUFFICES ASSUME Inv, OrderInv, CarryInv, NEW e \in Epics, epic[e].status = "closed",
                      ~epic[e].canceled, operator.on # e
               PROVE  Done(epic[e])
    BY DEF CompletedMeansLanded, Done
  <2>1. ~Undone(epic[e])
    BY DEF OrderInv, InOrder, Undone
  <2> QED
    BY <2>1 DEF CarryInv
<1> QED
  BY <1>1, <1>2, <1>3, PTL DEF EpicsSpec
=============================================================================
