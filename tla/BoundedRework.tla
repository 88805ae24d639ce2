----------------------------- MODULE BoundedRework -----------------------------
(***************************************************************************)
(* What a task's lifecycle promises to the rest of the factory, with no    *)
(* leases, clocks, events or counters: work on a task is repeated a        *)
(* bounded number of times before a person sees it.  `tries` and `lives`   *)
(* are what is left before the task is parked, and only an operator who    *)
(* revives a parked task refills them (ARCHITECTURE.md principle 6:        *)
(* exceeding a budget is a state transition, not an infinite loop).        *)
(***************************************************************************)
EXTENDS Integers

CONSTANTS
    Tries,  \* failed submissions a task may cost
    Lives   \* lost workers a task may cost

VARIABLES phase, tries, lives

vars == <<phase, tries, lives>>

Active == {"ready", "working", "reviewing"}
Phases == Active \cup {"parked", "done", "stopped"}

Init == phase = "ready" /\ tries = Tries /\ lives = Lives

Move(from, to) == phase \in from /\ phase' = to

Take == Move({"ready"}, "working") /\ UNCHANGED <<tries, lives>>

\* The worker hands the task back and nobody is charged.
GiveBack == Move({"working"}, "ready") /\ UNCHANGED <<tries, lives>>

Deliver == Move({"working"}, "reviewing") /\ UNCHANGED <<tries, lives>>

\* A lost worker costs a life, and the last one never makes the task ready again.
Lose == Move({"working"}, "ready") /\ lives > 1 /\ lives' = lives - 1 /\ UNCHANGED tries

\* A failed result costs a try, and the last one never makes the task ready again.
Redo ==
    /\ Move({"working", "reviewing"}, "ready")
    /\ tries > 1
    /\ tries' = tries - 1
    /\ UNCHANGED lives

Finish == Move({"reviewing"}, "done") /\ UNCHANGED <<tries, lives>>

\* The last charge may come with the step that parks the task.
Park ==
    /\ Move(Active, "parked")
    /\ tries' \in {tries, tries - 1}
    /\ lives' \in {lives, lives - 1}

Revive == Move({"parked"}, "ready") /\ tries' = Tries /\ lives' = Lives

Stop == Move(Active \cup {"parked"}, "stopped") /\ UNCHANGED <<tries, lives>>

Next ==
    \/ Take \/ GiveBack \/ Deliver \/ Lose \/ Redo
    \/ Finish \/ Park \/ Revive \/ Stop

Spec == Init /\ [][Next]_vars
=============================================================================
