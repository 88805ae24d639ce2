----------------------------- MODULE MCBoundary -------------------------------
(***************************************************************************)
(* TLC instances of the edges of a rig: Landing, where work goes out;      *)
(* Sessions, where agents do it; RigHost, where the rig itself comes and   *)
(* goes; Report, what is read off its log; Ledger, the adapter all of it   *)
(* is stored with; Desk, what remote clients may do to it.  They share no  *)
(* state here, so each is explored by itself: `part` says which, and the   *)
(* others stay as they start.                                              *)
(***************************************************************************)
EXTENDS Landing, RigHost, Sessions, Desk, Ledger

CONSTANTS r1, t1, t2, k1, k2

VARIABLE part

-------------------------------------------------------------------------------
\* One rig on a host, the console beside it and the operator's commands; a failure at every
\* step but the two whose failure leaves what no later command repairs.
HostSteps ==
    {"archive", "backup", "console", "console_up", "create", "destroy", "doctor",
     "networks", "register", "remove_dir", "restore", "stop", "up"}

\* The sessions of one task and one plan request, under each harness; a failure at every step
\* but two removals: of the scratch directory, of the note.
SessionSteps == {"cut", "mcp", "start", "time", "lease", "read", "commit", "tidy", "die"}

\* Two clients: one may plan, the other resolve, both may watch; a failure at every step but
\* those of a resolution after the close of the item.
Scopes == [c \in {k1, k2} |-> IF c = k1 THEN {"watch", "plan"} ELSE {"watch", "resolve"}]
DeskSteps ==
    {"may_watch", "may_plan", "item_open", "epic_open", "admit", "note", "close_item",
     "cancel_task", "close_items", "close_epic", "create", "await", "run"}

-------------------------------------------------------------------------------
\* Reported: two tasks, the second waiting for the first, between two workers (R), and two
\* that wait for nothing, of which one worker makes three attempts (Q).
VARIABLES rep_standing, rep_line, rep_busy, rep_truth, rep_told, rep_gap, rep_now, rep_faults

NeedsOfTwo == [t \in {t1, t2} |-> IF t = t2 THEN {t1} ELSE {}]

R == INSTANCE Report WITH
    Tasks <- {t1, t2}, NeedsOf <- NeedsOfTwo, Workers <- {"w1", "w2"}, MaxClaims <- 2,
    MaxTime <- 2, MaxReportFaults <- 1, ReportFailAt <- {"die", "close"},
    standing <- rep_standing, line <- rep_line, busy <- rep_busy, truth <- rep_truth,
    told <- rep_told, gap <- rep_gap, now <- rep_now, reportFaults <- rep_faults

Q == INSTANCE Report WITH
    Tasks <- {t1, t2}, NeedsOf <- [t \in {t1, t2} |-> {}], Workers <- {"w1"}, MaxClaims <- 3,
    MaxTime <- 1, MaxReportFaults <- 1, ReportFailAt <- {"die", "close"},
    standing <- rep_standing, line <- rep_line, busy <- rep_busy, truth <- rep_truth,
    told <- rep_told, gap <- rep_gap, now <- rep_now, reportFaults <- rep_faults

rep_vars == <<rep_standing, rep_line, rep_busy, rep_truth, rep_told, rep_gap, rep_now,
    rep_faults>>

-------------------------------------------------------------------------------
ASSUME BoundaryAssumption ==
    /\ LandingAssumption /\ RigHostAssumption /\ SessionsAssumption /\ DeskAssumption
    /\ LedgerAssumption /\ R!ReportAssumption /\ Q!ReportAssumption

MCInit ==
    /\ part \in {"landing", "righost", "sessions", "report", "alone", "ledger", "desk"}
    /\ Init /\ RigHostInit /\ SessionsInit /\ DeskInit /\ LedgerInit
    /\ IF part = "alone" THEN Q!ReportInit ELSE R!ReportInit
    /\ part # "report" => rep_told[t1].planned = 0
    /\ part # "ledger" => meant[1].typed.kind = "task"
    /\ part # "desk" => planner = "queue"
    /\ part # "sessions" => harness = "codex"

MCNext ==
    /\ part' = part
    /\ \/ /\ part = "landing"
          /\ Next
          /\ UNCHANGED <<rigHostVars, sessionsVars, rep_vars, ledgerVars, deskVars>>
       \/ /\ part = "righost"
          /\ RigHostNext
          /\ UNCHANGED <<vars, sessionsVars, rep_vars, ledgerVars, deskVars>>
       \/ /\ part = "sessions"
          /\ SessionsNext
          /\ UNCHANGED <<vars, rigHostVars, rep_vars, ledgerVars, deskVars>>
       \/ /\ part = "report"
          /\ R!ReportNext
          /\ UNCHANGED <<vars, rigHostVars, sessionsVars, ledgerVars, deskVars>>
       \/ /\ part = "alone"
          /\ Q!ReportNext
          /\ UNCHANGED <<vars, rigHostVars, sessionsVars, ledgerVars, deskVars>>
       \/ /\ part = "ledger"
          /\ LedgerNext
          /\ UNCHANGED <<vars, rigHostVars, sessionsVars, rep_vars, deskVars>>
       \/ /\ part = "desk"
          /\ DeskNext
          /\ UNCHANGED <<vars, rigHostVars, sessionsVars, rep_vars, ledgerVars>>

mcvars == <<part, vars, rigHostVars, sessionsVars, rep_vars, ledgerVars, deskVars>>

MCSpec == MCInit /\ [][MCNext]_mcvars

-------------------------------------------------------------------------------
(* The properties; the comment of each is in its own module.               *)

\* Every part keeps to the shapes of its own module.
TypesOK ==
    /\ part = "landing" => TypeOK
    /\ part = "righost" => RigHostTypeOK
    /\ part = "sessions" => SessionsTypeOK
    /\ part = "report" => R!ReportTypeOK
    /\ part = "alone" => Q!ReportTypeOK
    /\ part = "ledger" => LedgerTypeOK
    /\ part = "desk" => DeskTypeOK

\* What became of each task is told as the ledger saw it, in whatever order the lines came, and
\* the totals are of that: the critical path and the retry tax together come to no more than the
\* work; if no line was lost, no more sessions live at any time than there are workers (tasks_of,
\* concurrency, epic).
ReportIsTrue ==
    /\ part = "report" => R!ReportIsTrue
    /\ part = "alone" => Q!ReportIsTrue
===============================================================================
