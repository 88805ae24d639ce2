-------------------------------- MODULE Landing --------------------------------
(***************************************************************************)
(* The Integrator's landing saga (crates/app/src/integrator.rs, `land`) on *)
(* a rig with a remote: sync the integration branch from the remote,       *)
(* rebase, run the project checks, fast-forward the local branch, push it, *)
(* and roll the local branch back when the push fails.  Every step is one  *)
(* git command or one run of the checks, and the process may die between   *)
(* any two; people commit to either copy of the branch meanwhile.          *)
(*                                                                         *)
(* A branch is the sequence of the changes it holds, so `is an ancestor`   *)
(* is `is a prefix`.  Two rebases of a submission give two commits, but a  *)
(* second one is made only when neither copy of the branch has the first.  *)
(* Git itself is modelled from how the code uses it: a rebase drops a      *)
(* change its base already has, and a push that is not a fast-forward is   *)
(* refused.                                                                *)
(***************************************************************************)
EXTENDS Naturals, Sequences, SequencesExt

CONSTANTS
    Patches,   \* the verified submissions of mergeable tasks
    Hands,     \* commits people make on the integration branch
    MaxFaults  \* bound: crashes and failed commands

LandingAssumption ==
    /\ Patches \cap Hands = {}
    /\ MaxFaults \in Nat

VARIABLES
    local,    \* the integration branch in the rig's repository
    remote,   \* the integration branch at the remote
    outcome,  \* what the ledger says of each submission's task
    job,      \* the integrator: the step it runs next, on which submission
    checked,  \* history: branches the project checks passed on
    made,     \* the hand commits made so far
    faults    \* faults left to happen

branches == <<local, remote>>
vars == <<local, remote, outcome, job, checked, made, faults>>

Nothing == "nothing"
Idle == [at |-> "idle", list |-> {}, patch |-> Nothing, head |-> <<>>, before |-> <<>>]

Init ==
    /\ local = <<>>
    /\ remote = <<>>
    /\ outcome = [p \in Patches |-> "mergeable"]
    /\ job = Idle
    /\ checked = {}
    /\ made = {}
    /\ faults = MaxFaults

GoesTo(step) == job' = [job EXCEPT !.at = step]

\* Done with this merge bead, whatever came of it.
NextBead ==
    job' = [Idle EXCEPT !.at = IF job.list = {} THEN "idle" ELSE "pick", !.list = job.list]

-----------------------------------------------------------------------------
(* integrate_once: list the merge beads, take them one by one.             *)

ListMerges ==
    /\ job.at = "idle"
    /\ \E p \in Patches : outcome[p] = "mergeable"
    /\ job' = [Idle EXCEPT !.at = "pick",
                           !.list = {p \in Patches : outcome[p] = "mergeable"}]
    /\ UNCHANGED <<branches, outcome, checked, made, faults>>

PickMerge(p) ==
    /\ job.at = "pick"
    /\ p \in job.list
    /\ LET left == [job EXCEPT !.list = @ \ {p}]
       IN  job' = IF outcome[p] = "mergeable" THEN [left EXCEPT !.at = "sync", !.patch = p]
                  ELSE IF left.list = {} THEN Idle ELSE left
    /\ UNCHANGED <<branches, outcome, checked, made, faults>>

-----------------------------------------------------------------------------
(* land: sync_branch.                                                      *)

SyncUpToDate ==
    /\ job.at = "sync"
    /\ IsPrefix(remote, local)
    /\ GoesTo("rebase")
    /\ UNCHANGED <<branches, outcome, checked, made, faults>>

SyncForward ==
    /\ job.at = "sync"
    /\ IsStrictPrefix(local, remote)
    /\ local' = remote
    /\ GoesTo("rebase")
    /\ UNCHANGED <<remote, outcome, checked, made, faults>>

\* Mutant of SyncDiverged: it is trouble to retry, not a rejection.
SyncDivergedRetried ==
    /\ job.at = "sync"
    /\ ~IsPrefix(local, remote) /\ ~IsPrefix(remote, local)
    /\ NextBead
    /\ UNCHANGED <<branches, outcome, checked, made, faults>>

SyncDiverged ==
    /\ job.at = "sync"
    /\ ~IsPrefix(local, remote) /\ ~IsPrefix(remote, local)
    /\ GoesTo("reject")
    /\ UNCHANGED <<branches, outcome, checked, made, faults>>

-----------------------------------------------------------------------------
(* land: rebase and the project checks.                                    *)

\* Mutant of Rebased: the submission is put on top, there already or not.
RebasedAgain(p) == Append(local, p)

Rebased(p) == IF p \in Range(local) THEN local ELSE Append(local, p)

Rebase ==
    /\ job.at = "rebase"
    /\ job' = [job EXCEPT !.at = "check", !.head = Rebased(job.patch)]
    /\ UNCHANGED <<branches, outcome, checked, made, faults>>

RebaseConflict ==
    /\ job.at = "rebase"
    /\ job.patch \notin Range(local)
    /\ GoesTo("reject")
    /\ UNCHANGED <<branches, outcome, checked, made, faults>>

ChecksPass ==
    /\ job.at = "check"
    /\ checked' = checked \cup {job.head}
    /\ GoesTo("read")
    /\ UNCHANGED <<branches, outcome, made, faults>>

ChecksFail ==
    /\ job.at = "check"
    /\ GoesTo("reject")
    /\ UNCHANGED <<branches, outcome, checked, made, faults>>

-----------------------------------------------------------------------------
(* land: fast-forward, push, roll back.                                    *)

ReadHead ==
    /\ job.at = "read"
    /\ job' = [job EXCEPT !.at = "ff", !.before = local]
    /\ UNCHANGED <<branches, outcome, checked, made, faults>>

FastForward ==
    /\ job.at = "ff"
    /\ IsPrefix(local, job.head)
    /\ local' = job.head
    /\ GoesTo("push")
    /\ UNCHANGED <<remote, outcome, checked, made, faults>>

\* Somebody moved the branch after the rebase: retry on the next pass.
NotFastForward ==
    /\ job.at = "ff"
    /\ ~IsPrefix(local, job.head)
    /\ NextBead
    /\ UNCHANGED <<branches, outcome, checked, made, faults>>

Push ==
    /\ job.at = "push"
    /\ IsPrefix(remote, local)
    /\ remote' = local
    /\ GoesTo("merged")
    /\ UNCHANGED <<local, outcome, checked, made, faults>>

PushRefused ==
    /\ job.at = "push"
    /\ ~IsPrefix(remote, local)
    /\ GoesTo("rollback")
    /\ UNCHANGED <<branches, outcome, checked, made, faults>>

\* Mutant of PushFails: the error is only logged.
PushFailsUnseen ==
    /\ job.at = "push"
    /\ faults > 0
    /\ faults' = faults - 1
    /\ GoesTo("merged")
    /\ UNCHANGED <<branches, outcome, checked, made>>

\* The connection breaks: before the remote took the branch, or after.
PushFails ==
    /\ job.at = "push"
    /\ faults > 0
    /\ faults' = faults - 1
    /\ remote' \in {remote} \cup (IF IsPrefix(remote, local) THEN {local} ELSE {})
    /\ GoesTo("rollback")
    /\ UNCHANGED <<local, outcome, checked, made>>

\* Mutant of RollBack: the branch is reset without a look at where it is.
RollBackBlind ==
    /\ job.at = "rollback"
    /\ local' = job.before
    /\ NextBead
    /\ UNCHANGED <<remote, outcome, checked, made, faults>>

\* Compare-and-swap: a branch that is elsewhere by now is left alone.
RollBack ==
    /\ job.at = "rollback"
    /\ local' = IF local = job.head THEN job.before ELSE local
    /\ NextBead
    /\ UNCHANGED <<remote, outcome, checked, made, faults>>

-----------------------------------------------------------------------------
(* integrate_one: the report.  A canceled task accepts neither event.      *)

Reports(step, result) ==
    /\ job.at = step
    /\ outcome' = [outcome EXCEPT ![job.patch] = IF @ = "mergeable" THEN result ELSE @]
    /\ NextBead
    /\ UNCHANGED <<branches, checked, made, faults>>

ReportMerged == Reports("merged", "merged")
\* Mutant of ReportRejected: it writes a state no task has.
ReportRejectedAs == Reports("reject", "merge_failed")

ReportRejected == Reports("reject", "reworked")

-----------------------------------------------------------------------------
(* Faults and people.                                                      *)

\* The remote, git, a check's process or the ledger is unavailable: this bead is left as it
\* is.  (At the rollback: the rollback fails.)
Infra ==
    /\ job.at \in {"sync", "rebase", "check", "read", "ff", "rollback", "merged", "reject"}
    /\ faults > 0
    /\ faults' = faults - 1
    /\ NextBead
    /\ UNCHANGED <<branches, outcome, checked, made>>

Crash ==
    /\ job.at # "idle"
    /\ faults > 0
    /\ faults' = faults - 1
    /\ job' = Idle
    /\ UNCHANGED <<branches, outcome, checked, made>>

CommitAtRemote(h) ==
    /\ h \notin made
    /\ made' = made \cup {h}
    /\ remote' = Append(remote, h)
    /\ UNCHANGED <<local, outcome, job, checked, faults>>

CommitLocally(h) ==
    /\ h \notin made
    /\ made' = made \cup {h}
    /\ local' = Append(local, h)
    /\ UNCHANGED <<remote, outcome, job, checked, faults>>

Cancel(p) ==
    /\ outcome[p] = "mergeable"
    /\ outcome' = [outcome EXCEPT ![p] = "canceled"]
    /\ UNCHANGED <<branches, job, checked, made, faults>>

-----------------------------------------------------------------------------
Integrator ==
    \/ ListMerges
    \/ \E p \in Patches : PickMerge(p)
    \/ SyncUpToDate \/ SyncForward \/ SyncDiverged
    \/ Rebase \/ RebaseConflict \/ ChecksPass \/ ChecksFail
    \/ ReadHead \/ FastForward \/ NotFastForward
    \/ Push \/ PushRefused \/ RollBack
    \/ ReportMerged \/ ReportRejected

Next ==
    \/ Integrator
    \/ PushFails \/ Infra \/ Crash
    \/ \E h \in Hands : CommitAtRemote(h) \/ CommitLocally(h)
    \/ \E p \in Patches : Cancel(p)

Spec == Init /\ [][Next]_vars

\* The integrator polls for ever and is restarted when it dies; commands return.
LiveSpec == Spec /\ WF_vars(Integrator)

-----------------------------------------------------------------------------
TypeOK ==
    /\ local \in Seq(Patches \cup Hands) /\ remote \in Seq(Patches \cup Hands)
    /\ outcome \in [Patches -> {"mergeable", "merged", "reworked", "canceled"}]
    /\ job.list \subseteq Patches /\ job.patch \in Patches \cup {Nothing}
    /\ made \subseteq Hands
    /\ faults \in 0..MaxFaults

\* A task is reported merged only when the remote has its submission.
MergedIsAtRemote == \A p \in Patches : outcome[p] = "merged" => p \in Range(remote)

\* What people commit on either copy of the branch is never lost: not to a fast-forward, a
\* rollback or a push that raced it.
HandWorkSurvives == made \subseteq Range(local) \cup Range(remote)

\* A submission lands at most once, though a push whose answer was lost, a crash before the
\* report or a failed rollback makes the Integrator land it again; and the project checks
\* passed on it on top of exactly the history it has at the remote, whoever moved either
\* branch between the rebase and the push.
LandsOnceAsChecked ==
    /\ IsInjective(local) /\ IsInjective(remote)
    /\ \A i \in 1..Len(remote) : remote[i] \in Patches => SubSeq(remote, 1, i) \in checked

AllSettled == \A p \in Patches : outcome[p] # "mergeable"

\* Every submission is landed, sent back or canceled: retrying trouble on our side does not
\* retry for ever.
EverySubmissionSettles == []<>AllSettled
=============================================================================
