---------------------------------- MODULE Rig ----------------------------------
(***************************************************************************)
(* One task in a running rig: the worker, verifier, integrator and steward *)
(* processes and the operator's requests, each stepping through its own    *)
(* calls to the ledger (`bd`) and the repository.                          *)
(*                                                                         *)
(* The ledger has no transactions.  `apply_event` reads the task, decides, *)
(* replaces the metadata, releases the bead's claim and runs its effects,  *)
(* one command each; other processes run in between.  With AtomicApply the *)
(* read and the write are one step, which is what the code relies on;      *)
(* without it a writer may overwrite what another wrote after its read.    *)
(*                                                                         *)
(* Every role puts the task's checkout at one path named after its branch, *)
(* in a directory all roles share: `tree` is whose checkout is there.      *)
(***************************************************************************)
EXTENDS TaskMachine, FiniteSets

CONSTANTS
    Ttl,          \* WorkerConfig.lease_ttl
    AtomicApply,  \* TRUE: nobody writes the task between apply_event's read and write
    MaxFaults,    \* bound: crashes, failed commands, provider stops
    MaxRequests,  \* bound: operator requests
    MaxTime,      \* bound: the clock stops here
    OperatorDoes, \* requests the operator makes: a subset of {"resolve", "cancel"}
    CrashAt       \* steps at which a process may crash or its command fail

Roles == {"verifier", "integrator", "steward", "operator"}

ASSUME RigAssumption ==
    /\ Agents \cap Roles = {}
    /\ Ttl \in Nat \ {0}
    /\ AtomicApply \in BOOLEAN
    /\ MaxFaults \in Nat
    /\ MaxRequests \in Nat
    /\ MaxTime \in Nat
    /\ OperatorDoes \subseteq {"resolve", "cancel"}

Workers == Agents
Processes == Workers \cup Roles

VARIABLES
    meta,        \* the task's metadata in the ledger
    status,      \* the task bead: "open", "in_progress" (claimed) or "closed"
    verifyBead,  \* the paired verify bead is open
    merges,      \* open merge beads: [id, head]
    incidents,   \* open incident beads on the task
    main,        \* submitted commits the integration branch contains
    verified,    \* history: commits whose own checkout passed the verify commands
    tree,        \* whose checkout is at the task's worktree path, or "free"
    now,         \* the clock, in seconds from when it last restarted
    faults,      \* faults left to happen
    requests,    \* operator requests left to come
    job          \* what each process is doing

ledger == <<meta, status, verifyBead, merges, incidents>>
repo == <<main, verified, tree>>
world == <<now, faults, requests>>
vars == <<ledger, repo, world, job>>

\* A process between passes of its loop, and a restarted one.  `at` is the step it runs next;
\* `event`, `task`, `todo`, `then` and `fails` belong to an apply_event call: the event, the
\* task as read (then as written), the effects left, and where it goes on and gives up.
Idle ==
    [at |-> "idle", event |-> Plain("none"), task |-> NewTask, todo |-> <<>>,
     then |-> "idle", fails |-> "idle", head |-> NoHead, list |-> {},
     deadline |-> 0, beat |-> 0, result |-> "none"]

Init ==
    /\ meta = NewTask
    /\ status = "open"
    /\ verifyBead = TRUE
    /\ merges = {}
    /\ incidents = 0
    /\ main = {}
    /\ verified = {}
    /\ tree = "free"
    /\ now = 0
    /\ faults = MaxFaults
    /\ requests = MaxRequests
    /\ job = [p \in Processes |-> Idle]

\* p's next job.  Going idle forgets the last pass.
Becomes(p, j) == job' = [job EXCEPT ![p] = IF j.at = "idle" THEN Idle ELSE j]
GoesTo(p, step) == Becomes(p, [job[p] EXCEPT !.at = step])

\* j holds a reading of the clock.
Recalls(j) == j.at = "session" \/ "now" \in DOMAIN j.event

\* Only differences of readings are ever used, so the clock may restart when p alone may still
\* hold one, at the end of a lease and at the next claim.
Restarted(p) == IF \A q \in Processes \ {p} : ~Recalls(job[q]) THEN 0 ELSE now

\* p calls apply_event(e); it goes on at `then`, or at `fails` on an error.
Calling(j, e, then, fails) ==
    [j EXCEPT !.at = "load", !.event = e, !.then = then, !.fails = fails]

\* The call is over.  Only a worker that claimed needs the task it returned.
Returning(j, step) ==
    [j EXCEPT !.at = step, !.event = Plain("none"), !.then = "idle", !.fails = "idle",
              !.todo = <<>>, !.task = IF step = "checkout" THEN @ ELSE NewTask]

-----------------------------------------------------------------------------
(* apply_event and run_effect.                                             *)

Resume(j) == IF j.todo = <<>> THEN Returning(j, j.then) ELSE [j EXCEPT !.at = "effects"]

\* Mutant of AfterWrite: the claim is released whenever the lease is gone, not only when
\* the task is open again.
AfterWriteEager(t, u, e) ==
    (IF u.state # "leased" THEN <<"Unclaim">> ELSE <<>>) \o Effects(t, e)

\* What is left to do once the task has become u.
AfterWrite(t, u, e) ==
    (IF u.state = "open" /\ t.state # "open" THEN <<"Unclaim">> ELSE <<>>) \o Effects(t, e)

\* set_meta replaces the whole metadata with the next task, computed from the one read.
Write(p, t) ==
    LET e == job[p].event
        u == NextTask(t, e)
    IN  /\ meta' = u
        /\ Becomes(p, Resume([job[p] EXCEPT !.task = u, !.todo = AfterWrite(t, u, e)]))
        /\ now' = IF u.state = "leased" THEN now ELSE Restarted(p)
        /\ UNCHANGED <<status, verifyBead, merges, incidents, repo, faults, requests>>

Load(p) ==
    /\ ~AtomicApply
    /\ job[p].at = "load"
    /\ Legal(meta, job[p].event)
    /\ Becomes(p, [job[p] EXCEPT !.at = "persist", !.task = meta])
    /\ UNCHANGED <<ledger, repo, world>>

Persist(p) ==
    /\ job[p].at = "persist"
    /\ Write(p, job[p].task)

LoadAndPersist(p) ==
    /\ AtomicApply
    /\ job[p].at = "load"
    /\ Legal(meta, job[p].event)
    /\ Write(p, meta)

\* An illegal event is an error of the call.
Refused(p) ==
    /\ job[p].at = "load"
    /\ ~Legal(meta, job[p].event)
    /\ Becomes(p, Returning(job[p], job[p].fails))
    /\ UNCHANGED <<ledger, repo, world>>

RunEffect(p, effect) ==
    /\ job[p].at = "effects"
    /\ Head(job[p].todo) = effect
    /\ Becomes(p, Resume([job[p] EXCEPT !.todo = Tail(@)]))
    /\ UNCHANGED <<meta, repo, world>>

\* `bd update --status open`, whatever the status was.
Unclaim(p) ==
    /\ RunEffect(p, "Unclaim")
    /\ status' = "open"
    /\ UNCHANGED <<verifyBead, merges, incidents>>

\* A new merge bead.  An id is used again once no open or listed bead has it.
NewMergeBead(head) ==
    LET inUse == {bead.id : bead \in merges \cup job["integrator"].list}
    IN  [id |-> CHOOSE i \in 1..(Cardinality(inUse) + 1) : i \notin inUse, head |-> head]

OpenMergeBead(p) ==
    /\ RunEffect(p, "OpenMergeBead")
    /\ merges' = merges \cup {NewMergeBead(job[p].task.head)}
    /\ UNCHANGED <<status, verifyBead, incidents>>

OpenIncidentBead(p) ==
    /\ RunEffect(p, "OpenIncidentBead")
    /\ incidents' = incidents + 1
    /\ UNCHANGED <<status, verifyBead, merges>>

CloseTaskBead(p) ==
    /\ RunEffect(p, "CloseTaskBead")
    /\ status' = "closed"
    /\ UNCHANGED <<verifyBead, merges, incidents>>

CloseVerifyBead(p) ==
    /\ RunEffect(p, "CloseVerifyBead")
    /\ verifyBead' = FALSE
    /\ UNCHANGED <<status, merges, incidents>>

CloseMergeBeads(p) ==
    /\ RunEffect(p, "CloseMergeBeads")
    /\ merges' = {}
    /\ UNCHANGED <<status, verifyBead, incidents>>

ApplyEvent(p) ==
    \/ Load(p) \/ Persist(p) \/ LoadAndPersist(p) \/ Refused(p)
    \/ Unclaim(p) \/ OpenMergeBead(p) \/ OpenIncidentBead(p)
    \/ CloseTaskBead(p) \/ CloseVerifyBead(p) \/ CloseMergeBeads(p)

-----------------------------------------------------------------------------
(* Worker: work_once.                                                      *)

\* pick: `bd ready` lists the bead, and its metadata says open.
Pick(w) ==
    /\ job[w].at = "idle"
    /\ status = "open"
    /\ meta.state = "open"
    /\ GoesTo(w, "try")
    /\ UNCHANGED <<ledger, repo, world>>

\* try_claim: the ledger hands an open bead to one caller.
TryClaim(w) ==
    /\ job[w].at = "try"
    /\ status = "open"
    /\ status' = "in_progress"
    /\ now' = Restarted(w)
    /\ Becomes(w, Calling(job[w], Claim(w, now', Ttl), "checkout", "idle"))
    /\ UNCHANGED <<meta, verifyBead, merges, incidents, repo, faults, requests>>

ClaimLost(w) ==
    /\ job[w].at = "try"
    /\ status # "open"
    /\ GoesTo(w, "idle")
    /\ UNCHANGED <<ledger, repo, world>>

\* remaining_wall_clock, the harness timeout: what the budget leaves, and at least a minute.
Remaining(t) == IF t.wall_clock < WallLimit THEN WallLimit - t.wall_clock ELSE 1

\* branch_worktree removes whatever is at the path, then checks the branch out there.
CheckOut(w) ==
    /\ job[w].at = "checkout"
    /\ tree' = w
    /\ Becomes(w, [Idle EXCEPT !.at = "session", !.beat = now,
                                !.deadline = now + Remaining(job[w].task)])
    /\ UNCHANGED <<ledger, main, verified, world>>

\* A refused heartbeat abandons the session.
Beat(w) ==
    /\ job[w].at = "session"
    /\ now >= job[w].beat + HeartbeatInterval(Ttl)
    /\ now < job[w].deadline
    /\ Becomes(w, Calling([job[w] EXCEPT !.beat = now, !.result = "failed"],
                          Heartbeat(w, now), "session", "tidy"))
    /\ UNCHANGED <<ledger, repo, world>>

Results == {"changed", "unchanged", "blocked", "failed", "stopped"}

EndSession(w, result) ==
    /\ job[w].at = "session"
    /\ Becomes(w, [Idle EXCEPT !.at = "tidy", !.result = result])
    /\ result = "stopped" => faults > 0
    /\ faults' = IF result = "stopped" THEN faults - 1 ELSE faults
    /\ UNCHANGED <<ledger, repo, now, requests>>

\* commit_all and worktree_remove act on the path, whoever's checkout is there.
CommitAndRemove(w) ==
    /\ job[w].at = "tidy"
    /\ tree # "free"
    /\ tree' = "free"
    /\ UNCHANGED <<ledger, main, world>>

\* The commits somebody still refers to.  A new commit takes the name of one nobody does.
Referred ==
    {meta.head} \cup main \cup {bead.head : bead \in merges}
    \cup UNION {{job[p].head, job[p].task.head} : p \in Processes}
    \cup {job[p].event.head : p \in {q \in Processes : job[q].event.event = "submit"}}
    \cup {bead.head : bead \in job["integrator"].list}

\* Mutant of SubmitWork: the task is submitted before the checkout is removed.
SubmitWorkEarly(w) ==
    /\ job[w].at = "tidy"
    /\ tree # "free"
    /\ job[w].result = "changed"
    /\ Heads \ Referred # {}
    /\ LET head == CHOOSE h \in Heads \ Referred : TRUE
           rest == [Idle EXCEPT !.result = "failed"]
       IN  /\ verified' = verified \ {head}
           /\ Becomes(w, Calling(rest, Submit(w, head, now, 0), "tidy", "tidy"))
    /\ UNCHANGED <<ledger, main, tree, world>>

SubmitWork(w) ==
    /\ CommitAndRemove(w)
    /\ job[w].result = "changed"
    /\ Heads \ Referred # {}
    /\ LET head == CHOOSE h \in Heads \ Referred : TRUE
       IN  /\ verified' = verified \ {head}
           /\ Becomes(w, Calling(Idle, Submit(w, head, now, 0), "idle", "idle"))

ReleaseWork(w) ==
    /\ CommitAndRemove(w)
    /\ job[w].result \in {"unchanged", "blocked"}
    /\ Becomes(w, Calling(Idle, Release(w, now, job[w].result = "blocked"), "idle", "idle"))
    /\ UNCHANGED verified

ReturnWork(w) ==
    /\ CommitAndRemove(w)
    /\ job[w].result = "stopped"
    /\ Becomes(w, Calling(Idle, ProviderStopped(w), "idle", "idle"))
    /\ UNCHANGED verified

\* The harness failed or the lease is lost: the lease is left to expire.
AbandonWork(w) ==
    /\ CommitAndRemove(w)
    /\ job[w].result = "failed"
    /\ GoesTo(w, "idle")
    /\ UNCHANGED verified

\* Nothing at the path to commit: an error after the claim.
NothingToCommit(w) ==
    /\ job[w].at = "tidy"
    /\ tree = "free"
    /\ GoesTo(w, "idle")
    /\ UNCHANGED <<ledger, repo, world>>

Worker(w) ==
    \/ Pick(w) \/ TryClaim(w) \/ ClaimLost(w) \/ CheckOut(w) \/ Beat(w)
    \/ \E result \in Results : EndSession(w, result)
    \/ SubmitWork(w) \/ ReleaseWork(w) \/ ReturnWork(w) \/ AbandonWork(w)
    \/ NothingToCommit(w)

-----------------------------------------------------------------------------
(* Verifier: verify_one.                                                   *)

StartVerify ==
    /\ job["verifier"].at = "idle"
    /\ verifyBead
    /\ meta.state = "in_verify"
    /\ Becomes("verifier", [job["verifier"] EXCEPT !.at = "checkout", !.head = meta.head])
    /\ UNCHANGED <<ledger, repo, world>>

\* worktree_add, by the verifier or the integrator.
AddWorktree(p, step) ==
    /\ job[p].at = "checkout"
    /\ tree' = p
    /\ GoesTo(p, step)
    /\ UNCHANGED <<ledger, main, verified, world>>

Verdicts == {"verify_passed", "verify_failed", "verify_blocked"}

\* The commands run at the path; the verdict is applied to the task whatever its head is now.
Check(verdict) ==
    /\ job["verifier"].at = "check"
    /\ tree # "free"
    /\ tree' = "free"
    /\ verified' = IF verdict = "verify_passed" /\ tree = "verifier"
                   THEN verified \cup {job["verifier"].head} ELSE verified
    /\ Becomes("verifier", Calling(Idle, Plain(verdict), "idle", "idle"))
    /\ UNCHANGED <<ledger, main, world>>

\* worktree_remove fails when the checkout is gone; no verdict.
CheckGone ==
    /\ job["verifier"].at = "check"
    /\ tree = "free"
    /\ GoesTo("verifier", "idle")
    /\ UNCHANGED <<ledger, repo, world>>

Verifier ==
    \/ StartVerify
    \/ AddWorktree("verifier", "check")
    \/ \E verdict \in Verdicts : Check(verdict)
    \/ CheckGone

-----------------------------------------------------------------------------
(* Integrator: integrate_once and integrate_one.                           *)

ListMerges ==
    /\ job["integrator"].at = "idle"
    /\ merges # {}
    /\ Becomes("integrator", [job["integrator"] EXCEPT !.at = "show", !.list = merges])
    /\ UNCHANGED <<ledger, repo, world>>

\* Creation order: the listed bead the integrator is at.
Current == CHOOSE bead \in job["integrator"].list :
               \A other \in job["integrator"].list : bead.id <= other.id

\* The integrator is done with it.
NextMerge ==
    LET rest == job["integrator"].list \ {Current}
    IN  Becomes("integrator",
                [Idle EXCEPT !.list = rest, !.at = IF rest = {} THEN "idle" ELSE "show"])

CloseMerge ==
    /\ merges' = merges \ {Current}
    /\ NextMerge
    /\ UNCHANGED <<meta, status, verifyBead, incidents, repo, world>>

ShowClosed ==
    /\ job["integrator"].at = "show"
    /\ status = "closed"
    /\ CloseMerge

ShowActive ==
    /\ job["integrator"].at = "show"
    /\ status # "closed"
    /\ GoesTo("integrator", "match")
    /\ UNCHANGED <<ledger, repo, world>>

\* Mutant of Matches: whatever the task's current submission is, the bead stands for it.
MatchesAny(bead) == meta.head # NoHead

\* The task is mergeable and the bead is about its current head.
Matches(bead) == meta.state = "mergeable" /\ meta.head = bead.head

MatchStale ==
    /\ job["integrator"].at = "match"
    /\ ~Matches(Current)
    /\ CloseMerge

MatchCurrent ==
    /\ job["integrator"].at = "match"
    /\ Matches(Current)
    /\ Becomes("integrator", [job["integrator"] EXCEPT !.at = "checkout", !.head = meta.head])
    /\ UNCHANGED <<ledger, repo, world>>

\* land and worktree_remove, then the report.  In somebody else's checkout the rebase moves
\* that one: it succeeds with nothing of this head in it.
Land ==
    /\ job["integrator"].at = "land"
    /\ tree # "free"
    /\ tree' = "free"
    /\ main' = IF tree = "integrator" THEN main \cup {job["integrator"].head} ELSE main
    /\ Becomes("integrator",
               Calling(job["integrator"], Merged(job["integrator"].head), "landed", "skip"))
    /\ UNCHANGED <<ledger, verified, world>>

\* Conflict, divergence or a failing check.
Reject ==
    /\ job["integrator"].at = "land"
    /\ tree # "free"
    /\ tree' = "free"
    /\ Becomes("integrator",
               Calling(job["integrator"], Plain("merge_failed"), "landed", "skip"))
    /\ UNCHANGED <<ledger, main, verified, world>>

\* Remote down, git broken, main moved meanwhile: nothing changes, the next pass retries.
LandInfra ==
    /\ job["integrator"].at = "land"
    /\ tree = "free" \/ faults > 0
    /\ tree' = "free"
    /\ faults' = IF tree = "free" THEN faults ELSE faults - 1
    /\ GoesTo("integrator", "skip")
    /\ UNCHANGED <<ledger, main, verified, now, requests>>

\* The report was applied: the merge bead is done.
Landed == job["integrator"].at = "landed" /\ CloseMerge

\* An error leaves the merge bead open.
Skip ==
    /\ job["integrator"].at = "skip"
    /\ NextMerge
    /\ UNCHANGED <<ledger, repo, world>>

Integrator ==
    \/ ListMerges \/ ShowClosed \/ ShowActive \/ MatchStale \/ MatchCurrent
    \/ AddWorktree("integrator", "land")
    \/ Land \/ Reject \/ LandInfra \/ Landed \/ Skip

-----------------------------------------------------------------------------
(* Steward: sweep.                                                         *)

\* Wall clock projected to now, so a runaway session is caught mid-lease.
OverBudget(t, at) == ~WithinBudget(AddWallClock(t, at))

\* The sweep reads the clock and the active tasks, and decides; the events are checked again
\* when they are applied, the escalation only for legality.  The repair that follows is the
\* repair of a sweep that found nothing to decide.
Reap ==
    /\ job["steward"].at = "idle"
    /\ status # "closed" /\ meta.state = "leased"
    /\ IsExpired(meta.lease, now)
    /\ Becomes("steward", Calling(job["steward"], LeaseExpired(now), "idle", "idle"))
    /\ UNCHANGED <<ledger, repo, world>>

EscalateRunaway ==
    /\ job["steward"].at = "idle"
    /\ status # "closed" /\ meta.state = "leased"
    /\ ~IsExpired(meta.lease, now)
    /\ OverBudget(meta, now)
    /\ Becomes("steward", Calling(job["steward"], Escalate("budget"), "idle", "idle"))
    /\ UNCHANGED <<ledger, repo, world>>

\* repair_merge_beads lists the merge beads first.  A listing while the task cannot become
\* mergeable next, or that finds a bead, leads to nothing and is left out.
SeesNoMerge ==
    /\ job["steward"].at = "idle"
    /\ meta.state \in {"in_verify", "mergeable"}
    /\ merges = {}
    /\ GoesTo("steward", "repair")
    /\ UNCHANGED <<ledger, repo, world>>

\* Mutant of Needs: it looks among the beads nobody has claimed.
NeedsUnclaimed == status = "open" /\ meta.state = "mergeable"

\* Then it lists the tasks again, and re-emits the missing bead from what it listed.
Needs == status # "closed" /\ meta.state = "mergeable"

SeesMissing ==
    /\ job["steward"].at = "repair"
    /\ Needs
    /\ Becomes("steward", [job["steward"] EXCEPT !.at = "create", !.head = meta.head])
    /\ UNCHANGED <<ledger, repo, world>>

NothingMissing ==
    /\ job["steward"].at = "repair"
    /\ ~Needs
    /\ GoesTo("steward", "idle")
    /\ UNCHANGED <<ledger, repo, world>>

Repair ==
    /\ job["steward"].at = "create"
    /\ merges' = merges \cup {NewMergeBead(job["steward"].head)}
    /\ GoesTo("steward", "idle")
    /\ UNCHANGED <<meta, status, verifyBead, incidents, repo, world>>

Steward ==
    \/ Reap \/ EscalateRunaway \/ SeesNoMerge
    \/ SeesMissing \/ NothingMissing \/ Repair

-----------------------------------------------------------------------------
(* Operator: resolve an incident, cancel the epic the task belongs to.     *)

\* console::resolve closes the incident bead first.
Resolve ==
    /\ job["operator"].at = "idle"
    /\ "resolve" \in OperatorDoes /\ requests > 0
    /\ incidents > 0
    /\ incidents' = incidents - 1
    /\ requests' = requests - 1
    /\ GoesTo("operator", "confirm")
    /\ UNCHANGED <<meta, status, verifyBead, merges, repo, now, faults>>

Confirm ==
    /\ job["operator"].at = "confirm"
    /\ IF meta.state = "incident"
       THEN Becomes("operator", Calling(job["operator"], Plain("operator_retry"), "idle", "idle"))
       ELSE GoesTo("operator", "idle")
    /\ UNCHANGED <<ledger, repo, world>>

\* Mutant of CancelTask: the beads are closed and the task is not told.
CancelTaskQuietly ==
    /\ job["operator"].at = "idle"
    /\ "cancel" \in OperatorDoes /\ requests > 0
    /\ meta.state \notin {"closed", "canceled"}
    /\ requests' = requests - 1
    /\ GoesTo("operator", "close_task")
    /\ UNCHANGED <<ledger, repo, now, faults>>

\* cancel_task: an unfinished task is canceled through apply_event; then its beads are closed.
CancelTask ==
    /\ job["operator"].at = "idle"
    /\ "cancel" \in OperatorDoes /\ requests > 0
    /\ meta.state \notin {"closed", "canceled"}
    /\ requests' = requests - 1
    /\ Becomes("operator", Calling(job["operator"], Plain("cancel"), "close_task", "idle"))
    /\ UNCHANGED <<ledger, repo, now, faults>>

CloseChildren ==
    /\ job["operator"].at = "close_task"
    /\ status' = "closed"
    /\ GoesTo("operator", "close_rest")
    /\ UNCHANGED <<meta, verifyBead, merges, incidents, repo, world>>

\* Mutant of CloseRest: it closes one incident bead, whether or not there is one.
CloseRestOne ==
    /\ job["operator"].at = "close_rest"
    /\ verifyBead' = FALSE
    /\ incidents' = incidents - 1
    /\ GoesTo("operator", "idle")
    /\ UNCHANGED <<meta, status, merges, repo, world>>

CloseRest ==
    /\ job["operator"].at = "close_rest"
    /\ verifyBead' = FALSE
    /\ incidents' = 0
    /\ GoesTo("operator", "idle")
    /\ UNCHANGED <<meta, status, merges, repo, world>>

-----------------------------------------------------------------------------
(* The environment.                                                        *)

\* The clock is read to judge a lease and to charge for one; it stands still once the lease
\* is over, when a later reading would decide nothing else.
Tick ==
    /\ now < MaxTime
    /\ meta.state = "leased"
    /\ ~IsExpired(meta.lease, now)
    /\ now' = now + 1
    /\ UNCHANGED <<ledger, repo, faults, requests, job>>

\* Where a process is, for CrashAt: an apply_event call is told by what it is about to do.
Label(j) ==
    CASE j.at = "effects" -> Head(j.todo)
      [] j.at \in {"load", "persist"} -> j.event.event
      [] OTHER -> j.at

\* A process dies and is restarted: what it was doing is forgotten, what it wrote stays.
Crash(p) ==
    /\ job[p].at # "idle"
    /\ Label(job[p]) \in CrashAt
    /\ faults > 0
    /\ faults' = faults - 1
    /\ Becomes(p, Idle)
    /\ UNCHANGED <<ledger, repo, now, requests>>

\* A ledger command fails inside apply_event.
StoreFails(p) ==
    /\ job[p].at \in {"load", "persist", "effects"}
    /\ Label(job[p]) \in CrashAt
    /\ faults > 0
    /\ faults' = faults - 1
    /\ Becomes(p, Returning(job[p], job[p].fails))
    /\ UNCHANGED <<ledger, repo, now, requests>>

-----------------------------------------------------------------------------
\* The steps a process takes by itself; the operator only finishes what a request began.
Step(p) ==
    \/ ApplyEvent(p)
    \/ p \in Workers /\ Worker(p)
    \/ p = "verifier" /\ Verifier
    \/ p = "integrator" /\ Integrator
    \/ p = "steward" /\ Steward
    \/ p = "operator" /\ (Confirm \/ CloseChildren \/ CloseRest)

Next ==
    \/ \E p \in Processes : Step(p)
    \/ Resolve
    \/ CancelTask
    \/ Tick
    \/ \E p \in Processes : Crash(p)
    \/ \E p \in Processes : StoreFails(p)

Spec == Init /\ [][Next]_vars

\* Every role polls for ever and is restarted when it dies; commands return; time passes.
\* A request the operator has made is carried through, but none has to come.
Fairness ==
    /\ \A p \in Processes : WF_vars(Step(p))
    /\ WF_vars(Tick)

LiveSpec == Spec /\ Fairness

-----------------------------------------------------------------------------
TypeOK ==
    /\ meta \in Tasks
    /\ status \in {"open", "in_progress", "closed"}
    /\ verifyBead \in BOOLEAN
    /\ merges \subseteq [id : Nat, head : Heads]
    /\ incidents \in Nat
    /\ main \subseteq Heads /\ verified \subseteq Heads
    /\ tree \in Processes \cup {"free"}
    /\ now \in Nat
    /\ faults \in 0..MaxFaults /\ requests \in 0..MaxRequests
    /\ \A p \in Processes : job[p].task \in Tasks /\ job[p].head \in Heads \cup {NoHead}

\* Nothing reaches the integration branch that the Verifier did not pass in a checkout of
\* exactly that commit, whatever crashes, retries and stale merge beads come between the
\* verdict and the landing.
LandedMeansVerified == main \subseteq verified

\* Steps at which a process relies on the checkout it made.
Inside(p) ==
    \/ job[p].at \in {"session", "tidy", "check", "land"}
    \/ job[p].at \in {"load", "persist"} /\ job[p].event.event = "heartbeat"

\* No process's checkout is removed or replaced under it.
WorktreeExclusive == \A p \in Processes : Inside(p) => tree = p

\* "You are in a fresh git worktree on your own branch; ... no one else is editing it"
\* (crates/app/src/worker.rs:465): a session keeps the checkout made for it.
SessionKeepsWorktree == \A w \in Workers : job[w].at = "session" => tree = w

\* A task reads as closed only with the commit it names on the integration branch, and its
\* bead is closed only once the task is finished.
ClosedMeansLanded ==
    /\ meta.state = "closed" => meta.head \in main
    /\ status = "closed" => meta.state \in {"closed", "canceled"}

\* The ledger's claim mirrors the lease (crates/app/src/transition.rs:67): from the lease to
\* the end of the review the bead is not for the taking, so no late release of an earlier
\* claim has set it free.
ClaimMirrorsLease ==
    meta.state \in {"leased", "in_verify", "mergeable"} => status = "in_progress"

\* Whatever order writers with stale reads overwrite one another in, the ledger never shows
\* a task that can be worked on or reviewed with its attempts, lives or blocked releases
\* spent.
LedgerSpendable ==
    /\ meta.state \in {"open", "leased"} =>
           meta.attempts < AttemptLimit /\ meta.blocked_releases < MaxBlockedReleases
    /\ meta.state \in {"in_verify", "mergeable"} => meta.attempts < AttemptLimit
    /\ meta.state \in {"open", "leased", "in_verify", "mergeable"} =>
           meta.lease_expiries < MaxLeaseExpiries

\* "Canceled ... nothing of it lands afterwards" (crates/domain/src/task.rs:42).
NothingLandsAfterCancel == [][meta.state = "canceled" => main' = main]_vars

-----------------------------------------------------------------------------
Settled ==
    meta.state \in {"closed", "canceled"} \/ (meta.state = "incident" /\ incidents > 0)

\* Work on the task comes to an end a person sees, though processes crash, sessions fail and
\* verdicts go either way: it lands, is canceled, or is escalated and in the operator's inbox,
\* whoever filed it first and whichever bead a retry has closed.
Settles == []<>Settled

BeadsClosed == status = "closed" /\ ~verifyBead

\* A landed task's beads are closed, or its epic would stay open for ever.
LandedIsClosed == meta.state = "closed" ~> BeadsClosed
=============================================================================
