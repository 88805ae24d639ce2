------------------------------ MODULE TaskMachine ------------------------------
(***************************************************************************)
(* The pure task state machine of the factory (crates/domain/src/task.rs): *)
(* `Task::apply` as operators from a task and an event to legality, the    *)
(* next task and the effects the shell runs.  No variables here: TaskLife  *)
(* runs it on one task, Rig runs it inside every role of a rig.            *)
(*                                                                         *)
(* A task is one record.  `lease` belongs to the leased state, `reason` to *)
(* incident, `head` to in_verify, mergeable and (the merged commit) closed *)
(* tasks; each holds its None value elsewhere.  Branch names are left out: *)
(* a task always submits the branch of its own id.  Durations and          *)
(* counters are naturals: the code saturates at 2^32 and 2^64, far beyond  *)
(* every limit.                                                            *)
(***************************************************************************)
EXTENDS Integers, Sequences

CONSTANTS
    Agents,        \* lease holders (AgentId)
    Heads,         \* commits a worker may submit (Sha)
    AttemptLimit,  \* Budget.attempts
    TokenLimit,    \* Budget.tokens
    WallLimit      \* Budget.wall_clock

\* Budgets reach tasks only as PlanDefaults, whose attempts limit is positive.
ASSUME LimitsAssumption ==
    /\ AttemptLimit \in Nat \ {0}
    /\ TokenLimit \in Nat
    /\ WallLimit \in Nat

MaxLeaseExpiries == 3
MaxBlockedReleases == 2

StateNames ==
    {"open", "leased", "in_verify", "mergeable", "closed", "incident", "canceled"}

Reasons ==
    {"budget", "lease_storm", "merge_conflict", "manual", "environment", "release_loop"}

NoLease == [holder |-> "nobody", claimed_at |-> 0, expires |-> 0]
NoHead == "no head"
NoReason == "no reason"

Leases == [holder : Agents, claimed_at : Nat, expires : Nat] \cup {NoLease}

Tasks ==
    [state : StateNames, lease : Leases, head : Heads \cup {NoHead},
     reason : Reasons \cup {NoReason}, tokens : Nat, wall_clock : Nat, attempts : Nat,
     lease_expiries : Nat, blocked_releases : Nat]

\* Task::new
NewTask ==
    [state |-> "open", lease |-> NoLease, head |-> NoHead, reason |-> NoReason,
     tokens |-> 0, wall_clock |-> 0, attempts |-> 0,
     lease_expiries |-> 0, blocked_releases |-> 0]

-----------------------------------------------------------------------------
(* Time, leases and budgets. *)

\* Timestamp::since: elapsed time, zero when `earlier` is the later one.
Since(later, earlier) == IF later > earlier THEN later - earlier ELSE 0

Grant(holder, now, ttl) == [holder |-> holder, claimed_at |-> now, expires |-> now + ttl]

IsExpired(lease, now) == now >= lease.expires

\* run_with_heartbeats sleeps a third of the ttl, and at least a second, before each beat.
HeartbeatInterval(ttl) == IF ttl < 3 THEN 1 ELSE ttl \div 3

\* Task::apply renews with the span from the claim to the current expiry, and Lease::renew
\* adds that span to `now`.
Renew(lease, now) ==
    [lease EXCEPT !.expires = now + Since(lease.expires, lease.claimed_at)]

\* Budget::check answers Ok.
WithinBudget(t) ==
    /\ t.attempts < AttemptLimit
    /\ t.tokens <= TokenLimit
    /\ t.wall_clock <= WallLimit

AddTokens(t, n) == [t EXCEPT !.tokens = @ + n]
AddWallClock(t, now) ==
    [t EXCEPT !.wall_clock = @ + Since(now, t.lease.claimed_at)]
\* Mutant of AddAttempt: it counts the attempts left.
AddAttemptDown(t) == [t EXCEPT !.attempts = @ - 1]
AddAttempt(t) == [t EXCEPT !.attempts = @ + 1]

-----------------------------------------------------------------------------
(* Events, one constructor per variant of `Event` that carries facts the   *)
(* machine reads.                                                          *)

Claim(holder, now, ttl) ==
    [event |-> "claim", holder |-> holder, now |-> now, ttl |-> ttl]
Heartbeat(holder, now) == [event |-> "heartbeat", holder |-> holder, now |-> now]
Submit(holder, head, now, tokens) ==
    [event |-> "submit", holder |-> holder, head |-> head, now |-> now, tokens |-> tokens]
LeaseExpired(now) == [event |-> "lease_expired", now |-> now]
Release(holder, now, blocked) ==
    [event |-> "release", holder |-> holder, now |-> now, blocked |-> blocked]
ProviderStopped(holder) == [event |-> "provider_stopped", holder |-> holder]
Merged(merged) == [event |-> "merged", merged |-> merged]
Escalate(reason) == [event |-> "escalate", reason |-> reason]
Plain(name) == [event |-> name]

HolderEvents == {"heartbeat", "submit", "release", "provider_stopped"}

\* The (state, event) pairs `Task::apply` does not list as illegal.
Accepts ==
    ({"open"} \X {"claim", "cancel", "escalate"})
    \cup ({"leased"} \X (HolderEvents \cup {"lease_expired", "cancel", "escalate"}))
    \cup ({"in_verify"} \X
            {"verify_passed", "verify_blocked", "verify_failed", "cancel", "escalate"})
    \cup ({"mergeable"} \X {"merged", "merge_failed", "cancel", "escalate"})
    \cup ({"incident"} \X {"cancel", "operator_retry"})

\* `Task::apply` returns Ok.
Legal(t, e) ==
    /\ <<t.state, e.event>> \in Accepts
    /\ e.event \in HolderEvents => t.lease.holder = e.holder
    /\ e.event = "heartbeat" => ~IsExpired(t.lease, e.now)
    /\ e.event = "lease_expired" => IsExpired(t.lease, e.now)

-----------------------------------------------------------------------------
(* The next task, event by event.                                          *)

InState(t, state) ==
    [t EXCEPT !.state = state, !.lease = NoLease, !.head = NoHead, !.reason = NoReason]

Reopened(t) == InState(t, "open")
Escalated(t, reason) == [InState(t, "incident") EXCEPT !.reason = reason]
\* Mutant of ReopenedOr: the attempt limit is compared with > instead of >=.
ReopenedOrOffByOne(t, reason) ==
    IF t.attempts <= AttemptLimit /\ t.tokens <= TokenLimit /\ t.wall_clock <= WallLimit
    THEN Reopened(t) ELSE Escalated(t, reason)

\* Check the budget after a charge: back to open within it, an incident beyond it.
ReopenedOr(t, reason) == IF WithinBudget(t) THEN Reopened(t) ELSE Escalated(t, reason)

AfterClaim(t, e) ==
    [t EXCEPT !.state = "leased", !.lease = Grant(e.holder, e.now, e.ttl)]

AfterHeartbeat(t, e) == [t EXCEPT !.lease = Renew(@, e.now)]

\* Mutant of AfterSubmit: submitting charges the attempt that verification charges again.
AfterSubmitCharged(t, e) ==
    [InState(AddAttempt(AddTokens(AddWallClock(t, e.now), e.tokens)), "in_verify")
        EXCEPT !.head = e.head, !.blocked_releases = 0]

AfterSubmit(t, e) ==
    [InState(AddTokens(AddWallClock(t, e.now), e.tokens), "in_verify")
        EXCEPT !.head = e.head, !.blocked_releases = 0]

\* Mutant of AfterLeaseExpired: the storm test reads the counter before it is raised.
AfterLeaseExpiredStale(t, e) ==
    LET charged == [AddWallClock(t, e.now) EXCEPT !.lease_expiries = @ + 1]
    IN  IF t.lease_expiries >= MaxLeaseExpiries
        THEN Escalated(charged, "lease_storm")
        ELSE Reopened(charged)

AfterLeaseExpired(t, e) ==
    LET charged == [AddWallClock(t, e.now) EXCEPT !.lease_expiries = @ + 1]
    IN  IF charged.lease_expiries >= MaxLeaseExpiries
        THEN Escalated(charged, "lease_storm")
        ELSE Reopened(charged)

AfterRelease(t, e) ==
    LET charged == [AddAttempt(AddWallClock(t, e.now))
                       EXCEPT !.blocked_releases = IF e.blocked THEN @ + 1 ELSE 0]
    IN  IF e.blocked /\ charged.blocked_releases >= MaxBlockedReleases
        THEN Escalated(charged, "release_loop")
        ELSE ReopenedOr(charged, "budget")

AfterVerifyPassed(t) == [t EXCEPT !.state = "mergeable"]
AfterVerifyFailed(t) == ReopenedOr(AddAttempt(t), "budget")
AfterMerged(t, e) == [InState(t, "closed") EXCEPT !.head = e.merged]
AfterMergeFailed(t) == ReopenedOr(AddAttempt(t), "merge_conflict")

AfterOperatorRetry(t) ==
    [Reopened(t) EXCEPT !.tokens = 0, !.wall_clock = 0, !.attempts = 0,
                        !.lease_expiries = 0, !.blocked_releases = 0]

NextTask(t, e) ==
    CASE e.event = "claim"            -> AfterClaim(t, e)
      [] e.event = "heartbeat"        -> AfterHeartbeat(t, e)
      [] e.event = "submit"           -> AfterSubmit(t, e)
      [] e.event = "lease_expired"    -> AfterLeaseExpired(t, e)
      [] e.event = "release"          -> AfterRelease(t, e)
      [] e.event = "provider_stopped" -> Reopened(t)
      [] e.event = "verify_passed"    -> AfterVerifyPassed(t)
      [] e.event = "verify_blocked"   -> Escalated(t, "environment")
      [] e.event = "verify_failed"    -> AfterVerifyFailed(t)
      [] e.event = "merged"           -> AfterMerged(t, e)
      [] e.event = "merge_failed"     -> AfterMergeFailed(t)
      [] e.event = "cancel"           -> InState(t, "canceled")
      [] e.event = "operator_retry"   -> AfterOperatorRetry(t)
      [] e.event = "escalate"         -> Escalated(t, e.reason)

\* Mutant of Effects: only an escalation is filed as an incident.
EffectsQuiet(t, e) ==
    CASE e.event = "verify_passed" -> <<"OpenMergeBead">>
      [] e.event = "merged"        -> <<"CloseTaskBead", "CloseVerifyBead">>
      [] e.event = "cancel"        -> <<"CloseMergeBeads">>
      [] e.event = "escalate"      -> <<"OpenIncidentBead">>
      [] OTHER -> <<>>

\* Mutant of Effects: the verify bead of a landed task stays open.
EffectsHalf(t, e) ==
    CASE e.event = "verify_passed" -> <<"OpenMergeBead">>
      [] e.event = "merged"        -> <<"CloseTaskBead">>
      [] e.event = "cancel"        -> <<"CloseMergeBeads">>
      [] OTHER -> IF NextTask(t, e).state = "incident" THEN <<"OpenIncidentBead">> ELSE <<>>

\* The effects, in the order the shell runs them.  AppendNote changes nothing the modules
\* on top look at; it is kept out of the sequence.
Effects(t, e) ==
    CASE e.event = "verify_passed" -> <<"OpenMergeBead">>
      [] e.event = "merged"        -> <<"CloseTaskBead", "CloseVerifyBead">>
      [] e.event = "cancel"        -> <<"CloseMergeBeads">>
      [] OTHER -> IF NextTask(t, e).state = "incident" THEN <<"OpenIncidentBead">> ELSE <<>>

-----------------------------------------------------------------------------
\* Where a task is, for somebody who only asks whether work on it goes on.
PhaseOf(t) ==
    CASE t.state = "open"       -> "ready"
      [] t.state = "leased"     -> "working"
      [] t.state = "in_verify"  -> "reviewing"
      [] t.state = "mergeable"  -> "reviewing"
      [] t.state = "incident"   -> "parked"
      [] t.state = "closed"     -> "done"
      [] t.state = "canceled"   -> "stopped"
=============================================================================
