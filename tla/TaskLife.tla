------------------------------- MODULE TaskLife -------------------------------
(***************************************************************************)
(* One task under `Task::apply`, driven by every legal sequence of events: *)
(* each action is one event, with the facts its caller could report.  The  *)
(* clock is the wall clock of the rig's host; holders report the current   *)
(* time, the Steward the time its sweep began.                             *)
(*                                                                         *)
(* `beat` is when the lease was granted or last renewed: the holder's      *)
(* timer.  `atClaim` is a history variable: the attempts on the task's     *)
(* account when it was last claimed, none once an operator has wiped it.   *)
(***************************************************************************)
EXTENDS TaskMachine

CONSTANTS
    Ttl,        \* WorkerConfig.lease_ttl
    MaxTokens,  \* tokens one session reports, at most
    MaxTime     \* bound: the clock stops here

ASSUME TimeAssumption ==
    /\ Ttl \in Nat \ {0}
    /\ MaxTokens \in Nat
    /\ MaxTime \in Nat

VARIABLES task, now, atClaim, beat

vars == <<task, now, atClaim, beat>>
side == <<atClaim, beat>>

Init ==
    /\ task = NewTask
    /\ now = 0
    /\ atClaim = 0
    /\ beat = 0

\* Task::apply on a legal event.
Apply(e) ==
    /\ Legal(task, e)
    /\ task' = NextTask(task, e)
    /\ UNCHANGED now

Tick ==
    /\ now < MaxTime
    /\ now' = now + 1
    /\ UNCHANGED <<task, side>>

DoClaim(a) ==
    /\ Apply(Claim(a, now, Ttl))
    /\ atClaim' = task.attempts
    /\ beat' = now

DoHeartbeat(a) ==
    /\ now >= beat + HeartbeatInterval(Ttl)
    /\ Apply(Heartbeat(a, now))
    /\ beat' = now
    /\ UNCHANGED atClaim

DoSubmit(a, head, tokens) ==
    /\ Apply(Submit(a, head, now, tokens))
    /\ UNCHANGED side

DoLeaseExpired(sweep) == Apply(LeaseExpired(sweep)) /\ UNCHANGED side

DoRelease(a, blocked) ==
    /\ Apply(Release(a, now, blocked))
    /\ UNCHANGED side

DoProviderStopped(a) == Apply(ProviderStopped(a)) /\ UNCHANGED side

DoVerifyPassed == Apply(Plain("verify_passed")) /\ UNCHANGED side
DoVerifyBlocked == Apply(Plain("verify_blocked")) /\ UNCHANGED side

DoFail(event) == Apply(Plain(event)) /\ UNCHANGED side

DoMerged(merged) == Apply(Merged(merged)) /\ UNCHANGED side

DoEscalate(reason) == Apply(Escalate(reason)) /\ UNCHANGED side

DoCancel == Apply(Plain("cancel")) /\ UNCHANGED side

DoOperatorRetry ==
    /\ Apply(Plain("operator_retry"))
    /\ atClaim' = 0
    /\ UNCHANGED beat

Next ==
    \/ Tick
    \/ \E a \in Agents : DoClaim(a)
    \/ \E a \in Agents : DoHeartbeat(a)
    \/ \E a \in Agents, head \in Heads, tokens \in 0..MaxTokens : DoSubmit(a, head, tokens)
    \/ \E sweep \in 0..now : DoLeaseExpired(sweep)
    \/ \E a \in Agents, blocked \in BOOLEAN : DoRelease(a, blocked)
    \/ \E a \in Agents : DoProviderStopped(a)
    \/ DoVerifyPassed
    \/ DoVerifyBlocked
    \/ \E event \in {"verify_failed", "merge_failed"} : DoFail(event)
    \/ \E merged \in Heads : DoMerged(merged)
    \/ DoEscalate("budget")
    \/ DoCancel
    \/ DoOperatorRetry

Spec == Init /\ [][Next]_vars

-----------------------------------------------------------------------------
TypeOK ==
    /\ task \in Tasks
    /\ now \in Nat
    /\ atClaim \in Nat
    /\ beat \in Nat

\* No path of claims, releases, failed verifications, failed merges and lost workers leaves a
\* task claimable or in progress with a counter spent: `open` and `leased` tasks have an
\* attempt, a lease expiry and a blocked release to spare and their tokens within the limit,
\* and a submission under review has an attempt to spare.  (Budget::check runs in three of
\* the six ways back to `open`; the others must be harmless.)
SpendableWhileActive ==
    /\ task.state \in {"open", "leased"} =>
           /\ task.attempts < AttemptLimit
           /\ task.tokens <= TokenLimit
           /\ task.blocked_releases < MaxBlockedReleases
    /\ task.state \in {"in_verify", "mergeable"} => task.attempts < AttemptLimit
    /\ task.state \in {"open", "leased", "in_verify", "mergeable"} =>
           task.lease_expiries < MaxLeaseExpiries

\* One claim costs at most one attempt, whichever of release, failed verification and failed
\* merge ends it, and none while its session runs or its submission waits for a verdict.
OneChargePerClaim ==
    /\ task.attempts <= atClaim + 1
    /\ task.state \in {"leased", "in_verify", "mergeable"} => task.attempts = atClaim

\* The task as BoundedRework sees it.
Rework == INSTANCE BoundedRework WITH
    Tries <- AttemptLimit,
    Lives <- MaxLeaseExpiries,
    phase <- PhaseOf(task),
    tries <- AttemptLimit - task.attempts,
    lives <- MaxLeaseExpiries - task.lease_expiries

\* The event-driven machine implements the bounded rework it promises: every event is one
\* of its steps or changes nothing it shows.
ImplementsBoundedRework == Rework!Spec

\* "Extend the lease from `now` (not from the old expiry) so a stalled heartbeat cannot
\* accumulate credit" (crates/domain/src/lease.rs:30): a lease never outlives its last
\* renewal by more than the ttl it was granted with.
LeaseCreditIsTtl == task.state = "leased" => task.lease.expires <= beat + Ttl

=============================================================================
