---------------------------- MODULE TaskMachineProofs ----------------------------
(***************************************************************************)
(* Lemmas about the operators of TaskMachine: what each event makes of a   *)
(* task, where it is accepted from, and that it keeps TaskInv.  They hold  *)
(* of every task, whoever applies the event: TaskLifeProofs and RigProofs  *)
(* both rest on them.                                                      *)
(***************************************************************************)
EXTENDS TaskMachine, TLAPS

-----------------------------------------------------------------------------
(* What each event does to the task.                                       *)

\* NextTask picks the operator of the event it is given.
LEMMA Dispatch ==
    ASSUME NEW t
    PROVE  /\ \A h, n, ttl : NextTask(t, Claim(h, n, ttl)) = AfterClaim(t, Claim(h, n, ttl))
           /\ \A h, n : NextTask(t, Heartbeat(h, n)) = AfterHeartbeat(t, Heartbeat(h, n))
           /\ \A h, c, n, k :
                 NextTask(t, Submit(h, c, n, k)) = AfterSubmit(t, Submit(h, c, n, k))
           /\ \A n : NextTask(t, LeaseExpired(n)) = AfterLeaseExpired(t, LeaseExpired(n))
           /\ \A h, n, b : NextTask(t, Release(h, n, b)) = AfterRelease(t, Release(h, n, b))
           /\ \A h : NextTask(t, ProviderStopped(h)) = Reopened(t)
           /\ \A r : NextTask(t, Escalate(r)) = Escalated(t, r)
           /\ \A m : NextTask(t, Merged(m)) = AfterMerged(t, Merged(m))
           /\ NextTask(t, Plain("verify_passed")) = AfterVerifyPassed(t)
           /\ NextTask(t, Plain("verify_blocked")) = Escalated(t, "environment")
           /\ NextTask(t, Plain("verify_failed")) = AfterVerifyFailed(t)
           /\ NextTask(t, Plain("merge_failed")) = AfterMergeFailed(t)
           /\ NextTask(t, Plain("cancel")) = InState(t, "canceled")
           /\ NextTask(t, Plain("operator_retry")) = AfterOperatorRetry(t)
BY DEF NextTask, Claim, Heartbeat, Submit, LeaseExpired, Release, ProviderStopped,
       Escalate, Merged, Plain

\* Elapsed time is never negative, even when the two clock readings are out of order.
LEMMA SinceNat == \A x, y \in Nat : Since(x, y) \in Nat
BY DEF Since

LEMMA LeaseFields ==
    ASSUME NEW l \in Leases
    PROVE  l.claimed_at \in Nat /\ l.expires \in Nat
BY DEF Leases, NoLease

LEMMA LimitsAreConstants ==
    MaxLeaseExpiries = 3 /\ MaxBlockedReleases = 2
BY DEF MaxLeaseExpiries, MaxBlockedReleases

\* Leaving for a state, reopening and escalating keep a task a task.
LEMMA InStateType ==
    ASSUME NEW t \in Tasks, NEW s \in StateNames
    PROVE  /\ InState(t, s) \in Tasks
           /\ InState(t, s).state = s
           /\ InState(t, s).tokens = t.tokens
           /\ InState(t, s).wall_clock = t.wall_clock
           /\ InState(t, s).attempts = t.attempts
           /\ InState(t, s).lease_expiries = t.lease_expiries
           /\ InState(t, s).blocked_releases = t.blocked_releases
BY DEF InState, Tasks, Leases

LEMMA EscalatedType ==
    ASSUME NEW t \in Tasks, NEW r \in Reasons
    PROVE  /\ Escalated(t, r) \in Tasks
           /\ Escalated(t, r).state = "incident"
           /\ Escalated(t, r).attempts = t.attempts
           /\ Escalated(t, r).lease_expiries = t.lease_expiries
<1>1. "incident" \in StateNames
  BY DEF StateNames
<1>2. InState(t, "incident") \in Tasks
  BY <1>1, InStateType
<1> QED
  BY <1>1, <1>2, InStateType DEF Escalated, Tasks

LEMMA ReopenedType ==
    ASSUME NEW t \in Tasks
    PROVE  /\ Reopened(t) \in Tasks
           /\ Reopened(t).state = "open"
           /\ Reopened(t).tokens = t.tokens
           /\ Reopened(t).attempts = t.attempts
           /\ Reopened(t).lease_expiries = t.lease_expiries
           /\ Reopened(t).blocked_releases = t.blocked_releases
BY InStateType DEF Reopened, StateNames

\* After a charge a task is open only with its budget intact; otherwise it is an incident.
LEMMA ReopenedOrSplits ==
    ASSUME NEW t \in Tasks, NEW r \in Reasons
    PROVE  /\ ReopenedOr(t, r) \in Tasks
           /\ ReopenedOr(t, r).attempts = t.attempts
           /\ ReopenedOr(t, r).lease_expiries = t.lease_expiries
           /\ \/ /\ ReopenedOr(t, r).state = "open"
                 /\ WithinBudget(t)
                 /\ ReopenedOr(t, r).tokens = t.tokens
                 /\ ReopenedOr(t, r).blocked_releases = t.blocked_releases
              \/ ReopenedOr(t, r).state = "incident"
BY ReopenedType, EscalatedType DEF ReopenedOr

-----------------------------------------------------------------------------
(* Every event keeps TaskInv.                                              *)

\* A task that is active has something left to spend.  It is not enough to say so of the
\* counters that are read where it becomes open: verify_failed and merge_failed reopen a task
\* without looking at its blocked releases, harmless only because submitting reset them.
TaskInv(t) ==
    /\ t \in Tasks
    /\ t.state \in {"open", "leased"} =>
           /\ t.attempts < AttemptLimit
           /\ t.tokens <= TokenLimit
           /\ t.blocked_releases < MaxBlockedReleases
    /\ t.state \in {"in_verify", "mergeable"} =>
           t.attempts < AttemptLimit /\ t.blocked_releases = 0
    /\ t.state \in {"open", "leased", "in_verify", "mergeable"} =>
           t.lease_expiries < MaxLeaseExpiries

LEMMA NewTaskInv == TaskInv(NewTask) /\ NewTask.state = "open"
BY LimitsAssumption, LimitsAreConstants
DEF TaskInv, NewTask, Tasks, Leases, StateNames, Reasons

\* The parts of a task no charge touches, and the counters another charge would.
SameBut(t, u) ==
    /\ u.state = t.state
    /\ u.lease = t.lease
    /\ u.lease_expiries = t.lease_expiries
    /\ u.blocked_releases = t.blocked_releases

\* Charging keeps a task a task, and moves only the counter it charges.
LEMMA ChargesType ==
    ASSUME NEW t \in Tasks, NEW n \in Nat
    PROVE  /\ AddTokens(t, n) \in Tasks
           /\ SameBut(t, AddTokens(t, n))
           /\ AddTokens(t, n).attempts = t.attempts
           /\ AddWallClock(t, n) \in Tasks
           /\ SameBut(t, AddWallClock(t, n))
           /\ AddWallClock(t, n).attempts = t.attempts
           /\ AddWallClock(t, n).tokens = t.tokens
           /\ AddAttempt(t) \in Tasks
           /\ SameBut(t, AddAttempt(t))
           /\ AddAttempt(t).attempts = t.attempts + 1
           /\ AddAttempt(t).tokens = t.tokens
<1>1. t.lease.claimed_at \in Nat
  BY LeaseFields DEF Tasks
<1>2. Since(n, t.lease.claimed_at) \in Nat
  BY <1>1, SinceNat
<1> QED
  BY <1>2 DEF Tasks, AddTokens, AddWallClock, AddAttempt, SameBut

LEMMA ClaimInv ==
    ASSUME NEW t, TaskInv(t), t.state = "open",
           NEW a \in Agents, NEW n \in Nat, NEW ttl \in Nat
    PROVE  /\ TaskInv(AfterClaim(t, Claim(a, n, ttl)))
           /\ AfterClaim(t, Claim(a, n, ttl)).state = "leased"
<1>1. Grant(a, n, ttl) \in Leases
  BY DEF Grant, Leases
<1> QED
  BY <1>1 DEF TaskInv, AfterClaim, Claim, Tasks, StateNames

LEMMA HeartbeatInv ==
    ASSUME NEW t, TaskInv(t), t.state = "leased",
           NEW a \in Agents, NEW n \in Nat, t.lease.holder = a
    PROVE  /\ TaskInv(AfterHeartbeat(t, Heartbeat(a, n)))
           /\ AfterHeartbeat(t, Heartbeat(a, n)).state = "leased"
<1>1. t.lease.claimed_at \in Nat /\ t.lease.expires \in Nat /\ t.lease \in Leases
  BY LeaseFields DEF TaskInv, Tasks
<1>2. n + Since(t.lease.expires, t.lease.claimed_at) \in Nat
  BY <1>1 DEF Since
<1>3. Renew(t.lease, n) \in Leases
  BY <1>1, <1>2 DEF Renew, Leases, NoLease
<1> QED
  BY <1>3 DEF TaskInv, AfterHeartbeat, Heartbeat, Tasks

LEMMA SubmitInv ==
    ASSUME NEW t, TaskInv(t), t.state = "leased",
           NEW a \in Agents, NEW c \in Heads, NEW n \in Nat, NEW k \in Nat
    PROVE  /\ TaskInv(AfterSubmit(t, Submit(a, c, n, k)))
           /\ AfterSubmit(t, Submit(a, c, n, k)).state = "in_verify"
<1> DEFINE charged1 == AddTokens(AddWallClock(t, n), k)
<1>1. charged1 \in Tasks
  BY ChargesType DEF TaskInv
<1>2. charged1.attempts = t.attempts /\ charged1.lease_expiries = t.lease_expiries
  BY ChargesType DEF TaskInv, SameBut
<1>3. InState(charged1, "in_verify") \in Tasks
  BY <1>1, InStateType DEF StateNames
<1>4. /\ InState(charged1, "in_verify").state = "in_verify"
      /\ InState(charged1, "in_verify").attempts = t.attempts
      /\ InState(charged1, "in_verify").lease_expiries = t.lease_expiries
  BY <1>1, <1>2, InStateType DEF StateNames
<1>5. AfterSubmit(t, Submit(a, c, n, k))
        = [InState(charged1, "in_verify") EXCEPT !.head = c, !.blocked_releases = 0]
  BY DEF AfterSubmit, Submit
<1> DEFINE given == InState(charged1, "in_verify")
           next == [given EXCEPT !.head = c, !.blocked_releases = 0]
<1> HIDE DEF charged1, given
<1>6. /\ next \in Tasks /\ next.state = given.state /\ next.blocked_releases = 0
      /\ next.attempts = given.attempts /\ next.lease_expiries = given.lease_expiries
  BY <1>3 DEF Tasks, given
<1> QED
  BY <1>4, <1>5, <1>6, LimitsAreConstants DEF TaskInv, given

LEMMA LeaseExpiredInv ==
    ASSUME NEW t, TaskInv(t), t.state = "leased", NEW n \in Nat
    PROVE  LET next == AfterLeaseExpired(t, LeaseExpired(n))
           IN  /\ TaskInv(next)
               /\ next.attempts = t.attempts
               /\ next.lease_expiries = t.lease_expiries + 1
               /\ \/ next.state = "open" /\ t.lease_expiries + 1 < MaxLeaseExpiries
                  \/ next.state = "incident"
<1> DEFINE lost == [AddWallClock(t, n) EXCEPT !.lease_expiries = @ + 1]
           next == AfterLeaseExpired(t, LeaseExpired(n))
<1>1. t \in Tasks /\ AddWallClock(t, n) \in Tasks
  BY ChargesType DEF TaskInv
<1>2. /\ lost \in Tasks
      /\ lost.attempts = t.attempts
      /\ lost.tokens = t.tokens
      /\ lost.blocked_releases = t.blocked_releases
      /\ lost.lease_expiries = t.lease_expiries + 1
  <2>1. /\ lost \in Tasks
        /\ lost.lease_expiries = AddWallClock(t, n).lease_expiries + 1
        /\ lost.attempts = AddWallClock(t, n).attempts
        /\ lost.tokens = AddWallClock(t, n).tokens
        /\ lost.blocked_releases = AddWallClock(t, n).blocked_releases
    BY <1>1 DEF Tasks
  <2> QED
    BY <1>1, <2>1, ChargesType DEF SameBut
<1>3. next = IF lost.lease_expiries >= MaxLeaseExpiries
             THEN Escalated(lost, "lease_storm") ELSE Reopened(lost)
  BY DEF AfterLeaseExpired, LeaseExpired
<1>4. t.lease_expiries \in Nat
  BY <1>1 DEF Tasks
<1> HIDE DEF lost, next
<1>5. CASE lost.lease_expiries >= MaxLeaseExpiries
  <2>1. next = Escalated(lost, "lease_storm") /\ "lease_storm" \in Reasons
    BY <1>3, <1>5 DEF Reasons
  <2>2. /\ next \in Tasks /\ next.state = "incident"
        /\ next.attempts = lost.attempts /\ next.lease_expiries = lost.lease_expiries
    BY <1>2, <2>1, EscalatedType
  <2> QED
    BY <1>2, <2>2 DEF TaskInv, next
<1>6. CASE ~(lost.lease_expiries >= MaxLeaseExpiries)
  <2>1. next = Reopened(lost)
    BY <1>3, <1>6
  <2>2. /\ next \in Tasks /\ next.state = "open"
        /\ next.attempts = lost.attempts /\ next.lease_expiries = lost.lease_expiries
        /\ next.tokens = lost.tokens /\ next.blocked_releases = lost.blocked_releases
    BY <1>2, <2>1, ReopenedType
  <2>3. t.lease_expiries + 1 < MaxLeaseExpiries
    BY <1>2, <1>4, <1>6, LimitsAreConstants
  <2> QED
    BY <1>2, <2>2, <2>3 DEF TaskInv, next
<1> QED
  BY <1>5, <1>6

\* A blocked, spent or merely unlucky release: one attempt, and open only with some left.
LEMMA ReleaseInv ==
    ASSUME NEW t, TaskInv(t), t.state = "leased",
           NEW a \in Agents, NEW n \in Nat, NEW blocked \in BOOLEAN
    PROVE  LET next == AfterRelease(t, Release(a, n, blocked))
           IN  /\ TaskInv(next)
               /\ next.attempts = t.attempts + 1
               /\ next.lease_expiries = t.lease_expiries
               /\ \/ next.state = "open" /\ t.attempts + 1 < AttemptLimit
                  \/ next.state = "incident"
<1> DEFINE paid == AddAttempt(AddWallClock(t, n))
           left == [paid EXCEPT !.blocked_releases = IF blocked THEN @ + 1 ELSE 0]
           next == AfterRelease(t, Release(a, n, blocked))
<1>1. AddWallClock(t, n) \in Tasks /\ t \in Tasks
  BY ChargesType DEF TaskInv
<1>2. /\ paid \in Tasks
      /\ paid.attempts = t.attempts + 1
      /\ paid.lease_expiries = t.lease_expiries
      /\ paid.blocked_releases = t.blocked_releases
  BY <1>1, ChargesType DEF SameBut
<1>3. /\ left \in Tasks
      /\ left.attempts = t.attempts + 1
      /\ left.lease_expiries = t.lease_expiries
      /\ left.blocked_releases = IF blocked THEN t.blocked_releases + 1 ELSE 0
  <2> HIDE DEF paid
  <2> QED
    BY <1>2 DEF Tasks
<1>4. next = IF blocked /\ left.blocked_releases >= MaxBlockedReleases
             THEN Escalated(left, "release_loop") ELSE ReopenedOr(left, "budget")
  BY DEF AfterRelease, Release
<1>5. t.blocked_releases \in Nat /\ t.attempts \in Nat
  BY <1>1 DEF Tasks
<1> HIDE DEF paid, left, next
<1>6. CASE blocked /\ left.blocked_releases >= MaxBlockedReleases
  <2>1. next = Escalated(left, "release_loop") /\ "release_loop" \in Reasons
    BY <1>4, <1>6 DEF Reasons
  <2>2. /\ next \in Tasks /\ next.state = "incident"
        /\ next.attempts = left.attempts /\ next.lease_expiries = left.lease_expiries
    BY <1>3, <2>1, EscalatedType
  <2> QED
    BY <1>3, <2>2 DEF TaskInv, next
<1>7. CASE ~(blocked /\ left.blocked_releases >= MaxBlockedReleases)
  <2>1. next = ReopenedOr(left, "budget") /\ "budget" \in Reasons
    BY <1>4, <1>7 DEF Reasons
  <2>2. /\ next \in Tasks
        /\ next.attempts = left.attempts /\ next.lease_expiries = left.lease_expiries
        /\ \/ /\ next.state = "open" /\ WithinBudget(left)
              /\ next.tokens = left.tokens
              /\ next.blocked_releases = left.blocked_releases
           \/ next.state = "incident"
    BY <1>3, <2>1, ReopenedOrSplits
  <2>3. left.blocked_releases < MaxBlockedReleases
    BY <1>3, <1>5, <1>7, LimitsAreConstants
  <2> QED
    BY <1>3, <2>2, <2>3 DEF TaskInv, next, WithinBudget
<1> QED
  BY <1>6, <1>7

\* A failed verification or a failed merge.
LEMMA FailInv ==
    ASSUME NEW t, TaskInv(t), t.state \in {"in_verify", "mergeable"}, NEW r \in Reasons
    PROVE  LET next == ReopenedOr(AddAttempt(t), r)
           IN  /\ TaskInv(next)
               /\ next.attempts = t.attempts + 1
               /\ next.lease_expiries = t.lease_expiries
               /\ \/ next.state = "open" /\ t.attempts + 1 < AttemptLimit
                  \/ next.state = "incident"
<1> DEFINE paid == AddAttempt(t)
           next == ReopenedOr(paid, r)
<1>1. /\ paid \in Tasks
      /\ paid.attempts = t.attempts + 1
      /\ paid.lease_expiries = t.lease_expiries
      /\ paid.blocked_releases = 0
  BY ChargesType DEF SameBut, TaskInv
<1> HIDE DEF paid
<1>2. /\ next \in Tasks
      /\ next.attempts = paid.attempts /\ next.lease_expiries = paid.lease_expiries
      /\ \/ /\ next.state = "open" /\ WithinBudget(paid)
            /\ next.tokens = paid.tokens
            /\ next.blocked_releases = paid.blocked_releases
         \/ next.state = "incident"
  BY <1>1, ReopenedOrSplits
<1> HIDE DEF next
<1>3. TaskInv(next)
  BY <1>1, <1>2, LimitsAreConstants DEF TaskInv, WithinBudget
<1>4. next.state = "open" => t.attempts + 1 < AttemptLimit
  BY <1>1, <1>2 DEF WithinBudget
<1> QED
  BY <1>1, <1>2, <1>3, <1>4 DEF paid, next

\* The states nothing is asked of.
LEMMA LeaveInv ==
    ASSUME NEW t, TaskInv(t)
    PROVE  /\ \A r \in Reasons : /\ TaskInv(Escalated(t, r))
                               /\ Escalated(t, r).state = "incident"
           /\ TaskInv(InState(t, "canceled")) /\ InState(t, "canceled").state = "canceled"
           /\ \A m \in Heads : /\ TaskInv(AfterMerged(t, Merged(m)))
                             /\ AfterMerged(t, Merged(m)).state = "closed"
<1>1. t \in Tasks /\ "canceled" \in StateNames /\ "closed" \in StateNames
  BY DEF TaskInv, StateNames
<1>2. ASSUME NEW m \in Heads
      PROVE  /\ AfterMerged(t, Merged(m)) \in Tasks
             /\ AfterMerged(t, Merged(m)).state = "closed"
  <2> DEFINE done == InState(t, "closed")
  <2>1. done \in Tasks /\ done.state = "closed"
    BY <1>1, InStateType
  <2>2. AfterMerged(t, Merged(m)) = [done EXCEPT !.head = m]
    BY DEF AfterMerged, Merged
  <2> HIDE DEF done
  <2> QED
    BY <2>1, <2>2 DEF Tasks
<1> QED
  BY <1>1, <1>2, InStateType, EscalatedType DEF TaskInv

LEMMA ReopenInv ==
    ASSUME NEW t, TaskInv(t), t.state = "leased"
    PROVE  TaskInv(Reopened(t)) /\ Reopened(t).state = "open"
BY ReopenedType DEF TaskInv

LEMMA VerifyPassedInv ==
    ASSUME NEW t, TaskInv(t), t.state = "in_verify"
    PROVE  TaskInv(AfterVerifyPassed(t)) /\ AfterVerifyPassed(t).state = "mergeable"
BY DEF TaskInv, AfterVerifyPassed, Tasks, StateNames

LEMMA OperatorRetryInv ==
    ASSUME NEW t, TaskInv(t)
    PROVE  TaskInv(AfterOperatorRetry(t)) /\ AfterOperatorRetry(t).state = "open"
<1> DEFINE open == Reopened(t)
<1>1. open \in Tasks /\ open.state = "open"
  BY ReopenedType DEF TaskInv
<1>2. AfterOperatorRetry(t) =
        [open EXCEPT !.tokens = 0, !.wall_clock = 0, !.attempts = 0,
                     !.lease_expiries = 0, !.blocked_releases = 0]
  BY DEF AfterOperatorRetry
<1> DEFINE next == AfterOperatorRetry(t)
<1> HIDE DEF open
<1>3. /\ next \in Tasks /\ next.state = "open" /\ next.tokens = 0 /\ next.attempts = 0
      /\ next.lease_expiries = 0 /\ next.blocked_releases = 0
  <2>1. next =
          [state |-> open.state, lease |-> open.lease, head |-> open.head,
           reason |-> open.reason, tokens |-> 0, wall_clock |-> 0, attempts |-> 0,
           lease_expiries |-> 0, blocked_releases |-> 0]
    BY <1>1, <1>2 DEF Tasks
  <2> QED
    BY <1>1, <2>1 DEF Tasks
<1> HIDE DEF next
<1>4. TaskInv(next)
  BY <1>3, LimitsAssumption, LimitsAreConstants DEF TaskInv
<1> QED
  BY <1>3, <1>4 DEF next

\* The counters after the events that leave them alone.
LEMMA Unspent ==
    ASSUME NEW t \in Tasks
    PROVE  /\ \A h, n, k : /\ AfterClaim(t, Claim(h, n, k)).attempts = t.attempts
                         /\ AfterClaim(t, Claim(h, n, k)).lease_expiries = t.lease_expiries
           /\ \A h, n : LET u == AfterHeartbeat(t, Heartbeat(h, n))
                       IN  u.attempts = t.attempts /\ u.lease_expiries = t.lease_expiries
                           /\ u.state = t.state
           /\ AfterVerifyPassed(t).attempts = t.attempts
           /\ AfterVerifyPassed(t).lease_expiries = t.lease_expiries
           /\ InState(t, "canceled").attempts = t.attempts
           /\ InState(t, "canceled").lease_expiries = t.lease_expiries
           /\ \A m : /\ AfterMerged(t, Merged(m)).attempts = t.attempts
                    /\ AfterMerged(t, Merged(m)).lease_expiries = t.lease_expiries
           /\ AfterOperatorRetry(t).attempts = 0
           /\ AfterOperatorRetry(t).lease_expiries = 0
<1>1. /\ InState(t, "canceled").attempts = t.attempts
      /\ InState(t, "canceled").lease_expiries = t.lease_expiries
      /\ InState(t, "closed").attempts = t.attempts
      /\ InState(t, "closed").lease_expiries = t.lease_expiries
  BY InStateType DEF StateNames
<1>2. ASSUME NEW m
      PROVE  /\ AfterMerged(t, Merged(m)).attempts = t.attempts
             /\ AfterMerged(t, Merged(m)).lease_expiries = t.lease_expiries
  <2> DEFINE done == InState(t, "closed")
  <2>1. done \in Tasks
    BY InStateType DEF StateNames
  <2>2. AfterMerged(t, Merged(m)) = [done EXCEPT !.head = m]
    BY DEF AfterMerged, Merged
  <2>3. done.attempts = t.attempts /\ done.lease_expiries = t.lease_expiries
    BY <1>1
  <2> HIDE DEF done
  <2> QED
    BY <2>1, <2>2, <2>3 DEF Tasks
<1>3. /\ AfterOperatorRetry(t).attempts = 0
      /\ AfterOperatorRetry(t).lease_expiries = 0
  <2> DEFINE open == Reopened(t)
  <2>1. open \in Tasks
    BY ReopenedType
  <2>2. AfterOperatorRetry(t) =
          [open EXCEPT !.tokens = 0, !.wall_clock = 0, !.attempts = 0,
                       !.lease_expiries = 0, !.blocked_releases = 0]
    BY DEF AfterOperatorRetry
  <2> HIDE DEF open
  <2> QED
    BY <2>1, <2>2 DEF Tasks
<1>4. /\ \A h, n, k : /\ AfterClaim(t, Claim(h, n, k)).attempts = t.attempts
                     /\ AfterClaim(t, Claim(h, n, k)).lease_expiries = t.lease_expiries
      /\ AfterVerifyPassed(t).attempts = t.attempts
      /\ AfterVerifyPassed(t).lease_expiries = t.lease_expiries
  BY DEF AfterClaim, AfterVerifyPassed, Tasks
<1>5. \A h, n : LET u == AfterHeartbeat(t, Heartbeat(h, n))
               IN  u.attempts = t.attempts /\ u.lease_expiries = t.lease_expiries
                   /\ u.state = t.state
  BY DEF AfterHeartbeat, Tasks
<1> QED
  BY <1>1, <1>2, <1>3, <1>4, <1>5

LEMMA SubmitUnspent ==
    ASSUME NEW t \in Tasks, NEW h, NEW c, NEW n \in Nat, NEW k \in Nat
    PROVE  /\ AfterSubmit(t, Submit(h, c, n, k)).attempts = t.attempts
           /\ AfterSubmit(t, Submit(h, c, n, k)).lease_expiries = t.lease_expiries
<1> DEFINE spent == AddTokens(AddWallClock(t, n), k)
           given == InState(spent, "in_verify")
<1>1. /\ spent \in Tasks /\ spent.attempts = t.attempts
      /\ spent.lease_expiries = t.lease_expiries
  BY ChargesType DEF SameBut
<1> HIDE DEF spent
<1>2. /\ given \in Tasks /\ given.attempts = t.attempts
      /\ given.lease_expiries = t.lease_expiries
  BY <1>1, InStateType DEF StateNames
<1>3. AfterSubmit(t, Submit(h, c, n, k)) = [given EXCEPT !.head = c, !.blocked_releases = 0]
  BY DEF AfterSubmit, Submit, spent
<1> HIDE DEF given
<1> QED
  BY <1>2, <1>3 DEF Tasks

-----------------------------------------------------------------------------
(* Where events are accepted.                                              *)

\* The states an event is accepted in, and what the holder's events have checked.
LEMMA LegalFrom ==
    ASSUME NEW t
    PROVE  /\ \A h, n, k : Legal(t, Claim(h, n, k)) => t.state = "open"
           /\ \A h, n : Legal(t, Heartbeat(h, n)) =>
                            t.state = "leased" /\ t.lease.holder = h
           /\ \A h, c, n, k : Legal(t, Submit(h, c, n, k)) => t.state = "leased"
           /\ \A n : Legal(t, LeaseExpired(n)) => t.state = "leased"
           /\ \A h, n, b : Legal(t, Release(h, n, b)) => t.state = "leased"
           /\ \A h : Legal(t, ProviderStopped(h)) => t.state = "leased"
           /\ Legal(t, Plain("verify_passed")) => t.state = "in_verify"
           /\ Legal(t, Plain("verify_blocked")) => t.state = "in_verify"
           /\ Legal(t, Plain("verify_failed")) => t.state = "in_verify"
           /\ Legal(t, Plain("merge_failed")) => t.state = "mergeable"
           /\ \A m : Legal(t, Merged(m)) => t.state = "mergeable"
           /\ \A r : Legal(t, Escalate(r)) =>
                        t.state \in {"open", "leased", "in_verify", "mergeable"}
           /\ Legal(t, Plain("cancel")) =>
                 t.state \in {"open", "leased", "in_verify", "mergeable", "incident"}
           /\ Legal(t, Plain("operator_retry")) => t.state = "incident"
BY DEF Legal, Accepts, HolderEvents, Claim, Heartbeat, Submit, LeaseExpired, Release,
       ProviderStopped, Merged, Escalate, Plain

LEMMA Phases ==
    ASSUME NEW t
    PROVE  /\ t.state = "open" => PhaseOf(t) = "ready"
           /\ t.state = "leased" => PhaseOf(t) = "working"
           /\ t.state = "in_verify" => PhaseOf(t) = "reviewing"
           /\ t.state = "mergeable" => PhaseOf(t) = "reviewing"
           /\ t.state = "incident" => PhaseOf(t) = "parked"
           /\ t.state = "closed" => PhaseOf(t) = "done"
           /\ t.state = "canceled" => PhaseOf(t) = "stopped"
BY DEF PhaseOf
=============================================================================
