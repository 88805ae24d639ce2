---------------------------- MODULE TaskLifeProofs ----------------------------
(***************************************************************************)
(* Theorems of TaskLife for every number of workers and commits, every     *)
(* budget and every lease ttl.                                             *)
(***************************************************************************)
EXTENDS TaskLife, TaskMachineProofs

-----------------------------------------------------------------------------
(* The inductive invariant.  SpendableWhileActive alone is not inductive:  *)
(* verify_failed and merge_failed reopen a task without looking at its     *)
(* blocked releases, which is harmless only because submitting reset them. *)

SubmissionResetsBlocked ==
    task.state \in {"in_verify", "mergeable"} => task.blocked_releases = 0

IInv ==
    /\ TypeOK
    /\ SpendableWhileActive
    /\ SubmissionResetsBlocked
    /\ OneChargePerClaim

LEMMA IInvSplits ==
    IInv <=> TaskInv(task) /\ now \in Nat /\ atClaim \in Nat /\ beat \in Nat
             /\ OneChargePerClaim
BY DEF IInv, TypeOK, SpendableWhileActive, SubmissionResetsBlocked, TaskInv

LEMMA IInvSplitsNext ==
    IInv' <=> TaskInv(task') /\ now' \in Nat /\ atClaim' \in Nat /\ beat' \in Nat
              /\ OneChargePerClaim'
BY DEF IInv, TypeOK, SpendableWhileActive, SubmissionResetsBlocked, TaskInv

-----------------------------------------------------------------------------
(* Every step keeps IInv.                                                  *)

LEMMA Initially == Init => IInv
BY NewTaskInv, IInvSplits DEF Init, OneChargePerClaim, NewTask

\* The next state keeps IInv once the task and the charges do.
LEMMA Inductive == IInv /\ [Next]_vars => IInv'
<1> SUFFICES ASSUME IInv, [Next]_vars PROVE IInv'
  OBVIOUS
<1>1. /\ TaskInv(task) /\ now \in Nat /\ atClaim \in Nat /\ beat \in Nat
      /\ OneChargePerClaim
  BY IInvSplits
<1> task \in Tasks /\ task.attempts \in Nat
  BY <1>1 DEF TaskInv, Tasks
<1>2. SUFFICES /\ TaskInv(task') /\ now' \in Nat /\ atClaim' \in Nat /\ beat' \in Nat
               /\ OneChargePerClaim'
  BY IInvSplitsNext
<1>3. CASE UNCHANGED vars
  BY <1>1, <1>3 DEF vars, OneChargePerClaim
<1>4. CASE Tick
  BY <1>1, <1>4 DEF Tick, side, OneChargePerClaim
<1>5. ASSUME NEW a \in Agents, DoClaim(a)
      PROVE  /\ TaskInv(task') /\ now' \in Nat /\ atClaim' \in Nat /\ beat' \in Nat
             /\ OneChargePerClaim'
  <2>1. task.state = "open" /\ task' = AfterClaim(task, Claim(a, now, Ttl))
    BY <1>5, LegalFrom, Dispatch DEF DoClaim, Apply
  <2>2. TaskInv(task') /\ task'.attempts = task.attempts
    BY <1>1, <2>1, ClaimInv, Unspent, TimeAssumption
  <2> QED
    BY <1>1, <1>5, <2>2 DEF DoClaim, Apply, OneChargePerClaim
<1>6. ASSUME NEW a \in Agents, DoHeartbeat(a)
      PROVE  /\ TaskInv(task') /\ now' \in Nat /\ atClaim' \in Nat /\ beat' \in Nat
             /\ OneChargePerClaim'
  <2>1. /\ task.state = "leased" /\ task.lease.holder = a
        /\ task' = AfterHeartbeat(task, Heartbeat(a, now))
    BY <1>6, LegalFrom, Dispatch DEF DoHeartbeat, Apply
  <2>2. TaskInv(task') /\ task'.attempts = task.attempts
    BY <1>1, <2>1, HeartbeatInv, Unspent
  <2> QED
    BY <1>1, <1>6, <2>1, <2>2 DEF DoHeartbeat, Apply, OneChargePerClaim
<1>7. ASSUME NEW a \in Agents, NEW c \in Heads, NEW k \in 0..MaxTokens, DoSubmit(a, c, k)
      PROVE  /\ TaskInv(task') /\ now' \in Nat /\ atClaim' \in Nat /\ beat' \in Nat
             /\ OneChargePerClaim'
  <2>1. task.state = "leased" /\ task' = AfterSubmit(task, Submit(a, c, now, k))
    BY <1>7, LegalFrom, Dispatch DEF DoSubmit, Apply
  <2>2. k \in Nat
    BY TimeAssumption
  <2>3. TaskInv(task') /\ task'.attempts = task.attempts
    BY <1>1, <2>1, <2>2, SubmitInv, SubmitUnspent
  <2> QED
    BY <1>1, <1>7, <2>1, <2>3 DEF DoSubmit, Apply, side, OneChargePerClaim
<1>8. ASSUME NEW sweep \in 0..now, DoLeaseExpired(sweep)
      PROVE  /\ TaskInv(task') /\ now' \in Nat /\ atClaim' \in Nat /\ beat' \in Nat
             /\ OneChargePerClaim'
  <2>1. task.state = "leased" /\ task' = AfterLeaseExpired(task, LeaseExpired(sweep))
    BY <1>8, LegalFrom, Dispatch DEF DoLeaseExpired, Apply
  <2>2. sweep \in Nat
    BY <1>1
  <2>3. /\ TaskInv(task') /\ task'.state \in {"open", "incident"}
        /\ task'.attempts = task.attempts
    BY <1>1, <2>1, <2>2, LeaseExpiredInv
  <2> QED
    BY <1>1, <1>8, <2>1, <2>3 DEF DoLeaseExpired, Apply, side, OneChargePerClaim
<1>9. ASSUME NEW a \in Agents, NEW blocked \in BOOLEAN, DoRelease(a, blocked)
      PROVE  /\ TaskInv(task') /\ now' \in Nat /\ atClaim' \in Nat /\ beat' \in Nat
             /\ OneChargePerClaim'
  <2>1. task.state = "leased" /\ task' = AfterRelease(task, Release(a, now, blocked))
    BY <1>9, LegalFrom, Dispatch DEF DoRelease, Apply
  <2>2. /\ TaskInv(task') /\ task'.state \in {"open", "incident"}
        /\ task'.attempts = task.attempts + 1
    BY <1>1, <2>1, ReleaseInv
  <2> QED
    BY <1>1, <1>9, <2>1, <2>2 DEF DoRelease, Apply, side, OneChargePerClaim
<1>10. ASSUME NEW a \in Agents, DoProviderStopped(a)
       PROVE  /\ TaskInv(task') /\ now' \in Nat /\ atClaim' \in Nat /\ beat' \in Nat
              /\ OneChargePerClaim'
  <2>1. task.state = "leased" /\ task' = Reopened(task)
    BY <1>10, LegalFrom, Dispatch DEF DoProviderStopped, Apply
  <2>2. TaskInv(task') /\ task'.state = "open" /\ task'.attempts = task.attempts
    BY <1>1, <2>1, ReopenInv, ReopenedType
  <2> QED
    BY <1>1, <1>10, <2>2 DEF DoProviderStopped, Apply, side, OneChargePerClaim
<1>11. CASE DoVerifyPassed
  <2>1. task.state = "in_verify" /\ task' = AfterVerifyPassed(task)
    BY <1>11, LegalFrom, Dispatch DEF DoVerifyPassed, Apply
  <2>2. TaskInv(task') /\ task'.state = "mergeable" /\ task'.attempts = task.attempts
    BY <1>1, <2>1, VerifyPassedInv, Unspent
  <2> QED
    BY <1>1, <1>11, <2>1, <2>2 DEF DoVerifyPassed, Apply, side, OneChargePerClaim
<1>12. CASE DoVerifyBlocked
  <2>1. task' = Escalated(task, "environment") /\ "environment" \in Reasons
    BY <1>12, Dispatch DEF DoVerifyBlocked, Apply, Reasons
  <2>2. TaskInv(task') /\ task'.state = "incident" /\ task'.attempts = task.attempts
    BY <1>1, <2>1, LeaveInv, EscalatedType
  <2> QED
    BY <1>1, <1>12, <2>2 DEF DoVerifyBlocked, Apply, side, OneChargePerClaim
<1>13. ASSUME NEW event \in {"verify_failed", "merge_failed"}, DoFail(event)
       PROVE  /\ TaskInv(task') /\ now' \in Nat /\ atClaim' \in Nat /\ beat' \in Nat
              /\ OneChargePerClaim'
  <2>1. PICK reason \in Reasons : task' = ReopenedOr(AddAttempt(task), reason)
    BY <1>13, Dispatch DEF DoFail, Apply, Reasons, AfterVerifyFailed, AfterMergeFailed
  <2>2. task.state \in {"in_verify", "mergeable"}
    BY <1>13, LegalFrom DEF DoFail, Apply
  <2>3. /\ TaskInv(task') /\ task'.state \in {"open", "incident"}
        /\ task'.attempts = task.attempts + 1
    BY <1>1, <2>1, <2>2, FailInv
  <2> QED
    BY <1>1, <1>13, <2>2, <2>3 DEF DoFail, Apply, side, OneChargePerClaim
<1>14. ASSUME NEW m \in Heads, DoMerged(m)
       PROVE  /\ TaskInv(task') /\ now' \in Nat /\ atClaim' \in Nat /\ beat' \in Nat
              /\ OneChargePerClaim'
  <2>1. task' = AfterMerged(task, Merged(m))
    BY <1>14, Dispatch DEF DoMerged, Apply
  <2>2. TaskInv(task') /\ task'.state = "closed" /\ task'.attempts = task.attempts
    BY <1>1, <2>1, LeaveInv, Unspent
  <2> QED
    BY <1>1, <1>14, <2>2 DEF DoMerged, Apply, side, OneChargePerClaim
<1>15. CASE DoEscalate("budget")
  <2>1. task' = Escalated(task, "budget") /\ "budget" \in Reasons
    BY <1>15, Dispatch DEF DoEscalate, Apply, Reasons
  <2>2. TaskInv(task') /\ task'.state = "incident" /\ task'.attempts = task.attempts
    BY <1>1, <2>1, LeaveInv, EscalatedType
  <2> QED
    BY <1>1, <1>15, <2>2 DEF DoEscalate, Apply, side, OneChargePerClaim
<1>16. CASE DoCancel
  <2>1. task' = InState(task, "canceled")
    BY <1>16, Dispatch DEF DoCancel, Apply
  <2>2. TaskInv(task') /\ task'.state = "canceled" /\ task'.attempts = task.attempts
    BY <1>1, <2>1, LeaveInv, Unspent
  <2> QED
    BY <1>1, <1>16, <2>2 DEF DoCancel, Apply, side, OneChargePerClaim
<1>17. CASE DoOperatorRetry
  <2>1. task' = AfterOperatorRetry(task)
    BY <1>17, Dispatch DEF DoOperatorRetry, Apply
  <2>2. TaskInv(task') /\ task'.state = "open" /\ task'.attempts = 0
    BY <1>1, <2>1, OperatorRetryInv, Unspent
  <2> QED
    BY <1>1, <1>17, <2>2 DEF DoOperatorRetry, Apply, OneChargePerClaim
<1> QED
  BY <1>3, <1>4, <1>5, <1>6, <1>7, <1>8, <1>9, <1>10, <1>11, <1>12, <1>13, <1>14, <1>15,
     <1>16, <1>17 DEF Next

LEMMA Invariance == Spec => []IInv
BY Initially, Inductive, PTL DEF Spec

-----------------------------------------------------------------------------
(* The machine implements BoundedRework.                                   *)

LEMMA InitRefines == Init => Rework!Init
<1> SUFFICES ASSUME Init PROVE Rework!Init
  OBVIOUS
<1>1. task.state = "open" /\ task.attempts = 0 /\ task.lease_expiries = 0
  BY DEF Init, NewTask
<1>2. PhaseOf(task) = "ready"
  BY <1>1, Phases
<1> QED
  BY <1>1, <1>2, LimitsAssumption, LimitsAreConstants DEF Rework!Init

\* Each event is one step of the abstract task, or none.
LEMMA StepRefines == IInv /\ [Next]_vars => [Rework!Next]_(Rework!vars)
<1> SUFFICES ASSUME IInv, [Next]_vars PROVE Rework!Next \/ UNCHANGED Rework!vars
  OBVIOUS
<1>1. TaskInv(task) /\ now \in Nat /\ task \in Tasks
  BY IInvSplits DEF TaskInv
<1>2. task.attempts \in Nat /\ task.lease_expiries \in Nat /\ AttemptLimit \in Nat
  BY <1>1, LimitsAssumption DEF Tasks
<1> USE DEF Rework!Next, Rework!Move, Rework!Active
<1>3. CASE UNCHANGED vars
  BY <1>3 DEF vars, Rework!vars
<1>4. CASE Tick
  BY <1>4 DEF Tick, Rework!vars
<1>5. ASSUME NEW a \in Agents, DoClaim(a)
      PROVE  Rework!Take
  <2>1. task.state = "open" /\ task' = AfterClaim(task, Claim(a, now, Ttl))
    BY <1>5, LegalFrom, Dispatch DEF DoClaim, Apply
  <2>2. task'.state = "leased"
    BY <1>1, <2>1, ClaimInv, TimeAssumption
  <2>3. task'.attempts = task.attempts /\ task'.lease_expiries = task.lease_expiries
    BY <1>1, <2>1, Unspent
  <2> QED
    BY <2>1, <2>2, <2>3, Phases DEF Rework!Take
<1>6. ASSUME NEW a \in Agents, DoHeartbeat(a)
      PROVE  UNCHANGED Rework!vars
  <2>1. task.state = "leased" /\ task' = AfterHeartbeat(task, Heartbeat(a, now))
    BY <1>6, LegalFrom, Dispatch DEF DoHeartbeat, Apply
  <2>2. /\ task'.attempts = task.attempts /\ task'.lease_expiries = task.lease_expiries
        /\ task'.state = task.state
    BY <1>1, <2>1, Unspent
  <2> QED
    BY <2>1, <2>2, Phases DEF Rework!vars
<1>7. ASSUME NEW a \in Agents, NEW c \in Heads, NEW k \in 0..MaxTokens, DoSubmit(a, c, k)
      PROVE  Rework!Deliver
  <2>1. /\ task.state = "leased" /\ task' = AfterSubmit(task, Submit(a, c, now, k))
        /\ k \in Nat
    BY <1>7, LegalFrom, Dispatch, TimeAssumption DEF DoSubmit, Apply
  <2>2. task'.state = "in_verify"
    BY <1>1, <2>1, SubmitInv
  <2>3. task'.attempts = task.attempts /\ task'.lease_expiries = task.lease_expiries
    BY <1>1, <2>1, SubmitUnspent
  <2> QED
    BY <2>1, <2>2, <2>3, Phases DEF Rework!Deliver
<1>8. ASSUME NEW sweep \in 0..now, DoLeaseExpired(sweep)
      PROVE  Rework!Lose \/ Rework!Park
  <2>1. /\ task.state = "leased" /\ task' = AfterLeaseExpired(task, LeaseExpired(sweep))
        /\ sweep \in Nat
    BY <1>1, <1>8, LegalFrom, Dispatch DEF DoLeaseExpired, Apply
  <2>2. /\ task'.attempts = task.attempts
        /\ task'.lease_expiries = task.lease_expiries + 1
        /\ \/ task'.state = "open" /\ task.lease_expiries + 1 < MaxLeaseExpiries
           \/ task'.state = "incident"
    BY <1>1, <2>1, LeaseExpiredInv
  <2>3. CASE task'.state = "open"
    BY <1>2, <2>1, <2>2, <2>3, Phases, LimitsAreConstants DEF Rework!Lose
  <2>4. CASE task'.state = "incident"
    BY <1>2, <2>1, <2>2, <2>4, Phases, LimitsAreConstants DEF Rework!Park
  <2> QED
    BY <2>2, <2>3, <2>4
<1>9. ASSUME NEW a \in Agents, NEW blocked \in BOOLEAN, DoRelease(a, blocked)
      PROVE  Rework!Redo \/ Rework!Park
  <2>1. task.state = "leased" /\ task' = AfterRelease(task, Release(a, now, blocked))
    BY <1>9, LegalFrom, Dispatch DEF DoRelease, Apply
  <2>2. /\ task'.attempts = task.attempts + 1
        /\ task'.lease_expiries = task.lease_expiries
        /\ \/ task'.state = "open" /\ task.attempts + 1 < AttemptLimit
           \/ task'.state = "incident"
    BY <1>1, <2>1, ReleaseInv
  <2>3. CASE task'.state = "open"
    BY <1>2, <2>1, <2>2, <2>3, Phases, LimitsAreConstants DEF Rework!Redo
  <2>4. CASE task'.state = "incident"
    BY <1>2, <2>1, <2>2, <2>4, Phases, LimitsAreConstants DEF Rework!Park
  <2> QED
    BY <2>2, <2>3, <2>4
<1>10. ASSUME NEW a \in Agents, DoProviderStopped(a)
       PROVE  Rework!GiveBack
  <2>1. task.state = "leased" /\ task' = Reopened(task)
    BY <1>10, LegalFrom, Dispatch DEF DoProviderStopped, Apply
  <2> QED
    BY <1>1, <2>1, ReopenedType, Phases DEF Rework!GiveBack
<1>11. CASE DoVerifyPassed
  <2>1. task.state = "in_verify" /\ task' = AfterVerifyPassed(task)
    BY <1>11, LegalFrom, Dispatch DEF DoVerifyPassed, Apply
  <2>2. /\ task'.state = "mergeable" /\ task'.attempts = task.attempts
        /\ task'.lease_expiries = task.lease_expiries
    BY <1>1, <2>1, VerifyPassedInv, Unspent
  <2> QED
    BY <2>1, <2>2, Phases DEF Rework!vars
<1>12. CASE DoVerifyBlocked
  <2>1. /\ task.state = "in_verify" /\ "environment" \in Reasons
        /\ task' = Escalated(task, "environment")
    BY <1>12, LegalFrom, Dispatch DEF DoVerifyBlocked, Apply, Reasons
  <2> QED
    BY <1>1, <2>1, EscalatedType, Phases DEF Rework!Park
<1>13. ASSUME NEW event \in {"verify_failed", "merge_failed"}, DoFail(event)
       PROVE  Rework!Redo \/ Rework!Park
  <2>1. PICK reason \in Reasons : task' = ReopenedOr(AddAttempt(task), reason)
    BY <1>13, Dispatch DEF DoFail, Apply, Reasons, AfterVerifyFailed, AfterMergeFailed
  <2>2. task.state \in {"in_verify", "mergeable"}
    BY <1>13, LegalFrom DEF DoFail, Apply
  <2>3. /\ task'.attempts = task.attempts + 1
        /\ task'.lease_expiries = task.lease_expiries
        /\ \/ task'.state = "open" /\ task.attempts + 1 < AttemptLimit
           \/ task'.state = "incident"
    BY <1>1, <2>1, <2>2, FailInv
  <2>4. CASE task'.state = "open"
    BY <1>2, <2>2, <2>3, <2>4, Phases, LimitsAreConstants DEF Rework!Redo
  <2>5. CASE task'.state = "incident"
    BY <1>2, <2>2, <2>3, <2>5, Phases, LimitsAreConstants DEF Rework!Park
  <2> QED
    BY <2>3, <2>4, <2>5
<1>14. ASSUME NEW m \in Heads, DoMerged(m)
       PROVE  Rework!Finish
  <2>1. task.state = "mergeable" /\ task' = AfterMerged(task, Merged(m))
    BY <1>14, LegalFrom, Dispatch DEF DoMerged, Apply
  <2>2. task'.state = "closed"
    BY <1>1, <2>1, LeaveInv
  <2> QED
    BY <1>1, <2>1, <2>2, Unspent, Phases DEF Rework!Finish
<1>15. CASE DoEscalate("budget")
  <2>1. /\ task.state \in {"open", "leased", "in_verify", "mergeable"}
        /\ task' = Escalated(task, "budget") /\ "budget" \in Reasons
    BY <1>15, LegalFrom, Dispatch DEF DoEscalate, Apply, Reasons
  <2> QED
    BY <1>1, <2>1, EscalatedType, Phases DEF Rework!Park
<1>16. CASE DoCancel
  <2>1. /\ task.state \in {"open", "leased", "in_verify", "mergeable", "incident"}
        /\ task' = InState(task, "canceled")
    BY <1>16, LegalFrom, Dispatch DEF DoCancel, Apply
  <2>2. task'.state = "canceled"
    BY <1>1, <2>1, LeaveInv
  <2> QED
    BY <1>1, <2>1, <2>2, Unspent, Phases DEF Rework!Stop
<1>17. CASE DoOperatorRetry
  <2>1. task.state = "incident" /\ task' = AfterOperatorRetry(task)
    BY <1>17, LegalFrom, Dispatch DEF DoOperatorRetry, Apply
  <2>2. task'.state = "open"
    BY <1>1, <2>1, OperatorRetryInv
  <2>3. task'.attempts = 0 /\ task'.lease_expiries = 0
    BY <1>1, <2>1, Unspent
  <2>4. PhaseOf(task) = "parked" /\ PhaseOf(task') = "ready"
    BY <2>1, <2>2, Phases
  <2> QED
    BY <1>2, <2>3, <2>4, LimitsAreConstants DEF Rework!Revive
<1> QED
  BY <1>3, <1>4, <1>5, <1>6, <1>7, <1>8, <1>9, <1>10, <1>11, <1>12, <1>13, <1>14, <1>15,
     <1>16, <1>17 DEF Next

-----------------------------------------------------------------------------
(* The theorems.                                                           *)

\* A task record is always well formed, whatever order events arrive in.
THEOREM TypeCorrect == Spec => []TypeOK
BY Invariance, PTL DEF IInv

\* Nobody can claim, hold or review a task that has nothing left to spend, for every budget.
THEOREM NeverActiveWhenSpent == Spec => []SpendableWhileActive
BY Invariance, PTL DEF IInv

\* A claim is charged at most once, however its work ends.
THEOREM ChargedOnce == Spec => []OneChargePerClaim
BY Invariance, PTL DEF IInv

\* The event machine implements the bounded rework the factory counts on.
THEOREM Refinement == Spec => ImplementsBoundedRework
<1>1. IInv /\ [Next]_vars => [Rework!Next]_(Rework!vars)
  BY StepRefines
<1> QED
  BY <1>1, InitRefines, Invariance, PTL DEF Spec, ImplementsBoundedRework, Rework!Spec
=============================================================================
