------------------------------- MODULE RigProofs -------------------------------
(***************************************************************************)
(* Theorems of Rig for every number of workers and commits, every budget,  *)
(* ttl and bound, and every set of steps at which processes crash.         *)
(***************************************************************************)
EXTENDS Rig, TaskMachineProofs, FiniteSetTheorems

-----------------------------------------------------------------------------
(* What a process can be doing.                                            *)

\* An active task has something left to spend, and one under review names a commit.
GoodTask(t) ==
    /\ TaskInv(t)
    /\ t.state \in {"in_verify", "mergeable"} => t.head \in Heads

\* The events the processes apply.
Events ==
    [event : {"claim"}, holder : Agents, now : Nat, ttl : {Ttl}]
    \cup [event : {"heartbeat"}, holder : Agents, now : Nat]
    \cup [event : {"submit"}, holder : Agents, head : Heads, now : Nat, tokens : {0}]
    \cup [event : {"lease_expired"}, now : Nat]
    \cup [event : {"release"}, holder : Agents, now : Nat, blocked : BOOLEAN]
    \cup [event : {"provider_stopped"}, holder : Agents]
    \cup [event : {"merged"}, merged : Heads]
    \cup [event : {"escalate"}, reason : {"budget"}]
    \cup [event : {"none", "verify_passed", "verify_failed", "verify_blocked",
                   "merge_failed", "cancel", "operator_retry"}]

\* What a write of the task leaves to be done, and the ends of it.
Todos ==
    {<<>>, <<"Unclaim">>, <<"OpenMergeBead">>, <<"OpenIncidentBead">>, <<"CloseMergeBeads">>,
     <<"CloseTaskBead", "CloseVerifyBead">>, <<"CloseVerifyBead">>}

Beads == [id : Nat, head : Heads]

Steps ==
    {"idle", "try", "checkout", "session", "tidy", "check", "show", "match", "land", "landed",
     "skip", "repair", "create", "confirm", "close_task", "close_rest", "load", "persist",
     "effects"}

Jobs ==
    [at : Steps, event : Events, task : Tasks, todo : Todos, then : Steps, fails : Steps,
     head : Heads \cup {NoHead}, list : SUBSET Beads, deadline : Nat, beat : Nat,
     result : Results \cup {"none"}]

InCall(j) == j.at \in {"load", "persist"}

\* j goes on at `then` once its call of apply_event returns, and at `fails` on an error.
GoesOn(j, then, fails) == j.then = then /\ j.fails = fails

WorkerJob(j) ==
    /\ j.at \in {"idle", "try", "checkout", "session", "tidy", "load", "persist", "effects"}
    /\ InCall(j) =>
        \/ j.event.event = "claim" /\ GoesOn(j, "checkout", "idle")
        \/ j.event.event = "heartbeat" /\ GoesOn(j, "session", "tidy")
        \/ j.event.event \in {"submit", "release", "provider_stopped"} /\ GoesOn(j, "idle", "idle")
    /\ j.at = "effects" => GoesOn(j, "idle", "idle")

VerifierJob(j) ==
    /\ j.at \in {"idle", "checkout", "check", "load", "persist", "effects"}
    /\ InCall(j) => j.event.event \in Verdicts
    /\ GoesOn(j, "idle", "idle")
    /\ j.at \in {"checkout", "check"} => j.head \in Heads

IntegratorJob(j) ==
    /\ j.at \in {"idle", "show", "match", "checkout", "land", "landed", "skip",
                 "load", "persist", "effects"}
    /\ InCall(j) => j.event.event \in {"merged", "merge_failed"}
    /\ InCall(j) \/ j.at = "effects" => GoesOn(j, "landed", "skip")
    /\ j.at \in {"checkout", "land"} => j.head \in Heads

StewardJob(j) ==
    /\ j.at \in {"idle", "repair", "create", "load", "persist", "effects"}
    /\ InCall(j) => j.event.event \in {"lease_expired", "escalate"}
    /\ GoesOn(j, "idle", "idle")
    /\ j.at = "create" => j.head \in Heads

OperatorJob(j) ==
    /\ j.at \in {"idle", "confirm", "close_task", "close_rest", "load", "persist", "effects"}
    /\ InCall(j) =>
        \/ j.event.event = "cancel" /\ GoesOn(j, "close_task", "idle")
        \/ j.event.event = "operator_retry" /\ GoesOn(j, "idle", "idle")
    /\ j.at = "effects" => j.fails = "idle" /\ j.then \in {"idle", "close_task"}

RoleJob(p, j) ==
    /\ p \in Agents => WorkerJob(j)
    /\ p = "verifier" => VerifierJob(j)
    /\ p = "integrator" => IntegratorJob(j)
    /\ p = "steward" => StewardJob(j)
    /\ p = "operator" => OperatorJob(j)

JobInv(p, j) ==
    /\ j \in Jobs
    /\ IsFiniteSet(j.list)
    /\ GoodTask(j.task)
    /\ j.at = "persist" => Legal(j.task, j.event)
    /\ j.at = "effects" <=> j.todo # <<>>
    /\ j.todo = <<"OpenMergeBead">> => j.task.head \in Heads
    /\ RoleJob(p, j)

StateOK ==
    /\ GoodTask(meta)
    /\ status \in {"open", "in_progress", "closed"}
    /\ verifyBead \in BOOLEAN
    /\ merges \subseteq Beads /\ IsFiniteSet(merges)
    /\ incidents \in Nat
    /\ main \subseteq Heads /\ verified \subseteq Heads
    /\ tree \in Processes \cup {"free"}
    /\ now \in Nat
    /\ faults \in 0..MaxFaults /\ requests \in 0..MaxRequests

JobsOK ==
    /\ DOMAIN job = Processes
    /\ \A p \in Processes : JobInv(p, job[p])

\* Holds in every configuration, whichever writes overwrite one another.
WellFormed == StateOK /\ JobsOK

-----------------------------------------------------------------------------
(* What a legal event makes of a task, and what it leaves to be done.      *)

Outcome(t, e, u, todo) ==
    \/ e.event = "claim" /\ t.state = "open" /\ u.state = "leased" /\ todo = <<>>
    \/ e.event = "heartbeat" /\ t.state = "leased" /\ u.state = "leased" /\ todo = <<>>
    \/ /\ e.event = "submit" /\ t.state = "leased" /\ u.state = "in_verify"
       /\ u.head = e.head /\ todo = <<>>
    \/ /\ e.event = "verify_passed" /\ t.state = "in_verify" /\ u.state = "mergeable"
       /\ u.head = t.head /\ todo = <<"OpenMergeBead">>
    \/ /\ e.event = "merged" /\ t.state = "mergeable" /\ u.state = "closed"
       /\ u.head = e.merged /\ todo = <<"CloseTaskBead", "CloseVerifyBead">>
    \/ /\ e.event = "cancel" /\ t.state \notin {"closed", "canceled"}
       /\ u.state = "canceled" /\ todo = <<"CloseMergeBeads">>
    \/ /\ \/ e.event \in {"lease_expired", "release", "provider_stopped"} /\ t.state = "leased"
          \/ e.event = "verify_failed" /\ t.state = "in_verify"
          \/ e.event = "merge_failed" /\ t.state = "mergeable"
          \/ e.event = "operator_retry" /\ t.state = "incident"
       /\ u.state = "open" /\ todo = <<"Unclaim">>
    \/ /\ \/ e.event \in {"lease_expired", "release"} /\ t.state = "leased"
          \/ e.event \in {"verify_failed", "verify_blocked"} /\ t.state = "in_verify"
          \/ e.event = "merge_failed" /\ t.state = "mergeable"
          \/ e.event = "escalate" /\ t.state \in {"open", "leased", "in_verify", "mergeable"}
       /\ u.state = "incident" /\ todo = <<"OpenIncidentBead">>

\* The events by their constructors.
LEMMA EventForms ==
    ASSUME NEW e \in Events
    PROVE  \/ \E a \in Agents, n \in Nat : e = Claim(a, n, Ttl)
           \/ \E a \in Agents, n \in Nat : e = Heartbeat(a, n)
           \/ \E a \in Agents, c \in Heads, n \in Nat : e = Submit(a, c, n, 0)
           \/ \E n \in Nat : e = LeaseExpired(n)
           \/ \E a \in Agents, n \in Nat, blocked \in BOOLEAN : e = Release(a, n, blocked)
           \/ \E a \in Agents : e = ProviderStopped(a)
           \/ \E m \in Heads : e = Merged(m)
           \/ e = Escalate("budget")
           \/ \E name \in {"none", "verify_passed", "verify_failed", "verify_blocked",
                            "merge_failed", "cancel", "operator_retry"} : e = Plain(name)
<1>1. CASE e \in [event : {"claim"}, holder : Agents, now : Nat, ttl : {Ttl}]
  <2>1. e = Claim(e.holder, e.now, Ttl) /\ e.holder \in Agents /\ e.now \in Nat
    BY <1>1 DEF Claim
  <2> QED
    BY <2>1
<1>2. CASE e \in [event : {"heartbeat"}, holder : Agents, now : Nat]
  <2>1. e = Heartbeat(e.holder, e.now) /\ e.holder \in Agents /\ e.now \in Nat
    BY <1>2 DEF Heartbeat
  <2> QED
    BY <2>1
<1>3. CASE e \in [event : {"submit"}, holder : Agents, head : Heads, now : Nat, tokens : {0}]
  <2>1. /\ e = Submit(e.holder, e.head, e.now, 0)
        /\ e.holder \in Agents /\ e.head \in Heads /\ e.now \in Nat
    BY <1>3 DEF Submit
  <2> QED
    BY <2>1
<1>4. CASE e \in [event : {"lease_expired"}, now : Nat]
  <2>1. e = LeaseExpired(e.now) /\ e.now \in Nat
    BY <1>4 DEF LeaseExpired
  <2> QED
    BY <2>1
<1>5. CASE e \in [event : {"release"}, holder : Agents, now : Nat, blocked : BOOLEAN]
  <2>1. /\ e = Release(e.holder, e.now, e.blocked)
        /\ e.holder \in Agents /\ e.now \in Nat /\ e.blocked \in BOOLEAN
    BY <1>5, Zenon DEF Release
  <2> QED
    BY <2>1
<1>6. CASE e \in [event : {"provider_stopped"}, holder : Agents]
  <2>1. e = ProviderStopped(e.holder) /\ e.holder \in Agents
    BY <1>6 DEF ProviderStopped
  <2> QED
    BY <2>1
<1>7. CASE e \in [event : {"merged"}, merged : Heads]
  <2>1. e = Merged(e.merged) /\ e.merged \in Heads
    BY <1>7 DEF Merged
  <2> QED
    BY <2>1
<1>8. CASE e \in [event : {"escalate"}, reason : {"budget"}]
  BY <1>8 DEF Escalate
<1>9. CASE e \in [event : {"none", "verify_passed", "verify_failed", "verify_blocked",
                         "merge_failed", "cancel", "operator_retry"}]
  <2>1. e = Plain(e.event)
    BY <1>9 DEF Plain
  <2>2. e.event \in {"none", "verify_passed", "verify_failed", "verify_blocked",
                    "merge_failed", "cancel", "operator_retry"}
    BY <1>9
  <2> QED
    BY <2>1, <2>2
<1> QED
  BY <1>1, <1>2, <1>3, <1>4, <1>5, <1>6, <1>7, <1>8, <1>9 DEF Events

\* Only a task that becomes open again is given back before the effects.
LEMMA AfterWriteIs ==
    ASSUME NEW t, NEW e, NEW u, u = NextTask(t, e)
    PROVE  /\ e.event = "verify_passed" /\ u.state # "open" =>
                  AfterWrite(t, u, e) = <<"OpenMergeBead">>
           /\ e.event = "merged" /\ u.state # "open" =>
                  AfterWrite(t, u, e) = <<"CloseTaskBead", "CloseVerifyBead">>
           /\ e.event = "cancel" /\ u.state # "open" =>
                  AfterWrite(t, u, e) = <<"CloseMergeBeads">>
           /\ e.event \notin {"verify_passed", "merged", "cancel"} =>
                  /\ u.state = "open" /\ t.state # "open" => AfterWrite(t, u, e) = <<"Unclaim">>
                  /\ u.state = "incident" => AfterWrite(t, u, e) = <<"OpenIncidentBead">>
                  /\ u.state \notin {"open", "incident"} => AfterWrite(t, u, e) = <<>>
<1>1. /\ <<>> \o <<"OpenMergeBead">> = <<"OpenMergeBead">>
      /\ <<>> \o <<"CloseTaskBead", "CloseVerifyBead">> = <<"CloseTaskBead", "CloseVerifyBead">>
      /\ <<>> \o <<"CloseMergeBeads">> = <<"CloseMergeBeads">>
      /\ <<>> \o <<"OpenIncidentBead">> = <<"OpenIncidentBead">>
      /\ <<"Unclaim">> \o <<>> = <<"Unclaim">>
      /\ <<>> \o <<>> = <<>>
  OBVIOUS
<1>2. u.state # "open" => AfterWrite(t, u, e) = <<>> \o Effects(t, e)
  BY DEF AfterWrite
<1>3. u.state = "open" /\ t.state # "open" => AfterWrite(t, u, e) = <<"Unclaim">> \o Effects(t, e)
  BY DEF AfterWrite
<1>4. /\ e.event = "verify_passed" => Effects(t, e) = <<"OpenMergeBead">>
      /\ e.event = "merged" => Effects(t, e) = <<"CloseTaskBead", "CloseVerifyBead">>
      /\ e.event = "cancel" => Effects(t, e) = <<"CloseMergeBeads">>
      /\ e.event \notin {"verify_passed", "merged", "cancel"} =>
            Effects(t, e) = IF u.state = "incident" THEN <<"OpenIncidentBead">> ELSE <<>>
  BY DEF Effects
<1> HIDE DEF Effects
<1> QED
  BY <1>1, <1>2, <1>3, <1>4

\* Escalating, canceling and landing keep a task good; so does reopening.
LEMMA GoodLeft ==
    ASSUME NEW u, TaskInv(u), u.state \notin {"in_verify", "mergeable"}
    PROVE  GoodTask(u)
BY DEF GoodTask

\* Submitting and passing keep the commit the task names.
LEMMA HeadsKept ==
    ASSUME NEW t \in Tasks
    PROVE  /\ \A h, c, n, k : (n \in Nat /\ k \in Nat) =>
                  AfterSubmit(t, Submit(h, c, n, k)).head = c
           /\ AfterVerifyPassed(t).head = t.head
           /\ \A m : AfterMerged(t, Merged(m)).head = m
<1>1. ASSUME NEW h, NEW c, NEW n \in Nat, NEW k \in Nat
      PROVE  AfterSubmit(t, Submit(h, c, n, k)).head = c
  <2> DEFINE spent == AddTokens(AddWallClock(t, n), k)
             given == InState(spent, "in_verify")
  <2>1. spent \in Tasks
    BY ChargesType
  <2> HIDE DEF spent
  <2>2. given \in Tasks
    BY <2>1, InStateType DEF StateNames
  <2>3. AfterSubmit(t, Submit(h, c, n, k)) = [given EXCEPT !.head = c, !.blocked_releases = 0]
    BY DEF AfterSubmit, Submit, spent
  <2> HIDE DEF given
  <2> QED
    BY <2>2, <2>3 DEF Tasks
<1>2. ASSUME NEW m
      PROVE  AfterMerged(t, Merged(m)).head = m
  <2> DEFINE done == InState(t, "closed")
  <2>1. done \in Tasks
    BY InStateType DEF StateNames
  <2>2. AfterMerged(t, Merged(m)) = [done EXCEPT !.head = m]
    BY DEF AfterMerged, Merged
  <2> HIDE DEF done
  <2> QED
    BY <2>1, <2>2 DEF Tasks
<1>3. AfterVerifyPassed(t).head = t.head
  BY DEF AfterVerifyPassed, Tasks
<1> QED
  BY <1>1, <1>2, <1>3

\* The event of each constructor, by name.
LEMMA EventNames ==
    /\ \A h, n, k : Claim(h, n, k).event = "claim"
    /\ \A h, n : Heartbeat(h, n).event = "heartbeat"
    /\ \A h, c, n, k : Submit(h, c, n, k).event = "submit" /\ Submit(h, c, n, k).head = c
    /\ \A n : LeaseExpired(n).event = "lease_expired"
    /\ \A h, n, b : Release(h, n, b).event = "release"
    /\ \A h : ProviderStopped(h).event = "provider_stopped"
    /\ \A m : Merged(m).event = "merged" /\ Merged(m).merged = m
    /\ \A r : Escalate(r).event = "escalate"
    /\ \A name : Plain(name).event = name
BY DEF Claim, Heartbeat, Submit, LeaseExpired, Release, ProviderStopped, Merged, Escalate, Plain

\* A legal event leaves a good task good and does what Outcome says.
LEMMA Applied ==
    ASSUME NEW t, GoodTask(t), NEW e \in Events, Legal(t, e)
    PROVE  LET u == NextTask(t, e)
           IN  GoodTask(u) /\ Outcome(t, e, u, AfterWrite(t, u, e))
<1> DEFINE u == NextTask(t, e)
           todo == AfterWrite(t, u, e)
<1>0. TaskInv(t) /\ t \in Tasks /\ Ttl \in Nat
  BY RigAssumption DEF GoodTask, TaskInv
<1>1. /\ e.event = "verify_passed" /\ u.state # "open" => todo = <<"OpenMergeBead">>
      /\ e.event = "merged" /\ u.state # "open" =>
            todo = <<"CloseTaskBead", "CloseVerifyBead">>
      /\ e.event = "cancel" /\ u.state # "open" => todo = <<"CloseMergeBeads">>
      /\ e.event \notin {"verify_passed", "merged", "cancel"} =>
            /\ u.state = "open" /\ t.state # "open" => todo = <<"Unclaim">>
            /\ u.state = "incident" => todo = <<"OpenIncidentBead">>
            /\ u.state \notin {"open", "incident"} => todo = <<>>
  BY AfterWriteIs
<1> HIDE DEF u, todo
<1> SUFFICES GoodTask(u) /\ Outcome(t, e, u, todo)
  BY DEF u, todo
<1>2. ASSUME NEW a \in Agents, NEW n \in Nat, e = Claim(a, n, Ttl)
      PROVE  GoodTask(u) /\ Outcome(t, e, u, todo)
  <2>1. t.state = "open" /\ u = AfterClaim(t, Claim(a, n, Ttl))
    BY <1>2, LegalFrom, Dispatch DEF u
  <2>2. TaskInv(u) /\ u.state = "leased"
    BY <1>0, <2>1, ClaimInv
  <2> QED
    BY <1>1, <1>2, <2>1, <2>2, GoodLeft, EventNames DEF Outcome
<1>3. ASSUME NEW a \in Agents, NEW n \in Nat, e = Heartbeat(a, n)
      PROVE  GoodTask(u) /\ Outcome(t, e, u, todo)
  <2>1. t.state = "leased" /\ t.lease.holder = a /\ u = AfterHeartbeat(t, Heartbeat(a, n))
    BY <1>3, LegalFrom, Dispatch DEF u
  <2>2. TaskInv(u) /\ u.state = "leased"
    BY <1>0, <2>1, HeartbeatInv
  <2> QED
    BY <1>1, <1>3, <2>1, <2>2, GoodLeft, EventNames DEF Outcome
<1>4. ASSUME NEW a \in Agents, NEW c \in Heads, NEW n \in Nat, e = Submit(a, c, n, 0)
      PROVE  GoodTask(u) /\ Outcome(t, e, u, todo)
  <2>1. t.state = "leased" /\ u = AfterSubmit(t, Submit(a, c, n, 0))
    BY <1>4, LegalFrom, Dispatch DEF u
  <2>2. TaskInv(u) /\ u.state = "in_verify"
    BY <1>0, <2>1, SubmitInv
  <2>3. u.head = c
    BY <1>0, <2>1, HeadsKept
  <2>4. GoodTask(u)
    BY <2>2, <2>3 DEF GoodTask
  <2> QED
    BY <1>1, <1>4, <2>1, <2>2, <2>3, <2>4, EventNames DEF Outcome
<1>5. ASSUME NEW n \in Nat, e = LeaseExpired(n)
      PROVE  GoodTask(u) /\ Outcome(t, e, u, todo)
  <2>1. t.state = "leased" /\ u = AfterLeaseExpired(t, LeaseExpired(n))
    BY <1>5, LegalFrom, Dispatch DEF u
  <2>2. TaskInv(u) /\ u.state \in {"open", "incident"}
    BY <1>0, <2>1, LeaseExpiredInv
  <2> QED
    BY <1>1, <1>5, <2>1, <2>2, GoodLeft, EventNames DEF Outcome
<1>6. ASSUME NEW a \in Agents, NEW n \in Nat, NEW blocked \in BOOLEAN, e = Release(a, n, blocked)
      PROVE  GoodTask(u) /\ Outcome(t, e, u, todo)
  <2>1. t.state = "leased" /\ u = AfterRelease(t, Release(a, n, blocked))
    BY <1>6, LegalFrom, Dispatch DEF u
  <2>2. TaskInv(u) /\ u.state \in {"open", "incident"}
    BY <1>0, <2>1, ReleaseInv
  <2>3. e.event = "release"
    BY <1>6, EventNames
  <2> QED
    BY <1>1, <2>1, <2>2, <2>3, GoodLeft DEF Outcome
<1>7. ASSUME NEW a \in Agents, e = ProviderStopped(a)
      PROVE  GoodTask(u) /\ Outcome(t, e, u, todo)
  <2>1. t.state = "leased" /\ u = Reopened(t)
    BY <1>7, LegalFrom, Dispatch DEF u
  <2>2. TaskInv(u) /\ u.state = "open"
    BY <1>0, <2>1, ReopenInv
  <2> QED
    BY <1>1, <1>7, <2>1, <2>2, GoodLeft, EventNames DEF Outcome
<1>8. ASSUME NEW m \in Heads, e = Merged(m)
      PROVE  GoodTask(u) /\ Outcome(t, e, u, todo)
  <2>1. t.state = "mergeable" /\ u = AfterMerged(t, Merged(m))
    BY <1>8, LegalFrom, Dispatch DEF u
  <2>2. TaskInv(u) /\ u.state = "closed"
    BY <1>0, <2>1, LeaveInv
  <2>3. u.head = m
    BY <1>0, <2>1, HeadsKept
  <2> QED
    BY <1>1, <1>8, <2>1, <2>2, <2>3, GoodLeft, EventNames DEF Outcome
<1>9. ASSUME e = Escalate("budget")
      PROVE  GoodTask(u) /\ Outcome(t, e, u, todo)
  <2>1. /\ t.state \in {"open", "leased", "in_verify", "mergeable"}
        /\ u = Escalated(t, "budget") /\ "budget" \in Reasons
    BY <1>9, LegalFrom, Dispatch DEF u, Reasons
  <2>2. TaskInv(u) /\ u.state = "incident"
    BY <1>0, <2>1, LeaveInv
  <2> QED
    BY <1>1, <1>9, <2>1, <2>2, GoodLeft, EventNames DEF Outcome
<1>10. ASSUME e = Plain("verify_passed")
       PROVE  GoodTask(u) /\ Outcome(t, e, u, todo)
  <2>1. t.state = "in_verify" /\ u = AfterVerifyPassed(t)
    BY <1>10, LegalFrom, Dispatch DEF u
  <2>2. TaskInv(u) /\ u.state = "mergeable" /\ u.head = t.head
    BY <1>0, <2>1, VerifyPassedInv, HeadsKept
  <2>3. GoodTask(u)
    BY <2>1, <2>2 DEF GoodTask
  <2> QED
    BY <1>1, <1>10, <2>1, <2>2, <2>3, EventNames DEF Outcome
<1>11. ASSUME e = Plain("verify_blocked")
       PROVE  GoodTask(u) /\ Outcome(t, e, u, todo)
  <2>1. /\ t.state = "in_verify" /\ u = Escalated(t, "environment")
        /\ "environment" \in Reasons
    BY <1>11, LegalFrom, Dispatch DEF u, Reasons
  <2>2. TaskInv(u) /\ u.state = "incident"
    BY <1>0, <2>1, LeaveInv
  <2> QED
    BY <1>1, <1>11, <2>1, <2>2, GoodLeft, EventNames DEF Outcome
<1>12. ASSUME NEW name \in {"verify_failed", "merge_failed"}, e = Plain(name)
       PROVE  GoodTask(u) /\ Outcome(t, e, u, todo)
  <2>1. PICK reason \in Reasons : u = ReopenedOr(AddAttempt(t), reason)
    BY <1>12, Dispatch DEF u, Reasons, AfterVerifyFailed, AfterMergeFailed
  <2>2. /\ name = "verify_failed" => t.state = "in_verify"
        /\ name = "merge_failed" => t.state = "mergeable"
    BY <1>12, LegalFrom
  <2>3. TaskInv(u) /\ u.state \in {"open", "incident"}
    BY <1>0, <2>1, <2>2, FailInv
  <2> QED
    BY <1>1, <1>12, <2>2, <2>3, GoodLeft, EventNames DEF Outcome
<1>13. ASSUME e = Plain("cancel")
       PROVE  GoodTask(u) /\ Outcome(t, e, u, todo)
  <2>1. /\ t.state \in {"open", "leased", "in_verify", "mergeable", "incident"}
        /\ u = InState(t, "canceled")
    BY <1>13, LegalFrom, Dispatch DEF u
  <2>2. TaskInv(u) /\ u.state = "canceled"
    BY <1>0, <2>1, LeaveInv
  <2> QED
    BY <1>1, <1>13, <2>1, <2>2, GoodLeft, EventNames DEF Outcome
<1>14. ASSUME e = Plain("operator_retry")
       PROVE  GoodTask(u) /\ Outcome(t, e, u, todo)
  <2>1. t.state = "incident" /\ u = AfterOperatorRetry(t)
    BY <1>14, LegalFrom, Dispatch DEF u
  <2>2. TaskInv(u) /\ u.state = "open"
    BY <1>0, <2>1, OperatorRetryInv
  <2> QED
    BY <1>1, <1>14, <2>1, <2>2, GoodLeft, EventNames DEF Outcome
<1>15. e # Plain("none")
  BY DEF Legal, Accepts, HolderEvents, Plain
<1> QED
  BY <1>2, <1>3, <1>4, <1>5, <1>6, <1>7, <1>8, <1>9, <1>10, <1>11, <1>12, <1>13, <1>14,
     <1>15, EventForms

-----------------------------------------------------------------------------
(* Jobs.                                                                   *)

\* The one command of a list that is due, and the rest of the list.
LEMMA TodoRest ==
    ASSUME NEW todo \in Todos, todo # <<>>
    PROVE  /\ Tail(todo) \in Todos
           /\ Tail(todo) # <<"OpenMergeBead">>
           /\ Tail(todo) # <<>> => Head(Tail(todo)) = "CloseVerifyBead"
           /\ Head(todo) = "OpenMergeBead" => todo = <<"OpenMergeBead">>
           /\ Head(todo) = "CloseTaskBead" => todo = <<"CloseTaskBead", "CloseVerifyBead">>
<1>1. /\ Tail(<<"Unclaim">>) = <<>> /\ Tail(<<"OpenMergeBead">>) = <<>>
      /\ Tail(<<"OpenIncidentBead">>) = <<>> /\ Tail(<<"CloseMergeBeads">>) = <<>>
      /\ Tail(<<"CloseVerifyBead">>) = <<>>
      /\ Tail(<<"CloseTaskBead", "CloseVerifyBead">>) = <<"CloseVerifyBead">>
  OBVIOUS
<1>2. /\ Head(<<"Unclaim">>) = "Unclaim" /\ Head(<<"OpenMergeBead">>) = "OpenMergeBead"
      /\ Head(<<"OpenIncidentBead">>) = "OpenIncidentBead"
      /\ Head(<<"CloseMergeBeads">>) = "CloseMergeBeads"
      /\ Head(<<"CloseVerifyBead">>) = "CloseVerifyBead"
      /\ Head(<<"CloseTaskBead", "CloseVerifyBead">>) = "CloseTaskBead"
  OBVIOUS
<1>3. <<"OpenMergeBead">> # <<>> /\ <<"OpenMergeBead">> # <<"CloseVerifyBead">>
  OBVIOUS
<1> QED
  BY <1>1, <1>2, <1>3 DEF Todos

LEMMA RoleOf ==
    ASSUME NEW j
    PROVE  /\ \A w \in Agents : RoleJob(w, j) <=> WorkerJob(j)
           /\ RoleJob("verifier", j) <=> VerifierJob(j)
           /\ RoleJob("integrator", j) <=> IntegratorJob(j)
           /\ RoleJob("steward", j) <=> StewardJob(j)
           /\ RoleJob("operator", j) <=> OperatorJob(j)
BY RigAssumption DEF RoleJob, Roles

LEMMA RigConstants ==
    /\ \A w \in Agents : w \in Processes
    /\ {"verifier", "integrator", "steward", "operator"} \subseteq Processes
    /\ Ttl \in Nat /\ WallLimit \in Nat /\ MaxFaults \in Nat /\ MaxRequests \in Nat
BY RigAssumption, LimitsAssumption DEF Processes, Workers, Roles

\* A job is what its parts are.
LEMMA JobParts ==
    ASSUME NEW at \in Steps, NEW event \in Events, NEW task \in Tasks, NEW todo \in Todos,
           NEW then \in Steps, NEW fails \in Steps, NEW head \in Heads \cup {NoHead},
           NEW list \in SUBSET Beads, NEW deadline \in Nat, NEW beat \in Nat,
           NEW result \in Results \cup {"none"}
    PROVE  [at |-> at, event |-> event, task |-> task, todo |-> todo, then |-> then,
            fails |-> fails, head |-> head, list |-> list, deadline |-> deadline,
            beat |-> beat, result |-> result] \in Jobs
BY DEF Jobs

LEMMA IdleInv ==
    ASSUME NEW p \in Processes
    PROVE  JobInv(p, Idle)
<1>1. Idle \in Jobs
  <2>1. Plain("none") \in Events
    BY DEF Plain, Events
  <2>2. NewTask \in Tasks
    BY NewTaskInv DEF TaskInv
  <2>3. <<>> \in Todos /\ NoHead \in Heads \cup {NoHead} /\ {} \in SUBSET Beads
    BY DEF Todos
  <2>4. "idle" \in Steps /\ 0 \in Nat
    BY DEF Steps
  <2> QED
    BY <2>1, <2>2, <2>3, <2>4, JobParts, Zenon DEF Idle
<1>2. GoodTask(Idle.task)
  BY NewTaskInv DEF GoodTask, Idle
<1>3. IsFiniteSet(Idle.list)
  BY FS_EmptySet DEF Idle
<1>4. /\ Idle.at = "idle" /\ Idle.then = "idle" /\ Idle.fails = "idle" /\ Idle.todo = <<>>
  BY DEF Idle
<1>5. RoleJob(p, Idle)
  BY <1>4 DEF RoleJob, WorkerJob, VerifierJob, IntegratorJob, StewardJob, OperatorJob, InCall,
     GoesOn
<1> QED
  BY <1>1, <1>2, <1>3, <1>4, <1>5 DEF JobInv

\* Whoever moves on moves on to a job of its role, and the others stay where they are.
LEMMA JobsKept ==
    ASSUME JobsOK, NEW p \in Processes, NEW j, JobInv(p, j), Becomes(p, j)
    PROVE  JobsOK'
<1> DEFINE k == IF j.at = "idle" THEN Idle ELSE j
<1>1. JobInv(p, k)
  BY IdleInv
<1>2. job' = [job EXCEPT ![p] = k]
  BY DEF Becomes
<1> HIDE DEF k
<1>3. DOMAIN job' = Processes /\ \A q \in Processes : job'[q] = IF q = p THEN k ELSE job[q]
  BY <1>2 DEF JobsOK
<1> QED
  BY <1>1, <1>3 DEF JobsOK

\* A step outside a call of apply_event.
LEMMA StepInv ==
    ASSUME NEW p, NEW j, JobInv(p, j), NEW k \in Jobs, k.at \notin {"persist", "effects"},
           k.task = j.task, k.todo = <<>>, IsFiniteSet(k.list), RoleJob(p, k)
    PROVE  JobInv(p, k)
BY DEF JobInv

LEMMA CallInv ==
    ASSUME NEW p, NEW j, JobInv(p, j), j.at # "effects", NEW e \in Events, NEW then \in Steps,
           NEW fails \in Steps,
           \A k : k.at = "load" /\ k.event = e /\ GoesOn(k, then, fails) => RoleJob(p, k)
    PROVE  JobInv(p, Calling(j, e, then, fails))
<1> DEFINE k == Calling(j, e, then, fails)
<1>0. j \in Jobs
  BY DEF JobInv
<1>1. /\ k \in Jobs /\ k.at = "load" /\ k.event = e /\ k.then = then /\ k.fails = fails
      /\ k.task = j.task /\ k.todo = j.todo /\ k.list = j.list
  <2> DEFINE m == [j EXCEPT !.at = "load", !.event = e]
  <2>1. /\ m \in Jobs /\ m.at = "load" /\ m.event = e
        /\ m.task = j.task /\ m.todo = j.todo /\ m.list = j.list
    BY <1>0 DEF Jobs, Steps
  <2>2. k = [m EXCEPT !.then = then, !.fails = fails]
    BY DEF Calling
  <2> HIDE DEF m, k
  <2> QED
    BY <2>1, <2>2 DEF Jobs
<1> HIDE DEF k
<1>2. RoleJob(p, k)
  BY <1>1 DEF GoesOn
<1> QED
  BY <1>1, <1>2 DEF JobInv, k

LEMMA RoleReturns ==
    ASSUME NEW p, NEW j, RoleJob(p, j), p \in Processes, j.at \in {"load", "persist", "effects"},
           NEW k, k.at \in {j.then, j.fails}, k.then = "idle", k.fails = "idle"
    PROVE  RoleJob(p, k) /\ k.at \notin {"load", "persist", "effects"}
<1>1. CASE p \in Agents
  BY <1>1, RoleOf DEF WorkerJob, InCall, GoesOn
<1>2. CASE p = "verifier"
  BY <1>2, RoleOf DEF VerifierJob, InCall, GoesOn
<1>3. CASE p = "integrator"
  BY <1>3, RoleOf DEF IntegratorJob, InCall, GoesOn
<1>4. CASE p = "steward"
  BY <1>4, RoleOf DEF StewardJob, InCall, GoesOn
<1>5. CASE p = "operator"
  BY <1>5, RoleOf DEF OperatorJob, InCall, GoesOn
<1> QED
  BY <1>1, <1>2, <1>3, <1>4, <1>5 DEF Processes, Workers, Roles

\* Whatever the call has read or written by then, its end is a job of the role.
LEMMA ReturnInv ==
    ASSUME NEW p \in Processes, NEW j \in Jobs, IsFiniteSet(j.list), GoodTask(j.task),
           RoleJob(p, j), j.at \in {"load", "persist", "effects"},
           NEW s \in {j.then, j.fails}
    PROVE  JobInv(p, Returning(j, s))
<1> DEFINE k == Returning(j, s)
           t == IF s = "checkout" THEN j.task ELSE NewTask
<1>1. t \in Tasks /\ GoodTask(t)
  BY NewTaskInv DEF GoodTask, TaskInv
<1>2. Plain("none") \in Events
  BY DEF Plain, Events
<1>3. k = [j EXCEPT !.at = s, !.event = Plain("none"), !.then = "idle", !.fails = "idle",
                    !.todo = <<>>, !.task = t]
  BY DEF Returning, Jobs
<1>4. s \in Steps
  BY DEF Jobs
<1> HIDE DEF t, Plain
<1>5. /\ k \in Jobs /\ k.at = s /\ k.then = "idle" /\ k.fails = "idle"
      /\ k.task = t /\ k.todo = <<>> /\ k.list = j.list
  <2> DEFINE m == [j EXCEPT !.at = s, !.event = Plain("none"), !.then = "idle"]
  <2>1. m \in Jobs /\ m.at = s /\ m.list = j.list /\ m.then = "idle"
    BY <1>2, <1>4 DEF Jobs, Steps
  <2>2. k = [m EXCEPT !.fails = "idle", !.todo = <<>>, !.task = t]
    BY <1>3
  <2>3. <<>> \in Todos
    BY DEF Todos
  <2> HIDE DEF m, k
  <2> QED
    BY <1>1, <2>1, <2>2, <2>3 DEF Jobs, Steps
<1> HIDE DEF k
<1>6. RoleJob(p, k) /\ k.at \notin {"load", "persist", "effects"}
  BY <1>5, RoleReturns
<1> QED
  BY <1>1, <1>5, <1>6 DEF JobInv, k

\* The call goes on with the commands left, or returns.
LEMMA ResumeInv ==
    ASSUME NEW p \in Processes, NEW j, JobInv(p, j), j.at \in {"load", "persist", "effects"},
           NEW t, GoodTask(t), NEW todo \in Todos,
           todo = <<"OpenMergeBead">> => t.head \in Heads,
           todo # <<>> /\ InCall(j) => j.event.event \notin {"claim", "heartbeat"}
    PROVE  JobInv(p, Resume([j EXCEPT !.task = t, !.todo = todo]))
<1> DEFINE k == [j EXCEPT !.task = t, !.todo = todo]
           c == [k EXCEPT !.at = "effects"]
<1>0. j \in Jobs /\ t \in Tasks /\ RoleJob(p, j) /\ IsFiniteSet(j.list)
  BY DEF JobInv, GoodTask, TaskInv
<1>1. /\ k \in Jobs /\ k.at = j.at /\ k.event = j.event /\ k.then = j.then
      /\ k.fails = j.fails /\ k.head = j.head /\ k.list = j.list
      /\ k.task = t /\ k.todo = todo
  BY <1>0 DEF Jobs
<1> HIDE DEF k
<1>2. /\ c \in Jobs /\ c.at = "effects" /\ c.event = j.event /\ c.then = j.then
      /\ c.fails = j.fails /\ c.head = j.head /\ c.list = j.list
      /\ c.task = t /\ c.todo = todo
  BY <1>1 DEF Jobs, Steps
<1>3. CASE todo = <<>>
  <2>1. RoleJob(p, k)
    BY <1>0, <1>1 DEF RoleJob, WorkerJob, VerifierJob, IntegratorJob, StewardJob, OperatorJob,
       InCall, GoesOn
  <2>2. JobInv(p, Returning(k, k.then))
    BY <1>0, <1>1, <2>1, ReturnInv
  <2> QED
    BY <1>1, <1>3, <2>2 DEF Resume, k
<1>4. CASE todo # <<>>
  <2> HIDE DEF c
  <2>1. RoleJob(p, c)
    BY <1>0, <1>2, <1>4 DEF RoleJob, WorkerJob, VerifierJob, IntegratorJob, StewardJob,
       OperatorJob, InCall, GoesOn
  <2>2. JobInv(p, c)
    BY <1>0, <1>2, <1>4, <2>1 DEF JobInv
  <2> QED
    BY <1>1, <1>4, <2>2 DEF Resume, k, c
<1> QED
  BY <1>3, <1>4

\* There is always an id no open or listed merge bead has.
LEMMA NewMergeBeadType ==
    ASSUME StateOK, JobsOK, NEW head \in Heads
    PROVE  NewMergeBead(head) \in Beads
<1> DEFINE beads == merges \cup job["integrator"].list
           inUse == {bead.id : bead \in beads}
           ids == 1..(Cardinality(inUse) + 1)
<1>1. IsFiniteSet(beads) /\ beads \subseteq Beads
  <2>1. JobInv("integrator", job["integrator"])
    BY RigConstants DEF JobsOK
  <2>2. job["integrator"].list \subseteq Beads /\ IsFiniteSet(job["integrator"].list)
    BY <2>1 DEF JobInv, Jobs
  <2> QED
    BY <2>2, FS_Union DEF StateOK
<1> HIDE DEF beads
<1>2. IsFiniteSet(inUse)
  <2> DEFINE idOf == [bead \in beads |-> bead.id]
  <2>1. inUse = {idOf[bead] : bead \in beads} /\ idOf \in [beads -> inUse]
    OBVIOUS
  <2>2. idOf \in Surjection(beads, inUse)
    BY <2>1 DEF Surjection
  <2> QED
    BY <1>1, <2>2, FS_Surjection
<1>3. Cardinality(inUse) \in Nat
  BY <1>2, FS_CardinalityType
<1> HIDE DEF inUse
<1>4. IsFiniteSet(ids) /\ Cardinality(ids) = Cardinality(inUse) + 1
  BY <1>3, FS_Interval
<1>5. ~(ids \subseteq inUse)
  BY <1>2, <1>3, <1>4, FS_Subset
<1>6. (CHOOSE i \in ids : i \notin inUse) \in ids
  BY <1>5
<1>7. ids \subseteq Nat
  BY <1>3
<1> HIDE DEF ids
<1> DEFINE id == CHOOSE i \in ids : i \notin inUse
<1>8. NewMergeBead(head) = [id |-> id, head |-> head]
  BY Zenon DEF NewMergeBead, ids, inUse, beads
<1>9. id \in Nat
  BY <1>6, <1>7
<1> HIDE DEF id
<1> QED
  BY <1>8, <1>9 DEF Beads

-----------------------------------------------------------------------------
(* Every action keeps the state and the jobs well formed.                  *)

LEMMA StateSame ==
    ASSUME StateOK, UNCHANGED <<ledger, repo, world>>
    PROVE  StateOK'
BY DEF StateOK, GoodTask, ledger, repo, world

\* A step of p that leaves the rest of the world well formed.
LEMMA Keeps ==
    ASSUME WellFormed, NEW p \in Processes, NEW j, StateOK', JobInv(p, j), Becomes(p, j)
    PROVE  WellFormed'
BY JobsKept DEF WellFormed

LEMMA JobOf ==
    ASSUME WellFormed, NEW p \in Processes
    PROVE  JobInv(p, job[p]) /\ job[p] \in Jobs /\ RoleJob(p, job[p])
BY DEF WellFormed, JobsOK, JobInv

LEMMA RestartedType ==
    ASSUME now \in Nat, NEW p
    PROVE  Restarted(p) \in Nat
BY DEF Restarted

LEMMA WriteKeeps ==
    ASSUME WellFormed, NEW p \in Processes, NEW t, GoodTask(t), Legal(t, job[p].event),
           job[p].at \in {"load", "persist"}, Write(p, t)
    PROVE  WellFormed'
<1> DEFINE e == job[p].event
           u == NextTask(t, e)
           todo == AfterWrite(t, u, e)
           k == Resume([job[p] EXCEPT !.task = u, !.todo = todo])
<1>1. JobInv(p, job[p]) /\ e \in Events
  BY JobOf DEF Jobs
<1>2. GoodTask(u) /\ Outcome(t, e, u, todo)
  BY <1>1, Applied
<1>3. /\ meta' = u /\ Becomes(p, k)
      /\ now' = (IF u.state = "leased" THEN now ELSE Restarted(p))
      /\ UNCHANGED <<status, verifyBead, merges, incidents, repo, faults, requests>>
  BY Zenon DEF Write
<1> HIDE DEF e, u, todo
<1>4. /\ todo \in Todos
      /\ todo = <<"OpenMergeBead">> => u.head \in Heads
      /\ todo # <<>> => e.event \notin {"claim", "heartbeat"}
  <2>1. todo \in Todos
    BY <1>2 DEF Outcome, Todos
  <2>2. ASSUME todo = <<"OpenMergeBead">> PROVE u.head \in Heads
    <3>1. u.state = "mergeable"
      BY <1>2, <2>2 DEF Outcome
    <3> QED
      BY <1>2, <3>1 DEF GoodTask
  <2>3. todo # <<>> => e.event \notin {"claim", "heartbeat"}
    BY <1>2 DEF Outcome
  <2> QED
    BY <2>1, <2>2, <2>3
<1>5. JobInv(p, k)
  BY <1>1, <1>2, <1>4, ResumeInv DEF e
<1> HIDE DEF k
<1>6. StateOK'
  <2>1. now' \in Nat
    BY <1>3, RestartedType DEF WellFormed, StateOK
  <2>2. GoodTask(meta')
    BY <1>2, <1>3
  <2> QED
    BY <1>3, <2>1, <2>2 DEF WellFormed, StateOK, GoodTask, repo
<1> QED
  BY <1>3, <1>5, <1>6, Keeps

\* A command of the call: the job that goes on.
LEMMA EffectInv ==
    ASSUME WellFormed, NEW p \in Processes, job[p].at = "effects"
    PROVE  JobInv(p, Resume([job[p] EXCEPT !.todo = Tail(@)]))
<1> DEFINE j == job[p]
<1>1. JobInv(p, j) /\ j \in Jobs /\ j.todo \in Todos /\ j.todo # <<>> /\ GoodTask(j.task)
  BY JobOf DEF JobInv, Jobs
<1>2. Tail(j.todo) \in Todos /\ Tail(j.todo) # <<"OpenMergeBead">>
  BY <1>1, TodoRest
<1>3. ~InCall(j)
  BY DEF InCall
<1> HIDE DEF j
<1>4. [j EXCEPT !.todo = Tail(@)] = [j EXCEPT !.task = j.task, !.todo = Tail(j.todo)]
  BY <1>1 DEF Jobs
<1>5. j.at = "effects"
  BY DEF j
<1>6. JobInv(p, Resume([j EXCEPT !.task = j.task, !.todo = Tail(j.todo)]))
  BY <1>1, <1>2, <1>3, <1>5, ResumeInv
<1> QED
  BY <1>4, <1>6 DEF j

LEMMA ApplyEventKeeps ==
    ASSUME WellFormed, NEW p \in Processes, ApplyEvent(p)
    PROVE  WellFormed'
<1>0. /\ JobInv(p, job[p]) /\ job[p] \in Jobs /\ RoleJob(p, job[p])
      /\ GoodTask(meta) /\ StateOK /\ JobsOK
  BY JobOf DEF WellFormed, StateOK
<1>1. ASSUME Load(p) PROVE WellFormed'
  <2> DEFINE k == [job[p] EXCEPT !.at = "persist", !.task = meta]
  <2>1. /\ k \in Jobs /\ k.at = "persist" /\ k.task = meta /\ k.event = job[p].event
        /\ k.then = job[p].then /\ k.fails = job[p].fails /\ k.head = job[p].head
        /\ k.todo = job[p].todo /\ k.list = job[p].list
    BY <1>0 DEF Jobs, Steps, GoodTask, TaskInv
  <2>2. job[p].at = "load" /\ Legal(meta, job[p].event) /\ Becomes(p, k) /\ StateOK'
    BY <1>0, <1>1, StateSame DEF Load
  <2> HIDE DEF k
  <2>3. job[p].todo = <<>>
    BY <1>0, <2>2 DEF JobInv
  <2>4. RoleJob(p, k)
    BY <1>0, <2>1, <2>2 DEF RoleJob, WorkerJob, VerifierJob, IntegratorJob, StewardJob,
       OperatorJob, InCall, GoesOn
  <2>5. JobInv(p, k)
    <3>1. <<>> # <<"OpenMergeBead">>
      OBVIOUS
    <3> QED
      BY <1>0, <2>1, <2>2, <2>3, <2>4, <3>1 DEF JobInv
  <2> QED
    BY <2>2, <2>5, Keeps
<1>2. ASSUME Persist(p) PROVE WellFormed'
  BY <1>0, <1>2, WriteKeeps DEF Persist, JobInv
<1>3. ASSUME LoadAndPersist(p) PROVE WellFormed'
  BY <1>0, <1>3, WriteKeeps DEF LoadAndPersist
<1>4. ASSUME Refused(p) PROVE WellFormed'
  <2>1. /\ Becomes(p, Returning(job[p], job[p].fails)) /\ StateOK'
        /\ job[p].at \in {"load", "persist", "effects"}
    BY <1>0, <1>4, StateSame DEF Refused
  <2>2. JobInv(p, Returning(job[p], job[p].fails))
    BY <1>0, <2>1, ReturnInv DEF JobInv
  <2> QED
    BY <2>1, <2>2, Keeps
<1>5. ASSUME NEW effect, RunEffect(p, effect), StateOK' PROVE WellFormed'
  BY <1>5, EffectInv, Keeps DEF RunEffect
<1>6. ASSUME Unclaim(p) PROVE WellFormed'
  <2>1. StateOK'
    BY <1>0, <1>6 DEF Unclaim, RunEffect, StateOK, GoodTask, repo, world
  <2> QED
    BY <1>5, <1>6, <2>1 DEF Unclaim
<1>7. ASSUME OpenMergeBead(p) PROVE WellFormed'
  <2>1. /\ RunEffect(p, "OpenMergeBead") /\ UNCHANGED <<status, verifyBead, incidents>>
        /\ merges' = merges \cup {NewMergeBead(job[p].task.head)}
    BY <1>7 DEF OpenMergeBead
  <2>2. job[p].task.head \in Heads
    <3>1. job[p].todo \in Todos /\ job[p].todo # <<>> /\ Head(job[p].todo) = "OpenMergeBead"
      BY <1>0, <2>1 DEF RunEffect, JobInv, Jobs
    <3>2. job[p].todo = <<"OpenMergeBead">>
      BY <3>1, TodoRest
    <3> QED
      BY <1>0, <3>2 DEF JobInv
  <2> DEFINE bead == NewMergeBead(job[p].task.head)
  <2>3. bead \in Beads
    BY <1>0, <2>2, NewMergeBeadType
  <2> HIDE DEF bead
  <2>4. merges' \subseteq Beads /\ IsFiniteSet(merges')
    BY <1>0, <2>1, <2>3, FS_AddElement DEF StateOK, bead
  <2>5. StateOK'
    BY <1>0, <2>1, <2>4 DEF RunEffect, StateOK, GoodTask, repo, world
  <2> QED
    BY <1>5, <2>1, <2>5
<1>8. ASSUME OpenIncidentBead(p) PROVE WellFormed'
  <2>1. StateOK'
    BY <1>0, <1>8 DEF OpenIncidentBead, RunEffect, StateOK, GoodTask, repo, world
  <2> QED
    BY <1>5, <1>8, <2>1 DEF OpenIncidentBead
<1>9. ASSUME CloseTaskBead(p) PROVE WellFormed'
  <2>1. StateOK'
    BY <1>0, <1>9 DEF CloseTaskBead, RunEffect, StateOK, GoodTask, repo, world
  <2> QED
    BY <1>5, <1>9, <2>1 DEF CloseTaskBead
<1>10. ASSUME CloseVerifyBead(p) PROVE WellFormed'
  <2>1. StateOK'
    BY <1>0, <1>10 DEF CloseVerifyBead, RunEffect, StateOK, GoodTask, repo, world
  <2> QED
    BY <1>5, <1>10, <2>1 DEF CloseVerifyBead
<1>11. ASSUME CloseMergeBeads(p) PROVE WellFormed'
  <2>1. StateOK'
    BY <1>0, <1>11, FS_EmptySet DEF CloseMergeBeads, RunEffect, StateOK, GoodTask, repo, world
  <2> QED
    BY <1>5, <1>11, <2>1 DEF CloseMergeBeads
<1> QED
  BY <1>1, <1>2, <1>3, <1>4, <1>6, <1>7, <1>8, <1>9, <1>10, <1>11 DEF ApplyEvent

LEMMA EventsMade ==
    /\ \A w \in Agents, n \in Nat : Claim(w, n, Ttl) \in Events
    /\ \A w \in Agents, n \in Nat : Heartbeat(w, n) \in Events
    /\ \A w \in Agents, c \in Heads, n \in Nat : Submit(w, c, n, 0) \in Events
    /\ \A n \in Nat : LeaseExpired(n) \in Events
    /\ \A w \in Agents, n \in Nat, b \in BOOLEAN : Release(w, n, b) \in Events
    /\ \A w \in Agents : ProviderStopped(w) \in Events
    /\ \A c \in Heads : Merged(c) \in Events
    /\ Escalate("budget") \in Events
    /\ \A name \in {"verify_passed", "verify_failed", "verify_blocked", "merge_failed",
                    "cancel", "operator_retry"} : Plain(name) \in Events
<1>1. \A w \in Agents, n \in Nat, b \in BOOLEAN : Release(w, n, b) \in Events
  <2> TAKE w \in Agents, n \in Nat, b \in BOOLEAN
  <2>1. Release(w, n, b) \in [event : {"release"}, holder : Agents, now : Nat, blocked : BOOLEAN]
    BY Zenon DEF Release
  <2> QED
    BY <2>1 DEF Events
<1>2. \A w \in Agents, c \in Heads, n \in Nat : Submit(w, c, n, 0) \in Events
  <2> TAKE w \in Agents, c \in Heads, n \in Nat
  <2>1. Submit(w, c, n, 0) \in
            [event : {"submit"}, holder : Agents, head : Heads, now : Nat, tokens : {0}]
    BY DEF Submit
  <2> QED
    BY <2>1 DEF Events
<1>3. \A w \in Agents, n \in Nat : Claim(w, n, Ttl) \in Events
  BY DEF Claim, Events
<1>4. \A w \in Agents, n \in Nat : Heartbeat(w, n) \in Events
  BY DEF Heartbeat, Events
<1>5. \A n \in Nat : LeaseExpired(n) \in Events
  BY DEF LeaseExpired, Events
<1>6. \A w \in Agents : ProviderStopped(w) \in Events
  BY DEF ProviderStopped, Events
<1>7. \A c \in Heads : Merged(c) \in Events
  BY DEF Merged, Events
<1>8. Escalate("budget") \in Events
  BY DEF Escalate, Events
<1>9. \A name \in {"verify_passed", "verify_failed", "verify_blocked", "merge_failed",
                   "cancel", "operator_retry"} : Plain(name) \in Events
  BY DEF Plain, Events
<1> QED
  BY <1>1, <1>2, <1>3, <1>4, <1>5, <1>6, <1>7, <1>8, <1>9

\* A process moves to another of its own steps and nothing else of its job changes.
LEMMA GoesKeeps ==
    ASSUME WellFormed, NEW p \in Processes, job[p].at # "effects",
           NEW s \in Steps, s \notin {"persist", "effects"},
           \A k : k.at = s /\ k.then = job[p].then /\ k.fails = job[p].fails
                  /\ k.head = job[p].head => RoleJob(p, k),
           GoesTo(p, s), StateOK'
    PROVE  WellFormed'
<1> DEFINE k == [job[p] EXCEPT !.at = s]
<1>1. JobInv(p, job[p]) /\ job[p] \in Jobs /\ job[p].todo = <<>> /\ IsFiniteSet(job[p].list)
  BY JobOf DEF JobInv
<1>2. /\ k \in Jobs /\ k.at = s /\ k.then = job[p].then /\ k.fails = job[p].fails
      /\ k.head = job[p].head /\ k.task = job[p].task /\ k.todo = <<>>
      /\ k.list = job[p].list
  BY <1>1 DEF Jobs
<1>3. Becomes(p, k)
  BY DEF GoesTo
<1> HIDE DEF k
<1>4. JobInv(p, k)
  BY <1>1, <1>2, StepInv
<1> QED
  BY <1>3, <1>4, Keeps

\* The same with a commit in hand.
LEMMA HoldsKeeps ==
    ASSUME WellFormed, NEW p \in Processes, job[p].at # "effects",
           NEW s \in Steps, s \notin {"persist", "effects"}, NEW head \in Heads,
           \A k : k.at = s /\ k.then = job[p].then /\ k.fails = job[p].fails
                  /\ k.head = head => RoleJob(p, k),
           Becomes(p, [job[p] EXCEPT !.at = s, !.head = head]), StateOK'
    PROVE  WellFormed'
<1> DEFINE k == [job[p] EXCEPT !.at = s, !.head = head]
<1>1. JobInv(p, job[p]) /\ job[p] \in Jobs /\ job[p].todo = <<>> /\ IsFiniteSet(job[p].list)
  BY JobOf DEF JobInv
<1>2. /\ k \in Jobs /\ k.at = s /\ k.then = job[p].then /\ k.fails = job[p].fails
      /\ k.head = head /\ k.task = job[p].task /\ k.todo = <<>>
      /\ k.list = job[p].list
  BY <1>1 DEF Jobs
<1>3. Becomes(p, k)
  OBVIOUS
<1> HIDE DEF k
<1>4. JobInv(p, k)
  BY <1>1, <1>2, StepInv
<1> QED
  BY <1>3, <1>4, Keeps

\* A process calls apply_event, from where it is or from nothing.
LEMMA CallKeeps ==
    ASSUME WellFormed, NEW p \in Processes, NEW j \in {job[p], Idle}, job[p].at # "effects",
           NEW e \in Events, NEW then \in Steps, NEW fails \in Steps,
           \A k : k.at = "load" /\ k.event = e /\ GoesOn(k, then, fails) => RoleJob(p, k),
           Becomes(p, Calling(j, e, then, fails)), StateOK'
    PROVE  WellFormed'
<1>1. JobInv(p, j)
  BY JobOf, IdleInv
<1>2. j.at # "effects"
  BY DEF Idle
<1>3. JobInv(p, Calling(j, e, then, fails))
  BY <1>1, <1>2, CallInv
<1> QED
  BY <1>3, Keeps

LEMMA WorkerKeeps ==
    ASSUME WellFormed, NEW w \in Agents, Worker(w)
    PROVE  WellFormed'
<1>0. /\ w \in Processes /\ JobInv(w, job[w]) /\ job[w] \in Jobs /\ WorkerJob(job[w])
      /\ StateOK /\ now \in Nat /\ Ttl \in Nat
  BY JobOf, RoleOf, RigConstants DEF WellFormed, StateOK
<1>a. \A k : k.at \in {"idle", "try", "checkout", "session", "tidy"} => RoleJob(w, k)
  BY RoleOf DEF WorkerJob, InCall
<1>b. \A k : k.at = "load" /\ k.event.event = "claim" /\ GoesOn(k, "checkout", "idle") =>
          RoleJob(w, k)
  BY RoleOf DEF WorkerJob, InCall
<1>c. \A k : k.at = "load" /\ k.event.event = "heartbeat" /\ GoesOn(k, "session", "tidy") =>
          RoleJob(w, k)
  BY RoleOf DEF WorkerJob, InCall
<1>d. \A k : /\ k.at = "load" /\ k.event.event \in {"submit", "release", "provider_stopped"}
             /\ GoesOn(k, "idle", "idle")
             => RoleJob(w, k)
  BY RoleOf DEF WorkerJob, InCall
<1>e. /\ {"idle", "try", "checkout", "session", "tidy"} \subseteq Steps
      /\ \A s \in {"idle", "try", "checkout", "session", "tidy"} :
            s # "load" /\ s # "persist" /\ s # "effects"
  BY DEF Steps
<1>1. ASSUME Pick(w) PROVE WellFormed'
  <2>1. job[w].at = "idle" /\ GoesTo(w, "try") /\ StateOK'
    BY <1>0, <1>1, StateSame DEF Pick
  <2> QED
    BY <1>0, <1>a, <1>e, <2>1, GoesKeeps
<1>2. ASSUME TryClaim(w) PROVE WellFormed'
  <2>1. /\ job[w].at = "try" /\ Becomes(w, Calling(job[w], Claim(w, now', Ttl), "checkout", "idle"))
        /\ now' \in Nat /\ StateOK'
    BY <1>0, <1>2, RestartedType DEF TryClaim, StateOK, GoodTask, repo
  <2>2. Claim(w, now', Ttl) \in Events /\ Claim(w, now', Ttl).event = "claim"
    BY <2>1, EventsMade, EventNames
  <2> QED
    BY <1>0, <1>b, <1>e, <2>1, <2>2, CallKeeps
<1>3. ASSUME ClaimLost(w) PROVE WellFormed'
  <2>1. job[w].at = "try" /\ GoesTo(w, "idle") /\ StateOK'
    BY <1>0, <1>3, StateSame DEF ClaimLost
  <2> QED
    BY <1>0, <1>a, <1>e, <2>1, GoesKeeps
<1>4. ASSUME CheckOut(w) PROVE WellFormed'
  <2> DEFINE until == now + Remaining(job[w].task)
             k == [Idle EXCEPT !.at = "session", !.beat = now, !.deadline = until]
  <2>1. until \in Nat
    <3>1. job[w].task.wall_clock \in Nat /\ WallLimit \in Nat
      BY <1>0, RigConstants DEF Jobs, Tasks
    <3>2. Remaining(job[w].task) \in Nat
      BY <3>1 DEF Remaining
    <3> QED
      BY <1>0, <3>2
  <2>2. Becomes(w, k) /\ StateOK'
    BY <1>0, <1>4 DEF CheckOut, StateOK, GoodTask, ledger, world
  <2> HIDE DEF until
  <2>3. JobInv(w, Idle) /\ Idle \in Jobs /\ Idle.todo = <<>> /\ Idle.list = {}
    BY <1>0, IdleInv DEF JobInv, Idle
  <2>4. /\ k \in Jobs /\ k.at = "session" /\ k.task = Idle.task /\ k.todo = <<>>
        /\ k.list = {}
    BY <1>0, <1>e, <2>1, <2>3 DEF Jobs
  <2> HIDE DEF k
  <2>5. JobInv(w, k)
    <3>1. IsFiniteSet(k.list) /\ RoleJob(w, k) /\ k.at \notin {"persist", "effects"}
      BY <1>a, <2>4, FS_EmptySet
    <3> QED
      BY <2>3, <2>4, <3>1, StepInv
  <2> QED
    BY <1>0, <2>2, <2>5, Keeps
<1>5. ASSUME Beat(w) PROVE WellFormed'
  <2> DEFINE m == [job[w] EXCEPT !.beat = now, !.result = "failed"]
  <2>1. /\ job[w].at = "session" /\ StateOK'
        /\ Becomes(w, Calling(m, Heartbeat(w, now), "session", "tidy"))
    BY <1>0, <1>5, StateSame DEF Beat
  <2>2. /\ m \in Jobs /\ m.at = "session" /\ m.task = job[w].task /\ m.todo = job[w].todo
        /\ m.list = job[w].list
    BY <1>0, <2>1 DEF Jobs, Results
  <2> HIDE DEF m
  <2>3. JobInv(w, m)
    BY <1>0, <1>a, <2>1, <2>2, StepInv DEF JobInv
  <2>4. Heartbeat(w, now) \in Events /\ Heartbeat(w, now).event = "heartbeat"
    BY <1>0, EventsMade, EventNames
  <2>5. JobInv(w, Calling(m, Heartbeat(w, now), "session", "tidy"))
    BY <1>c, <1>e, <2>2, <2>3, <2>4, CallInv
  <2> QED
    BY <1>0, <2>1, <2>5, Keeps
<1>6. ASSUME NEW result \in Results, EndSession(w, result) PROVE WellFormed'
  <2> DEFINE k == [Idle EXCEPT !.at = "tidy", !.result = result]
  <2>1. Becomes(w, k) /\ StateOK'
    BY <1>0, <1>6, RigConstants DEF EndSession, StateOK, GoodTask, ledger, repo
  <2>2. JobInv(w, Idle) /\ Idle \in Jobs /\ Idle.todo = <<>> /\ Idle.list = {}
    BY <1>0, IdleInv DEF JobInv, Idle
  <2>3. /\ k \in Jobs /\ k.at = "tidy" /\ k.task = Idle.task /\ k.todo = <<>>
        /\ k.list = {}
    BY <1>e, <2>2 DEF Jobs
  <2> HIDE DEF k
  <2>4. JobInv(w, k)
    <3>1. IsFiniteSet(k.list) /\ RoleJob(w, k) /\ k.at \notin {"persist", "effects"}
      BY <1>a, <2>3, FS_EmptySet
    <3> QED
      BY <2>2, <2>3, <3>1, StepInv
  <2> QED
    BY <1>0, <2>1, <2>4, Keeps
<1>7. ASSUME SubmitWork(w) PROVE WellFormed'
  <2> DEFINE head == CHOOSE h \in Heads \ Referred : TRUE
  <2>1. /\ job[w].at = "tidy" /\ verified' = verified \ {head}
        /\ Heads \ Referred # {}
        /\ Becomes(w, Calling(Idle, Submit(w, head, now, 0), "idle", "idle"))
        /\ tree' = "free" /\ UNCHANGED <<ledger, main, world>>
    BY <1>7 DEF SubmitWork, CommitAndRemove
  <2>2. head \in Heads
    BY <2>1
  <2> HIDE DEF head
  <2>3. StateOK'
    BY <1>0, <2>1 DEF StateOK, GoodTask, ledger, world
  <2>4. Submit(w, head, now, 0) \in Events /\ Submit(w, head, now, 0).event = "submit"
    BY <1>0, <2>2, EventsMade, EventNames
  <2> QED
    BY <1>0, <1>d, <1>e, <2>1, <2>3, <2>4, CallKeeps
<1>8. ASSUME ReleaseWork(w) PROVE WellFormed'
  <2> DEFINE blocked == job[w].result = "blocked"
  <2>1. /\ job[w].at = "tidy"
        /\ Becomes(w, Calling(Idle, Release(w, now, blocked), "idle", "idle"))
        /\ tree' = "free" /\ UNCHANGED <<ledger, main, verified, world>>
    BY <1>8, Zenon DEF ReleaseWork, CommitAndRemove
  <2>2. blocked \in BOOLEAN
    OBVIOUS
  <2> HIDE DEF blocked
  <2>3. StateOK'
    BY <1>0, <2>1 DEF StateOK, GoodTask, ledger, world
  <2>4. Release(w, now, blocked) \in Events
    BY <1>0, <2>2, EventsMade, Zenon
  <2>5. Release(w, now, blocked).event = "release"
    BY Zenon DEF Release
  <2> DEFINE e == Release(w, now, blocked)
  <2>6. /\ e \in Events /\ e.event = "release"
        /\ Becomes(w, Calling(Idle, e, "idle", "idle"))
    BY <2>1, <2>4, <2>5, Zenon
  <2> HIDE DEF e
  <2> QED
    BY <1>0, <1>d, <1>e, <2>1, <2>3, <2>6, CallKeeps
<1>9. ASSUME ReturnWork(w) PROVE WellFormed'
  <2>1. /\ job[w].at = "tidy"
        /\ Becomes(w, Calling(Idle, ProviderStopped(w), "idle", "idle"))
        /\ StateOK'
    BY <1>0, <1>9 DEF ReturnWork, CommitAndRemove, StateOK, GoodTask, ledger, world
  <2>2. ProviderStopped(w) \in Events /\ ProviderStopped(w).event = "provider_stopped"
    BY EventsMade, EventNames
  <2> QED
    BY <1>0, <1>d, <1>e, <2>1, <2>2, CallKeeps
<1>10. ASSUME AbandonWork(w) PROVE WellFormed'
  <2>1. job[w].at = "tidy" /\ GoesTo(w, "idle") /\ StateOK'
    BY <1>0, <1>10 DEF AbandonWork, CommitAndRemove, StateOK, GoodTask, ledger, world
  <2> QED
    BY <1>0, <1>a, <1>e, <2>1, GoesKeeps
<1>11. ASSUME NothingToCommit(w) PROVE WellFormed'
  <2>1. job[w].at = "tidy" /\ GoesTo(w, "idle") /\ StateOK'
    BY <1>0, <1>11, StateSame DEF NothingToCommit
  <2> QED
    BY <1>0, <1>a, <1>e, <2>1, GoesKeeps
<1> QED
  BY <1>1, <1>2, <1>3, <1>4, <1>5, <1>6, <1>7, <1>8, <1>9, <1>10, <1>11 DEF Worker

LEMMA VerifierKeeps ==
    ASSUME WellFormed, Verifier
    PROVE  WellFormed'
<1> DEFINE p == "verifier"
<1>0. /\ p \in Processes /\ job[p] \in Jobs /\ VerifierJob(job[p])
      /\ StateOK /\ GoodTask(meta)
  BY JobOf, RoleOf, RigConstants DEF WellFormed, StateOK
<1>a. ASSUME NEW k, k.at \in {"idle", "checkout", "check"}, k.then = job[p].then,
             k.fails = job[p].fails, k.at \in {"checkout", "check"} => k.head \in Heads
      PROVE  RoleJob(p, k)
  <2>1. VerifierJob(k)
    BY <1>0, <1>a DEF VerifierJob, InCall, GoesOn
  <2> QED
    BY <2>1, RoleOf
<1>b. \A k : k.at = "load" /\ k.event.event \in Verdicts /\ GoesOn(k, "idle", "idle") =>
          RoleJob(p, k)
  BY RoleOf DEF VerifierJob, InCall
<1>c. /\ {"idle", "checkout", "check"} \subseteq Steps
      /\ \A s \in {"idle", "checkout", "check"} : s # "persist" /\ s # "effects"
  BY DEF Steps
<1>1. ASSUME StartVerify PROVE WellFormed'
  <2>1. /\ job[p].at = "idle" /\ meta.head \in Heads /\ StateOK'
        /\ Becomes(p, [job[p] EXCEPT !.at = "checkout", !.head = meta.head])
    BY <1>0, <1>1, StateSame DEF StartVerify, GoodTask
  <2>2. \A k : /\ k.at = "checkout" /\ k.then = job[p].then /\ k.fails = job[p].fails
               /\ k.head = meta.head
               => RoleJob(p, k)
    BY <1>a, <2>1
  <2> QED
    BY <1>0, <1>c, <2>1, <2>2, HoldsKeeps
<1>2. ASSUME AddWorktree(p, "check") PROVE WellFormed'
  <2>1. job[p].at = "checkout" /\ GoesTo(p, "check") /\ StateOK'
    BY <1>0, <1>2 DEF AddWorktree, StateOK, GoodTask, ledger, world
  <2>2. \A k : /\ k.at = "check" /\ k.then = job[p].then /\ k.fails = job[p].fails
               /\ k.head = job[p].head
               => RoleJob(p, k)
    BY <1>0, <1>a, <2>1 DEF VerifierJob
  <2> QED
    BY <1>0, <1>c, <2>1, <2>2, GoesKeeps
<1>3. ASSUME NEW verdict \in Verdicts, Check(verdict) PROVE WellFormed'
  <2>1. /\ job[p].at = "check" /\ Becomes(p, Calling(Idle, Plain(verdict), "idle", "idle"))
        /\ tree' = "free" /\ UNCHANGED <<ledger, main, world>>
        /\ verified' \in {verified, verified \cup {job[p].head}}
        /\ verified' # verified => verdict = "verify_passed" /\ tree = p
    BY <1>3 DEF Check
  <2>2. job[p].at = "check" => job[p].head \in Heads
    BY <1>0 DEF VerifierJob
  <2>3. StateOK'
    BY <1>0, <2>1, <2>2 DEF StateOK, GoodTask, ledger, world
  <2>4. Plain(verdict) \in Events /\ Plain(verdict).event = verdict
    BY EventsMade, EventNames DEF Verdicts
  <2> QED
    BY <1>0, <1>b, <1>c, <2>1, <2>3, <2>4, CallKeeps
<1>4. ASSUME CheckGone PROVE WellFormed'
  <2>1. job[p].at = "check" /\ GoesTo(p, "idle") /\ StateOK'
    BY <1>0, <1>4, StateSame DEF CheckGone
  <2> QED
    BY <1>0, <1>a, <1>c, <2>1, GoesKeeps
<1> QED
  BY <1>1, <1>2, <1>3, <1>4 DEF Verifier

LEMMA IntegratorKeeps ==
    ASSUME WellFormed, Integrator
    PROVE  WellFormed'
<1> DEFINE p == "integrator"
<1>0. /\ p \in Processes /\ JobInv(p, job[p]) /\ job[p] \in Jobs /\ IntegratorJob(job[p])
      /\ StateOK /\ GoodTask(meta) /\ job[p].list \subseteq Beads /\ IsFiniteSet(job[p].list)
  BY JobOf, RoleOf, RigConstants DEF WellFormed, StateOK, JobInv, Jobs
<1>a. ASSUME NEW k, k.at \in {"idle", "show", "match", "checkout", "land", "landed", "skip"},
             k.at \in {"checkout", "land"} => k.head \in Heads
      PROVE  RoleJob(p, k)
  <2>1. IntegratorJob(k)
    BY <1>a DEF IntegratorJob, InCall
  <2> QED
    BY <2>1, RoleOf
<1>b. \A k : /\ k.at = "load" /\ k.event.event \in {"merged", "merge_failed"}
             /\ GoesOn(k, "landed", "skip")
             => RoleJob(p, k)
  BY RoleOf DEF IntegratorJob, InCall
<1>c. {"idle", "show", "match", "checkout", "land", "landed", "skip"} \subseteq Steps
  BY DEF Steps
<1>d. ASSUME NEW bead, Becomes(p,
                 [Idle EXCEPT !.list = job[p].list \ {bead},
                              !.at = IF job[p].list \ {bead} = {} THEN "idle" ELSE "show"]),
             StateOK'
      PROVE  WellFormed'
  <2> DEFINE rest == job[p].list \ {bead}
             at == IF rest = {} THEN "idle" ELSE "show"
             k == [Idle EXCEPT !.list = rest, !.at = at]
  <2>1. rest \subseteq Beads /\ IsFiniteSet(rest) /\ at \in {"idle", "show"} /\ at \in Steps
    BY <1>0, <1>c, FS_RemoveElement
  <2>2. Becomes(p, k)
    BY <1>d
  <2> HIDE DEF rest, at
  <2>3. JobInv(p, Idle) /\ Idle \in Jobs /\ Idle.todo = <<>>
    BY <1>0, IdleInv DEF JobInv, Idle
  <2>4. k \in Jobs /\ k.at = at /\ k.task = Idle.task /\ k.todo = <<>> /\ k.list = rest
    BY <2>1, <2>3 DEF Jobs
  <2> HIDE DEF k
  <2>5. RoleJob(p, k) /\ k.at \notin {"persist", "effects"}
    BY <1>a, <2>1, <2>4
  <2>6. JobInv(p, k)
    BY <2>1, <2>3, <2>4, <2>5, StepInv
  <2> QED
    BY <1>0, <1>d, <2>2, <2>6, Keeps
<1>e. ASSUME CloseMerge PROVE WellFormed'
  <2>1. /\ merges' = merges \ {Current}
        /\ UNCHANGED <<meta, status, verifyBead, incidents, repo, world>>
    BY <1>e DEF CloseMerge
  <2>2. merges' \subseteq Beads /\ IsFiniteSet(merges')
    BY <1>0, <2>1, FS_RemoveElement DEF StateOK
  <2>3. StateOK'
    BY <1>0, <2>1, <2>2 DEF StateOK, GoodTask, repo, world
  <2> QED
    BY <1>d, <1>e, <2>3 DEF CloseMerge, NextMerge
<1>1. ASSUME ListMerges PROVE WellFormed'
  <2> DEFINE k == [job[p] EXCEPT !.at = "show", !.list = merges]
  <2>1. job[p].at = "idle" /\ Becomes(p, k) /\ StateOK'
    BY <1>0, <1>1, StateSame DEF ListMerges
  <2>2. merges \subseteq Beads /\ IsFiniteSet(merges) /\ job[p].todo = <<>>
    BY <1>0, <2>1 DEF StateOK, JobInv
  <2>3. /\ k \in Jobs /\ k.at = "show" /\ k.task = job[p].task /\ k.todo = <<>>
        /\ k.list = merges
    BY <1>0, <1>c, <2>2 DEF Jobs
  <2> HIDE DEF k
  <2>4. RoleJob(p, k) /\ k.at \notin {"persist", "effects"}
    BY <1>a, <2>3
  <2>5. JobInv(p, k)
    BY <1>0, <2>2, <2>3, <2>4, StepInv
  <2> QED
    BY <1>0, <2>1, <2>5, Keeps
<1>2. ASSUME ShowClosed PROVE WellFormed'
  BY <1>2, <1>e DEF ShowClosed
<1>3. ASSUME ShowActive PROVE WellFormed'
  <2>1. job[p].at = "show" /\ GoesTo(p, "match") /\ StateOK'
    BY <1>0, <1>3, StateSame DEF ShowActive
  <2>2. \A k : k.at = "match" => RoleJob(p, k)
    BY <1>a
  <2> QED
    BY <1>0, <1>c, <2>1, <2>2, GoesKeeps
<1>4. ASSUME MatchStale PROVE WellFormed'
  BY <1>4, <1>e DEF MatchStale
<1>5. ASSUME MatchCurrent PROVE WellFormed'
  <2>1. /\ job[p].at = "match" /\ meta.head \in Heads /\ StateOK'
        /\ Becomes(p, [job[p] EXCEPT !.at = "checkout", !.head = meta.head])
    BY <1>0, <1>5, StateSame DEF MatchCurrent, Matches, GoodTask
  <2>2. \A k : k.at = "checkout" /\ k.head = meta.head => RoleJob(p, k)
    BY <1>a, <2>1
  <2> QED
    BY <1>0, <1>c, <2>1, <2>2, HoldsKeeps
<1>6. ASSUME AddWorktree(p, "land") PROVE WellFormed'
  <2>1. job[p].at = "checkout" /\ GoesTo(p, "land") /\ StateOK'
    BY <1>0, <1>6 DEF AddWorktree, StateOK, GoodTask, ledger, world
  <2>2. \A k : k.at = "land" /\ k.head = job[p].head => RoleJob(p, k)
    BY <1>0, <1>a, <2>1 DEF IntegratorJob
  <2> QED
    BY <1>0, <1>c, <2>1, <2>2, GoesKeeps
<1>7. ASSUME Land PROVE WellFormed'
  <2> DEFINE head == job[p].head
  <2>1. /\ job[p].at = "land" /\ main' \in {main, main \cup {head}} /\ tree' = "free"
        /\ Becomes(p, Calling(job[p], Merged(head), "landed", "skip"))
        /\ UNCHANGED <<ledger, verified, world>>
    BY <1>7 DEF Land
  <2>2. head \in Heads
    BY <1>0, <2>1 DEF IntegratorJob
  <2> HIDE DEF head
  <2>3. StateOK'
    BY <1>0, <2>1, <2>2 DEF StateOK, GoodTask, ledger, world
  <2>4. Merged(head) \in Events /\ Merged(head).event = "merged"
    BY <2>2, EventsMade, EventNames
  <2> QED
    BY <1>0, <1>b, <1>c, <2>1, <2>3, <2>4, CallKeeps
<1>8. ASSUME Reject PROVE WellFormed'
  <2>1. /\ job[p].at = "land" /\ StateOK'
        /\ Becomes(p, Calling(job[p], Plain("merge_failed"), "landed", "skip"))
    BY <1>0, <1>8 DEF Reject, StateOK, GoodTask, ledger, world
  <2>2. Plain("merge_failed") \in Events /\ Plain("merge_failed").event = "merge_failed"
    BY EventsMade, EventNames
  <2> QED
    BY <1>0, <1>b, <1>c, <2>1, <2>2, CallKeeps
<1>9. ASSUME LandInfra PROVE WellFormed'
  <2>1. job[p].at = "land" /\ GoesTo(p, "skip") /\ StateOK'
    BY <1>0, <1>9, RigConstants DEF LandInfra, StateOK, GoodTask, ledger
  <2>2. \A k : k.at = "skip" => RoleJob(p, k)
    BY <1>a
  <2> QED
    BY <1>0, <1>c, <2>1, <2>2, GoesKeeps
<1>10. ASSUME Landed PROVE WellFormed'
  BY <1>10, <1>e DEF Landed
<1>11. ASSUME Skip PROVE WellFormed'
  <2>1. StateOK'
    BY <1>0, <1>11, StateSame DEF Skip
  <2> QED
    BY <1>11, <1>d, <2>1 DEF Skip, NextMerge
<1> QED
  BY <1>1, <1>2, <1>3, <1>4, <1>5, <1>6, <1>7, <1>8, <1>9, <1>10, <1>11 DEF Integrator

LEMMA StewardKeeps ==
    ASSUME WellFormed, Steward
    PROVE  WellFormed'
<1> DEFINE p == "steward"
<1>0. /\ p \in Processes /\ JobInv(p, job[p]) /\ job[p] \in Jobs /\ StewardJob(job[p])
      /\ StateOK /\ GoodTask(meta) /\ now \in Nat
  BY JobOf, RoleOf, RigConstants DEF WellFormed, StateOK
<1>a. ASSUME NEW k, k.at \in {"idle", "repair", "create"}, k.then = job[p].then,
             k.fails = job[p].fails, k.at = "create" => k.head \in Heads
      PROVE  RoleJob(p, k)
  <2>1. StewardJob(k)
    BY <1>0, <1>a DEF StewardJob, InCall, GoesOn
  <2> QED
    BY <2>1, RoleOf
<1>b. \A k : /\ k.at = "load" /\ k.event.event \in {"lease_expired", "escalate"}
             /\ GoesOn(k, "idle", "idle")
             => RoleJob(p, k)
  BY RoleOf DEF StewardJob, InCall
<1>c. {"idle", "repair", "create"} \subseteq Steps
  BY DEF Steps
<1>d. \A k : /\ k.at \in {"idle", "repair"} /\ k.then = job[p].then
             /\ k.fails = job[p].fails
             => RoleJob(p, k)
  BY <1>a
<1>1. ASSUME Reap PROVE WellFormed'
  <2>1. /\ job[p].at = "idle" /\ StateOK'
        /\ Becomes(p, Calling(job[p], LeaseExpired(now), "idle", "idle"))
    BY <1>0, <1>1, StateSame DEF Reap
  <2>2. LeaseExpired(now) \in Events /\ LeaseExpired(now).event = "lease_expired"
    BY <1>0, EventsMade, EventNames
  <2> QED
    BY <1>0, <1>b, <1>c, <2>1, <2>2, CallKeeps
<1>2. ASSUME EscalateRunaway PROVE WellFormed'
  <2>1. /\ job[p].at = "idle" /\ StateOK'
        /\ Becomes(p, Calling(job[p], Escalate("budget"), "idle", "idle"))
    BY <1>0, <1>2, StateSame DEF EscalateRunaway
  <2>2. Escalate("budget") \in Events /\ Escalate("budget").event = "escalate"
    BY EventsMade, EventNames
  <2> QED
    BY <1>0, <1>b, <1>c, <2>1, <2>2, CallKeeps
<1>3. ASSUME SeesNoMerge PROVE WellFormed'
  <2>1. job[p].at = "idle" /\ GoesTo(p, "repair") /\ StateOK'
    BY <1>0, <1>3, StateSame DEF SeesNoMerge
  <2> QED
    BY <1>0, <1>c, <1>d, <2>1, GoesKeeps
<1>4. ASSUME SeesMissing PROVE WellFormed'
  <2>1. /\ job[p].at = "repair" /\ meta.head \in Heads /\ StateOK'
        /\ Becomes(p, [job[p] EXCEPT !.at = "create", !.head = meta.head])
    BY <1>0, <1>4, StateSame DEF SeesMissing, Needs, GoodTask
  <2>2. \A k : /\ k.at = "create" /\ k.then = job[p].then /\ k.fails = job[p].fails
               /\ k.head = meta.head
               => RoleJob(p, k)
    BY <1>a, <2>1
  <2> QED
    BY <1>0, <1>c, <2>1, <2>2, HoldsKeeps
<1>5. ASSUME NothingMissing PROVE WellFormed'
  <2>1. job[p].at = "repair" /\ GoesTo(p, "idle") /\ StateOK'
    BY <1>0, <1>5, StateSame DEF NothingMissing
  <2> QED
    BY <1>0, <1>c, <1>d, <2>1, GoesKeeps
<1>6. ASSUME Repair PROVE WellFormed'
  <2> DEFINE bead == NewMergeBead(job[p].head)
  <2>1. /\ job[p].at = "create" /\ merges' = merges \cup {bead} /\ GoesTo(p, "idle")
        /\ UNCHANGED <<meta, status, verifyBead, incidents, repo, world>>
    BY <1>6 DEF Repair
  <2>2. job[p].head \in Heads
    BY <1>0, <2>1 DEF StewardJob
  <2>3. bead \in Beads
    BY <1>0, <2>2, NewMergeBeadType DEF WellFormed
  <2> HIDE DEF bead
  <2>4. merges' \subseteq Beads /\ IsFiniteSet(merges')
    BY <1>0, <2>1, <2>3, FS_AddElement DEF StateOK
  <2>5. StateOK'
    BY <1>0, <2>1, <2>4 DEF StateOK, GoodTask, repo, world
  <2> QED
    BY <1>0, <1>c, <1>d, <2>1, <2>5, GoesKeeps
<1> QED
  BY <1>1, <1>2, <1>3, <1>4, <1>5, <1>6 DEF Steward

LEMMA OperatorKeeps ==
    ASSUME WellFormed, Resolve \/ Confirm \/ CancelTask \/ CloseChildren \/ CloseRest
    PROVE  WellFormed'
<1> DEFINE p == "operator"
<1>0. /\ p \in Processes /\ job[p] \in Jobs /\ OperatorJob(job[p])
      /\ StateOK /\ MaxRequests \in Nat
  BY JobOf, RoleOf, RigConstants DEF WellFormed, StateOK
<1>a. \A k : k.at \in {"idle", "confirm", "close_task", "close_rest"} => RoleJob(p, k)
  BY RoleOf DEF OperatorJob, InCall
<1>b. {"idle", "confirm", "close_task", "close_rest"} \subseteq Steps
  BY DEF Steps
<1>1. ASSUME Resolve PROVE WellFormed'
  <2>1. job[p].at = "idle" /\ GoesTo(p, "confirm") /\ StateOK'
    BY <1>0, <1>1 DEF Resolve, StateOK, GoodTask, repo
  <2> QED
    BY <1>0, <1>a, <1>b, <2>1, GoesKeeps
<1>2. ASSUME Confirm PROVE WellFormed'
  <2>1. job[p].at = "confirm" /\ StateOK'
    BY <1>0, <1>2, StateSame DEF Confirm
  <2>2. CASE GoesTo(p, "idle")
    BY <1>0, <1>a, <1>b, <2>1, <2>2, GoesKeeps
  <2>3. CASE Becomes(p, Calling(job[p], Plain("operator_retry"), "idle", "idle"))
    <3>1. Plain("operator_retry") \in Events /\ Plain("operator_retry").event = "operator_retry"
      BY EventsMade, EventNames
    <3>2. \A k : k.at = "load" /\ k.event.event = "operator_retry" /\ GoesOn(k, "idle", "idle")
                 => RoleJob(p, k)
      BY RoleOf DEF OperatorJob, InCall
    <3> QED
      BY <1>0, <1>b, <2>1, <2>3, <3>1, <3>2, CallKeeps
  <2> QED
    BY <1>2, <2>2, <2>3 DEF Confirm
<1>3. ASSUME CancelTask PROVE WellFormed'
  <2>1. /\ job[p].at = "idle" /\ StateOK'
        /\ Becomes(p, Calling(job[p], Plain("cancel"), "close_task", "idle"))
    BY <1>0, <1>3 DEF CancelTask, StateOK, GoodTask, ledger, repo
  <2>2. Plain("cancel") \in Events /\ Plain("cancel").event = "cancel"
    BY EventsMade, EventNames
  <2>3. \A k : k.at = "load" /\ k.event.event = "cancel" /\ GoesOn(k, "close_task", "idle")
               => RoleJob(p, k)
    BY RoleOf DEF OperatorJob, InCall
  <2> QED
    BY <1>0, <1>b, <2>1, <2>2, <2>3, CallKeeps
<1>4. ASSUME CloseChildren PROVE WellFormed'
  <2>1. job[p].at = "close_task" /\ GoesTo(p, "close_rest") /\ StateOK'
    BY <1>0, <1>4 DEF CloseChildren, StateOK, GoodTask, repo, world
  <2> QED
    BY <1>0, <1>a, <1>b, <2>1, GoesKeeps
<1>5. ASSUME CloseRest PROVE WellFormed'
  <2>1. job[p].at = "close_rest" /\ GoesTo(p, "idle") /\ StateOK'
    BY <1>0, <1>5 DEF CloseRest, StateOK, GoodTask, repo, world
  <2> QED
    BY <1>0, <1>a, <1>b, <2>1, GoesKeeps
<1> QED
  BY <1>1, <1>2, <1>3, <1>4, <1>5

LEMMA InitWellFormed ==
    Init => WellFormed
<1> SUFFICES ASSUME Init PROVE WellFormed
  OBVIOUS
<1>1. GoodTask(NewTask)
  BY NewTaskInv DEF GoodTask
<1>2. StateOK
  BY <1>1, RigConstants, FS_EmptySet DEF Init, StateOK
<1>3. DOMAIN job = Processes /\ \A p \in Processes : job[p] = Idle
  BY DEF Init
<1>4. JobsOK
  BY <1>3, IdleInv DEF JobsOK
<1> QED
  BY <1>2, <1>4 DEF WellFormed

LEMMA StepKeeps ==
    ASSUME WellFormed, [Next]_vars
    PROVE  WellFormed'
<1>0. StateOK /\ JobsOK /\ MaxFaults \in Nat
  BY RigConstants DEF WellFormed
<1>1. ASSUME NEW p \in Processes, Step(p) PROVE WellFormed'
  <2>1. CASE ApplyEvent(p)
    BY <2>1, ApplyEventKeeps
  <2>2. CASE p \in Workers /\ Worker(p)
    BY <2>2, WorkerKeeps DEF Workers
  <2>3. CASE p = "verifier" /\ Verifier
    BY <2>3, VerifierKeeps
  <2>4. CASE p = "integrator" /\ Integrator
    BY <2>4, IntegratorKeeps
  <2>5. CASE p = "steward" /\ Steward
    BY <2>5, StewardKeeps
  <2>6. CASE p = "operator" /\ (Confirm \/ CloseChildren \/ CloseRest)
    BY <2>6, OperatorKeeps
  <2> QED
    BY <1>1, <2>1, <2>2, <2>3, <2>4, <2>5, <2>6 DEF Step
<1>2. ASSUME Resolve \/ CancelTask PROVE WellFormed'
  BY <1>2, OperatorKeeps
<1>3. ASSUME Tick PROVE WellFormed'
  BY <1>0, <1>3 DEF Tick, WellFormed, StateOK, GoodTask, JobsOK, ledger, repo
<1>4. ASSUME NEW p \in Processes, Crash(p) PROVE WellFormed'
  <2>1. StateOK' /\ Becomes(p, Idle)
    BY <1>0, <1>4 DEF Crash, StateOK, GoodTask, ledger, repo
  <2> QED
    BY <2>1, IdleInv, Keeps
<1>5. ASSUME NEW p \in Processes, StoreFails(p) PROVE WellFormed'
  <2>1. /\ StateOK' /\ Becomes(p, Returning(job[p], job[p].fails))
        /\ job[p].at \in {"load", "persist", "effects"}
    BY <1>0, <1>5 DEF StoreFails, StateOK, GoodTask, ledger, repo
  <2>2. JobInv(p, Returning(job[p], job[p].fails))
    BY <2>1, JobOf, ReturnInv DEF JobInv
  <2> QED
    BY <2>1, <2>2, Keeps
<1>6. ASSUME UNCHANGED vars PROVE WellFormed'
  <2>1. StateOK'
    BY <1>0, <1>6, StateSame DEF vars
  <2>2. JobsOK'
    BY <1>0, <1>6 DEF vars, JobsOK
  <2> QED
    BY <2>1, <2>2 DEF WellFormed
<1> QED
  BY <1>1, <1>2, <1>3, <1>4, <1>5, <1>6 DEF Next

\* Whatever the rig does, its ledger and its processes are in a state of the kinds above.
THEOREM AlwaysWellFormed == Spec => []WellFormed
<1>1. Init => WellFormed
  BY InitWellFormed
<1>2. WellFormed /\ [Next]_vars => WellFormed'
  BY StepKeeps
<1> QED
  BY <1>1, <1>2, PTL DEF Spec

\* Every variable of the rig keeps its type, in every configuration: any number of workers
\* and commits, atomic or racing writes, any faults and requests.
THEOREM TypeCorrect == Spec => []TypeOK
<1>1. WellFormed => TypeOK
  <2> SUFFICES ASSUME WellFormed PROVE TypeOK
    OBVIOUS
  <2>1. \A p \in Processes : job[p].task \in Tasks /\ job[p].head \in Heads \cup {NoHead}
    BY JobOf DEF Jobs
  <2> QED
    BY <2>1 DEF WellFormed, StateOK, GoodTask, TaskInv, TypeOK, Beads
<1> QED
  BY <1>1, AlwaysWellFormed, PTL

\* However writers with stale reads overwrite one another, the ledger never shows a task that
\* can be worked on or reviewed with its attempts, lives or blocked releases spent.
THEOREM AlwaysSpendable == Spec => []LedgerSpendable
<1>1. WellFormed => LedgerSpendable
  <2> SUFFICES ASSUME WellFormed PROVE LedgerSpendable
    OBVIOUS
  <2>1. TaskInv(meta)
    BY DEF WellFormed, StateOK, GoodTask
  <2> QED
    BY <2>1 DEF TaskInv, LedgerSpendable
<1> QED
  BY <1>1, AlwaysWellFormed, PTL

-----------------------------------------------------------------------------
(* Where a step leaves the process that takes it.                          *)

Others(p) == \A q \in Processes \ {p} : job'[q] = job[q]

LEMMA JobAfter ==
    ASSUME WellFormed, NEW p \in Processes, NEW j, Becomes(p, j)
    PROVE  Others(p) /\ job'[p].at = j.at /\ (j.at # "idle" => job'[p] = j)
<1> DEFINE k == IF j.at = "idle" THEN Idle ELSE j
<1>1. job' = [job EXCEPT ![p] = k] /\ DOMAIN job = Processes
  BY DEF Becomes, WellFormed, JobsOK
<1>2. k.at = j.at
  BY DEF Idle
<1> QED
  BY <1>1, <1>2 DEF Others

LEMMA GoAfter ==
    ASSUME WellFormed, NEW p \in Processes, NEW s, GoesTo(p, s)
    PROVE  /\ Others(p) /\ job'[p].at = s
           /\ s # "idle" => job'[p].head = job[p].head
<1>1. job[p] \in Jobs
  BY JobOf
<1> DEFINE k == [job[p] EXCEPT !.at = s]
<1>2. k.at = s /\ k.head = job[p].head
  BY <1>1 DEF Jobs
<1>3. Becomes(p, k)
  BY DEF GoesTo
<1> HIDE DEF k
<1> QED
  BY <1>2, <1>3, JobAfter

LEMMA CallAfter ==
    ASSUME WellFormed, NEW p \in Processes, NEW j \in Jobs, NEW e, NEW then, NEW fails,
           Becomes(p, Calling(j, e, then, fails))
    PROVE  Others(p) /\ job'[p].at = "load" /\ job'[p].event = e
<1> DEFINE k == Calling(j, e, then, fails)
<1>2. k.at = "load" /\ k.event = e
  BY DEF Jobs, Calling
<1> HIDE DEF k
<1> QED
  BY <1>2, JobAfter DEF k

LEMMA ReturnAfter ==
    ASSUME WellFormed, NEW p \in Processes, NEW j \in Jobs, NEW s,
           Becomes(p, Returning(j, s))
    PROVE  Others(p) /\ job'[p].at = s
<1> DEFINE k == Returning(j, s)
<1>2. k.at = s
  BY DEF Jobs, Returning
<1> HIDE DEF k
<1> QED
  BY <1>2, JobAfter DEF k

LEMMA ResumeAfter ==
    ASSUME WellFormed, NEW p \in Processes, NEW t \in Tasks, NEW todo \in Todos,
           Becomes(p, Resume([job[p] EXCEPT !.task = t, !.todo = todo]))
    PROVE  /\ Others(p)
           /\ todo = <<>> => job'[p].at = job[p].then
           /\ todo # <<>> => job'[p].at = "effects" /\ job'[p].todo = todo
<1> DEFINE j == [job[p] EXCEPT !.task = t, !.todo = todo]
           k == [j EXCEPT !.at = "effects"]
<1>1. job[p] \in Jobs
  BY JobOf
<1>2. j \in Jobs /\ j.todo = todo /\ j.then = job[p].then
  BY <1>1 DEF Jobs
<1> HIDE DEF j
<1>3. k.at = "effects" /\ k.todo = todo
  BY <1>2 DEF Jobs
<1>4. CASE todo = <<>>
  <2>1. Becomes(p, Returning(j, job[p].then))
    BY <1>2, <1>4 DEF Resume, j
  <2> QED
    BY <1>2, <1>4, <2>1, ReturnAfter
<1>5. CASE todo # <<>>
  <2>1. Becomes(p, k)
    BY <1>2, <1>5 DEF Resume, j
  <2> HIDE DEF k
  <2> QED
    BY <1>3, <1>5, <2>1, JobAfter
<1> QED
  BY <1>4, <1>5

\* The call's command is run: it returns, or a second one is left.
LEMMA EffectAfter ==
    ASSUME WellFormed, NEW p \in Processes, NEW effect, RunEffect(p, effect)
    PROVE  /\ Others(p) /\ job[p].at = "effects"
           /\ \/ job'[p].at = job[p].then
              \/ job'[p].at = "effects" /\ Head(job'[p].todo) = "CloseVerifyBead"
<1>1. job[p] \in Jobs /\ job[p].at = "effects" /\ job[p].todo # <<>>
  BY JobOf DEF RunEffect, JobInv
<1>2. [job[p] EXCEPT !.todo = Tail(@)] =
          [job[p] EXCEPT !.task = job[p].task, !.todo = Tail(job[p].todo)]
  BY <1>1 DEF Jobs
<1>3. Becomes(p, Resume([job[p] EXCEPT !.task = job[p].task, !.todo = Tail(job[p].todo)]))
  BY <1>2 DEF RunEffect
<1>4. job[p].task \in Tasks /\ job[p].todo \in Todos
  BY <1>1 DEF Jobs
<1>5. /\ Tail(job[p].todo) \in Todos
      /\ Tail(job[p].todo) # <<>> => Head(Tail(job[p].todo)) = "CloseVerifyBead"
  BY <1>1, <1>4, TodoRest
<1> QED
  BY <1>1, <1>3, <1>4, <1>5, ResumeAfter

\* The write of a task: what it does to the task and where it leaves the writer.
LEMMA WriteAfter ==
    ASSUME WellFormed, NEW p \in Processes, LoadAndPersist(p)
    PROVE  LET e == job[p].event
               todo == AfterWrite(meta, meta', e)
           IN  /\ job[p].at = "load" /\ Others(p)
               /\ Outcome(meta, e, meta', todo) /\ GoodTask(meta')
               /\ UNCHANGED <<status, verifyBead, merges, incidents, repo, faults, requests>>
               /\ todo = <<>> => job'[p].at = job[p].then
               /\ todo # <<>> => job'[p].at = "effects" /\ job'[p].todo = todo
<1> DEFINE e == job[p].event
           u == NextTask(meta, e)
           todo == AfterWrite(meta, u, e)
<1>1. job[p] \in Jobs /\ e \in Events /\ GoodTask(meta)
  BY JobOf DEF Jobs, WellFormed, StateOK
<1>2. /\ job[p].at = "load" /\ Legal(meta, e) /\ meta' = u
      /\ Becomes(p, Resume([job[p] EXCEPT !.task = u, !.todo = todo]))
      /\ UNCHANGED <<status, verifyBead, merges, incidents, repo, faults, requests>>
  BY Zenon DEF LoadAndPersist, Write
<1>3. GoodTask(u) /\ Outcome(meta, e, u, todo)
  BY <1>1, <1>2, Applied
<1> HIDE DEF e, u, todo
<1>4. todo \in Todos /\ u \in Tasks
  BY <1>3 DEF Outcome, Todos, GoodTask, TaskInv
<1>5. /\ Others(p)
      /\ todo = <<>> => job'[p].at = job[p].then
      /\ todo # <<>> => job'[p].at = "effects" /\ job'[p].todo = todo
  BY <1>2, <1>4, ResumeAfter
<1>6. todo = AfterWrite(meta, meta', e)
  BY <1>2 DEF todo
<1> QED
  BY <1>2, <1>3, <1>5, <1>6 DEF e

-----------------------------------------------------------------------------
(* The claim mirrors the lease, where every write follows its read at once *)
(* and no incident is resolved: a retry could claim the task while a       *)
(* release of its earlier claim is still under way.                        *)

InTurn == AtomicApply /\ "resolve" \notin OperatorDoes

Next1(p, effect) == job[p].at = "effects" /\ Head(job[p].todo) = effect

\* Nobody holds a task it has read, or is about to reopen an escalated one.
NoRetry ==
    \A p \in Processes :
        /\ job[p].at \notin {"persist", "confirm"}
        /\ job[p].at = "load" => job[p].event.event # "operator_retry"

\* A bead is closed, or is being closed, only once its task is finished.
Ended ==
    /\ \A p \in Processes : Next1(p, "CloseTaskBead") => meta.state = "closed"
    /\ job["operator"].at \in {"effects", "close_task"} => meta.state = "canceled"
    /\ status = "closed" => meta.state \in {"closed", "canceled"}

\* p has claimed the bead and not the task, or has still to give the claim back.
Claiming(p) == job[p].at = "load" /\ job[p].event.event = "claim"
Holds(p) == Claiming(p) \/ Next1(p, "Unclaim")

ClaimIsHeld ==
    /\ meta.state \in {"leased", "in_verify", "mergeable"} =>
           status = "in_progress" /\ \A p \in Processes : ~Holds(p)
    /\ meta.state = "open" =>
           /\ \A p \in Processes : Holds(p) => status = "in_progress"
           /\ \A p, q \in Processes : Holds(p) /\ Holds(q) => p = q

MirrorInv == WellFormed /\ NoRetry /\ Ended /\ ClaimIsHeld

\* A step of p that tells none of this apart.
Calm(p) ==
    /\ UNCHANGED <<meta, status>>
    /\ Others(p)
    /\ job'[p].at \notin {"persist", "confirm"}
    /\ job'[p].at = "load" => job'[p].event.event \notin {"claim", "operator_retry"}
    /\ job'[p].at = "effects" => Head(job'[p].todo) = "CloseVerifyBead"
    /\ p = "operator" /\ job'[p].at \in {"effects", "close_task"} =>
           job[p].at \in {"effects", "close_task"}

\* The other steps.
Stirs(p) ==
    LoadAndPersist(p) \/ Unclaim(p) \/ CloseTaskBead(p) \/ TryClaim(p)

\* Where the operator's process is, in a call and out of it.
LEMMA GoesOnWhere ==
    ASSUME WellFormed, NEW p \in Processes
    PROVE  /\ job[p].at = "effects" => job[p].then \in {"idle", "landed", "close_task"}
           /\ job[p].at = "load" => job[p].fails \in {"idle", "tidy", "skip"}
           /\ job[p].at = "effects" => job[p].fails \in {"idle", "skip"}
           /\ p = "operator" /\ job[p].at \in {"load", "effects"} => job[p].fails = "idle"
<1>1. RoleJob(p, job[p])
  BY JobOf
<1>2. CASE p \in Agents
  BY <1>1, <1>2, RoleOf, RigAssumption DEF WorkerJob, InCall, GoesOn, Roles
<1>3. CASE p = "verifier"
  BY <1>1, <1>3, RoleOf DEF VerifierJob, InCall, GoesOn
<1>4. CASE p = "integrator"
  BY <1>1, <1>4, RoleOf DEF IntegratorJob, InCall, GoesOn
<1>5. CASE p = "steward"
  BY <1>1, <1>5, RoleOf DEF StewardJob, InCall, GoesOn
<1>6. CASE p = "operator"
  BY <1>1, <1>6, RoleOf DEF OperatorJob, InCall, GoesOn
<1> QED
  BY <1>2, <1>3, <1>4, <1>5, <1>6 DEF Processes, Workers, Roles

LEMMA CallCalm ==
    ASSUME WellFormed, NEW p \in Processes, ApplyEvent(p), InTurn, NoRetry
    PROVE  Stirs(p) \/ Calm(p)
<1>1. job[p] \in Jobs
  BY JobOf
<1>2. ASSUME Refused(p) PROVE Calm(p)
  <2>1. /\ Becomes(p, Returning(job[p], job[p].fails)) /\ job[p].at = "load"
        /\ UNCHANGED <<meta, status>>
    BY <1>2 DEF Refused, ledger
  <2>2. Others(p) /\ job'[p].at = job[p].fails
    BY <1>1, <2>1, ReturnAfter
  <2> QED
    BY <2>1, <2>2, GoesOnWhere DEF Calm
<1>3. ASSUME NEW effect, RunEffect(p, effect), UNCHANGED status PROVE Calm(p)
  <2>1. /\ Others(p) /\ job[p].at = "effects" /\ UNCHANGED meta
        /\ \/ job'[p].at = job[p].then
           \/ job'[p].at = "effects" /\ Head(job'[p].todo) = "CloseVerifyBead"
    BY <1>3, EffectAfter DEF RunEffect
  <2> QED
    BY <1>3, <2>1, GoesOnWhere DEF Calm
<1>4. ~Load(p) /\ ~Persist(p)
  BY DEF Load, Persist, InTurn, NoRetry
<1>5. OpenMergeBead(p) \/ OpenIncidentBead(p) \/ CloseVerifyBead(p) \/ CloseMergeBeads(p)
      => Calm(p)
  BY <1>3 DEF OpenMergeBead, OpenIncidentBead, CloseVerifyBead, CloseMergeBeads
<1> QED
  BY <1>2, <1>4, <1>5 DEF ApplyEvent, Stirs

LEMMA WorkerCalm ==
    ASSUME WellFormed, NEW w \in Agents, Worker(w)
    PROVE  TryClaim(w) \/ Calm(w)
<1>0. w \in Processes /\ w # "operator" /\ job[w] \in Jobs /\ Idle \in Jobs
  BY RigConstants, RigAssumption, JobOf, IdleInv DEF Roles, JobInv
<1>1. ASSUME NEW s \in {"idle", "try"}, GoesTo(w, s), UNCHANGED <<meta, status>> PROVE Calm(w)
  BY <1>0, <1>1, GoAfter DEF Calm
<1>2. ASSUME NEW j \in Jobs, NEW e, NEW then, NEW fails, Becomes(w, Calling(j, e, then, fails)),
             e.event \in HolderEvents, UNCHANGED <<meta, status>>
      PROVE  Calm(w)
  BY <1>0, <1>2, CallAfter DEF Calm, HolderEvents
<1>3. ASSUME NEW j, Becomes(w, j), j.at \in {"session", "tidy"}, UNCHANGED <<meta, status>>
      PROVE  Calm(w)
  BY <1>0, <1>3, JobAfter DEF Calm
<1>4. Pick(w) \/ ClaimLost(w) \/ AbandonWork(w) \/ NothingToCommit(w) => Calm(w)
  BY <1>1 DEF Pick, ClaimLost, AbandonWork, NothingToCommit, CommitAndRemove, ledger
<1>5. ASSUME CheckOut(w) PROVE Calm(w)
  <2> DEFINE k == [Idle EXCEPT !.at = "session", !.beat = now,
                               !.deadline = now + Remaining(job[w].task)]
  <2>1. Becomes(w, k) /\ UNCHANGED <<meta, status>>
    BY <1>5 DEF CheckOut, ledger
  <2>2. k.at = "session"
    BY <1>0 DEF Jobs
  <2> HIDE DEF k
  <2> QED
    BY <1>3, <2>1, <2>2
<1>6. ASSUME NEW result \in Results, EndSession(w, result) PROVE Calm(w)
  <2> DEFINE k == [Idle EXCEPT !.at = "tidy", !.result = result]
  <2>1. Becomes(w, k) /\ UNCHANGED <<meta, status>>
    BY <1>6 DEF EndSession, ledger
  <2>2. k.at = "tidy"
    BY <1>0 DEF Jobs
  <2> HIDE DEF k
  <2> QED
    BY <1>3, <2>1, <2>2
<1>7. ASSUME Beat(w) PROVE Calm(w)
  <2> DEFINE k == [job[w] EXCEPT !.beat = now, !.result = "failed"]
  <2>1. Becomes(w, Calling(k, Heartbeat(w, now), "session", "tidy")) /\ UNCHANGED <<meta, status>>
    BY <1>7 DEF Beat, ledger
  <2>2. k \in Jobs
    BY <1>0 DEF Jobs, Results, WellFormed, StateOK
  <2> HIDE DEF k
  <2> QED
    BY <1>2, <2>1, <2>2, EventNames DEF HolderEvents
<1>8. ASSUME SubmitWork(w) PROVE Calm(w)
  <2>1. PICK head : /\ Becomes(w, Calling(Idle, Submit(w, head, now, 0), "idle", "idle"))
                    /\ UNCHANGED <<meta, status>>
    BY <1>8 DEF SubmitWork, CommitAndRemove, ledger
  <2> QED
    BY <1>0, <1>2, <2>1, EventNames DEF HolderEvents
<1>9. ASSUME ReleaseWork(w) PROVE Calm(w)
  <2> DEFINE blocked == job[w].result = "blocked"
             e == Release(w, now, blocked)
  <2>1. Becomes(w, Calling(Idle, e, "idle", "idle")) /\ UNCHANGED ledger
    BY <1>9, Zenon DEF ReleaseWork, CommitAndRemove
  <2>2. e.event = "release"
    BY Zenon DEF Release
  <2> HIDE DEF e
  <2> QED
    BY <1>0, <1>2, <2>1, <2>2 DEF HolderEvents, ledger
<1>10. ASSUME ReturnWork(w) PROVE Calm(w)
  <2>1. /\ Becomes(w, Calling(Idle, ProviderStopped(w), "idle", "idle"))
        /\ UNCHANGED <<meta, status>>
    BY <1>10 DEF ReturnWork, CommitAndRemove, ledger
  <2> QED
    BY <1>0, <1>2, <2>1, EventNames DEF HolderEvents
<1> QED
  BY <1>4, <1>5, <1>6, <1>7, <1>8, <1>9, <1>10 DEF Worker

LEMMA RolesCalm ==
    ASSUME WellFormed, Verifier \/ Integrator \/ Steward
    PROVE  \E p \in Processes : Calm(p)
<1>0. /\ {"verifier", "integrator", "steward", "operator"} \subseteq Processes
      /\ Idle \in Jobs
      /\ \A p \in Processes : job[p] \in Jobs
  BY RigConstants, JobOf, IdleInv DEF JobInv
<1> DEFINE Here == {"verifier", "integrator", "steward"}
<1>1. ASSUME NEW p \in Here, NEW s \in {"idle", "check", "match", "land", "skip", "repair"},
             GoesTo(p, s), UNCHANGED <<meta, status>>
      PROVE  Calm(p)
  BY <1>0, <1>1, GoAfter DEF Calm
<1>2. ASSUME NEW p \in Here, NEW j \in Jobs, NEW e, NEW then, NEW fails,
             Becomes(p, Calling(j, e, then, fails)), e.event \notin {"claim", "operator_retry"},
             UNCHANGED <<meta, status>>
      PROVE  Calm(p)
  BY <1>0, <1>2, CallAfter DEF Calm
<1>3. ASSUME NEW p \in Here, NEW j, Becomes(p, j), UNCHANGED <<meta, status>>,
             j.at \in {"idle", "checkout", "show", "create"}
      PROVE  Calm(p)
  BY <1>0, <1>3, JobAfter DEF Calm
<1>4. ASSUME NEW p \in Here, NEW s \in {"checkout", "create"}, NEW head, UNCHANGED <<meta, status>>,
             Becomes(p, [job[p] EXCEPT !.at = s, !.head = head])
      PROVE  Calm(p)
  <2>1. [job[p] EXCEPT !.at = s, !.head = head].at = s
    BY <1>0 DEF Jobs
  <2> QED
    BY <1>3, <1>4, <2>1
<1>5. ASSUME Verifier PROVE Calm("verifier")
  <2>1. StartVerify => Calm("verifier")
    BY <1>4 DEF StartVerify, ledger
  <2>2. AddWorktree("verifier", "check") => Calm("verifier")
    BY <1>1 DEF AddWorktree, ledger
  <2>3. ASSUME NEW verdict \in Verdicts, Check(verdict) PROVE Calm("verifier")
    <3>1. /\ Becomes("verifier", Calling(Idle, Plain(verdict), "idle", "idle"))
          /\ UNCHANGED <<meta, status>>
      BY <2>3 DEF Check, ledger
    <3>2. Plain(verdict).event \notin {"claim", "operator_retry"}
      BY EventNames DEF Verdicts
    <3> QED
      BY <1>0, <1>2, <3>1, <3>2
  <2>4. CheckGone => Calm("verifier")
    BY <1>1 DEF CheckGone, ledger
  <2> QED
    BY <1>5, <2>1, <2>2, <2>3, <2>4 DEF Verifier
<1>6. ASSUME Integrator PROVE Calm("integrator")
  <2>1. ASSUME NEW bead, UNCHANGED <<meta, status>>, Becomes("integrator",
                 [Idle EXCEPT !.list = job["integrator"].list \ {bead},
                   !.at = IF job["integrator"].list \ {bead} = {} THEN "idle" ELSE "show"])
        PROVE  Calm("integrator")
    <3> DEFINE rest == job["integrator"].list \ {bead}
               at == IF rest = {} THEN "idle" ELSE "show"
               k == [Idle EXCEPT !.list = rest, !.at = at]
    <3>1. k.at = at
      BY <1>0 DEF Jobs
    <3>2. Becomes("integrator", k)
      BY <2>1
    <3> HIDE DEF k
    <3> QED
      BY <1>3, <2>1, <3>1, <3>2
  <2>2. Skip => Calm("integrator")
    BY <2>1 DEF Skip, NextMerge, ledger
  <2>3. CloseMerge => Calm("integrator")
    BY <2>1 DEF CloseMerge, NextMerge
  <2>4. ShowClosed \/ MatchStale \/ Landed => Calm("integrator")
    BY <2>3 DEF ShowClosed, MatchStale, Landed
  <2>5. ASSUME ListMerges PROVE Calm("integrator")
    <3>1. [job["integrator"] EXCEPT !.at = "show", !.list = merges].at = "show"
      BY <1>0 DEF Jobs
    <3> QED
      BY <1>3, <2>5, <3>1 DEF ListMerges, ledger
  <2>6. ShowActive \/ LandInfra \/ AddWorktree("integrator", "land") => Calm("integrator")
    BY <1>1 DEF ShowActive, LandInfra, AddWorktree, ledger
  <2>7. MatchCurrent => Calm("integrator")
    BY <1>4 DEF MatchCurrent, ledger
  <2>8. Land => Calm("integrator")
    BY <1>0, <1>2, EventNames DEF Land, ledger
  <2>9. Reject => Calm("integrator")
    BY <1>0, <1>2, EventNames DEF Reject, ledger
  <2> QED
    BY <1>6, <2>2, <2>4, <2>5, <2>6, <2>7, <2>8, <2>9 DEF Integrator
<1>7. ASSUME Steward PROVE Calm("steward")
  <2>1. Reap => Calm("steward")
    BY <1>0, <1>2, EventNames DEF Reap, ledger
  <2>2. EscalateRunaway => Calm("steward")
    BY <1>0, <1>2, EventNames DEF EscalateRunaway, ledger
  <2>3. SeesNoMerge \/ NothingMissing \/ Repair => Calm("steward")
    BY <1>1 DEF SeesNoMerge, NothingMissing, Repair, ledger
  <2>4. SeesMissing => Calm("steward")
    BY <1>4 DEF SeesMissing, ledger
  <2> QED
    BY <1>7, <2>1, <2>2, <2>3, <2>4 DEF Steward
<1> QED
  BY <1>0, <1>5, <1>6, <1>7

\* Every step is one of these.
LEMMA StepKinds ==
    ASSUME MirrorInv, InTurn, [Next]_vars
    PROVE  \/ \E p \in Processes : Calm(p) \/ Stirs(p)
           \/ CloseChildren
           \/ UNCHANGED <<meta, status, job>>
<1>0. /\ WellFormed /\ NoRetry
      /\ {"verifier", "integrator", "steward", "operator"} \subseteq Processes
      /\ \A p \in Processes : job[p] \in Jobs
      /\ Idle.at = "idle"
  BY RigConstants, JobOf DEF MirrorInv, Idle
<1>1. ASSUME NEW p \in Processes, Step(p)
      PROVE  (\E q \in Processes : Calm(q) \/ Stirs(q)) \/ CloseChildren
  <2>1. CASE ApplyEvent(p)
    BY <1>0, <2>1, CallCalm
  <2>2. CASE p \in Workers /\ Worker(p)
    BY <1>0, <2>2, WorkerCalm DEF Workers, Stirs
  <2>3. CASE Verifier \/ Integrator \/ Steward
    BY <1>0, <2>3, RolesCalm
  <2>4. CASE CloseRest
    BY <1>0, <2>4, GoAfter DEF CloseRest, Calm
  <2>5. ~Confirm
    BY <1>0 DEF Confirm, NoRetry
  <2> QED
    BY <1>1, <2>1, <2>2, <2>3, <2>4, <2>5 DEF Step
<1>2. ~Resolve
  BY DEF Resolve, InTurn
<1>3. ASSUME CancelTask PROVE Calm("operator")
  BY <1>0, <1>3, CallAfter, EventNames DEF CancelTask, Calm, ledger
<1>4. Tick \/ UNCHANGED vars => UNCHANGED <<meta, status, job>>
  BY DEF Tick, vars, ledger
<1>5. ASSUME NEW p \in Processes, Crash(p) PROVE Calm(p)
  BY <1>0, <1>5, JobAfter DEF Crash, Calm, ledger
<1>6. ASSUME NEW p \in Processes, StoreFails(p) PROVE Calm(p)
  <2>1. /\ Becomes(p, Returning(job[p], job[p].fails)) /\ UNCHANGED <<meta, status>>
        /\ job[p].at \in {"load", "effects"}
    BY <1>0, <1>6 DEF StoreFails, ledger, NoRetry
  <2>2. Others(p) /\ job'[p].at = job[p].fails
    BY <1>0, <2>1, ReturnAfter
  <2> QED
    BY <1>0, <2>1, <2>2, GoesOnWhere DEF Calm
<1> QED
  BY <1>0, <1>1, <1>2, <1>3, <1>4, <1>5, <1>6 DEF Next

LEMMA CalmKeeps ==
    ASSUME MirrorInv, NEW p \in Processes, Calm(p)
    PROVE  NoRetry' /\ Ended' /\ ClaimIsHeld'
<1>1. /\ UNCHANGED <<meta, status>>
      /\ \A q \in Processes \ {p} : job'[q] = job[q]
      /\ NoRetry /\ Ended /\ ClaimIsHeld
  BY DEF Calm, Others, MirrorInv
<1>2. NoRetry'
  BY <1>1 DEF NoRetry, Calm
<1>3. ~Next1(p, "CloseTaskBead")' /\ ~Holds(p)'
  BY DEF Calm, Next1, Holds, Claiming
<1>4. \A q \in Processes \ {p} : /\ Next1(q, "CloseTaskBead")' <=> Next1(q, "CloseTaskBead")
                                 /\ Holds(q)' <=> Holds(q)
  BY <1>1 DEF Next1, Holds, Claiming
<1>5. Ended'
  <2>1. job'["operator"].at \in {"effects", "close_task"} =>
            job["operator"].at \in {"effects", "close_task"}
    BY <1>1, RigConstants DEF Calm
  <2> QED
    BY <1>1, <1>3, <1>4, <2>1 DEF Ended
<1>6. ClaimIsHeld'
  BY <1>1, <1>3, <1>4 DEF ClaimIsHeld
<1> QED
  BY <1>2, <1>5, <1>6

\* The writer of a task that becomes open again is the only one that has to give it back.
LEMMA WriteKeepsClaim ==
    ASSUME MirrorInv, NEW p \in Processes, LoadAndPersist(p)
    PROVE  NoRetry' /\ Ended' /\ ClaimIsHeld'
<1> DEFINE e == job[p].event
           todo == AfterWrite(meta, meta', e)
<1>0. WellFormed /\ NoRetry /\ Ended /\ ClaimIsHeld
  BY DEF MirrorInv
<1>1. /\ job[p].at = "load" /\ Others(p) /\ UNCHANGED status
      /\ Outcome(meta, e, meta', todo)
      /\ todo = <<>> => job'[p].at = job[p].then
      /\ todo # <<>> => job'[p].at = "effects" /\ job'[p].todo = todo
  BY <1>0, WriteAfter
<1>2. e.event # "operator_retry"
  BY <1>0, <1>1 DEF NoRetry
<1>3. job[p].then \in {"idle", "checkout", "session", "landed", "close_task"}
  <2>1. RoleJob(p, job[p])
    BY <1>0, JobOf
  <2> QED
    BY <1>1, <1>2, <2>1 DEF RoleJob, WorkerJob, VerifierJob, IntegratorJob, StewardJob,
       OperatorJob, InCall, GoesOn, Processes, Workers, Roles
<1>4. p = "operator" => e.event = "cancel"
  BY <1>0, <1>1, <1>2, JobOf, RoleOf DEF OperatorJob, InCall
<1> HIDE DEF todo
<1>5. /\ todo = <<"Unclaim">> => Head(todo) = "Unclaim"
      /\ todo = <<"OpenMergeBead">> => Head(todo) = "OpenMergeBead"
      /\ todo = <<"OpenIncidentBead">> => Head(todo) = "OpenIncidentBead"
      /\ todo = <<"CloseMergeBeads">> => Head(todo) = "CloseMergeBeads"
      /\ todo = <<"CloseTaskBead", "CloseVerifyBead">> => Head(todo) = "CloseTaskBead"
  OBVIOUS
<1>6. /\ <<"Unclaim">> # <<>> /\ <<"OpenMergeBead">> # <<>> /\ <<"OpenIncidentBead">> # <<>>
      /\ <<"CloseMergeBeads">> # <<>> /\ <<"CloseTaskBead", "CloseVerifyBead">> # <<>>
  OBVIOUS
<1>7. NoRetry'
  BY <1>0, <1>1, <1>3 DEF NoRetry, Others
<1>8. \A q \in Processes \ {p} : /\ Next1(q, "CloseTaskBead")' <=> Next1(q, "CloseTaskBead")
                                 /\ Holds(q)' <=> Holds(q)
  BY <1>1 DEF Next1, Holds, Claiming, Others
<1>9. /\ Next1(p, "CloseTaskBead")' => meta'.state = "closed"
      /\ Holds(p)' <=> todo = <<"Unclaim">>
  BY <1>1, <1>3, <1>5, <1>6 DEF Outcome, Next1, Holds, Claiming
<1>10. meta.state \notin {"closed", "canceled"}
  BY <1>1, <1>2 DEF Outcome
<1>11. Ended'
  <2>1. p = "operator" => meta'.state = "canceled"
    BY <1>1, <1>4 DEF Outcome
  <2>2. job'["operator"].at \in {"effects", "close_task"} => meta'.state = "canceled"
    BY <1>0, <1>1, <1>10, <2>1, RigConstants DEF Ended, Others
  <2> QED
    BY <1>0, <1>1, <1>8, <1>9, <1>10, <2>2 DEF Ended
<1>12. CASE e.event = "claim"
  <2>1. /\ meta.state = "open" /\ meta'.state = "leased" /\ ~Holds(p)' /\ Holds(p)
    BY <1>1, <1>6, <1>9, <1>12 DEF Outcome, Holds, Claiming
  <2> QED
    BY <1>0, <1>1, <1>7, <1>8, <1>11, <2>1 DEF ClaimIsHeld
<1>13. CASE e.event # "claim"
  <2>1. meta'.state \in {"leased", "in_verify", "mergeable", "open"} =>
            meta.state \in {"leased", "in_verify", "mergeable"}
    BY <1>1, <1>2, <1>13 DEF Outcome
  <2>2. meta'.state # "open" => ~Holds(p)'
    BY <1>1, <1>6, <1>9 DEF Outcome
  <2> QED
    BY <1>0, <1>1, <1>7, <1>8, <1>11, <2>1, <2>2 DEF ClaimIsHeld
<1> QED
  BY <1>12, <1>13

LEMMA StirKeeps ==
    ASSUME MirrorInv, NEW p \in Processes, Unclaim(p) \/ CloseTaskBead(p) \/ TryClaim(p)
    PROVE  NoRetry' /\ Ended' /\ ClaimIsHeld'
<1>0. WellFormed /\ NoRetry /\ Ended /\ ClaimIsHeld /\ StateOK
  BY DEF MirrorInv, WellFormed
<1>1. Others(p) =>
          \A q \in Processes \ {p} : /\ Next1(q, "CloseTaskBead")' <=> Next1(q, "CloseTaskBead")
                                     /\ Holds(q)' <=> Holds(q)
  BY DEF Next1, Holds, Claiming, Others
<1>2. ASSUME NEW effect \in {"Unclaim", "CloseTaskBead"}, RunEffect(p, effect)
      PROVE  /\ NoRetry' /\ Others(p) /\ UNCHANGED meta
             /\ ~Next1(p, "CloseTaskBead")' /\ ~Holds(p)' /\ Next1(p, effect)
             /\ p = "operator" => job[p].at = "effects"
  <2>1. /\ Others(p) /\ job[p].at = "effects" /\ UNCHANGED meta
        /\ \/ job'[p].at = job[p].then
           \/ job'[p].at = "effects" /\ Head(job'[p].todo) = "CloseVerifyBead"
    BY <1>0, <1>2, EffectAfter DEF RunEffect
  <2>2. job[p].then \in {"idle", "landed", "close_task"}
    BY <1>0, <2>1, GoesOnWhere
  <2> QED
    BY <1>0, <1>2, <2>1, <2>2 DEF NoRetry, Next1, Holds, Claiming, Others, RunEffect
<1>3. CASE Unclaim(p)
  <2>1. /\ NoRetry' /\ Others(p) /\ UNCHANGED meta /\ status' = "open"
        /\ ~Next1(p, "CloseTaskBead")' /\ ~Holds(p)' /\ Holds(p)
        /\ p = "operator" => job[p].at = "effects"
    BY <1>2, <1>3 DEF Unclaim, Holds
  <2>2. Ended'
    BY <1>0, <1>1, <2>1, RigConstants DEF Ended, Others
  <2>3. ClaimIsHeld'
    BY <1>0, <1>1, <2>1 DEF ClaimIsHeld
  <2> QED
    BY <2>1, <2>2, <2>3
<1>4. CASE CloseTaskBead(p)
  <2>1. /\ NoRetry' /\ Others(p) /\ UNCHANGED meta /\ status' = "closed"
        /\ ~Next1(p, "CloseTaskBead")' /\ ~Holds(p)' /\ Next1(p, "CloseTaskBead")
        /\ p = "operator" => job[p].at = "effects"
    BY <1>2, <1>4 DEF CloseTaskBead
  <2>2. meta.state = "closed"
    BY <1>0, <2>1 DEF Ended
  <2>3. Ended'
    BY <1>0, <1>1, <2>1, <2>2, RigConstants DEF Ended, Others
  <2>4. ClaimIsHeld'
    BY <2>1, <2>2 DEF ClaimIsHeld
  <2> QED
    BY <2>1, <2>3, <2>4
<1>5. CASE TryClaim(p)
  <2>1. /\ Becomes(p, Calling(job[p], Claim(p, now', Ttl), "checkout", "idle"))
        /\ job[p].at = "try" /\ status = "open" /\ status' = "in_progress" /\ UNCHANGED meta
    BY <1>5 DEF TryClaim
  <2>2. Others(p) /\ job'[p].at = "load" /\ job'[p].event.event = "claim"
    BY <1>0, <2>1, CallAfter, JobOf, EventNames
  <2>3. ~Next1(p, "CloseTaskBead")' /\ p # "operator"
    <3>1. p = "operator" => OperatorJob(job[p])
      BY <1>0, JobOf, RoleOf
    <3> QED
      BY <2>1, <2>2, <3>1 DEF Next1, OperatorJob
  <2>4. NoRetry'
    BY <1>0, <2>2 DEF NoRetry, Others
  <2>5. Ended'
    BY <1>0, <1>1, <2>1, <2>2, <2>3, RigConstants DEF Ended, Others
  <2>6. ClaimIsHeld'
    BY <1>0, <1>1, <2>1, <2>2 DEF ClaimIsHeld
  <2> QED
    BY <2>4, <2>5, <2>6
<1> QED
  BY <1>3, <1>4, <1>5

LEMMA CloseChildrenKeeps ==
    ASSUME MirrorInv, CloseChildren
    PROVE  NoRetry' /\ Ended' /\ ClaimIsHeld'
<1> DEFINE p == "operator"
<1>1. /\ WellFormed /\ NoRetry /\ Ended /\ ClaimIsHeld /\ p \in Processes
      /\ job[p].at = "close_task" /\ GoesTo(p, "close_rest")
      /\ UNCHANGED meta /\ status' = "closed"
  BY RigConstants DEF MirrorInv, CloseChildren
<1>2. Others(p) /\ job'[p].at = "close_rest"
  BY <1>1, GoAfter
<1>3. meta.state = "canceled"
  BY <1>1 DEF Ended
<1>4. \A q \in Processes : Next1(q, "CloseTaskBead")' => Next1(q, "CloseTaskBead")
  BY <1>1, <1>2 DEF Next1, Others
<1>5. NoRetry'
  BY <1>1, <1>2 DEF NoRetry, Others
<1>6. Ended'
  BY <1>1, <1>2, <1>3, <1>4 DEF Ended
<1>7. ClaimIsHeld'
  BY <1>1, <1>3 DEF ClaimIsHeld
<1> QED
  BY <1>5, <1>6, <1>7

LEMMA MirrorInductive ==
    ASSUME InTurn, MirrorInv, [Next]_vars
    PROVE  MirrorInv'
<1>1. WellFormed'
  BY StepKeeps DEF MirrorInv
<1>2. NoRetry' /\ Ended' /\ ClaimIsHeld'
  <2>1. CASE UNCHANGED <<meta, status, job>>
    BY <2>1 DEF MirrorInv, NoRetry, Ended, ClaimIsHeld, Next1, Holds, Claiming
  <2> QED
    BY <2>1, StepKinds, CalmKeeps, WriteKeepsClaim, StirKeeps, CloseChildrenKeeps DEF Stirs
<1> QED
  BY <1>1, <1>2 DEF MirrorInv

LEMMA InitMirror == Init => MirrorInv
<1> SUFFICES ASSUME Init PROVE MirrorInv
  OBVIOUS
<1>1. WellFormed
  BY InitWellFormed
<1>2. \A p \in Processes : job[p].at = "idle"
  BY DEF Init, Idle
<1>3. meta.state = "open" /\ status = "open" /\ "operator" \in Processes
  BY NewTaskInv, RigConstants DEF Init
<1> QED
  BY <1>1, <1>2, <1>3 DEF MirrorInv, NoRetry, Ended, ClaimIsHeld, Next1, Holds, Claiming

LEMMA AlwaysMirrorInv ==
    ASSUME InTurn
    PROVE  Spec => []MirrorInv
<1>1. Init => MirrorInv
  BY InitMirror
<1>2. MirrorInv /\ [Next]_vars => MirrorInv'
  BY MirrorInductive
<1> QED
  BY <1>1, <1>2, PTL DEF Spec

\* Where every write follows its read at once and no incident is resolved, the ledger's claim
\* mirrors the lease, for any number of workers, whatever crashes and is canceled.
THEOREM ClaimsMirror ==
    ASSUME InTurn
    PROVE  Spec => []ClaimMirrorsLease
<1>1. MirrorInv => ClaimMirrorsLease
  BY DEF MirrorInv, ClaimIsHeld, ClaimMirrorsLease
<1> QED
  BY <1>1, AlwaysMirrorInv, PTL

-----------------------------------------------------------------------------
(* What lands was verified, where besides a rig has one worker: two of them *)
(* meet at the one path a task's checkouts share.                           *)

OneWorker == \A v, w \in Agents : v = w

\* p has the task in hand: the worker from its claim to the end of its last report, the
\* reviewers from taking the submission to their verdict.
AtWork(p) ==
    \/ /\ p \in Agents
       /\ \/ job[p].at \in {"checkout", "session", "tidy"}
          \/ job[p].at = "load" /\ job[p].event.event \in HolderEvents
    \/ p = "verifier" /\ job[p].at \in {"checkout", "check", "load"}
    \/ p = "integrator" /\ job[p].at \in {"checkout", "land", "load"}

\* What the task may be meanwhile: others can only take it from p, escalate or cancel it.
WorkStates(p) ==
    {"incident", "canceled"}
    \cup (IF p \in Agents THEN {"open", "leased"}
          ELSE IF p = "verifier" THEN {"in_verify"} ELSE {"mergeable"})

OneAtWork ==
    /\ \A p, q \in Processes : AtWork(p) /\ AtWork(q) => p = q
    /\ \A p \in Processes : AtWork(p) => meta.state \in WorkStates(p)

\* The verdict on its way is about the commit the task names, and so is the landing.
Checked ==
    /\ main \subseteq verified
    /\ meta.state = "mergeable" => meta.head \in verified
    /\ meta.state = "closed" => meta.head \in main
    /\ meta.state = "in_verify" =>
        /\ job["verifier"].at \in {"checkout", "check"} => job["verifier"].head = meta.head
        /\ job["verifier"].at = "load" /\ job["verifier"].event.event = "verify_passed" =>
               meta.head \in verified
    /\ job["integrator"].at \in {"checkout", "land"} => job["integrator"].head \in verified
    /\ job["integrator"].at = "load" /\ job["integrator"].event.event = "merged" =>
           job["integrator"].event.merged \in main

LandInv == MirrorInv /\ OneAtWork /\ Checked /\ WorktreeExclusive

\* A step of p that tells none of this apart.
Still(p) ==
    /\ UNCHANGED <<meta, main, verified, tree>>
    /\ Others(p)
    /\ AtWork(p)' => p \in Agents /\ AtWork(p)
    /\ Inside(p)' => Inside(p)

\* The other steps.
WorkerMoves(w) == CheckOut(w) \/ SubmitWork(w) \/ ReleaseWork(w) \/ ReturnWork(w) \/ AbandonWork(w)
VerifierMoves ==
    StartVerify \/ AddWorktree("verifier", "check") \/ \E verdict \in Verdicts : Check(verdict)
IntegratorMoves ==
    MatchCurrent \/ AddWorktree("integrator", "land") \/ Land \/ Reject \/ LandInfra

\* Who calls apply_event with what.
LEMMA WhoCalls ==
    ASSUME WellFormed, NEW p \in Processes, job[p].at \in {"load", "persist"}
    PROVE  LET name == job[p].event.event
           IN  /\ p \in Agents <=> name \in HolderEvents \cup {"claim"}
               /\ p = "verifier" <=> name \in Verdicts
               /\ p = "integrator" <=> name \in {"merged", "merge_failed"}
               /\ p = "steward" <=> name \in {"lease_expired", "escalate"}
               /\ p = "operator" <=> name \in {"cancel", "operator_retry"}
               /\ name = "claim" => job[p].then = "checkout" /\ job[p].fails = "idle"
               /\ name = "heartbeat" => job[p].then = "session" /\ job[p].fails = "tidy"
               /\ name \in {"submit", "release", "provider_stopped"} \cup Verdicts =>
                      job[p].then = "idle" /\ job[p].fails = "idle"
               /\ name \in {"merged", "merge_failed"} =>
                      job[p].then = "landed" /\ job[p].fails = "skip"
               /\ name \in {"lease_expired", "escalate", "cancel", "operator_retry"} =>
                      job[p].then \in {"idle", "close_task"} /\ job[p].fails = "idle"
<1> DEFINE name == job[p].event.event
<1>1. RoleJob(p, job[p])
  BY JobOf
<1>2. /\ p \in Agents => p \notin {"verifier", "integrator", "steward", "operator"}
      /\ p \in Agents \/ p \in {"verifier", "integrator", "steward", "operator"}
  BY RigAssumption DEF Processes, Workers, Roles
<1>3. CASE p \in Agents
  <2>1. WorkerJob(job[p])
    BY <1>1, <1>3, RoleOf
  <2> QED
    BY <1>2, <1>3, <2>1 DEF WorkerJob, InCall, GoesOn, HolderEvents, Verdicts
<1>4. CASE p = "verifier"
  <2>1. VerifierJob(job[p])
    BY <1>1, <1>4, RoleOf
  <2> QED
    BY <1>2, <1>4, <2>1 DEF VerifierJob, InCall, GoesOn, HolderEvents, Verdicts
<1>5. CASE p = "integrator"
  <2>1. IntegratorJob(job[p])
    BY <1>1, <1>5, RoleOf
  <2> QED
    BY <1>2, <1>5, <2>1 DEF IntegratorJob, InCall, GoesOn, HolderEvents, Verdicts
<1>6. CASE p = "steward"
  <2>1. StewardJob(job[p])
    BY <1>1, <1>6, RoleOf
  <2> QED
    BY <1>2, <1>6, <2>1 DEF StewardJob, InCall, GoesOn, HolderEvents, Verdicts
<1>7. CASE p = "operator"
  <2>1. OperatorJob(job[p])
    BY <1>1, <1>7, RoleOf
  <2> QED
    BY <1>2, <1>7, <2>1 DEF OperatorJob, InCall, GoesOn, HolderEvents, Verdicts
<1> QED
  BY <1>2, <1>3, <1>4, <1>5, <1>6, <1>7

\* Only a process at work relies on a checkout.
LEMMA InsideAtWork ==
    ASSUME WellFormed, NoRetry, NEW p \in Processes, Inside(p)
    PROVE  AtWork(p)
<1>1. RoleJob(p, job[p]) /\ job[p].at # "persist"
  BY JobOf DEF NoRetry
<1>2. CASE job[p].at = "load"
  BY <1>1, <1>2, WhoCalls DEF Inside, AtWork, HolderEvents
<1>3. CASE job[p].at \in {"session", "tidy", "check", "land"}
  BY <1>1, <1>3 DEF RoleJob, WorkerJob, VerifierJob, IntegratorJob, StewardJob, OperatorJob,
     AtWork, Processes, Workers, Roles
<1> QED
  BY <1>1, <1>2, <1>3 DEF Inside

LEMMA CallStill ==
    ASSUME WellFormed, NEW p \in Processes, ApplyEvent(p), InTurn, NoRetry
    PROVE  LoadAndPersist(p) \/ Still(p)
<1>1. job[p] \in Jobs
  BY JobOf
<1>2. ASSUME Refused(p) PROVE Still(p)
  <2>1. /\ Becomes(p, Returning(job[p], job[p].fails)) /\ job[p].at = "load"
        /\ UNCHANGED <<meta, main, verified, tree>>
    BY <1>2 DEF Refused, ledger, repo
  <2>2. Others(p) /\ job'[p].at = job[p].fails
    BY <1>1, <2>1, ReturnAfter
  <2>3. job[p].fails \in {"idle", "skip"} \/ job[p].event.event = "heartbeat"
    BY <2>1, WhoCalls, JobOf DEF RoleJob, WorkerJob, VerifierJob, IntegratorJob, StewardJob,
       OperatorJob, InCall, GoesOn, Processes, Workers, Roles
  <2>4. CASE job[p].fails \in {"idle", "skip"}
    BY <2>1, <2>2, <2>4 DEF Still, AtWork, Inside
  <2>5. CASE job[p].event.event = "heartbeat"
    BY <2>1, <2>2, <2>5, WhoCalls DEF Still, AtWork, Inside, HolderEvents
  <2> QED
    BY <2>3, <2>4, <2>5
<1>3. ASSUME NEW effect, RunEffect(p, effect) PROVE Still(p)
  <2>1. /\ Others(p) /\ UNCHANGED <<meta, main, verified, tree>> /\ job[p].at = "effects"
        /\ job'[p].at \in {job[p].then, "effects"}
    BY <1>3, EffectAfter DEF RunEffect, repo
  <2>2. job[p].then \in {"idle", "landed", "close_task"}
    BY <2>1, GoesOnWhere
  <2> QED
    BY <2>1, <2>2 DEF Still, AtWork, Inside
<1>4. ~Load(p) /\ ~Persist(p)
  BY DEF Load, Persist, InTurn, NoRetry
<1> QED
  BY <1>2, <1>3, <1>4 DEF ApplyEvent, Unclaim, OpenMergeBead, OpenIncidentBead, CloseTaskBead,
     CloseVerifyBead, CloseMergeBeads

LEMMA WorkerStill ==
    ASSUME WellFormed, NEW w \in Agents, Worker(w)
    PROVE  WorkerMoves(w) \/ Still(w)
<1>0. w \in Processes /\ job[w] \in Jobs /\ Idle \in Jobs /\ now \in Nat
  BY RigConstants, JobOf, IdleInv DEF JobInv, WellFormed, StateOK
<1>a. w \notin {"verifier", "integrator"}
  BY RigAssumption DEF Roles
<1>1. ASSUME NEW s \in {"idle", "try"}, GoesTo(w, s), UNCHANGED <<ledger, repo, world>>
      PROVE  Still(w)
  <2>1. Others(w) /\ job'[w].at \in {"idle", "try"}
    BY <1>0, <1>1, GoAfter
  <2> QED
    BY <1>1, <1>a, <2>1 DEF Still, AtWork, Inside, ledger, repo
<1>2. Pick(w) \/ ClaimLost(w) \/ NothingToCommit(w) => Still(w)
  BY <1>1 DEF Pick, ClaimLost, NothingToCommit
<1>3. ASSUME TryClaim(w) PROVE Still(w)
  <2>1. /\ Becomes(w, Calling(job[w], Claim(w, now', Ttl), "checkout", "idle"))
        /\ UNCHANGED <<meta, repo>>
    BY <1>3 DEF TryClaim
  <2>2. Others(w) /\ job'[w].at = "load" /\ job'[w].event.event = "claim"
    BY <1>0, <2>1, CallAfter, EventNames
  <2> QED
    BY <1>a, <2>1, <2>2 DEF Still, AtWork, Inside, HolderEvents, repo
<1>4. ASSUME Beat(w) PROVE Still(w)
  <2> DEFINE k == [job[w] EXCEPT !.beat = now, !.result = "failed"]
  <2>1. /\ Becomes(w, Calling(k, Heartbeat(w, now), "session", "tidy"))
        /\ UNCHANGED <<ledger, repo>> /\ job[w].at = "session"
    BY <1>4 DEF Beat
  <2>2. k \in Jobs
    BY <1>0 DEF Jobs, Results
  <2> HIDE DEF k
  <2>3. Others(w) /\ job'[w].at = "load" /\ job'[w].event.event = "heartbeat"
    BY <1>0, <2>1, <2>2, CallAfter, EventNames
  <2> QED
    BY <2>1, <2>3 DEF Still, AtWork, Inside, ledger, repo
<1>5. ASSUME NEW result \in Results, EndSession(w, result) PROVE Still(w)
  <2> DEFINE k == [Idle EXCEPT !.at = "tidy", !.result = result]
  <2>1. Becomes(w, k) /\ UNCHANGED <<ledger, repo>> /\ job[w].at = "session"
    BY <1>5 DEF EndSession
  <2>2. k.at = "tidy"
    BY <1>0 DEF Jobs
  <2> HIDE DEF k
  <2>3. Others(w) /\ job'[w].at = "tidy"
    BY <1>0, <2>1, <2>2, JobAfter
  <2> QED
    BY <2>1, <2>3 DEF Still, AtWork, Inside, ledger, repo
<1> QED
  BY <1>2, <1>3, <1>4, <1>5 DEF Worker, WorkerMoves

LEMMA RolesStill ==
    ASSUME WellFormed, Verifier \/ Integrator \/ Steward \/ CloseRest \/ CloseChildren \/ CancelTask
    PROVE  VerifierMoves \/ IntegratorMoves \/ \E p \in Processes : Still(p)
<1>0. /\ {"verifier", "integrator", "steward", "operator"} \subseteq Processes
      /\ Idle \in Jobs
      /\ \A p \in Processes : job[p] \in Jobs
      /\ {"verifier", "integrator", "steward", "operator"} \cap Agents = {}
  BY RigConstants, JobOf, IdleInv, RigAssumption DEF JobInv, Roles
<1> DEFINE Here == {"verifier", "integrator", "steward", "operator"}
           Fixed == UNCHANGED <<meta, main, verified, tree>>
           Off == {"idle", "show", "match", "landed", "skip", "repair", "create", "close_rest"}
<1>a. ASSUME NEW p \in Here, Others(p), job'[p].at \in Off, Fixed
      PROVE  Still(p)
  BY <1>0, <1>a DEF Still, AtWork, Inside
<1>1. ASSUME NEW p \in Here, NEW s \in Off, GoesTo(p, s), Fixed PROVE Still(p)
  BY <1>0, <1>1, <1>a, GoAfter
<1>2. ASSUME NEW p \in {"steward", "operator"}, NEW j \in Jobs, NEW e, NEW then, NEW fails,
             Becomes(p, Calling(j, e, then, fails)), e.event # "heartbeat", Fixed
      PROVE  Still(p)
  <2>1. Others(p) /\ job'[p].at = "load" /\ job'[p].event = e
    BY <1>0, <1>2, CallAfter
  <2> QED
    BY <1>0, <1>2, <2>1 DEF Still, AtWork, Inside
<1>3. ASSUME NEW p \in Here, NEW j, Becomes(p, j), j.at \in Off, Fixed PROVE Still(p)
  BY <1>0, <1>3, <1>a, JobAfter
<1> HIDE DEF Off
<1>4. CheckGone => Still("verifier")
  BY <1>1 DEF CheckGone, ledger, repo, Off
<1>5. ASSUME Integrator PROVE IntegratorMoves \/ Still("integrator")
  <2>1. ASSUME NEW bead, Fixed, Becomes("integrator",
                 [Idle EXCEPT !.list = job["integrator"].list \ {bead},
                   !.at = IF job["integrator"].list \ {bead} = {} THEN "idle" ELSE "show"])
        PROVE  Still("integrator")
    <3> DEFINE rest == job["integrator"].list \ {bead}
               at == IF rest = {} THEN "idle" ELSE "show"
               k == [Idle EXCEPT !.list = rest, !.at = at]
    <3>1. k.at = at /\ at \in Off
      BY <1>0 DEF Jobs, Off
    <3>2. Becomes("integrator", k)
      BY <2>1
    <3> HIDE DEF k, at
    <3> QED
      BY <1>3, <2>1, <3>1, <3>2
  <2>2. Skip => Still("integrator")
    BY <2>1 DEF Skip, NextMerge, ledger, repo
  <2>3. CloseMerge => Still("integrator")
    BY <2>1 DEF CloseMerge, NextMerge, repo
  <2>4. ShowClosed \/ MatchStale \/ Landed => Still("integrator")
    BY <2>3 DEF ShowClosed, MatchStale, Landed
  <2>5. ASSUME ListMerges PROVE Still("integrator")
    <3>1. [job["integrator"] EXCEPT !.at = "show", !.list = merges].at = "show"
      BY <1>0 DEF Jobs
    <3> QED
      BY <1>3, <2>5, <3>1 DEF ListMerges, ledger, repo, Off
  <2>6. ShowActive => Still("integrator")
    BY <1>1 DEF ShowActive, ledger, repo, Off
  <2> QED
    BY <1>5, <2>2, <2>4, <2>5, <2>6 DEF Integrator, IntegratorMoves
<1>6. ASSUME Steward PROVE Still("steward")
  <2>1. Reap => Still("steward")
    BY <1>0, <1>2, EventNames DEF Reap, ledger, repo
  <2>2. EscalateRunaway => Still("steward")
    BY <1>0, <1>2, EventNames DEF EscalateRunaway, ledger, repo
  <2>3. SeesNoMerge \/ NothingMissing \/ Repair => Still("steward")
    BY <1>1 DEF SeesNoMerge, NothingMissing, Repair, ledger, repo, Off
  <2>4. ASSUME SeesMissing PROVE Still("steward")
    <3>1. [job["steward"] EXCEPT !.at = "create", !.head = meta.head].at = "create"
      BY <1>0 DEF Jobs
    <3> QED
      BY <1>3, <2>4, <3>1 DEF SeesMissing, ledger, repo, Off
  <2> QED
    BY <1>6, <2>1, <2>2, <2>3, <2>4 DEF Steward
<1>7. CloseRest \/ CloseChildren => Still("operator")
  BY <1>1 DEF CloseRest, CloseChildren, ledger, repo, Off
<1>8. CancelTask => Still("operator")
  BY <1>0, <1>2, EventNames DEF CancelTask, ledger, repo
<1> QED
  BY <1>0, <1>4, <1>5, <1>6, <1>7, <1>8 DEF Verifier, VerifierMoves

\* Every step is one of these.
LEMMA MoveKinds ==
    ASSUME MirrorInv, InTurn, [Next]_vars
    PROVE  \/ \E p \in Processes : Still(p) \/ LoadAndPersist(p)
           \/ \E w \in Agents : WorkerMoves(w)
           \/ VerifierMoves \/ IntegratorMoves
           \/ UNCHANGED <<meta, main, verified, tree, job>>
<1>0. /\ WellFormed /\ NoRetry /\ Idle.at = "idle"
      /\ \A p \in Processes : job[p] \in Jobs
  BY JobOf DEF MirrorInv, Idle
<1>1. ASSUME NEW p \in Processes, Step(p)
      PROVE  \/ \E q \in Processes : Still(q) \/ LoadAndPersist(q)
             \/ \E w \in Agents : WorkerMoves(w)
             \/ VerifierMoves \/ IntegratorMoves
  <2>1. CASE ApplyEvent(p)
    BY <1>0, <2>1, CallStill
  <2>2. CASE p \in Workers /\ Worker(p)
    BY <1>0, <2>2, WorkerStill DEF Workers
  <2>3. CASE Verifier \/ Integrator \/ Steward \/ CloseRest \/ CloseChildren
    BY <1>0, <2>3, RolesStill
  <2>4. ~Confirm
    BY <1>0, RigConstants DEF Confirm, NoRetry
  <2> QED
    BY <1>1, <2>1, <2>2, <2>3, <2>4 DEF Step
<1>2. ~Resolve
  BY DEF Resolve, InTurn
<1>3. CancelTask => VerifierMoves \/ IntegratorMoves \/ \E p \in Processes : Still(p)
  BY <1>0, RolesStill
<1>4. Tick \/ UNCHANGED vars => UNCHANGED <<meta, main, verified, tree, job>>
  BY DEF Tick, vars, ledger, repo
<1>5. ASSUME NEW p \in Processes, Crash(p) PROVE Still(p)
  <2>1. Others(p) /\ job'[p].at = "idle" /\ UNCHANGED <<meta, main, verified, tree>>
    BY <1>0, <1>5, JobAfter DEF Crash, ledger, repo
  <2> QED
    BY <2>1 DEF Still, AtWork, Inside
<1>6. ASSUME NEW p \in Processes, StoreFails(p) PROVE Still(p)
  <2>1. /\ Becomes(p, Returning(job[p], job[p].fails))
        /\ UNCHANGED <<meta, main, verified, tree>>
        /\ job[p].at \in {"load", "effects"}
    BY <1>0, <1>6 DEF StoreFails, ledger, repo, NoRetry
  <2>2. Others(p) /\ job'[p].at = job[p].fails
    BY <1>0, <2>1, ReturnAfter
  <2>3. CASE job[p].fails \in {"idle", "skip"}
    BY <2>1, <2>2, <2>3 DEF Still, AtWork, Inside
  <2>4. CASE job[p].fails = "tidy"
    <3>1. job[p].at = "load" /\ job[p].event.event = "heartbeat" /\ p \in Agents
      BY <1>0, <2>1, <2>4, GoesOnWhere, WhoCalls, JobOf DEF RoleJob, WorkerJob, VerifierJob,
         IntegratorJob, StewardJob, OperatorJob, InCall, GoesOn, Processes, Workers, Roles
    <3> QED
      BY <2>1, <2>2, <2>4, <3>1 DEF Still, AtWork, Inside, HolderEvents
  <2> QED
    BY <1>0, <2>1, <2>3, <2>4, GoesOnWhere
<1> QED
  BY <1>1, <1>2, <1>3, <1>4, <1>5, <1>6 DEF Next

\* What one process's step leaves of everybody else's.
LEMMA OthersKept ==
    ASSUME NEW p, Others(p), NEW q \in Processes \ {p}
    PROVE  AtWork(q)' = AtWork(q) /\ Inside(q)' = Inside(q)
BY DEF Others, AtWork, Inside

\* While p is at work nobody else relies on the checkout at the task's path.
LEMMA AloneAtWork ==
    ASSUME LandInv, NEW p \in Processes, AtWork(p)
    PROVE  \A q \in Processes \ {p} : ~AtWork(q) /\ ~Inside(q)
BY InsideAtWork DEF LandInv, MirrorInv, OneAtWork

LEMMA StillKeeps ==
    ASSUME LandInv, NEW p \in Processes, Still(p)
    PROVE  OneAtWork' /\ Checked' /\ WorktreeExclusive'
<1>1. /\ UNCHANGED <<meta, main, verified, tree>> /\ Others(p)
      /\ AtWork(p)' => p \in Agents /\ AtWork(p)
      /\ Inside(p)' => Inside(p)
      /\ OneAtWork /\ Checked /\ WorktreeExclusive
  BY DEF Still, LandInv
<1>2. \A q \in Processes : (AtWork(q)' => AtWork(q)) /\ (Inside(q)' => Inside(q))
  BY <1>1, OthersKept
<1>3. OneAtWork'
  BY <1>1, <1>2 DEF OneAtWork, WorkStates
<1>4. WorktreeExclusive'
  BY <1>1, <1>2 DEF WorktreeExclusive
<1>5. \A r \in {"verifier", "integrator"} : job'[r] = job[r] \/ ~AtWork(r)'
  <2>1. p \in {"verifier", "integrator"} => ~AtWork(p)'
    BY <1>1, RigAssumption DEF Roles
  <2> QED
    BY <1>1, <2>1, RigConstants DEF Others
<1>6. Checked'
  <2>1. /\ \/ job'["verifier"] = job["verifier"]
           \/ job'["verifier"].at \notin {"checkout", "check", "load"}
        /\ job'["integrator"] = job["integrator"]
           \/ job'["integrator"].at \notin {"checkout", "land", "load"}
    BY <1>5 DEF AtWork
  <2> QED
    BY <1>1, <2>1 DEF Checked
<1> QED
  BY <1>3, <1>4, <1>6

\* An event applied by one process never takes the task away from another at work.
LEMMA WriteKeepsLanding ==
    ASSUME LandInv, OneWorker, NEW p \in Processes, LoadAndPersist(p)
    PROVE  OneAtWork' /\ Checked' /\ WorktreeExclusive'
<1> DEFINE e == job[p].event
           todo == AfterWrite(meta, meta', e)
<1>0. WellFormed /\ NoRetry /\ OneAtWork /\ Checked /\ WorktreeExclusive
  BY DEF LandInv, MirrorInv
<1>1. /\ job[p].at = "load" /\ Others(p) /\ UNCHANGED <<main, verified, tree>>
      /\ Outcome(meta, e, meta', todo)
      /\ todo = <<>> => job'[p].at = job[p].then
      /\ todo # <<>> => job'[p].at = "effects"
  BY <1>0, WriteAfter DEF repo
<1>2. e.event # "operator_retry"
  BY <1>0, <1>1 DEF NoRetry
<1> HIDE DEF todo
<1>3. /\ p \in Agents <=> e.event \in HolderEvents \cup {"claim"}
      /\ p = "verifier" <=> e.event \in Verdicts
      /\ p = "integrator" <=> e.event \in {"merged", "merge_failed"}
      /\ e.event = "claim" => job[p].then = "checkout"
      /\ e.event = "heartbeat" => job[p].then = "session"
      /\ e.event \in {"submit", "release", "provider_stopped"} \cup Verdicts => job[p].then = "idle"
      /\ e.event \in {"merged", "merge_failed"} => job[p].then = "landed"
      /\ e.event \in {"lease_expired", "escalate", "cancel"} =>
             job[p].then \in {"idle", "close_task"}
  BY <1>0, <1>1, WhoCalls
<1> HIDE DEF e
<1>4. /\ <<"Unclaim">> # <<>> /\ <<"OpenMergeBead">> # <<>> /\ <<"OpenIncidentBead">> # <<>>
      /\ <<"CloseMergeBeads">> # <<>> /\ <<"CloseTaskBead", "CloseVerifyBead">> # <<>>
  OBVIOUS
<1>5. /\ AtWork(p)' => e.event \in {"claim", "heartbeat"} /\ p \in Agents /\ meta'.state = "leased"
      /\ Inside(p)' => e.event = "heartbeat" /\ Inside(p)
  BY <1>1, <1>2, <1>3, <1>4 DEF Outcome, AtWork, Inside, HolderEvents, Verdicts, e
<1>6. ASSUME NEW q \in Processes \ {p}, AtWork(q) PROVE meta'.state \in WorkStates(q)
  <2>1. meta.state \in WorkStates(q)
    BY <1>0, <1>6 DEF OneAtWork
  <2>2. CASE q \in Agents
    <3>1. p \notin Agents
      BY <1>6, <2>2 DEF OneWorker
    <3>2. meta.state \in {"incident", "canceled", "open", "leased"}
      BY <2>1, <2>2 DEF WorkStates
    <3>3. e.event \notin HolderEvents \cup {"claim"}
      BY <1>3, <3>1
    <3>4. meta'.state \in {"incident", "canceled", "open", "leased"}
      BY <1>1, <1>2, <3>2, <3>3 DEF Outcome, HolderEvents
    <3> QED
      BY <2>2, <3>4 DEF WorkStates
  <2>3. CASE q = "verifier" /\ q \notin Agents
    <3>1. meta.state \in {"incident", "canceled", "in_verify"}
      BY <2>1, <2>3 DEF WorkStates
    <3>2. e.event \notin Verdicts
      BY <1>3, <2>3
    <3>3. meta'.state \in {"incident", "canceled", "in_verify"}
      BY <1>1, <1>2, <3>1, <3>2 DEF Outcome, Verdicts
    <3> QED
      BY <2>3, <3>3 DEF WorkStates
  <2>4. CASE q = "integrator" /\ q \notin Agents
    <3>1. meta.state \in {"incident", "canceled", "mergeable"}
      BY <2>1, <2>4 DEF WorkStates
    <3>2. e.event \notin {"merged", "merge_failed"}
      BY <1>3, <2>4
    <3>3. meta'.state \in {"incident", "canceled", "mergeable"}
      BY <1>1, <1>2, <3>1, <3>2 DEF Outcome
    <3> QED
      BY <2>4, <3>3 DEF WorkStates
  <2> QED
    BY <1>6, <2>2, <2>3, <2>4 DEF AtWork
<1>7. ASSUME AtWork(p)', NEW q \in Processes \ {p} PROVE ~AtWork(q)
  <2>1. CASE e.event = "heartbeat"
    <3>1. AtWork(p)
      BY <1>1, <1>5, <1>7, <2>1 DEF AtWork, HolderEvents, e
    <3> QED
      BY <1>0, <3>1 DEF OneAtWork
  <2>2. CASE e.event = "claim"
    <3>1. meta.state = "open" /\ p \in Agents
      BY <1>1, <1>3, <2>2 DEF Outcome
    <3>2. ASSUME AtWork(q) PROVE FALSE
      <4>1. meta.state \in WorkStates(q)
        BY <1>0, <3>2 DEF OneAtWork
      <4>2. q \in Agents
        BY <3>1, <4>1 DEF WorkStates
      <4> QED
        BY <3>1, <4>2, <1>7 DEF OneWorker
    <3> QED
      BY <3>2
  <2> QED
    BY <1>5, <1>7, <2>1, <2>2
<1>8. OneAtWork'
  <2>1. \A q \in Processes \ {p} : AtWork(q)' = AtWork(q)
    BY <1>1, OthersKept
  <2>2. \A q, r \in Processes : AtWork(q)' /\ AtWork(r)' => q = r
    BY <1>0, <1>7, <2>1 DEF OneAtWork
  <2>3. \A q \in Processes : AtWork(q)' => meta'.state \in WorkStates(q)
    BY <1>5, <1>6, <2>1 DEF WorkStates
  <2>4. \A q \in Processes : WorkStates(q)' = WorkStates(q)
    BY DEF WorkStates
  <2> QED
    BY <2>2, <2>3, <2>4 DEF OneAtWork
<1>9. WorktreeExclusive'
  <2>1. \A q \in Processes : Inside(q)' => Inside(q)
    BY <1>1, <1>5, OthersKept
  <2> QED
    BY <1>0, <1>1, <2>1 DEF WorktreeExclusive
<1>10. Checked'
  <2>1. /\ {"verifier", "integrator"} \subseteq Processes
        /\ \A w \in Agents : w \notin {"verifier", "integrator"}
    BY RigConstants, RigAssumption DEF Roles
  <2>2. meta'.state = "mergeable" => meta'.head \in verified
    <3>1. SUFFICES ASSUME meta'.state = "mergeable" PROVE meta'.head \in verified
      OBVIOUS
    <3>2. e.event = "verify_passed" /\ meta.state = "in_verify" /\ meta'.head = meta.head
      BY <1>1, <3>1 DEF Outcome
    <3>3. p = "verifier"
      BY <1>3, <3>2 DEF Verdicts
    <3> QED
      BY <1>0, <1>1, <3>2, <3>3 DEF Checked, e
  <2>3. meta'.state = "closed" => meta'.head \in main
    <3>1. SUFFICES ASSUME meta'.state = "closed" PROVE meta'.head \in main
      OBVIOUS
    <3>2. e.event = "merged" /\ meta'.head = e.merged
      BY <1>1, <3>1 DEF Outcome
    <3>3. p = "integrator"
      BY <1>3, <3>2
    <3> QED
      BY <1>0, <1>1, <3>2, <3>3 DEF Checked, e
  <2>4. meta'.state = "in_verify" => job'["verifier"].at \notin {"checkout", "check", "load"}
    <3>1. SUFFICES ASSUME meta'.state = "in_verify"
                   PROVE  job'["verifier"].at \notin {"checkout", "check", "load"}
      OBVIOUS
    <3>2. e.event = "submit"
      BY <1>1, <3>1 DEF Outcome
    <3>3. p \in Agents /\ AtWork(p)
      BY <1>1, <1>3, <3>2 DEF HolderEvents, AtWork, e
    <3>4. ~AtWork("verifier") /\ job'["verifier"] = job["verifier"]
      BY <1>1, <2>1, <3>3, AloneAtWork DEF Others
    <3> QED
      BY <3>4 DEF AtWork
  <2>5. job'["integrator"] = job["integrator"] \/ job'["integrator"].at \in {"landed", "effects"}
    <3>1. p = "integrator" => job'[p].at \in {"landed", "effects"}
      BY <1>1, <1>3
    <3> QED
      BY <1>1, <2>1, <3>1 DEF Others
  <2> QED
    BY <1>0, <1>1, <2>2, <2>3, <2>4, <2>5 DEF Checked
<1> QED
  BY <1>8, <1>9, <1>10

LEMMA WorkerMovesKeep ==
    ASSUME LandInv, NEW w \in Agents, WorkerMoves(w)
    PROVE  OneAtWork' /\ Checked' /\ WorktreeExclusive'
<1>0. /\ w \in Processes /\ job[w] \in Jobs /\ Idle \in Jobs
      /\ WellFormed /\ OneAtWork /\ Checked /\ WorktreeExclusive
      /\ w \notin {"verifier", "integrator"}
      /\ {"verifier", "integrator"} \subseteq Processes
  BY RigConstants, RigAssumption, JobOf, IdleInv DEF JobInv, LandInv, MirrorInv, Roles
<1>1. UNCHANGED <<meta, main>> /\ AtWork(w)
  BY DEF WorkerMoves, CheckOut, SubmitWork, ReleaseWork, ReturnWork, AbandonWork,
     CommitAndRemove, AtWork, ledger
<1>2. \A q \in Processes \ {w} : ~AtWork(q) /\ ~Inside(q)
  BY <1>0, <1>1, AloneAtWork
<1>3. ASSUME Others(w), Inside(w)' => tree' = w, main \subseteq verified',
             meta.state = "mergeable" /\ meta.head \in verified => meta.head \in verified'
      PROVE  OneAtWork' /\ Checked' /\ WorktreeExclusive'
  <2>1. \A q \in Processes \ {w} : ~AtWork(q)' /\ ~Inside(q)'
    BY <1>2, <1>3, OthersKept
  <2>2. WorktreeExclusive'
    BY <1>3, <2>1 DEF WorktreeExclusive
  <2>3. OneAtWork'
    <3>1. meta'.state \in WorkStates(w)' /\ \A q \in Processes : AtWork(q)' => q = w
      BY <1>0, <1>1, <2>1 DEF OneAtWork, WorkStates
    <3> QED
      BY <3>1 DEF OneAtWork
  <2>4. Checked'
    <3>1. /\ job'["verifier"].at \notin {"checkout", "check", "load"}
          /\ job'["integrator"].at \notin {"checkout", "land", "load"}
      BY <1>0, <2>1 DEF AtWork
    <3> QED
      BY <1>0, <1>1, <1>3, <3>1 DEF Checked
  <2> QED
    BY <2>2, <2>3, <2>4
<1>4. CASE CheckOut(w)
  <2> DEFINE k == [Idle EXCEPT !.at = "session", !.beat = now,
                               !.deadline = now + Remaining(job[w].task)]
  <2>1. Becomes(w, k) /\ tree' = w /\ UNCHANGED verified
    BY <1>4 DEF CheckOut
  <2>2. k.at = "session"
    BY <1>0 DEF Jobs
  <2> HIDE DEF k
  <2>3. Others(w)
    BY <1>0, <2>1, JobAfter
  <2> QED
    BY <1>0, <1>3, <2>1, <2>3 DEF Checked
<1>5. CASE SubmitWork(w)
  <2> DEFINE head == CHOOSE h \in Heads \ Referred : TRUE
  <2>1. /\ Becomes(w, Calling(Idle, Submit(w, head, now, 0), "idle", "idle"))
        /\ verified' = verified \ {head} /\ Heads \ Referred # {}
    BY <1>5 DEF SubmitWork
  <2>2. head \notin Referred
    BY <2>1
  <2> HIDE DEF head
  <2>3. head # meta.head /\ head \notin main
    BY <2>2 DEF Referred
  <2>4. Others(w) /\ job'[w].at = "load" /\ job'[w].event.event = "submit"
    BY <1>0, <2>1, CallAfter, EventNames
  <2>5. ~Inside(w)'
    BY <2>4 DEF Inside
  <2> QED
    BY <1>0, <1>3, <2>1, <2>3, <2>4, <2>5 DEF Checked
<1>6. CASE ReleaseWork(w)
  <2> DEFINE blocked == job[w].result = "blocked"
             e == Release(w, now, blocked)
  <2>1. Becomes(w, Calling(Idle, e, "idle", "idle")) /\ UNCHANGED verified
    BY <1>6, Zenon DEF ReleaseWork
  <2>2. e.event = "release"
    BY Zenon DEF Release
  <2> HIDE DEF e
  <2>3. Others(w) /\ job'[w].at = "load" /\ job'[w].event = e
    BY <1>0, <2>1, CallAfter
  <2>4. ~Inside(w)'
    BY <2>2, <2>3 DEF Inside
  <2> QED
    BY <1>0, <1>3, <2>1, <2>3, <2>4 DEF Checked
<1>7. CASE ReturnWork(w)
  <2>1. /\ Becomes(w, Calling(Idle, ProviderStopped(w), "idle", "idle"))
        /\ UNCHANGED verified
    BY <1>7 DEF ReturnWork
  <2>2. Others(w) /\ job'[w].at = "load" /\ job'[w].event.event = "provider_stopped"
    BY <1>0, <2>1, CallAfter, EventNames
  <2>3. ~Inside(w)'
    BY <2>2 DEF Inside
  <2> QED
    BY <1>0, <1>3, <2>1, <2>2, <2>3 DEF Checked
<1>8. CASE AbandonWork(w)
  <2>1. Others(w) /\ job'[w].at = "idle" /\ UNCHANGED verified
    BY <1>0, <1>8, GoAfter DEF AbandonWork
  <2>2. ~Inside(w)'
    BY <2>1 DEF Inside
  <2> QED
    BY <1>0, <1>3, <2>1, <2>2 DEF Checked
<1> QED
  BY <1>4, <1>5, <1>6, <1>7, <1>8 DEF WorkerMoves

LEMMA VerifierMovesKeep ==
    ASSUME LandInv, VerifierMoves
    PROVE  OneAtWork' /\ Checked' /\ WorktreeExclusive'
<1> DEFINE p == "verifier"
<1>0. /\ p \in Processes /\ job[p] \in Jobs /\ Idle \in Jobs /\ p \notin Agents
      /\ WellFormed /\ OneAtWork /\ Checked /\ WorktreeExclusive
      /\ "integrator" \in Processes
  BY RigConstants, RigAssumption, JobOf, IdleInv DEF JobInv, LandInv, MirrorInv, Roles
<1>1. UNCHANGED <<meta, main>>
  BY DEF VerifierMoves, StartVerify, AddWorktree, Check, ledger, repo
<1>2. ASSUME Others(p), meta.state \in WorkStates(p), Inside(p)' => tree' = p,
             verified \subseteq verified', \A q \in Processes \ {p} : ~AtWork(q) /\ ~Inside(q),
             meta.state = "in_verify" /\ job'[p].at \in {"checkout", "check"} =>
                 job'[p].head = meta.head,
             meta.state = "in_verify" /\ job'[p].at = "load"
                 /\ job'[p].event.event = "verify_passed" => meta.head \in verified'
      PROVE  OneAtWork' /\ Checked' /\ WorktreeExclusive'
  <2>1. \A q \in Processes \ {p} : ~AtWork(q)' /\ ~Inside(q)'
    BY <1>2, OthersKept
  <2>2. WorktreeExclusive'
    BY <1>2, <2>1 DEF WorktreeExclusive
  <2>3. OneAtWork'
    <3>1. meta'.state \in WorkStates(p)' /\ \A q \in Processes : AtWork(q)' => q = p
      BY <1>0, <1>1, <1>2, <2>1 DEF WorkStates
    <3> QED
      BY <3>1 DEF OneAtWork
  <2>4. Checked'
    <3>1. job'["integrator"].at \notin {"checkout", "land", "load"}
      BY <1>0, <2>1 DEF AtWork
    <3> QED
      BY <1>0, <1>1, <1>2, <3>1 DEF Checked
  <2> QED
    BY <2>2, <2>3, <2>4
<1>3. CASE StartVerify
  <2> DEFINE k == [job[p] EXCEPT !.at = "checkout", !.head = meta.head]
  <2>1. Becomes(p, k) /\ meta.state = "in_verify" /\ UNCHANGED repo /\ job[p].at = "idle"
    BY <1>3 DEF StartVerify
  <2>2. k.at = "checkout" /\ k.head = meta.head
    BY <1>0 DEF Jobs
  <2> HIDE DEF k
  <2>3. Others(p) /\ job'[p].at = "checkout" /\ job'[p].head = meta.head
    BY <1>0, <2>1, <2>2, JobAfter
  <2>4. meta.state \in WorkStates(p)
    BY <1>0, <2>1 DEF WorkStates
  <2>5. ASSUME NEW q \in Processes \ {p} PROVE ~AtWork(q) /\ ~Inside(q)
    <3>1. AtWork(q) => meta.state \in WorkStates(q)
      BY <1>0 DEF OneAtWork
    <3>2. ~AtWork(q)
      BY <2>1, <3>1 DEF WorkStates
    <3> QED
      BY <1>0, <3>2, InsideAtWork DEF LandInv, MirrorInv
  <2>6. ~Inside(p)'
    BY <2>3 DEF Inside
  <2>7. verified' = verified
    BY <2>1 DEF repo
  <2> QED
    BY <1>2, <2>3, <2>4, <2>5, <2>6, <2>7
<1>4. ASSUME AtWork(p)
      PROVE  meta.state \in WorkStates(p) /\ \A q \in Processes \ {p} : ~AtWork(q) /\ ~Inside(q)
  BY <1>0, <1>4, AloneAtWork DEF OneAtWork
<1>5. CASE AddWorktree(p, "check")
  <2>1. job[p].at = "checkout" /\ tree' = p /\ GoesTo(p, "check") /\ UNCHANGED verified
    BY <1>5 DEF AddWorktree
  <2>2. Others(p) /\ job'[p].at = "check" /\ job'[p].head = job[p].head
    BY <1>0, <2>1, GoAfter
  <2>3. meta.state = "in_verify" => job[p].head = meta.head
    BY <1>0, <2>1 DEF Checked
  <2>4. AtWork(p)
    BY <2>1 DEF AtWork
  <2> QED
    BY <1>2, <1>4, <2>1, <2>2, <2>3, <2>4
<1>6. ASSUME NEW verdict \in Verdicts, Check(verdict)
      PROVE  OneAtWork' /\ Checked' /\ WorktreeExclusive'
  <2>1. /\ job[p].at = "check" /\ Becomes(p, Calling(Idle, Plain(verdict), "idle", "idle"))
        /\ verified' = IF verdict = "verify_passed" /\ tree = p
                       THEN verified \cup {job[p].head} ELSE verified
    BY <1>6 DEF Check
  <2>2. Others(p) /\ job'[p].at = "load" /\ job'[p].event.event = verdict
    BY <1>0, <2>1, CallAfter, EventNames
  <2>3. tree = p /\ AtWork(p)
    BY <1>0, <2>1 DEF WorktreeExclusive, Inside, AtWork
  <2>4. meta.state = "in_verify" => job[p].head = meta.head
    BY <1>0, <2>1 DEF Checked
  <2>5. ~Inside(p)'
    BY <2>2 DEF Inside, Verdicts
  <2> QED
    BY <1>2, <1>4, <2>1, <2>2, <2>3, <2>4, <2>5
<1> QED
  BY <1>3, <1>5, <1>6 DEF VerifierMoves

LEMMA IntegratorMovesKeep ==
    ASSUME LandInv, IntegratorMoves
    PROVE  OneAtWork' /\ Checked' /\ WorktreeExclusive'
<1> DEFINE p == "integrator"
<1>0. /\ p \in Processes /\ job[p] \in Jobs /\ p \notin Agents
      /\ WellFormed /\ OneAtWork /\ Checked /\ WorktreeExclusive
      /\ "verifier" \in Processes
  BY RigConstants, RigAssumption, JobOf DEF LandInv, MirrorInv, Roles
<1>1. UNCHANGED <<meta, verified>>
  BY DEF IntegratorMoves, MatchCurrent, AddWorktree, Land, Reject, LandInfra, ledger, repo
<1>2. ASSUME Others(p), meta.state \in WorkStates(p), Inside(p)' => tree' = p,
             main \subseteq main', main' \subseteq verified,
             \A q \in Processes \ {p} : ~AtWork(q) /\ ~Inside(q),
             job'[p].at \in {"checkout", "land"} => job'[p].head \in verified,
             job'[p].at = "load" /\ job'[p].event.event = "merged" => job'[p].event.merged \in main'
      PROVE  OneAtWork' /\ Checked' /\ WorktreeExclusive'
  <2>1. \A q \in Processes \ {p} : ~AtWork(q)' /\ ~Inside(q)'
    BY <1>2, OthersKept
  <2>2. WorktreeExclusive'
    BY <1>2, <2>1 DEF WorktreeExclusive
  <2>3. OneAtWork'
    <3>1. meta'.state \in WorkStates(p)' /\ \A q \in Processes : AtWork(q)' => q = p
      BY <1>0, <1>1, <1>2, <2>1 DEF WorkStates
    <3> QED
      BY <3>1 DEF OneAtWork
  <2>4. Checked'
    <3>1. job'["verifier"].at \notin {"checkout", "check", "load"}
      BY <1>0, <2>1 DEF AtWork
    <3> QED
      BY <1>0, <1>1, <1>2, <3>1 DEF Checked
  <2> QED
    BY <2>2, <2>3, <2>4
<1>3. main \subseteq verified
  BY <1>0 DEF Checked
<1>4. CASE MatchCurrent
  <2> DEFINE k == [job[p] EXCEPT !.at = "checkout", !.head = meta.head]
  <2>1. Becomes(p, k) /\ meta.state = "mergeable" /\ UNCHANGED main
    BY <1>4 DEF MatchCurrent, Matches, repo
  <2>2. k.at = "checkout" /\ k.head = meta.head
    BY <1>0 DEF Jobs
  <2> HIDE DEF k
  <2>3. Others(p) /\ job'[p].at = "checkout" /\ job'[p].head = meta.head
    BY <1>0, <2>1, <2>2, JobAfter
  <2>4. meta.state \in WorkStates(p) /\ meta.head \in verified
    BY <1>0, <2>1 DEF WorkStates, Checked
  <2>5. ASSUME NEW q \in Processes \ {p} PROVE ~AtWork(q) /\ ~Inside(q)
    <3>1. AtWork(q) => meta.state \in WorkStates(q)
      BY <1>0 DEF OneAtWork
    <3>2. ~AtWork(q)
      BY <2>1, <3>1 DEF WorkStates, AtWork
    <3> QED
      BY <1>0, <3>2, InsideAtWork DEF LandInv, MirrorInv
  <2>6. ~Inside(p)'
    BY <2>3 DEF Inside
  <2> QED
    BY <1>2, <1>3, <2>1, <2>3, <2>4, <2>5, <2>6
<1>5. ASSUME AtWork(p)
      PROVE  meta.state \in WorkStates(p) /\ \A q \in Processes \ {p} : ~AtWork(q) /\ ~Inside(q)
  BY <1>0, <1>5, AloneAtWork DEF OneAtWork
<1>6. CASE AddWorktree(p, "land")
  <2>1. job[p].at = "checkout" /\ tree' = p /\ GoesTo(p, "land") /\ UNCHANGED main
    BY <1>6 DEF AddWorktree
  <2>2. Others(p) /\ job'[p].at = "land" /\ job'[p].head = job[p].head
    BY <1>0, <2>1, GoAfter
  <2>3. job[p].head \in verified /\ AtWork(p)
    BY <1>0, <2>1 DEF Checked, AtWork
  <2> QED
    BY <1>2, <1>3, <1>5, <2>1, <2>2, <2>3
<1>7. CASE Land
  <2>1. /\ job[p].at = "land"
        /\ main' = IF tree = p THEN main \cup {job[p].head} ELSE main
        /\ Becomes(p, Calling(job[p], Merged(job[p].head), "landed", "skip"))
    BY <1>7 DEF Land
  <2>2. Others(p) /\ job'[p].at = "load" /\ job'[p].event = Merged(job[p].head)
    BY <1>0, <2>1, CallAfter
  <2>3. tree = p /\ AtWork(p) /\ job[p].head \in verified
    BY <1>0, <2>1 DEF WorktreeExclusive, Inside, AtWork, Checked
  <2>4. main' = main \cup {job[p].head}
    BY <2>1, <2>3
  <2>5. job'[p].event.event = "merged" /\ job'[p].event.merged = job[p].head
    BY <2>2, EventNames
  <2>6. ~Inside(p)'
    BY <2>2, <2>5 DEF Inside
  <2> QED
    BY <1>2, <1>3, <1>5, <2>2, <2>3, <2>4, <2>5, <2>6
<1>8. CASE Reject
  <2>1. /\ job[p].at = "land" /\ UNCHANGED main
        /\ Becomes(p, Calling(job[p], Plain("merge_failed"), "landed", "skip"))
    BY <1>8 DEF Reject
  <2>2. Others(p) /\ job'[p].at = "load" /\ job'[p].event.event = "merge_failed"
    BY <1>0, <2>1, CallAfter, EventNames
  <2>3. AtWork(p) /\ ~Inside(p)'
    BY <2>1, <2>2 DEF AtWork, Inside
  <2> QED
    BY <1>2, <1>3, <1>5, <2>1, <2>2, <2>3
<1>9. CASE LandInfra
  <2>1. job[p].at = "land" /\ UNCHANGED main /\ GoesTo(p, "skip")
    BY <1>9 DEF LandInfra
  <2>2. Others(p) /\ job'[p].at = "skip"
    BY <1>0, <2>1, GoAfter
  <2>3. AtWork(p) /\ ~Inside(p)'
    BY <2>1, <2>2 DEF AtWork, Inside
  <2> QED
    BY <1>2, <1>3, <1>5, <2>1, <2>2, <2>3
<1> QED
  BY <1>4, <1>6, <1>7, <1>8, <1>9 DEF IntegratorMoves

LEMMA LandInductive ==
    ASSUME InTurn, OneWorker, LandInv, [Next]_vars
    PROVE  LandInv'
<1>1. MirrorInv'
  BY MirrorInductive DEF LandInv
<1>2. OneAtWork' /\ Checked' /\ WorktreeExclusive'
  <2>1. CASE UNCHANGED <<meta, main, verified, tree, job>>
    <3>1. \A q \in Processes : AtWork(q)' = AtWork(q) /\ Inside(q)' = Inside(q)
      BY <2>1 DEF AtWork, Inside
    <3> QED
      BY <2>1, <3>1 DEF LandInv, OneAtWork, Checked, WorktreeExclusive, WorkStates
  <2>2. MirrorInv
    BY DEF LandInv
  <2> QED
    BY <2>1, <2>2, MoveKinds, StillKeeps, WriteKeepsLanding, WorkerMovesKeep, VerifierMovesKeep,
       IntegratorMovesKeep
<1> QED
  BY <1>1, <1>2 DEF LandInv

LEMMA InitLand == Init => LandInv
<1> SUFFICES ASSUME Init PROVE LandInv
  OBVIOUS
<1>1. MirrorInv
  BY InitMirror
<1>2. \A p \in Processes : job[p].at = "idle"
  BY DEF Init, Idle
<1>3. meta.state = "open" /\ main = {} /\ {"verifier", "integrator"} \subseteq Processes
  BY NewTaskInv, RigConstants DEF Init
<1>4. \A p \in Processes : ~AtWork(p) /\ ~Inside(p)
  BY <1>2 DEF AtWork, Inside
<1>5. OneAtWork /\ WorktreeExclusive
  BY <1>4 DEF OneAtWork, WorktreeExclusive
<1>6. Checked
  BY <1>2, <1>3 DEF Checked
<1> QED
  BY <1>1, <1>5, <1>6 DEF LandInv

LEMMA AlwaysLandInv ==
    ASSUME InTurn, OneWorker
    PROVE  Spec => []LandInv
<1>1. Init => LandInv
  BY InitLand
<1>2. LandInv /\ [Next]_vars => LandInv'
  BY LandInductive
<1> QED
  BY <1>1, <1>2, PTL DEF Spec

\* Whatever crashes, fails and is canceled on the way, in a rig with one worker nothing
\* reaches the integration branch that the Verifier did not pass in a checkout of exactly
\* that commit.
THEOREM LandsVerified ==
    ASSUME InTurn, OneWorker
    PROVE  Spec => []LandedMeansVerified
<1>1. LandInv => LandedMeansVerified
  BY DEF LandInv, Checked, LandedMeansVerified
<1> QED
  BY <1>1, AlwaysLandInv, PTL

\* There, no process's checkout is removed or replaced under it.
THEOREM WorktreesKept ==
    ASSUME InTurn, OneWorker
    PROVE  Spec => []WorktreeExclusive
<1>1. LandInv => WorktreeExclusive
  BY DEF LandInv
<1> QED
  BY <1>1, AlwaysLandInv, PTL

\* There, a closed task names a commit that is on the integration branch, and a closed bead
\* is of a finished task.
THEOREM ClosesLanded ==
    ASSUME InTurn, OneWorker
    PROVE  Spec => []ClosedMeansLanded
<1>1. LandInv => ClosedMeansLanded
  BY DEF LandInv, MirrorInv, Ended, Checked, ClosedMeansLanded
<1> QED
  BY <1>1, AlwaysLandInv, PTL

-----------------------------------------------------------------------------
(* The rig implements BoundedRework where every write follows its read at   *)
(* once: whatever crashes, is resolved or canceled, what the ledger shows   *)
(* of the task are the steps of bounded rework.  (A stale write gives back  *)
(* what was charged meanwhile.)                                            *)

Rework == INSTANCE BoundedRework WITH
    Tries <- AttemptLimit,
    Lives <- MaxLeaseExpiries,
    phase <- PhaseOf(meta),
    tries <- AttemptLimit - meta.attempts,
    lives <- MaxLeaseExpiries - meta.lease_expiries

\* Nobody holds a task it has read.
NeverPersists == \A p \in Processes : job[p].at # "persist"

ReworkInv == WellFormed /\ NeverPersists

\* Where a call goes on is not in the middle of another.
LEMMA ThenWhere ==
    ASSUME WellFormed, NEW p \in Processes, job[p].at \in {"load", "effects"}
    PROVE  job[p].then # "persist" /\ job[p].fails # "persist"
<1>1. RoleJob(p, job[p])
  BY JobOf
<1>2. CASE p \in Agents
  BY <1>1, <1>2, RoleOf, RigAssumption DEF WorkerJob, InCall, GoesOn, Roles
<1>3. CASE p = "verifier"
  BY <1>1, <1>3, RoleOf DEF VerifierJob, InCall, GoesOn
<1>4. CASE p = "integrator"
  BY <1>1, <1>4, RoleOf DEF IntegratorJob, InCall, GoesOn
<1>5. CASE p = "steward"
  BY <1>1, <1>5, RoleOf DEF StewardJob, InCall, GoesOn
<1>6. CASE p = "operator"
  BY <1>1, <1>6, RoleOf DEF OperatorJob, InCall, GoesOn
<1> QED
  BY <1>2, <1>3, <1>4, <1>5, <1>6 DEF Processes, Workers, Roles

\* A step of p that does not touch the task.
Passes(p) == UNCHANGED meta /\ Others(p) /\ job'[p].at # "persist"

LEMMA CallPasses ==
    ASSUME ReworkInv, AtomicApply, NEW p \in Processes, ApplyEvent(p)
    PROVE  LoadAndPersist(p) \/ Passes(p)
<1>1. WellFormed /\ job[p] \in Jobs
  BY JobOf DEF ReworkInv
<1>2. ASSUME Refused(p) PROVE Passes(p)
  <2>1. /\ Becomes(p, Returning(job[p], job[p].fails)) /\ job[p].at = "load"
        /\ UNCHANGED meta
    BY <1>2 DEF Refused, ledger
  <2>2. Others(p) /\ job'[p].at = job[p].fails
    BY <1>1, <2>1, ReturnAfter
  <2> QED
    BY <1>1, <2>1, <2>2, ThenWhere DEF Passes
<1>3. ASSUME NEW effect, RunEffect(p, effect) PROVE Passes(p)
  <2>1. /\ Others(p) /\ job[p].at = "effects" /\ UNCHANGED meta
        /\ job'[p].at \in {job[p].then, "effects"}
    BY <1>1, <1>3, EffectAfter DEF RunEffect
  <2> QED
    BY <1>1, <2>1, ThenWhere DEF Passes
<1>4. ~Load(p) /\ ~Persist(p)
  BY DEF Load, Persist, ReworkInv, NeverPersists
<1>5. \/ Unclaim(p) \/ OpenMergeBead(p) \/ OpenIncidentBead(p) \/ CloseTaskBead(p)
      \/ CloseVerifyBead(p) \/ CloseMergeBeads(p)
      => Passes(p)
  BY <1>3 DEF Unclaim, OpenMergeBead, OpenIncidentBead, CloseTaskBead, CloseVerifyBead,
     CloseMergeBeads
<1> QED
  BY <1>2, <1>4, <1>5 DEF ApplyEvent

\* Only the write of an event touches the task.
LEMMA WritesOrPasses ==
    ASSUME ReworkInv, AtomicApply, [Next]_vars
    PROVE  \/ \E p \in Processes : LoadAndPersist(p) \/ Passes(p)
           \/ UNCHANGED <<meta, job>>
<1>0. /\ WellFormed /\ Idle.at = "idle"
      /\ {"verifier", "integrator", "steward", "operator"} \subseteq Processes
      /\ \A p \in Processes : job[p] \in Jobs
  BY RigConstants, JobOf DEF ReworkInv, Idle
<1> DEFINE Kind == \E p \in Processes : LoadAndPersist(p) \/ Passes(p)
<1>1. \A p \in Processes : Calm(p) => Passes(p)
  BY DEF Calm, Passes
<1>2. ASSUME NEW s \in {"idle", "close_rest", "confirm"}, GoesTo("operator", s), UNCHANGED meta
      PROVE  Kind
  BY <1>0, <1>2, GoAfter DEF Passes
<1>3. ASSUME NEW p \in Processes, NEW e, NEW then, NEW fails, UNCHANGED meta,
             Becomes(p, Calling(job[p], e, then, fails))
      PROVE  Kind
  BY <1>0, <1>3, CallAfter DEF Passes
<1>4. ASSUME NEW p \in Processes, Step(p) PROVE Kind
  <2>1. CASE ApplyEvent(p)
    BY <2>1, CallPasses
  <2>2. CASE p \in Workers /\ Worker(p)
    <3>1. TryClaim(p) \/ Calm(p)
      BY <1>0, <2>2, WorkerCalm DEF Workers
    <3>2. ASSUME TryClaim(p) PROVE Kind
      BY <1>3, <3>2 DEF TryClaim
    <3> QED
      BY <1>1, <3>1, <3>2
  <2>3. CASE Verifier \/ Integrator \/ Steward
    BY <1>0, <1>1, <2>3, RolesCalm
  <2>4. CASE Confirm
    BY <1>0, <1>2, <1>3, <2>4 DEF Confirm, ledger
  <2>5. CASE CloseChildren \/ CloseRest
    BY <1>2, <2>5 DEF CloseChildren, CloseRest
  <2> QED
    BY <1>4, <2>1, <2>2, <2>3, <2>4, <2>5 DEF Step
<1>5. Resolve \/ CancelTask => Kind
  BY <1>0, <1>2, <1>3 DEF Resolve, CancelTask, ledger
<1>6. Tick \/ UNCHANGED vars => UNCHANGED <<meta, job>>
  BY DEF Tick, vars, ledger
<1>7. ASSUME NEW p \in Processes, Crash(p) PROVE Kind
  BY <1>0, <1>7, JobAfter DEF Crash, Passes, ledger
<1>8. ASSUME NEW p \in Processes, StoreFails(p) PROVE Kind
  <2>1. /\ Becomes(p, Returning(job[p], job[p].fails)) /\ UNCHANGED meta
        /\ job[p].at \in {"load", "effects"}
    BY <1>8 DEF StoreFails, ledger, ReworkInv, NeverPersists
  <2>2. Others(p) /\ job'[p].at = job[p].fails
    BY <1>0, <2>1, ReturnAfter
  <2> QED
    BY <1>0, <2>1, <2>2, ThenWhere DEF Passes
<1> QED
  BY <1>4, <1>5, <1>6, <1>7, <1>8 DEF Next

LEMMA ReworkInductive ==
    ASSUME ReworkInv, AtomicApply, [Next]_vars
    PROVE  ReworkInv'
<1>0. WellFormed /\ WellFormed'
  BY StepKeeps DEF ReworkInv
<1>1. ASSUME NEW p \in Processes, LoadAndPersist(p)
      PROVE  Others(p) /\ job'[p].at # "persist"
  <2>1. job[p].at = "load" /\ Others(p) /\ job'[p].at \in {job[p].then, "effects"}
    BY <1>0, <1>1, WriteAfter
  <2> QED
    BY <1>0, <2>1, ThenWhere
<1>2. NeverPersists'
  <2>1. CASE UNCHANGED <<meta, job>>
    BY <2>1 DEF ReworkInv, NeverPersists
  <2>2. ASSUME NEW p \in Processes, Others(p), job'[p].at # "persist"
        PROVE  NeverPersists'
    BY <2>2 DEF ReworkInv, NeverPersists, Others
  <2> QED
    BY <1>1, <2>1, <2>2, WritesOrPasses DEF Passes
<1> QED
  BY <1>0, <1>2 DEF ReworkInv

\* Each event that is written is one step of the abstract task, or none.
LEMMA EventRefines ==
    ASSUME GoodTask(meta), NEW e \in Events, Legal(meta, e), meta' = NextTask(meta, e)
    PROVE  Rework!Next \/ UNCHANGED Rework!vars
<1>1. TaskInv(meta) /\ meta \in Tasks /\ Ttl \in Nat
  BY RigAssumption DEF GoodTask, TaskInv
<1>2. meta.attempts \in Nat /\ meta.lease_expiries \in Nat /\ AttemptLimit \in Nat
  BY <1>1, LimitsAssumption DEF Tasks
<1> USE DEF Rework!Next, Rework!Move, Rework!Active
<1>3. ASSUME NEW a \in Agents, NEW n \in Nat, e = Claim(a, n, Ttl)
      PROVE  Rework!Take
  <2>1. meta.state = "open" /\ meta' = AfterClaim(meta, Claim(a, n, Ttl))
    BY <1>3, LegalFrom, Dispatch
  <2>2. meta'.state = "leased"
    BY <1>1, <2>1, ClaimInv
  <2>3. meta'.attempts = meta.attempts /\ meta'.lease_expiries = meta.lease_expiries
    BY <1>1, <2>1, Unspent
  <2> QED
    BY <2>1, <2>2, <2>3, Phases DEF Rework!Take
<1>4. ASSUME NEW a \in Agents, NEW n \in Nat, e = Heartbeat(a, n)
      PROVE  UNCHANGED Rework!vars
  <2>1. meta.state = "leased" /\ meta' = AfterHeartbeat(meta, Heartbeat(a, n))
    BY <1>4, LegalFrom, Dispatch
  <2>2. /\ meta'.attempts = meta.attempts /\ meta'.lease_expiries = meta.lease_expiries
        /\ meta'.state = meta.state
    BY <1>1, <2>1, Unspent
  <2> QED
    BY <2>1, <2>2, Phases DEF Rework!vars
<1>5. ASSUME NEW a \in Agents, NEW c \in Heads, NEW n \in Nat, e = Submit(a, c, n, 0)
      PROVE  Rework!Deliver
  <2>1. meta.state = "leased" /\ meta' = AfterSubmit(meta, Submit(a, c, n, 0))
    BY <1>5, LegalFrom, Dispatch
  <2>2. meta'.state = "in_verify"
    BY <1>1, <2>1, SubmitInv
  <2>3. meta'.attempts = meta.attempts /\ meta'.lease_expiries = meta.lease_expiries
    BY <1>1, <2>1, SubmitUnspent
  <2> QED
    BY <2>1, <2>2, <2>3, Phases DEF Rework!Deliver
<1>6. ASSUME NEW n \in Nat, e = LeaseExpired(n)
      PROVE  Rework!Lose \/ Rework!Park
  <2>1. meta.state = "leased" /\ meta' = AfterLeaseExpired(meta, LeaseExpired(n))
    BY <1>6, LegalFrom, Dispatch
  <2>2. /\ meta'.attempts = meta.attempts
        /\ meta'.lease_expiries = meta.lease_expiries + 1
        /\ \/ meta'.state = "open" /\ meta.lease_expiries + 1 < MaxLeaseExpiries
           \/ meta'.state = "incident"
    BY <1>1, <2>1, LeaseExpiredInv
  <2>3. CASE meta'.state = "open"
    BY <1>2, <2>1, <2>2, <2>3, Phases, LimitsAreConstants DEF Rework!Lose
  <2>4. CASE meta'.state = "incident"
    BY <1>2, <2>1, <2>2, <2>4, Phases, LimitsAreConstants DEF Rework!Park
  <2> QED
    BY <2>2, <2>3, <2>4
<1>7. ASSUME NEW a \in Agents, NEW n \in Nat, NEW blocked \in BOOLEAN,
             e = Release(a, n, blocked)
      PROVE  Rework!Redo \/ Rework!Park
  <2>1. meta.state = "leased" /\ meta' = AfterRelease(meta, Release(a, n, blocked))
    BY <1>7, LegalFrom, Dispatch
  <2>2. /\ meta'.attempts = meta.attempts + 1
        /\ meta'.lease_expiries = meta.lease_expiries
        /\ \/ meta'.state = "open" /\ meta.attempts + 1 < AttemptLimit
           \/ meta'.state = "incident"
    BY <1>1, <2>1, ReleaseInv
  <2>3. CASE meta'.state = "open"
    BY <1>2, <2>1, <2>2, <2>3, Phases DEF Rework!Redo
  <2>4. CASE meta'.state = "incident"
    BY <1>2, <2>1, <2>2, <2>4, Phases, LimitsAreConstants DEF Rework!Park
  <2> QED
    BY <2>2, <2>3, <2>4
<1>8. ASSUME NEW a \in Agents, e = ProviderStopped(a)
      PROVE  Rework!GiveBack
  <2>1. meta.state = "leased" /\ meta' = Reopened(meta)
    BY <1>8, LegalFrom, Dispatch
  <2> QED
    BY <1>1, <2>1, ReopenedType, Phases DEF Rework!GiveBack
<1>9. ASSUME NEW m \in Heads, e = Merged(m)
      PROVE  Rework!Finish
  <2>1. meta.state = "mergeable" /\ meta' = AfterMerged(meta, Merged(m))
    BY <1>9, LegalFrom, Dispatch
  <2>2. meta'.state = "closed"
    BY <1>1, <2>1, LeaveInv
  <2> QED
    BY <1>1, <2>1, <2>2, Unspent, Phases DEF Rework!Finish
<1>10. ASSUME e = Escalate("budget")
       PROVE  Rework!Park
  <2>1. /\ meta.state \in {"open", "leased", "in_verify", "mergeable"}
        /\ meta' = Escalated(meta, "budget") /\ "budget" \in Reasons
    BY <1>10, LegalFrom, Dispatch DEF Reasons
  <2> QED
    BY <1>1, <2>1, EscalatedType, Phases DEF Rework!Park
<1>11. ASSUME NEW name \in {"none", "verify_passed", "verify_failed", "verify_blocked",
                            "merge_failed", "cancel", "operator_retry"},
              e = Plain(name)
       PROVE  Rework!Next \/ UNCHANGED Rework!vars
  <2>1. CASE name = "none"
    BY <1>11, <2>1 DEF Legal, Accepts, Plain, HolderEvents
  <2>2. CASE name = "verify_passed"
    <3>1. meta.state = "in_verify" /\ meta' = AfterVerifyPassed(meta)
      BY <1>11, <2>2, LegalFrom, Dispatch
    <3>2. /\ meta'.state = "mergeable" /\ meta'.attempts = meta.attempts
          /\ meta'.lease_expiries = meta.lease_expiries
      BY <1>1, <3>1, VerifyPassedInv, Unspent
    <3> QED
      BY <3>1, <3>2, Phases DEF Rework!vars
  <2>3. CASE name = "verify_blocked"
    <3>1. /\ meta.state = "in_verify" /\ "environment" \in Reasons
          /\ meta' = Escalated(meta, "environment")
      BY <1>11, <2>3, LegalFrom, Dispatch DEF Reasons
    <3> QED
      BY <1>1, <3>1, EscalatedType, Phases DEF Rework!Park
  <2>4. CASE name \in {"verify_failed", "merge_failed"}
    <3>1. PICK reason \in Reasons : meta' = ReopenedOr(AddAttempt(meta), reason)
      BY <1>11, <2>4, Dispatch DEF Reasons, AfterVerifyFailed, AfterMergeFailed
    <3>2. meta.state \in {"in_verify", "mergeable"}
      BY <1>11, <2>4, LegalFrom
    <3>3. /\ meta'.attempts = meta.attempts + 1
          /\ meta'.lease_expiries = meta.lease_expiries
          /\ \/ meta'.state = "open" /\ meta.attempts + 1 < AttemptLimit
             \/ meta'.state = "incident"
      BY <1>1, <3>1, <3>2, FailInv
    <3>4. CASE meta'.state = "open"
      BY <1>2, <3>2, <3>3, <3>4, Phases DEF Rework!Redo
    <3>5. CASE meta'.state = "incident"
      BY <1>2, <3>2, <3>3, <3>5, Phases, LimitsAreConstants DEF Rework!Park
    <3> QED
      BY <3>3, <3>4, <3>5
  <2>5. CASE name = "cancel"
    <3>1. /\ meta.state \in {"open", "leased", "in_verify", "mergeable", "incident"}
          /\ meta' = InState(meta, "canceled")
      BY <1>11, <2>5, LegalFrom, Dispatch
    <3>2. meta'.state = "canceled"
      BY <1>1, <3>1, LeaveInv
    <3> QED
      BY <1>1, <3>1, <3>2, Unspent, Phases DEF Rework!Stop
  <2>6. CASE name = "operator_retry"
    <3>1. meta.state = "incident" /\ meta' = AfterOperatorRetry(meta)
      BY <1>11, <2>6, LegalFrom, Dispatch
    <3>2. meta'.state = "open"
      BY <1>1, <3>1, OperatorRetryInv
    <3>3. meta'.attempts = 0 /\ meta'.lease_expiries = 0
      BY <1>1, <3>1, Unspent
    <3>4. PhaseOf(meta) = "parked" /\ PhaseOf(meta)' = "ready"
      BY <3>1, <3>2, Phases
    <3> QED
      BY <1>2, <3>3, <3>4, LimitsAreConstants DEF Rework!Revive
  <2> QED
    BY <2>1, <2>2, <2>3, <2>4, <2>5, <2>6
<1> QED
  BY <1>3, <1>4, <1>5, <1>6, <1>7, <1>8, <1>9, <1>10, <1>11, EventForms

\* Where every write of the task follows its read at once, a rig does bounded rework: whatever
\* crashes, races, is resolved or canceled, a task is repeated a bounded number of times
\* before a person sees it, and nobody but an operator refills what it may cost.
THEOREM RigImplementsRework ==
    ASSUME AtomicApply
    PROVE  Spec => Rework!Spec
<1>1. Init => ReworkInv /\ Rework!Init
  <2> SUFFICES ASSUME Init PROVE ReworkInv /\ Rework!Init
    OBVIOUS
  <2>1. WellFormed
    BY InitWellFormed
  <2>2. NeverPersists
    BY DEF Init, Idle, NeverPersists
  <2>3. meta.state = "open" /\ meta.attempts = 0 /\ meta.lease_expiries = 0
    BY DEF Init, NewTask
  <2>4. PhaseOf(meta) = "ready"
    BY <2>3, Phases
  <2>5. Rework!Init
    BY <2>3, <2>4, LimitsAssumption, LimitsAreConstants DEF Rework!Init
  <2> QED
    BY <2>1, <2>2, <2>5 DEF ReworkInv
<1>2. ReworkInv /\ [Next]_vars => ReworkInv'
  BY ReworkInductive
<1>3. ReworkInv /\ [Next]_vars => [Rework!Next]_(Rework!vars)
  <2> SUFFICES ASSUME ReworkInv, [Next]_vars
               PROVE  Rework!Next \/ UNCHANGED Rework!vars
    OBVIOUS
  <2>1. CASE UNCHANGED meta
    BY <2>1 DEF Rework!vars
  <2>2. ASSUME NEW p \in Processes, LoadAndPersist(p)
        PROVE  Rework!Next \/ UNCHANGED Rework!vars
    <3>1. /\ Legal(meta, job[p].event) /\ meta' = NextTask(meta, job[p].event)
      BY <2>2 DEF LoadAndPersist, Write
    <3>2. job[p].event \in Events /\ GoodTask(meta)
      BY JobOf DEF ReworkInv, Jobs, WellFormed, StateOK
    <3> QED
      BY <3>1, <3>2, EventRefines
  <2> QED
    BY <2>1, <2>2, WritesOrPasses DEF Passes
<1> QED
  BY <1>1, <1>2, <1>3, PTL DEF Spec, Rework!Spec
=============================================================================
