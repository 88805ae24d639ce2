----------------------------- MODULE BoundaryProofs -----------------------------
(***************************************************************************)
(* What is proved of the edges of a rig: of an agent's session and the     *)
(* role around it (Sessions), of the rigs on a host (RigHost), of the      *)
(* operations remote clients call (Desk), of the adapter the ledger is     *)
(* kept with (Ledger).  The four share no state; each section has its own  *)
(* invariant.                                                              *)
(***************************************************************************)
EXTENDS Sessions, RigHost, Desk, Ledger, SequenceTheorems, FiniteSetTheorems, TLAPS

-----------------------------------------------------------------------------
(* Sessions: the invariant.                                                *)

\* The places of a worker whose worktree is cut.
Cutted == {"mcp", "start", "run", "collect", "ended", "commit", "tidy", "decide"}

\* A session has a number, and has ended in some way before what it says is collected.
Underway ==
    /\ session.at # "idle" => started > 0
    /\ session.at = "collect" => session.ends # "none"

\* The harness has not returned before the session ended.
NotReturned ==
    session.at \in {"idle", "cut", "mcp", "start", "run", "collect"} => session.outcome = "none"

\* The last message a Codex session finds is its own, and so are the words a role takes.
OwnMessage ==
    /\ session.at \in {"run", "collect"} /\ harness = "codex" => Here.last \in {0, started}
    /\ session.answer \in {0, started}

\* A worktree cut anew has the note and the work of this session alone.
OwnTree ==
    ~session.resumed =>
        /\ session.blocked \in {0, started}
        /\ session.role = "worker" /\ session.at \in Cutted =>
               /\ tree.note \in {0, started}
               /\ tree.work \subseteq {started}
               /\ branch.work \subseteq {started}

\* Only Codex leaves anything to clean up.
OnlyCodex ==
    harness # "codex" => ~tree.scratch /\ tree.last = 0 /\ ~branch.scratch /\ branch.last = 0

\* A provider's refusal is told from an answer, where the harness tells it.
RefusalSeen ==
    session.outcome \in {"ok", "error"} /\ harness # "codex" => session.ends # "refusal"

\* What the session left of itself is put away before the commit.
PutAway ==
    session.role = "worker" =>
        /\ session.at = "commit" => tree.note = 0
        /\ session.at \in {"tidy", "decide"} => branch.note = 0
        /\ session.outcome \in {"ok", "error"} =>
               /\ session.at \in {"ended", "commit"} => ~tree.scratch /\ tree.last = 0
               /\ session.at \in {"tidy", "decide"} => ~branch.scratch /\ branch.last = 0

\* The words the last conclusion went by were its own.
OwnWords ==
    /\ result.answer \in {0, result.number}
    /\ ~result.resumed => result.blocked \in {0, result.number}

\* What it handed over was its own, and whole.
OwnWork ==
    result.did = "submitted" =>
        /\ ~result.resumed => result.files.work \subseteq {result.number}
        /\ harness # "codex" => result.ends # "refusal"

\* And held nothing that was not work.
OnlyWork ==
    result.did = "submitted" =>
        ~result.files.scratch /\ result.files.last = 0 /\ result.files.note = 0

SessionsInv ==
    /\ SessionsTypeOK /\ Underway
    /\ NotReturned /\ OwnMessage /\ OwnTree /\ OnlyCodex /\ RefusalSeen
    /\ OwnWords /\ OwnWork

\* With every removal made.
RemovalsInv == PutAway /\ OnlyWork

-----------------------------------------------------------------------------
(* Sessions: types.                                                        *)

LEMMA EmptyShapes ==
    ASSUME SessionsAssumption
    PROVE  NoSession \in SessionRecords /\ NoResult \in Results /\ Clean \in Files
BY DEF SessionsAssumption, NoSession, NoResult, Clean, SessionRecords, Results, Files, Numbers

\* A file that comes or goes leaves the rest of the directory as it was.
LEMMA RecordChanges ==
    ASSUME NEW B, NEW N, NEW W, NEW f \in [scratch : B, last : N, note : N, work : W]
    PROVE  /\ \A n \in N : [f EXCEPT !.note = n] \in [scratch : B, last : N, note : N, work : W]
           /\ \A n \in N : [f EXCEPT !.last = n] \in [scratch : B, last : N, note : N, work : W]
           /\ \A w \in W : [f EXCEPT !.work = w] \in [scratch : B, last : N, note : N, work : W]
           /\ \A b \in B : [f EXCEPT !.scratch = b] \in [scratch : B, last : N, note : N, work : W]
OBVIOUS

LEMMA FileChanges ==
    ASSUME NEW f \in Files
    PROVE  /\ \A n \in 0..MaxSessions : [f EXCEPT !.note = n] \in Files
           /\ \A n \in 0..MaxSessions : [f EXCEPT !.last = n] \in Files
           /\ \A w \in SUBSET Numbers : [f EXCEPT !.work = w] \in Files
           /\ \A b \in BOOLEAN : [f EXCEPT !.scratch = b] \in Files
BY RecordChanges, Zenon DEF Files

LEMMA SessionsInitTypes == SessionsAssumption /\ SessionsInit => SessionsTypeOK
<1> SUFFICES ASSUME SessionsAssumption, SessionsInit PROVE SessionsTypeOK
  OBVIOUS
<1>1. resume \in BOOLEAN
  BY DEF SessionsInit
<1>2. started \in 0..MaxSessions /\ sessionFaults \in 0..MaxSessionFaults
  BY DEF SessionsInit, SessionsAssumption
<1> QED
  BY <1>1, <1>2, EmptyShapes DEF SessionsInit, SessionsTypeOK

LEMMA SessionFaultOK ==
    ASSUME SessionsAssumption, SessionsTypeOK, NEW at, SessionFault(at)
    PROVE  sessionFaults' \in 0..MaxSessionFaults
BY DEF SessionsAssumption, SessionsTypeOK, SessionFault

LEMMA WorkerTypes == ASSUME SessionsAssumption, SessionsTypeOK, Worker PROVE SessionsTypeOK'
<1> USE DEF SessionsTypeOK, sessionLedger, directories
<1>1. CASE Claim
  <2>1. session' \in SessionRecords
    BY <1>1, EmptyShapes DEF Claim, SessionRecords
  <2>2. started' \in 0..MaxSessions
    BY <1>1 DEF Claim, SessionsAssumption
  <2> QED
    BY <1>1, <2>1, <2>2 DEF Claim
<1>2. CASE Cut
  BY <1>2, EmptyShapes DEF Cut, SessionGoes, RoleAt, SessionRecords
<1>3. CASE CutFails
  BY <1>3, EmptyShapes, SessionFaultOK DEF CutFails
<1>4. CASE ReadMcp
  BY <1>4, EmptyShapes, SessionFaultOK DEF ReadMcp, SessionGoes, SessionRecords
<1>5. CASE TakeNote
  <2>1. session' \in SessionRecords
    BY <1>5 DEF TakeNote, SessionRecords, Files
  <2>2. tree' \in Files
    BY <1>5, FileChanges DEF TakeNote, SessionsAssumption
  <2> QED
    BY <1>5, <2>1, <2>2, SessionFaultOK DEF TakeNote
<1>6. CASE CommitAll
  BY <1>6 DEF CommitAll, SessionRecords
<1>7. CASE CommitFails
  BY <1>7, EmptyShapes, SessionFaultOK DEF CommitFails
<1>8. CASE Tidy
  BY <1>8, EmptyShapes, SessionFaultOK DEF Tidy, SessionGoes, SessionRecords
<1>9. CASE GiveUp
  BY <1>9, EmptyShapes DEF GiveUp
<1>10. CASE Stopped \/ Release \/ Submit
  BY <1>10, EmptyShapes DEF Stopped, Release, Submit, Concludes, Result, Results, SessionRecords
<1> QED
  BY <1>1, <1>2, <1>3, <1>4, <1>5, <1>6, <1>7, <1>8, <1>9, <1>10 DEF Worker

LEMMA PlannerTypes == ASSUME SessionsAssumption, SessionsTypeOK, Planner PROVE SessionsTypeOK'
<1> USE DEF SessionsTypeOK, sessionLedger, directories
<1>1. CASE TakeRequest
  <2>1. session' \in SessionRecords
    BY <1>1, EmptyShapes DEF TakeRequest, SessionRecords
  <2>2. started' \in 0..MaxSessions
    BY <1>1 DEF TakeRequest, SessionsAssumption
  <2> QED
    BY <1>1, <2>1, <2>2 DEF TakeRequest
<1>2. CASE PlanWaits \/ PlanAnswers
  BY <1>2, EmptyShapes DEF PlanWaits, PlanAnswers, Concludes, Result, Results, SessionRecords
<1> QED
  BY <1>1, <1>2 DEF Planner

\* What a directory comes to when a session changes it.
LEMMA LeavesFiles ==
    ASSUME SessionsTypeOK, NEW f \in Files, Leaves(f)
    PROVE  tree' \in Files /\ checkout' \in Files
BY DEF SessionsTypeOK, Leaves

LEMMA SessionTypes ==
    ASSUME SessionsAssumption, SessionsTypeOK, Underway, Session
    PROVE  SessionsTypeOK'
<1> USE DEF SessionsTypeOK, sessionLedger, directories
<1>0. Here \in Files
  BY DEF Here
<1>1. CASE StartCodex
  <2>1. [[Here EXCEPT !.scratch = TRUE] EXCEPT !.last = 0] \in Files
    <3>1. TRUE \in BOOLEAN /\ 0 \in 0..MaxSessions
      BY DEF SessionsAssumption
    <3>2. [Here EXCEPT !.scratch = TRUE] \in Files
      BY <1>0, <3>1, FileChanges, Zenon
    <3> QED
      BY <3>1, <3>2, FileChanges, Zenon
  <2>2. tree' \in Files /\ checkout' \in Files
    BY <1>1, <2>1, LeavesFiles DEF StartCodex
  <2> QED
    BY <1>1, <2>2 DEF StartCodex, SessionGoes, SessionRecords
<1>2. CASE StartClaude \/ StartOpencode
  BY <1>2 DEF StartClaude, StartOpencode, SessionGoes, SessionRecords
<1>3. CASE StartFails
  BY <1>3, SessionFaultOK DEF StartFails, SessionRecords
<1>4. CASE Edit
  <2>1. tree.work \cup {started} \in SUBSET Numbers
    BY <1>4 DEF Edit, Files, Numbers, Underway
  <2> QED
    BY <1>4, <2>1, FileChanges DEF Edit
<1>5. CASE AgentCommits
  <2>1. session' = [session EXCEPT !.moved = TRUE] /\ branch' = tree
        /\ UNCHANGED <<harness, sessionLedger, tree, checkout, started, result, sessionFaults>>
    BY <1>5 DEF AgentCommits
  <2>2. session' \in SessionRecords
    BY <2>1 DEF SessionRecords
  <2> QED
    BY <2>1, <2>2
<1>6. CASE WriteNote
  BY <1>6, FileChanges DEF WriteNote
<1>7. CASE WriteLast
  <2>1. [Here EXCEPT !.last = started] \in Files
    BY <1>0, FileChanges
  <2> QED
    BY <1>7, <2>1, LeavesFiles DEF WriteLast
<1>8. CASE Ends
  BY <1>8 DEF Ends, SessionRecords
<1>9. CASE OutOfTime \/ LoseLease \/ Unreadable
  <2>1. session' = [session EXCEPT !.at = "ended", !.outcome = "none"]
    BY <1>9 DEF OutOfTime, LoseLease, Unreadable, BreaksOff
  <2>2. session' \in SessionRecords
    BY <2>1 DEF SessionRecords
  <2>3. CASE OutOfTime
    BY <2>2, <2>3, SessionFaultOK DEF OutOfTime
  <2>4. CASE LoseLease
    BY <2>2, <2>4, SessionFaultOK DEF LoseLease
  <2>5. CASE Unreadable
    BY <2>2, <2>5, SessionFaultOK DEF Unreadable
  <2> QED
    BY <1>9, <2>3, <2>4, <2>5
<1>10. CASE Collect
  <2>1. session.ends \in {"answer", "error", "refusal"}
    BY <1>10 DEF Collect, Underway, SessionRecords
  <2>2. /\ ClaudeOutcome(session.ends) \subseteq {"ok", "error", "refused"}
        /\ OpencodeOutcome(session.ends) \subseteq {"none", "ok", "error", "refused"}
    BY <2>1 DEF ClaudeOutcome, OpencodeOutcome
  <2>3. PICK outcome \in {"none", "ok", "error", "refused"} :
              session' = [session EXCEPT !.at = "ended", !.outcome = outcome, !.answer = started]
    BY <1>10, <2>2 DEF Collect
  <2>4. session' \in SessionRecords
    BY <2>3 DEF SessionRecords
  <2> QED
    BY <1>10, <2>4 DEF Collect
<1>11. CASE CollectCodex
  <2>1. session' \in SessionRecords
    BY <1>0, <1>11 DEF CollectCodex, Folded, SessionRecords, Files
  <2>2. [[Here EXCEPT !.scratch = FALSE] EXCEPT !.last = 0] \in Files
    <3>1. FALSE \in BOOLEAN /\ 0 \in 0..MaxSessions
      BY DEF SessionsAssumption
    <3>2. [Here EXCEPT !.scratch = FALSE] \in Files
      BY <1>0, <3>1, FileChanges, Zenon
    <3> QED
      BY <3>1, <3>2, FileChanges, Zenon
  <2>3. tree' \in Files /\ checkout' \in Files
    BY <1>11, <2>2, LeavesFiles DEF CollectCodex
  <2> QED
    BY <1>11, <2>1, <2>3, SessionFaultOK DEF CollectCodex
<1> QED
  BY <1>1, <1>2, <1>3, <1>4, <1>5, <1>6, <1>7, <1>8, <1>9, <1>10, <1>11 DEF Session

LEMMA EveryoneTypes ==
    ASSUME SessionsAssumption, SessionsTypeOK,
           Die \/ Expire \/ SendBack \/ ResumeBranch \/ NewRequest \/ UNCHANGED sessionsVars
    PROVE  SessionsTypeOK'
<1> USE DEF SessionsTypeOK, sessionLedger, directories
<1>1. CASE Die
  BY <1>1, EmptyShapes, SessionFaultOK DEF Die
<1>2. CASE Expire \/ SendBack \/ NewRequest
  BY <1>2 DEF Expire, SendBack, NewRequest
<1>3. CASE ResumeBranch
  <2>1. resume' \in BOOLEAN
    BY <1>3 DEF ResumeBranch
  <2> QED
    BY <1>3, <2>1 DEF ResumeBranch
<1>4. CASE UNCHANGED sessionsVars
  BY <1>4 DEF sessionsVars
<1> QED
  BY <1>1, <1>2, <1>3, <1>4

LEMMA SessionsTypes ==
    ASSUME SessionsAssumption, SessionsTypeOK, Underway, [SessionsNext]_sessionsVars
    PROVE  SessionsTypeOK'
BY WorkerTypes, PlannerTypes, SessionTypes, EveryoneTypes DEF SessionsNext

-----------------------------------------------------------------------------
(* Sessions: every step keeps the invariant.                               *)

LEMMA SessionsInitially == SessionsAssumption /\ SessionsInit => SessionsInv
<1> SUFFICES ASSUME SessionsAssumption, SessionsInit PROVE SessionsInv
  OBVIOUS
<1>1. SessionsTypeOK
  BY SessionsInitTypes
<1>2. Underway /\ NotReturned /\ OwnMessage /\ OwnTree /\ OnlyCodex /\ RefusalSeen
  BY DEF SessionsInit, NoSession, Clean, Underway, NotReturned, OwnMessage, OwnTree, OnlyCodex,
         RefusalSeen
<1>3. OwnWords /\ OwnWork
  BY DEF SessionsInit, NoResult, OwnWords, OwnWork
<1> QED
  BY <1>1, <1>2, <1>3 DEF SessionsInv

\* Which session it is, and what it has come to.
SessionParts == Underway /\ NotReturned /\ OwnMessage /\ OwnTree /\ OnlyCodex /\ RefusalSeen

\* A role that is done leaves nothing to know of a session.
LEMMA DoneParts ==
    ASSUME session' = NoSession, OnlyCodex'
    PROVE  SessionParts'
BY DEF SessionParts, NoSession, Underway, NotReturned, OwnMessage, OwnTree, RefusalSeen

LEMMA WorkerParts ==
    ASSUME SessionsAssumption, SessionsInv, Worker
    PROVE  SessionParts'
<1> USE DEF SessionsInv, SessionsTypeOK, sessionLedger, directories, RoleAt, SessionParts, Underway,
            NotReturned, OwnMessage, OwnTree, OnlyCodex, RefusalSeen, Cutted
<1>1. CASE Claim
  BY <1>1 DEF Claim, NoSession, SessionsAssumption
<1>2. CASE Cut
  BY <1>2 DEF Cut, SessionGoes, SessionRecords, Clean
<1>3. CASE CutFails
  BY <1>3, DoneParts DEF CutFails
<1>4. CASE ReadMcp
  BY <1>4, DoneParts DEF ReadMcp, SessionGoes, SessionRecords
<1>5. CASE TakeNote
  BY <1>5 DEF TakeNote, Files, SessionRecords
<1>6. CASE CommitAll
  BY <1>6 DEF CommitAll, SessionRecords
<1>7. CASE CommitFails
  BY <1>7, DoneParts DEF CommitFails, Clean
<1>8. CASE Tidy
  BY <1>8 DEF Tidy, SessionGoes, SessionRecords, Clean
<1>9. CASE GiveUp
  BY <1>9, DoneParts DEF GiveUp
<1>10. CASE Stopped \/ Release \/ Submit
  BY <1>10, DoneParts DEF Stopped, Release, Submit, Concludes
<1> QED
  BY <1>1, <1>2, <1>3, <1>4, <1>5, <1>6, <1>7, <1>8, <1>9, <1>10 DEF Worker

LEMMA PlannerParts ==
    ASSUME SessionsAssumption, SessionsInv, Planner
    PROVE  SessionParts'
<1> USE DEF SessionsInv, SessionsTypeOK, sessionLedger, directories, RoleAt, SessionParts, Underway,
            NotReturned, OwnMessage, OwnTree, OnlyCodex, RefusalSeen, Cutted
<1>1. CASE TakeRequest
  BY <1>1 DEF TakeRequest, NoSession, SessionsAssumption
<1>2. CASE PlanWaits \/ PlanAnswers
  BY <1>2, DoneParts DEF PlanWaits, PlanAnswers, Concludes
<1> QED
  BY <1>1, <1>2 DEF Planner

LEMMA SessionStepParts ==
    ASSUME SessionsAssumption, SessionsInv, Session
    PROVE  SessionParts'
<1> USE DEF SessionsInv, SessionsTypeOK, sessionLedger, directories, RoleAt, SessionParts, Underway,
            NotReturned, OwnMessage, OwnTree, OnlyCodex, RefusalSeen, Cutted
<1>1. CASE StartCodex
  <2>1. /\ session.at = "start" /\ harness = "codex"
        /\ Leaves([Here EXCEPT !.scratch = TRUE, !.last = 0])
        /\ session' = [session EXCEPT !.at = "run"]
        /\ UNCHANGED <<harness, task, request, resume, branch, started, result>>
    BY <1>1 DEF StartCodex, SessionGoes
  <2>2. /\ session' \in SessionRecords /\ session'.at = "run"
        /\ session'.role = session.role /\ session'.outcome = session.outcome
        /\ session'.answer = session.answer /\ session'.blocked = session.blocked
        /\ session'.resumed = session.resumed
    BY <2>1 DEF SessionRecords
  <2>3. CASE session.role = "worker"
    <3>1. tree' = [tree EXCEPT !.scratch = TRUE, !.last = 0] /\ UNCHANGED checkout
      BY <2>1, <2>3 DEF Leaves, Here
    <3>2. tree'.last = 0 /\ tree'.note = tree.note /\ tree'.work = tree.work
      BY <3>1 DEF Files
    <3> QED
      BY <2>1, <2>2, <2>3, <3>2 DEF Here
  <2>4. CASE session.role # "worker"
    <3>1. checkout' = [checkout EXCEPT !.scratch = TRUE, !.last = 0] /\ UNCHANGED tree
      BY <2>1, <2>4 DEF Leaves, Here
    <3>2. checkout'.last = 0
      BY <3>1 DEF Files
    <3> QED
      BY <2>1, <2>2, <2>4, <3>1, <3>2 DEF Here
  <2> QED
    BY <2>3, <2>4
<1>2. CASE StartClaude \/ StartOpencode
  BY <1>2 DEF StartClaude, StartOpencode, SessionGoes, SessionRecords
<1>3. CASE StartFails
  BY <1>3 DEF StartFails, SessionRecords
<1>4. CASE Edit
  BY <1>4 DEF Edit, May, Tools, Here, Files
<1>5. CASE AgentCommits
  BY <1>5 DEF AgentCommits, May, Tools, Here, SessionRecords, Files
<1>6. CASE WriteNote
  BY <1>6 DEF WriteNote, May, Tools, Here, Files
<1>7. CASE WriteLast
  BY <1>7 DEF WriteLast, Writable, Leaves, Here, Files
<1>8. CASE Ends
  BY <1>8 DEF Ends, Here, SessionRecords
<1>9. CASE OutOfTime \/ LoseLease \/ Unreadable
  BY <1>9 DEF OutOfTime, LoseLease, Unreadable, BreaksOff, SessionRecords
<1>10. CASE Collect
  BY <1>10 DEF Collect, ClaudeOutcome, OpencodeOutcome, SessionRecords
<1>11. CASE CollectCodex
  <2>1. /\ session.at = "collect" /\ harness = "codex" /\ session' = Folded
        /\ \/ Leaves([Here EXCEPT !.scratch = FALSE, !.last = 0])
           \/ UNCHANGED <<tree, checkout>>
        /\ UNCHANGED <<harness, task, request, resume, branch, started, result>>
    BY <1>11 DEF CollectCodex
  <2>2. /\ session' \in SessionRecords /\ session'.at = "ended"
        /\ session'.role = session.role /\ session'.blocked = session.blocked
        /\ session'.resumed = session.resumed /\ session'.answer \in {Here.last, started}
    <3>1. Here.last \in 0..MaxSessions
      BY DEF Here, Files
    <3> QED
      BY <2>1, <3>1 DEF Folded, SessionRecords
  <2>3. Here.last \in {0, started}
    BY <2>1
  <2>4. session'.answer \in {0, started}
    BY <2>2, <2>3
  <2>5. tree'.note = tree.note /\ tree'.work = tree.work
    BY <2>1 DEF Leaves, Here, Files
  <2> QED
    BY <2>1, <2>2, <2>4, <2>5
<1> QED
  BY <1>1, <1>2, <1>3, <1>4, <1>5, <1>6, <1>7, <1>8, <1>9, <1>10, <1>11 DEF Session

LEMMA EveryoneParts ==
    ASSUME SessionsAssumption, SessionsInv,
           Die \/ Expire \/ SendBack \/ ResumeBranch \/ NewRequest \/ UNCHANGED sessionsVars
    PROVE  SessionParts'
<1> USE DEF SessionsInv, SessionsTypeOK, sessionLedger, directories, SessionParts, Underway,
            NotReturned, OwnMessage, OwnTree, OnlyCodex, RefusalSeen, Cutted
<1>1. CASE Die
  BY <1>1, DoneParts DEF Die
<1>2. CASE Expire \/ SendBack \/ NewRequest \/ ResumeBranch
  BY <1>2 DEF Expire, SendBack, NewRequest, ResumeBranch, Here
<1>3. CASE UNCHANGED sessionsVars
  BY <1>3 DEF sessionsVars, Here
<1> QED
  BY <1>1, <1>2, <1>3

\* Only a conclusion is handed over, and from then on it stays as it was.
LEMMA ResultSteps ==
    ASSUME [SessionsNext]_sessionsVars
    PROVE  /\ harness' = harness
           /\ \/ result' = result
              \/ (\E kind \in {"stopped", "released", "waits", "planned", "failed"} :
                     result' = Result(kind))
              \/ Submit /\ result' = Result("submitted")
<1> USE DEF sessionLedger, directories
<1>1. CASE Worker
  BY <1>1 DEF Worker, Claim, Cut, CutFails, ReadMcp, TakeNote, CommitAll, CommitFails, Tidy, GiveUp,
              Stopped, Release, Submit, Concludes
<1>2. CASE Planner
  BY <1>2 DEF Planner, TakeRequest, PlanWaits, PlanAnswers, Concludes
<1>3. CASE Session
  BY <1>3 DEF Session, StartCodex, StartClaude, StartOpencode, StartFails, Edit, AgentCommits,
              WriteNote, WriteLast, Ends, OutOfTime, LoseLease, Unreadable, Collect, CollectCodex
<1>4. CASE Die \/ Expire \/ SendBack \/ ResumeBranch \/ NewRequest \/ UNCHANGED sessionsVars
  BY <1>4 DEF Die, Expire, SendBack, ResumeBranch, NewRequest, sessionsVars
<1> QED
  BY <1>1, <1>2, <1>3, <1>4 DEF SessionsNext

LEMMA OwnResult ==
    ASSUME SessionsAssumption, SessionsInv, [SessionsNext]_sessionsVars
    PROVE  OwnWords' /\ OwnWork'
<1> USE DEF SessionsInv, OwnWords, OwnWork
<1>1. CASE result' = result
  BY <1>1, ResultSteps
<1>2. CASE \E kind \in {"stopped", "released", "waits", "planned", "failed"} :
              result' = Result(kind)
  BY <1>2, ResultSteps DEF Result, OwnMessage, OwnTree
<1>3. CASE Submit /\ result' = Result("submitted")
  BY <1>3, ResultSteps DEF Submit, RoleAt, Cutted, Result, OwnMessage, OwnTree, RefusalSeen
<1> QED
  BY <1>1, <1>2, <1>3, ResultSteps

LEMMA SessionsStepwise ==
    ASSUME SessionsAssumption, SessionsInv, [SessionsNext]_sessionsVars
    PROVE  SessionsInv'
<1>1. SessionsTypeOK'
  BY SessionsTypes DEF SessionsInv
<1>2. SessionParts'
  BY WorkerParts, PlannerParts, SessionStepParts, EveryoneParts DEF SessionsNext
<1>3. OwnWords' /\ OwnWork'
  BY OwnResult
<1> QED
  BY <1>1, <1>2, <1>3 DEF SessionParts, SessionsInv

LEMMA SessionsInvariance == ASSUME SessionsAssumption PROVE SessionsSpec => []SessionsInv
<1>1. SessionsInit => SessionsInv
  BY SessionsInitially
<1>2. SessionsInv /\ [SessionsNext]_sessionsVars => SessionsInv'
  BY SessionsStepwise
<1> QED
  BY <1>1, <1>2, PTL DEF SessionsSpec

-----------------------------------------------------------------------------
(* Sessions: when no removal fails.                                        *)

\* Neither the scratch directory nor the note stays behind.
Removals == {"scratch", "note"} \cap SessionFailAt = {}

LEMMA PutAwayInit == SessionsInit => RemovalsInv
BY DEF SessionsInit, NoSession, NoResult, RemovalsInv, PutAway, OnlyWork

LEMMA WorkerPutsAway ==
    ASSUME SessionsAssumption, Removals, SessionsInv, RemovalsInv, Worker
    PROVE  PutAway'
<1> USE DEF SessionsInv, SessionsTypeOK, RemovalsInv, PutAway, sessionLedger, directories, RoleAt
<1>0. CASE Claim
  BY <1>0 DEF Claim, NoSession
<1>1. CASE CutFails
  BY <1>1 DEF CutFails, NoSession
<1>2. CASE Cut
  BY <1>2 DEF Cut, SessionGoes, SessionRecords, NotReturned
<1>3. CASE ReadMcp
  BY <1>3 DEF ReadMcp, SessionGoes, SessionRecords, NoSession
<1>4. CASE TakeNote
  BY <1>4 DEF TakeNote, SessionFault, Removals, Files, SessionRecords
<1>5. CASE CommitAll
  BY <1>5 DEF CommitAll, SessionRecords
<1>6. CASE Tidy
  BY <1>6 DEF Tidy, SessionGoes, SessionRecords
<1>7. CASE CommitFails \/ GiveUp \/ Stopped \/ Release \/ Submit
  BY <1>7 DEF CommitFails, GiveUp, Stopped, Release, Submit, Concludes, NoSession
<1> QED
  BY <1>0, <1>1, <1>2, <1>3, <1>4, <1>5, <1>6, <1>7 DEF Worker

LEMMA SessionPutsAway ==
    ASSUME SessionsAssumption, Removals, SessionsInv, RemovalsInv, Session
    PROVE  PutAway'
<1> USE DEF SessionsInv, SessionsTypeOK, RemovalsInv, PutAway, sessionLedger, directories
<1>1. CASE StartCodex \/ StartClaude \/ StartOpencode \/ StartFails
  BY <1>1 DEF StartCodex, StartClaude, StartOpencode, StartFails, SessionGoes, SessionRecords,
              NotReturned
<1>2. CASE Edit \/ AgentCommits \/ WriteNote \/ WriteLast
  BY <1>2 DEF Edit, AgentCommits, WriteNote, WriteLast, SessionRecords, NotReturned
<1>3. CASE Ends \/ OutOfTime \/ LoseLease \/ Unreadable
  BY <1>3 DEF Ends, OutOfTime, LoseLease, Unreadable, BreaksOff, SessionRecords, NotReturned
<1>4. CASE Collect
  BY <1>4 DEF Collect, OnlyCodex, SessionRecords
<1>5. CASE CollectCodex
  <2>1. /\ Leaves([Here EXCEPT !.scratch = FALSE, !.last = 0]) /\ session' = Folded
        /\ UNCHANGED <<harness, task, request, resume, branch, started, result>>
    BY <1>5 DEF CollectCodex, SessionFault, Removals
  <2>2. session'.role = session.role /\ session'.at = "ended"
    BY <2>1 DEF Folded, SessionRecords
  <2>3. CASE session.role = "worker"
    BY <1>5, <2>1, <2>2, <2>3 DEF CollectCodex, Leaves, Here, SessionRecords, Files
  <2>4. CASE session.role # "worker"
    BY <1>5, <2>1, <2>2, <2>4 DEF CollectCodex, Leaves, Here, SessionRecords, Files
  <2> QED
    BY <2>3, <2>4
<1> QED
  BY <1>1, <1>2, <1>3, <1>4, <1>5 DEF Session

LEMMA PutAwayStepwise ==
    ASSUME SessionsAssumption, Removals, SessionsInv, RemovalsInv, [SessionsNext]_sessionsVars
    PROVE  PutAway'
<1>1. CASE Planner
  <2>1. CASE TakeRequest
    BY <2>1 DEF TakeRequest, NoSession, PutAway
  <2>2. CASE PlanWaits \/ PlanAnswers
    BY <2>2 DEF PlanWaits, PlanAnswers, Concludes, NoSession, PutAway
  <2> QED
    BY <1>1, <2>1, <2>2 DEF Planner
<1>2. CASE Die \/ Expire \/ SendBack \/ ResumeBranch \/ NewRequest \/ UNCHANGED sessionsVars
  BY <1>2 DEF Die, Expire, SendBack, ResumeBranch, NewRequest, sessionsVars, directories, NoSession,
              RemovalsInv, PutAway
<1> QED
  BY <1>1, <1>2, WorkerPutsAway, SessionPutsAway DEF SessionsNext

LEMMA RemovalsStepwise ==
    ASSUME SessionsAssumption, Removals, SessionsInv, RemovalsInv, [SessionsNext]_sessionsVars
    PROVE  RemovalsInv'
<1>1. PutAway'
  BY PutAwayStepwise
<1>2. OnlyWork'
  <2> USE DEF RemovalsInv, OnlyWork
  <2>1. CASE result' = result
    BY <2>1
  <2>2. CASE \E kind \in {"stopped", "released", "waits", "planned", "failed"} :
                 result' = Result(kind)
    BY <2>2 DEF Result
  <2>3. CASE Submit /\ result' = Result("submitted")
    BY <2>3 DEF Submit, RoleAt, Result, PutAway
  <2> QED
    BY <2>1, <2>2, <2>3, ResultSteps
<1> QED
  BY <1>1, <1>2 DEF RemovalsInv

-----------------------------------------------------------------------------
(* Sessions: the theorems.                                                 *)

\* What lies in the directories, the session and its result keep to their types.
THEOREM SessionsTypeCorrect == ASSUME SessionsAssumption PROVE SessionsSpec => []SessionsTypeOK
BY SessionsInvariance, PTL DEF SessionsInv

\* Whatever fails, the removals included, a role goes by the words of its own session: no
\* answer or note of an earlier one decides what becomes of a task or a plan request, and what
\* is submitted is its own work, of no provider that is known to have cut it off.
THEOREM SessionsOwnWords ==
    ASSUME SessionsAssumption PROVE SessionsSpec => [](OwnWords /\ OwnWork)
BY SessionsInvariance, PTL DEF SessionsInv

\* However many sessions there are and wherever roles die, commands fail and leases are lost,
\* sessions are kept apart as long as the removals of the scratch directory and of the note
\* succeed.
THEOREM SessionsAreApart ==
    ASSUME SessionsAssumption, Removals
    PROVE  SessionsSpec => []SessionsKeepApart
<1>1. SessionsInit => RemovalsInv
  BY PutAwayInit
<1>2. SessionsInv /\ RemovalsInv /\ [SessionsNext]_sessionsVars => RemovalsInv'
  BY RemovalsStepwise
<1>3. SessionsInv /\ RemovalsInv => SessionsKeepApart
  BY DEF SessionsInv, RemovalsInv, OwnWords, OwnWork, OnlyWork, SessionsKeepApart
<1> QED
  BY <1>1, <1>2, <1>3, SessionsInvariance, PTL DEF SessionsSpec

-----------------------------------------------------------------------------
(* RigHost: the invariant.                                                 *)

\* What a command will save, and that its rig is one there is.
CommandKnows ==
    /\ CommandAt("create") \/ CommandAt("register") => cmd.registry = registry \cup {cmd.rig}
    /\ CommandAt("register") => cmd.rig \in files
    /\ CommandAt("up") => cmd.rig \in registry
    /\ CommandAt("destroy") \/ CommandAt("remove_dir") \/ CommandAt("forget") =>
           cmd.registry = registry \ {cmd.rig}
    /\ CommandAt("remove_dir") \/ CommandAt("forget") => cmd.rig \notin roles

\* Whoever works is registered.
RunningKnown == roles \subseteq registry

HostInv == RigHostTypeOK /\ CommandKnows /\ RunningKnown

\* A registered rig has its files, but for one that is being forgotten.
FilesKnown ==
    /\ ~CommandAt("forget") => registry \subseteq files
    /\ CommandAt("forget") => registry \ {cmd.rig} \subseteq files

\* A volume as far as another.
NoFurther(ledger, repo) == Held(ledger) <= Held(repo)

\* The live volumes, the archives and what a command has in its hands agree: every landing a
\* ledger has, its repository has, or will when the restore is done.
VolumesTrue ==
    /\ \A r \in Rigs : ~(CommandAt("restore_repo") /\ r = cmd.rig) =>
           NoFurther(volumes[r].ledger, volumes[r].repo)
    /\ \A a \in archives : a.of.ledger <= a.of.repo
    /\ CommandAt("archive") => cmd.tar <= Held(volumes[cmd.rig].repo)
    /\ CommandAt("restore_repo") =>
           /\ Held(volumes[cmd.rig].ledger) <= cmd.tar
           /\ cmd.rig \notin roles

-----------------------------------------------------------------------------
(* RigHost: types.                                                         *)

\* What a volume holds.
LEMMA HeldIs ==
    /\ Held({}) = 0
    /\ \A n : Held({n}) = n
BY DEF Held

LEMMA HeldLanding ==
    ASSUME RigHostAssumption, NEW v \in Volumes
    PROVE  Held(v) \in Landings
BY HeldIs DEF Volumes, Landings, RigHostAssumption

\* A command at a place, and gone on to another.
LEMMA AtWork ==
    ASSUME RigHostTypeOK, cmd.at # "idle"
    PROVE  cmd \in CommandRecords
BY DEF RigHostTypeOK, NoCommand

LEMMA GoneOn ==
    ASSUME RigHostTypeOK, cmd.at # "idle", NEW at \in CommandPlaces, Goto(at)
    PROVE  /\ cmd' \in CommandRecords
           /\ cmd'.at = at /\ cmd'.rig = cmd.rig /\ cmd'.registry = cmd.registry
           /\ cmd'.tar = cmd.tar
BY AtWork DEF Goto, CommandRecords

LEMMA HostFaultOK ==
    ASSUME RigHostAssumption, RigHostTypeOK, hostFaults > 0, hostFaults' = hostFaults - 1
    PROVE  hostFaults' \in 0..MaxHostFaults
BY DEF RigHostAssumption, RigHostTypeOK

\* A volume of a rig written.
Refilled(r, which, n) == volumes' = [volumes EXCEPT ![r] = [@ EXCEPT ![which] = {n}]]

LEMMA VolumeWritten ==
    ASSUME RigHostTypeOK, NEW r \in Rigs, NEW which \in {"ledger", "repo"}, NEW n \in Landings,
           Refilled(r, which, n)
    PROVE  /\ volumes' \in [Rigs -> [ledger : Volumes, repo : Volumes]]
           /\ volumes'[r][which] = {n}
           /\ \A q \in Rigs, w \in {"ledger", "repo"} :
                  (q # r \/ w # which) => volumes'[q][w] = volumes[q][w]
<1>1. {n} \in Volumes
  BY DEF Volumes
<1> QED
  BY <1>1 DEF Refilled, RigHostTypeOK

LEMMA VolumeHolds ==
    ASSUME RigHostTypeOK, NEW r \in Rigs, NEW which \in {"ledger", "repo"}, NEW n \in Landings,
           Refilled(r, which, n)
    PROVE  \A q \in Rigs, w \in {"ledger", "repo"} :
               Held(volumes'[q][w]) = IF q = r /\ w = which THEN n ELSE Held(volumes[q][w])
<1>1. volumes'[r][which] = {n}
  BY VolumeWritten
<1>2. \A q \in Rigs, w \in {"ledger", "repo"} :
          (q # r \/ w # which) => volumes'[q][w] = volumes[q][w]
  BY VolumeWritten
<1> QED
  BY <1>1, <1>2, HeldIs

\* Docker makes the volumes that are missing, and empty.
LEMMA VolumesMade ==
    ASSUME RigHostAssumption, RigHostTypeOK, NEW r \in Rigs,
           volumes' = [volumes EXCEPT ![r].ledger = {Held(@)}, ![r].repo = {Held(@)}]
    PROVE  /\ volumes' \in [Rigs -> [ledger : Volumes, repo : Volumes]]
           /\ \A q \in Rigs, w \in {"ledger", "repo"} : Held(volumes'[q][w]) = Held(volumes[q][w])
<1>1. \A v \in Volumes : {Held(v)} \in Volumes /\ Held({Held(v)}) = Held(v)
  BY HeldIs, HeldLanding DEF Volumes
<1> QED
  BY <1>1 DEF RigHostTypeOK

LEMMA HostInitTypes == RigHostAssumption /\ RigHostInit => RigHostTypeOK
<1> SUFFICES ASSUME RigHostAssumption, RigHostInit PROVE RigHostTypeOK
  OBVIOUS
<1>1. NoVolumes \in [ledger : Volumes, repo : Volumes]
  BY DEF NoVolumes, Volumes
<1>2. console \in [mounts : SUBSET Rigs, joins : SUBSET Rigs, up : BOOLEAN]
  <2>1. FALSE \in BOOLEAN /\ {} \in SUBSET Rigs
    OBVIOUS
  <2> QED
    BY <2>1 DEF RigHostInit
<1>3. hostFaults \in 0..MaxHostFaults
  BY DEF RigHostInit, RigHostAssumption
<1> QED
  BY <1>1, <1>2, <1>3 DEF RigHostInit, RigHostTypeOK

LEMMA RigTypes ==
    ASSUME RigHostAssumption, RigHostTypeOK, NEW r \in Rigs,
           PushLanding(r) \/ RecordLanding(r) \/ ComposeDown(r)
    PROVE  RigHostTypeOK'
<1>1. Held(volumes[r].ledger) \in Landings /\ Held(volumes[r].repo) \in Landings
  BY HeldLanding DEF RigHostTypeOK
<1>2. CASE PushLanding(r)
  <2>1. {Held(volumes[r].repo) + 1} \in Volumes
    BY <1>1, <1>2 DEF PushLanding, Volumes, Landings, RigHostAssumption
  <2>2. volumes' \in [Rigs -> [ledger : Volumes, repo : Volumes]]
    BY <1>2, <2>1 DEF PushLanding, RigHostTypeOK
  <2> QED
    BY <1>2, <2>2 DEF PushLanding, RigHostTypeOK
<1>3. CASE RecordLanding(r)
  <2>1. {Held(volumes[r].ledger) + 1} \in Volumes
    BY <1>1, <1>3 DEF RecordLanding, Volumes, Landings, RigHostAssumption
  <2>2. volumes' \in [Rigs -> [ledger : Volumes, repo : Volumes]]
    BY <1>3, <2>1 DEF RecordLanding, RigHostTypeOK
  <2> QED
    BY <1>3, <2>2 DEF RecordLanding, RigHostTypeOK
<1>4. CASE ComposeDown(r)
  BY <1>4 DEF ComposeDown, Disk, RigHostTypeOK
<1> QED
  BY <1>2, <1>3, <1>4

LEMMA BeginTypes ==
    ASSUME RigHostAssumption, RigHostTypeOK, NEW r \in Rigs, NEW what \in CommandPlaces,
           NEW reg \in SUBSET Rigs, Begin(what, r, reg)
    PROVE  RigHostTypeOK'
<1>1. cmd' \in CommandRecords
  BY DEF Begin, CommandRecords, Landings, RigHostAssumption
<1> QED
  BY <1>1 DEF Begin, Docker, Disk, RigHostTypeOK

LEMMA BeginsTypes ==
    ASSUME RigHostAssumption, RigHostTypeOK, NEW r \in Rigs,
           \/ BeginCreate(r) \/ BeginDestroy(r) \/ BeginStart(r) \/ BeginStop(r)
           \/ BeginBackup(r) \/ BeginRestore(r) \/ BeginConsole
    PROVE  RigHostTypeOK'
<1>1. /\ registry \in SUBSET Rigs /\ registry \cup {r} \in SUBSET Rigs
      /\ registry \ {r} \in SUBSET Rigs
  BY DEF RigHostTypeOK
<1>2. {"create", "destroy", "up", "stop", "backup", "restore", "console"} \subseteq CommandPlaces
  BY DEF CommandPlaces
<1>3. (CHOOSE q \in Rigs : TRUE) \in Rigs
  BY DEF RigHostAssumption
<1> QED
  BY <1>1, <1>2, <1>3, BeginTypes DEF BeginCreate, BeginDestroy, BeginStart, BeginStop, BeginBackup,
     BeginRestore, BeginConsole

\* The registry and the console's files written.
LEMMA SaveTypes ==
    ASSUME RigHostTypeOK, NEW reg \in SUBSET Rigs, Save(reg)
    PROVE  /\ registry' = reg
           /\ console' \in [mounts : SUBSET Rigs, joins : SUBSET Rigs, up : BOOLEAN]
BY DEF RigHostTypeOK, Save

LEMMA CommandTypes ==
    ASSUME RigHostAssumption, RigHostTypeOK, Command
    PROVE  RigHostTypeOK'
<1> USE DEF RigHostTypeOK, Docker, Disk, CommandAt, CommandEnds
<1>0. /\ {"register", "up", "doctor", "unfit", "remove_dir", "forget", "archive", "restore_repo",
          "networks", "console_up"} \subseteq CommandPlaces
      /\ "idle" \notin CommandPlaces
      /\ cmd.at # "idle" => cmd \in CommandRecords
  BY AtWork DEF CommandPlaces
<1>1. CASE WriteFiles
  BY <1>0, <1>1, GoneOn DEF WriteFiles, CommandRecords
<1>2. CASE Register
  <2>1. cmd' \in CommandRecords \cup {NoCommand}
    BY <1>0, <1>2, GoneOn DEF Register
  <2> QED
    BY <1>0, <1>2, <2>1, SaveTypes DEF Register, CommandRecords
<1>3. CASE Up
  BY <1>0, <1>3, GoneOn, VolumesMade DEF Up, CommandRecords
<1>4. CASE Doctor \/ DoctorFinds \/ ReadError
  BY <1>0, <1>4, GoneOn DEF Doctor, DoctorFinds, ReadError
<1>5. CASE Stop \/ NoEnvFile \/ RestoreRefused
  BY <1>5 DEF Stop, NoEnvFile, RestoreRefused
<1>6. CASE Down
  <2>1. NoVolumes \in [ledger : Volumes, repo : Volumes]
    BY DEF NoVolumes, Volumes
  <2>2. volumes' \in [Rigs -> [ledger : Volumes, repo : Volumes]]
    BY <1>6, <2>1 DEF Down
  <2> QED
    BY <1>0, <1>6, <2>2, GoneOn DEF Down
<1>7. CASE RemoveDir
  BY <1>0, <1>7, GoneOn DEF RemoveDir
<1>8. CASE Forget
  BY <1>0, <1>8, SaveTypes DEF Forget, CommandRecords
<1>9. CASE ArchiveFirst
  <2>1. cmd \in CommandRecords /\ cmd.rig \in Rigs
    BY <1>0, <1>9 DEF ArchiveFirst, CommandRecords
  <2>2. /\ Held(volumes[cmd.rig].ledger) \in Landings
        /\ Refilled(cmd.rig, "ledger", Held(volumes[cmd.rig].ledger))
    <3>1. volumes[cmd.rig].ledger \in Volumes
      BY <2>1
    <3>2. BackupOrder[1] = "ledger"
      BY DEF BackupOrder
    <3>3. Archive("ledger")
      BY <1>9, <3>2 DEF ArchiveFirst
    <3>4. Held(volumes[cmd.rig].ledger) \in Landings
      BY <3>1, HeldLanding
    <3>5. Refilled(cmd.rig, "ledger", Held(volumes[cmd.rig].ledger))
      BY <3>3 DEF Archive, Refilled
    <3> QED
      BY <3>4, <3>5
  <2>3. volumes' \in [Rigs -> [ledger : Volumes, repo : Volumes]]
    BY <2>1, <2>2, VolumeWritten
  <2>4. cmd' \in CommandRecords
    BY <1>0, <1>9, <2>1, <2>2 DEF ArchiveFirst, BackupOrder, CommandRecords
  <2> QED
    BY <1>9, <2>3, <2>4 DEF ArchiveFirst, Archive
<1>10. CASE ArchiveSecond
  <2>1. cmd \in CommandRecords /\ cmd.rig \in Rigs /\ cmd.tar \in Landings
    BY <1>0, <1>10 DEF ArchiveSecond, CommandRecords
  <2>2. /\ Held(volumes[cmd.rig].repo) \in Landings
        /\ Refilled(cmd.rig, "repo", Held(volumes[cmd.rig].repo))
    <3>1. volumes[cmd.rig].repo \in Volumes
      BY <2>1
    <3>2. BackupOrder[2] = "repo"
      BY DEF BackupOrder
    <3>3. Archive("repo")
      BY <1>10, <3>2 DEF ArchiveSecond
    <3>4. Held(volumes[cmd.rig].repo) \in Landings
      BY <3>1, HeldLanding
    <3>5. Refilled(cmd.rig, "repo", Held(volumes[cmd.rig].repo))
      BY <3>3 DEF Archive, Refilled
    <3> QED
      BY <3>4, <3>5
  <2>3. volumes' \in [Rigs -> [ledger : Volumes, repo : Volumes]]
    BY <2>1, <2>2, VolumeWritten
  <2>4. [w \in {"ledger", "repo"} |->
             IF w = BackupOrder[1] THEN cmd.tar ELSE Held(volumes[cmd.rig][w])]
        \in [ledger : Landings, repo : Landings]
    BY <2>1, <2>2 DEF BackupOrder
  <2>5. archives' \subseteq [rig : Rigs, of : [ledger : Landings, repo : Landings]]
    BY <1>10, <2>1, <2>4 DEF ArchiveSecond
  <2> QED
    BY <1>10, <2>3, <2>5 DEF ArchiveSecond, Archive
<1>11. CASE RestoreLedger
  <2>1. cmd \in CommandRecords /\ cmd.rig \in Rigs
    BY <1>0, <1>11 DEF RestoreLedger, CommandRecords
  <2>2. PICK a \in archives :
            /\ Refill("ledger", a.of.ledger)
            /\ \/ cmd' = [cmd EXCEPT !.at = "restore_repo", !.tar = a.of.repo]
               \/ CommandEnds
    BY <1>11 DEF RestoreLedger
  <2>3. a.of.ledger \in Landings /\ a.of.repo \in Landings
    OBVIOUS
  <2>4. volumes' \in [Rigs -> [ledger : Volumes, repo : Volumes]]
    BY <2>1, <2>2, <2>3, VolumeWritten DEF Refill, Refilled
  <2>5. cmd' \in CommandRecords \cup {NoCommand}
    BY <1>0, <2>1, <2>2, <2>3 DEF CommandRecords
  <2> QED
    BY <2>2, <2>4, <2>5 DEF Refill
<1>12. CASE RestoreRepo
  <2>1. cmd.rig \in Rigs /\ cmd.tar \in Landings
    BY <1>0, <1>12 DEF RestoreRepo, CommandRecords
  <2>2. volumes' \in [Rigs -> [ledger : Volumes, repo : Volumes]]
    BY <1>12, <2>1, VolumeWritten DEF RestoreRepo, Refill, Refilled
  <2> QED
    BY <1>12, <2>2 DEF RestoreRepo, Refill
<1>13. CASE SaveConsole
  BY <1>0, <1>13, GoneOn, SaveTypes DEF SaveConsole
<1>14. CASE WriteConsole
  BY <1>0, <1>14, GoneOn DEF WriteConsole
<1>15. CASE ConsoleUpDown
  BY <1>15 DEF ConsoleUpDown, ConsoleStarts
<1> QED
  BY <1>1, <1>2, <1>3, <1>4, <1>5, <1>6, <1>7, <1>8, <1>9, <1>10, <1>11, <1>12, <1>13, <1>14, <1>15
     DEF Command

LEMMA HostTypes ==
    ASSUME RigHostAssumption, RigHostTypeOK, [RigHostNext]_rigHostVars
    PROVE  RigHostTypeOK'
<1>1. CASE BreakOff
  BY <1>1, HostFaultOK DEF BreakOff, CommandEnds, Docker, Disk, RigHostTypeOK
<1>2. CASE UpHalf
  <2>1. cmd.rig \in Rigs
    BY <1>2, AtWork DEF UpHalf, CommandAt, CommandRecords
  <2>2. volumes' \in [Rigs -> [ledger : Volumes, repo : Volumes]]
    BY <1>2, <2>1, VolumesMade DEF UpHalf
  <2> QED
    BY <1>2, <2>1, <2>2, HostFaultOK DEF UpHalf, CommandEnds, Disk, RigHostTypeOK
<1>3. CASE UNCHANGED rigHostVars
  BY <1>3 DEF rigHostVars, RigHostTypeOK
<1>4. PICK r : r \in Rigs
  BY DEF RigHostAssumption
<1> QED
  BY <1>1, <1>2, <1>3, <1>4, RigTypes, BeginsTypes, CommandTypes DEF RigHostNext

-----------------------------------------------------------------------------
(* RigHost: what a command knows, and that whoever runs is registered.     *)

LEMMA HostInitially == RigHostAssumption /\ RigHostInit => HostInv
<1> SUFFICES ASSUME RigHostAssumption, RigHostInit PROVE HostInv
  OBVIOUS
<1>1. CommandKnows /\ RunningKnown
  BY DEF RigHostInit, CommandKnows, RunningKnown, CommandAt, NoCommand
<1> QED
  BY <1>1, HostInitTypes DEF HostInv

\* A command that has ended knows nothing.
LEMMA EndedKnows == CommandEnds => CommandKnows'
BY DEF CommandEnds, NoCommand, CommandKnows, CommandAt

LEMMA RigKnows ==
    ASSUME HostInv, NEW r \in Rigs, PushLanding(r) \/ RecordLanding(r) \/ ComposeDown(r)
    PROVE  CommandKnows' /\ RunningKnown'
BY DEF HostInv, PushLanding, RecordLanding, ComposeDown, Disk, CommandKnows, RunningKnown,
   CommandAt, NoCommand

LEMMA BeginsKnow ==
    ASSUME HostInv, NEW r \in Rigs,
           \/ BeginCreate(r) \/ BeginDestroy(r) \/ BeginStart(r) \/ BeginStop(r)
           \/ BeginBackup(r) \/ BeginRestore(r) \/ BeginConsole
    PROVE  CommandKnows' /\ RunningKnown'
<1>1. UNCHANGED <<registry, files, roles>>
  BY DEF BeginCreate, BeginDestroy, BeginStart, BeginStop, BeginBackup, BeginRestore,
     BeginConsole, Begin, Docker, Disk
<1>2. CommandKnows'
  BY <1>1 DEF BeginCreate, BeginDestroy, BeginStart, BeginStop, BeginBackup, BeginRestore,
     BeginConsole, Begin, CommandKnows, CommandAt
<1> QED
  BY <1>1, <1>2 DEF HostInv, RunningKnown

LEMMA CommandsKnow ==
    ASSUME HostInv, Command
    PROVE  CommandKnows' /\ RunningKnown'
<1> USE DEF HostInv, Docker, Disk
<1>0. {"register", "up", "doctor", "unfit", "remove_dir", "forget", "networks", "console_up"}
          \subseteq CommandPlaces
  BY DEF CommandPlaces
<1>1. CASE WriteFiles
  BY <1>0, <1>1, GoneOn DEF WriteFiles, CommandKnows, RunningKnown, CommandAt
<1>2. CASE Register
  <2>1. cmd.registry = registry \cup {cmd.rig} /\ registry' = cmd.registry
    BY <1>2 DEF Register, CommandKnows, CommandAt, Save
  <2>2. cmd'.at \in {"up", "idle"} /\ (cmd'.at = "up" => cmd'.rig = cmd.rig)
    BY <1>0, <1>2, GoneOn DEF Register, CommandAt, CommandEnds, NoCommand
  <2> QED
    BY <1>2, <2>1, <2>2 DEF Register, CommandKnows, RunningKnown, CommandAt
<1>3. CASE Up
  BY <1>0, <1>3, GoneOn DEF Up, CommandKnows, RunningKnown, CommandAt
<1>4. CASE DoctorFinds
  BY <1>0, <1>4, GoneOn DEF DoctorFinds, CommandKnows, RunningKnown, CommandAt
<1>5. CASE Doctor \/ ReadError \/ Stop \/ NoEnvFile \/ RestoreRefused
  BY <1>5, EndedKnows DEF Doctor, ReadError, Stop, NoEnvFile, RestoreRefused, RunningKnown
<1>6. CASE Down
  BY <1>0, <1>6, GoneOn DEF Down, CommandKnows, RunningKnown, CommandAt
<1>7. CASE RemoveDir
  BY <1>0, <1>7, GoneOn DEF RemoveDir, CommandKnows, RunningKnown, CommandAt
<1>8. CASE Forget
  <2>1. registry' = registry \ {cmd.rig} /\ cmd.rig \notin roles /\ roles' = roles
    BY <1>8 DEF Forget, CommandKnows, CommandAt, Save
  <2> QED
    BY <1>8, <2>1, EndedKnows DEF Forget, RunningKnown
<1>9. CASE ArchiveFirst
  <2>1. cmd'.at = "archive"
    BY <1>9, AtWork DEF ArchiveFirst, CommandAt, CommandRecords
  <2> QED
    BY <1>9, <2>1 DEF ArchiveFirst, Archive, CommandKnows, RunningKnown, CommandAt
<1>10. CASE ArchiveSecond \/ RestoreRepo \/ ConsoleUpDown
  BY <1>10, EndedKnows DEF ArchiveSecond, Archive, RestoreRepo, Refill, ConsoleUpDown, RunningKnown
<1>11. CASE RestoreLedger
  <2>1. UNCHANGED <<registry, roles>>
    BY <1>11 DEF RestoreLedger, Refill
  <2>2. CommandEnds \/ cmd'.at = "restore_repo"
    BY <1>11, AtWork DEF RestoreLedger, CommandAt, CommandRecords
  <2>3. CommandKnows'
    BY <2>2, EndedKnows DEF CommandKnows, CommandAt
  <2> QED
    BY <2>1, <2>3 DEF RunningKnown
<1>12. CASE SaveConsole \/ WriteConsole
  BY <1>0, <1>12, GoneOn DEF SaveConsole, WriteConsole, Save, CommandKnows, RunningKnown, CommandAt
<1> QED
  BY <1>1, <1>2, <1>3, <1>4, <1>5, <1>6, <1>7, <1>8, <1>9, <1>10, <1>11, <1>12 DEF Command

LEMMA HostStepwise ==
    ASSUME RigHostAssumption, HostInv, [RigHostNext]_rigHostVars
    PROVE  HostInv'
<1>1. RigHostTypeOK'
  BY HostTypes DEF HostInv
<1> SUFFICES CommandKnows' /\ RunningKnown'
  BY <1>1 DEF HostInv
<1>2. CASE BreakOff
  BY <1>2, EndedKnows DEF HostInv, BreakOff, Docker, Disk, RunningKnown
<1>3. CASE UpHalf
  <2>1. cmd.rig \in registry
    BY <1>3 DEF HostInv, UpHalf, CommandKnows
  <2> QED
    BY <1>3, <2>1, EndedKnows DEF HostInv, UpHalf, Disk, RunningKnown
<1>4. CASE UNCHANGED rigHostVars
  BY <1>4 DEF rigHostVars, HostInv, CommandKnows, RunningKnown, CommandAt
<1>5. PICK r : r \in Rigs
  BY DEF RigHostAssumption
<1> QED
  BY <1>2, <1>3, <1>4, <1>5, RigKnows, BeginsKnow, CommandsKnow DEF RigHostNext

-----------------------------------------------------------------------------
(* RigHost: the files of the registered rigs.                              *)

LEMMA FilesStepwise ==
    ASSUME RigHostAssumption, "forget" \notin HostFailAt,
           HostInv, FilesKnown, [RigHostNext]_rigHostVars
    PROVE  FilesKnown'
<1> USE DEF Docker, Disk
<1>0. {"register", "up", "doctor", "unfit", "remove_dir", "forget", "networks", "console_up"}
          \subseteq CommandPlaces
  BY DEF CommandPlaces
<1>1. RigHostTypeOK /\ CommandKnows
  BY DEF HostInv
\* The steps that leave the registry and the files, and are not the removal of a directory.
<1>2. ASSUME UNCHANGED <<registry, files>>, ~CommandAt("forget"), ~CommandAt("forget")'
      PROVE  FilesKnown'
  BY <1>2 DEF FilesKnown, CommandAt
<1>3. CASE \E r \in Rigs : PushLanding(r) \/ RecordLanding(r) \/ ComposeDown(r)
  BY <1>3 DEF PushLanding, RecordLanding, ComposeDown, FilesKnown, CommandAt
<1>4. CASE BeginConsole \/ (\E r \in Rigs :
               \/ BeginCreate(r) \/ BeginDestroy(r) \/ BeginStart(r) \/ BeginStop(r)
               \/ BeginBackup(r) \/ BeginRestore(r))
  <2>1. UNCHANGED <<registry, files>> /\ cmd.at = "idle" /\ cmd'.at # "forget"
    BY <1>4 DEF BeginCreate, BeginDestroy, BeginStart, BeginStop, BeginBackup, BeginRestore,
       BeginConsole, Begin, NoCommand
  <2> QED
    BY <1>2, <2>1 DEF CommandAt
<1>5. CASE WriteFiles
  BY <1>0, <1>1, <1>5, GoneOn DEF WriteFiles, FilesKnown, CommandAt
<1>6. CASE Register
  <2>1. registry' = registry \cup {cmd.rig} /\ cmd.rig \in files /\ files' = files
    BY <1>1, <1>6 DEF Register, CommandKnows, CommandAt, Save
  <2>2. cmd'.at # "forget"
    BY <1>0, <1>1, <1>6, GoneOn DEF Register, CommandAt, CommandEnds, NoCommand
  <2> QED
    BY <1>6, <2>1, <2>2 DEF Register, FilesKnown, CommandAt
<1>7. CASE Up \/ DoctorFinds \/ Down
  BY <1>0, <1>1, <1>2, <1>7, GoneOn DEF Up, DoctorFinds, Down, CommandAt
<1>8. CASE Doctor \/ ReadError \/ Stop \/ NoEnvFile \/ RestoreRefused
  BY <1>2, <1>8 DEF Doctor, ReadError, Stop, NoEnvFile, RestoreRefused, CommandAt, CommandEnds,
     NoCommand
<1>9. CASE RemoveDir
  BY <1>0, <1>1, <1>9, GoneOn DEF RemoveDir, FilesKnown, CommandAt
<1>10. CASE Forget
  <2>1. registry' = registry \ {cmd.rig} /\ files' = files /\ cmd'.at = "idle"
    BY <1>1, <1>10 DEF Forget, CommandKnows, CommandAt, Save, CommandEnds, NoCommand
  <2> QED
    BY <1>10, <2>1 DEF Forget, FilesKnown, CommandAt
<1>11. CASE ArchiveFirst
  <2>1. cmd'.at = "archive"
    BY <1>1, <1>11, AtWork DEF ArchiveFirst, CommandAt, CommandRecords
  <2> QED
    BY <1>2, <1>11, <2>1 DEF ArchiveFirst, Archive, CommandAt
<1>12. CASE RestoreLedger
  <2>1. CommandEnds \/ cmd'.at = "restore_repo"
    BY <1>1, <1>12, AtWork DEF RestoreLedger, CommandAt, CommandRecords
  <2>2. UNCHANGED <<registry, files>> /\ cmd.at = "restore"
    BY <1>12 DEF RestoreLedger, Refill, CommandAt
  <2> QED
    BY <1>2, <2>1, <2>2 DEF CommandAt, CommandEnds, NoCommand
<1>13. CASE SaveConsole \/ WriteConsole \/ ConsoleUpDown
  <2>1. UNCHANGED <<registry, files>> /\ cmd'.at # "forget"
    BY <1>0, <1>1, <1>13, GoneOn DEF SaveConsole, WriteConsole, ConsoleUpDown, Save, CommandAt,
       CommandEnds, NoCommand
  <2> QED
    BY <1>2, <1>13, <2>1 DEF SaveConsole, WriteConsole, ConsoleUpDown, CommandAt
<1>14. CASE ArchiveSecond \/ RestoreRepo
  BY <1>2, <1>14 DEF ArchiveSecond, Archive, RestoreRepo, Refill, CommandAt, CommandEnds, NoCommand
<1>15. CASE BreakOff \/ UpHalf
  BY <1>2, <1>15 DEF BreakOff, UpHalf, CommandAt, CommandEnds, NoCommand
<1>16. CASE UNCHANGED rigHostVars
  BY <1>16 DEF rigHostVars, FilesKnown, CommandAt
<1> QED
  BY <1>3, <1>4, <1>5, <1>6, <1>7, <1>8, <1>9, <1>10, <1>11, <1>12, <1>13, <1>14, <1>15,
     <1>16 DEF RigHostNext, Command

-----------------------------------------------------------------------------
(* RigHost: what the volumes hold.                                         *)

\* What every volume holds stays, and the command is none that has a volume in its hands.
VolumesStay ==
    /\ ~CommandAt("restore_repo") /\ ~CommandAt("restore_repo")' /\ ~CommandAt("archive")'
    /\ \A r \in Rigs, w \in {"ledger", "repo"} : Held(volumes'[r][w]) = Held(volumes[r][w])
    /\ archives' = archives

LEMMA StayTrue == VolumesTrue /\ VolumesStay => VolumesTrue'
BY DEF VolumesTrue, VolumesStay, NoFurther, CommandAt

\* Every command's steps but those that take down, archive and refill a volume.
LEMMA MostStay ==
    ASSUME RigHostAssumption, RigHostTypeOK,
           \/ WriteFiles \/ Register \/ Up \/ Doctor \/ DoctorFinds \/ ReadError \/ Stop
           \/ RemoveDir \/ Forget \/ RestoreRefused
           \/ SaveConsole \/ WriteConsole \/ ConsoleUpDown \/ NoEnvFile
    PROVE  VolumesStay
<1> USE DEF Docker, Disk
<1>0. {"register", "up", "doctor", "unfit", "remove_dir", "forget", "networks", "console_up"}
          \subseteq CommandPlaces
  BY DEF CommandPlaces
<1>1. CASE Up
  <2>1. cmd.rig \in Rigs
    BY <1>1, AtWork DEF Up, CommandAt, CommandRecords
  <2>2. \A r \in Rigs, w \in {"ledger", "repo"} : Held(volumes'[r][w]) = Held(volumes[r][w])
    BY <1>1, <2>1, VolumesMade DEF Up
  <2> QED
    BY <1>0, <1>1, <2>2, GoneOn DEF Up, VolumesStay, CommandAt
<1>2. CASE \/ WriteFiles \/ Register \/ DoctorFinds \/ RemoveDir \/ SaveConsole \/ WriteConsole
  <2>1. cmd'.at \notin {"restore_repo", "archive"}
    BY <1>0, <1>2, GoneOn DEF WriteFiles, Register, DoctorFinds, RemoveDir, SaveConsole,
       WriteConsole, CommandAt, CommandEnds, NoCommand
  <2> QED
    BY <1>2, <2>1 DEF WriteFiles, Register, DoctorFinds, RemoveDir, SaveConsole, WriteConsole,
       CommandAt, VolumesStay
<1>3. CASE \/ Doctor \/ ReadError \/ Stop \/ Forget \/ RestoreRefused \/ ConsoleUpDown
           \/ NoEnvFile
  BY <1>3 DEF Doctor, ReadError, Stop, Forget, RestoreRefused, ConsoleUpDown, NoEnvFile,
     CommandAt, CommandEnds, NoCommand, VolumesStay
<1> QED
  BY <1>1, <1>2, <1>3

\* The landings of a rig, pushed before they are recorded.
LEMMA RigVolumes ==
    ASSUME RigHostAssumption, RigHostTypeOK, VolumesTrue, NEW r \in Rigs,
           PushLanding(r) \/ RecordLanding(r) \/ ComposeDown(r)
    PROVE  VolumesTrue'
<1> DEFINE led(q) == Held(volumes[q].ledger)
           rep(q) == Held(volumes[q].repo)
<1>1. \A q \in Rigs : led(q) \in Nat /\ rep(q) \in Nat
  BY HeldLanding DEF RigHostTypeOK, Landings
<1>2. CASE PushLanding(r)
  <2>1. \A q \in Rigs : /\ volumes'[q].ledger = volumes[q].ledger
                        /\ volumes'[q].repo = IF q = r THEN {rep(r) + 1} ELSE volumes[q].repo
    BY <1>2 DEF PushLanding, RigHostTypeOK
  <2>2. \A q \in Rigs : /\ Held(volumes'[q].ledger) = led(q)
                        /\ Held(volumes'[q].repo) = IF q = r THEN rep(r) + 1 ELSE rep(q)
    BY <2>1, HeldIs
  <2>3. ~(CommandAt("restore_repo") /\ r = cmd.rig)
    BY <1>2 DEF PushLanding, Working, VolumesTrue
  <2>4. CommandAt("archive") => cmd.rig \in Rigs /\ cmd.tar \in Nat
    BY AtWork DEF CommandAt, CommandRecords, Landings
  <2>5. CommandAt("restore_repo") => cmd.rig \in Rigs
    BY AtWork DEF CommandAt, CommandRecords
  <2>6. UNCHANGED <<archives, cmd, roles>>
    BY <1>2 DEF PushLanding
  <2> QED
    BY <1>1, <2>2, <2>3, <2>4, <2>5, <2>6 DEF VolumesTrue, NoFurther, CommandAt
<1>3. CASE RecordLanding(r)
  <2>1. \A q \in Rigs :
            /\ volumes'[q].repo = volumes[q].repo
            /\ volumes'[q].ledger = IF q = r THEN {led(r) + 1} ELSE volumes[q].ledger
    BY <1>3 DEF RecordLanding, RigHostTypeOK
  <2>2. \A q \in Rigs : /\ Held(volumes'[q].repo) = rep(q)
                        /\ Held(volumes'[q].ledger) = IF q = r THEN led(r) + 1 ELSE led(q)
    BY <2>1, HeldIs
  <2>3. ~(CommandAt("restore_repo") /\ r = cmd.rig) /\ led(r) < rep(r)
    BY <1>3 DEF RecordLanding, Working, VolumesTrue
  <2>4. CommandAt("archive") \/ CommandAt("restore_repo") => cmd.rig \in Rigs
    BY AtWork DEF CommandAt, CommandRecords
  <2>5. UNCHANGED <<archives, cmd, roles>>
    BY <1>3 DEF RecordLanding
  <2> QED
    BY <1>1, <2>2, <2>3, <2>4, <2>5 DEF VolumesTrue, NoFurther, CommandAt
<1>4. CASE ComposeDown(r)
  BY <1>4 DEF ComposeDown, VolumesTrue, NoFurther, CommandAt, NoCommand
<1> QED
  BY <1>2, <1>3, <1>4

LEMMA VolumeSteps ==
    ASSUME RigHostAssumption, RigHostTypeOK, VolumesTrue,
           Down \/ ArchiveFirst \/ ArchiveSecond \/ RestoreLedger \/ RestoreRepo
    PROVE  VolumesTrue'
<1> DEFINE led(q) == Held(volumes[q].ledger)
           rep(q) == Held(volumes[q].repo)
<1>1. \A q \in Rigs : led(q) \in Landings /\ rep(q) \in Landings
  BY HeldLanding DEF RigHostTypeOK
<1>2. cmd \in CommandRecords /\ cmd.rig \in Rigs /\ cmd.tar \in Landings
  BY AtWork DEF Down, ArchiveFirst, ArchiveSecond, RestoreLedger, RestoreRepo, CommandAt,
     CommandRecords
<1>3. CASE Down
  <2>1. cmd'.at = "remove_dir" /\ archives' = archives
    BY <1>3, GoneOn DEF Down, CommandAt, CommandPlaces, Disk
  <2>2. \A q \in Rigs :
            \/ volumes'[q] = volumes[q]
            \/ volumes'[q] = NoVolumes
    BY <1>3 DEF Down, RigHostTypeOK
  <2>3. \A q \in Rigs : NoFurther(volumes'[q].ledger, volumes'[q].repo)
    <3>1. NoFurther(NoVolumes.ledger, NoVolumes.repo)
      BY HeldIs DEF NoFurther, NoVolumes
    <3>2. \A q \in Rigs : NoFurther(volumes[q].ledger, volumes[q].repo)
      BY <1>3 DEF Down, CommandAt, VolumesTrue
    <3> QED
      BY <2>2, <3>1, <3>2
  <2> QED
    BY <1>3, <2>1, <2>3 DEF VolumesTrue, CommandAt
<1>4. CASE ArchiveFirst
  <2>1. Refilled(cmd.rig, "ledger", led(cmd.rig))
    BY <1>4 DEF ArchiveFirst, Archive, BackupOrder, Refilled
  <2>2. \A q \in Rigs, w \in {"ledger", "repo"} : Held(volumes'[q][w]) = Held(volumes[q][w])
    BY <1>1, <1>2, <2>1, VolumeHolds
  <2>3. /\ cmd'.at = "archive" /\ cmd'.rig = cmd.rig /\ cmd'.tar = led(cmd.rig)
        /\ archives' = archives
    BY <1>2, <1>4 DEF ArchiveFirst, BackupOrder, CommandRecords
  <2>4. \A q \in Rigs : led(q) <= rep(q)
    BY <1>4 DEF ArchiveFirst, CommandAt, VolumesTrue, NoFurther
  <2> QED
    BY <1>2, <1>4, <2>2, <2>3, <2>4 DEF VolumesTrue, NoFurther, CommandAt
<1>5. CASE ArchiveSecond
  <2>1. Refilled(cmd.rig, "repo", rep(cmd.rig))
    BY <1>5 DEF ArchiveSecond, Archive, BackupOrder, Refilled
  <2>2. \A q \in Rigs, w \in {"ledger", "repo"} : Held(volumes'[q][w]) = Held(volumes[q][w])
    BY <1>1, <1>2, <2>1, VolumeHolds
  <2>3. \A a \in archives' : a \in archives \/ (a.of.ledger = cmd.tar /\ a.of.repo = rep(cmd.rig))
    BY <1>5 DEF ArchiveSecond, BackupOrder
  <2>4. cmd.tar <= rep(cmd.rig) /\ \A q \in Rigs : led(q) <= rep(q)
    BY <1>5 DEF ArchiveSecond, CommandAt, VolumesTrue, NoFurther
  <2>5. \A a \in archives' : a.of.ledger <= a.of.repo
    BY <2>3, <2>4 DEF VolumesTrue
  <2> QED
    BY <1>5, <2>2, <2>4, <2>5 DEF ArchiveSecond, VolumesTrue, NoFurther, CommandAt, CommandEnds,
       NoCommand
<1>6. CASE RestoreLedger
  <2>1. PICK a \in archives :
            /\ Refill("ledger", a.of.ledger)
            /\ \/ cmd' = [cmd EXCEPT !.at = "restore_repo", !.tar = a.of.repo]
               \/ a.of.ledger <= rep(cmd.rig) /\ CommandEnds
    BY <1>6 DEF RestoreLedger
  <2>2. a.of.ledger \in Landings /\ a.of.ledger <= a.of.repo
    BY DEF RigHostTypeOK, VolumesTrue
  <2>3. Refilled(cmd.rig, "ledger", a.of.ledger) /\ UNCHANGED <<roles, archives>>
    BY <2>1 DEF Refill, Refilled
  <2>4. /\ Held(volumes'[cmd.rig].ledger) = a.of.ledger
        /\ \A q \in Rigs : Held(volumes'[q].repo) = rep(q)
        /\ \A q \in Rigs \ {cmd.rig} : Held(volumes'[q].ledger) = led(q)
    BY <1>2, <2>2, <2>3, VolumeHolds
  <2>5. \A q \in Rigs : led(q) <= rep(q)
    BY <1>6 DEF RestoreLedger, CommandAt, VolumesTrue, NoFurther
  <2>6. cmd.rig \notin roles
    BY <1>6 DEF RestoreLedger
  <2>7. CASE cmd' = [cmd EXCEPT !.at = "restore_repo", !.tar = a.of.repo]
    <3>1. cmd'.at = "restore_repo" /\ cmd'.rig = cmd.rig /\ cmd'.tar = a.of.repo
      BY <1>2, <2>7 DEF CommandRecords
    <3> QED
      BY <2>2, <2>3, <2>4, <2>5, <2>6, <3>1 DEF VolumesTrue, NoFurther, CommandAt
  <2>8. CASE a.of.ledger <= rep(cmd.rig) /\ CommandEnds
    BY <1>2, <2>3, <2>4, <2>5, <2>8 DEF VolumesTrue, NoFurther, CommandAt, CommandEnds, NoCommand
  <2> QED
    BY <2>1, <2>7, <2>8
<1>7. CASE RestoreRepo
  <2>1. Refilled(cmd.rig, "repo", cmd.tar) /\ archives' = archives /\ cmd'.at = "idle"
    BY <1>7 DEF RestoreRepo, Refill, Refilled, CommandEnds, NoCommand
  <2>2. /\ Held(volumes'[cmd.rig].repo) = cmd.tar
        /\ \A q \in Rigs : Held(volumes'[q].ledger) = led(q)
        /\ \A q \in Rigs \ {cmd.rig} : Held(volumes'[q].repo) = rep(q)
    BY <1>2, <2>1, VolumeHolds
  <2>3. led(cmd.rig) <= cmd.tar /\ \A q \in Rigs \ {cmd.rig} : led(q) <= rep(q)
    BY <1>7 DEF RestoreRepo, CommandAt, VolumesTrue, NoFurther
  <2> QED
    BY <1>2, <2>1, <2>2, <2>3 DEF VolumesTrue, NoFurther, CommandAt
<1> QED
  BY <1>3, <1>4, <1>5, <1>6, <1>7

LEMMA VolumesStepwise ==
    ASSUME RigHostAssumption, "restore_repo" \notin HostFailAt,
           RigHostTypeOK, VolumesTrue, [RigHostNext]_rigHostVars
    PROVE  VolumesTrue'
<1>1. CASE BreakOff
  <2>1. VolumesStay
    BY <1>1 DEF BreakOff, Docker, Disk, CommandAt, CommandEnds, NoCommand, VolumesStay
  <2> QED
    BY <2>1, StayTrue
<1>2. CASE UpHalf
  <2>1. cmd.rig \in Rigs
    BY <1>2, AtWork DEF UpHalf, CommandAt, CommandRecords
  <2>2. \A r \in Rigs, w \in {"ledger", "repo"} : Held(volumes'[r][w]) = Held(volumes[r][w])
    BY <1>2, <2>1, VolumesMade DEF UpHalf
  <2>3. VolumesStay
    BY <1>2, <2>2 DEF UpHalf, CommandAt, CommandEnds, NoCommand, VolumesStay
  <2> QED
    BY <2>3, StayTrue
<1>3. CASE BeginConsole \/ (\E r \in Rigs :
               \/ BeginCreate(r) \/ BeginDestroy(r) \/ BeginStart(r) \/ BeginStop(r)
               \/ BeginBackup(r) \/ BeginRestore(r))
  <2>1. VolumesStay
    BY <1>3 DEF BeginCreate, BeginDestroy, BeginStart, BeginStop, BeginBackup, BeginRestore,
       BeginConsole, Begin, Docker, Disk, CommandAt, NoCommand, VolumesStay
  <2> QED
    BY <2>1, StayTrue
<1>4. CASE Command
  BY <1>4, MostStay, StayTrue, VolumeSteps DEF Command
<1>5. CASE UNCHANGED rigHostVars
  BY <1>5 DEF rigHostVars, VolumesTrue, NoFurther, CommandAt
<1> QED
  BY <1>1, <1>2, <1>3, <1>4, <1>5, RigVolumes DEF RigHostNext

-----------------------------------------------------------------------------
(* RigHost: theorems.                                                      *)

\* The host, its volumes and the command in progress keep their shapes, whatever docker call or
\* file write a command ends at (Layout, HostRegistry).
THEOREM HostTypeCorrect == ASSUME RigHostAssumption PROVE RigHostSpec => []RigHostTypeOK
<1>1. RigHostInit => HostInv
  BY HostInitially
<1>2. HostInv /\ [RigHostNext]_rigHostVars => HostInv'
  BY HostStepwise
<1>3. HostInv => RigHostTypeOK
  BY DEF HostInv
<1> QED
  BY <1>1, <1>2, <1>3, PTL DEF RigHostSpec

\* No roles run of a rig the registry does not list, whichever steps of a command may fail or be
\* broken off: create saves before it starts, destroy takes down before it forgets
\* (rig_lifecycle.rs).
THEOREM RunningIsKnown ==
    ASSUME RigHostAssumption PROVE RigHostSpec => [](roles \subseteq registry)
<1>1. RigHostInit => HostInv
  BY HostInitially
<1>2. HostInv /\ [RigHostNext]_rigHostVars => HostInv'
  BY HostStepwise
<1>3. HostInv => roles \subseteq registry
  BY DEF HostInv, RunningKnown
<1> QED
  BY <1>1, <1>2, <1>3, PTL DEF RigHostSpec

\* The registry tells the truth of the host between any two commands of any number of rigs, if
\* no destroy ends between the removal of the directory and the save: a rig it lists has the
\* files every command needs, and whoever runs is listed.
THEOREM RegistryStaysTrue ==
    ASSUME RigHostAssumption, "forget" \notin HostFailAt
    PROVE  RigHostSpec => []RegistryIsTrue
<1> DEFINE Inv == HostInv /\ FilesKnown
<1>1. RigHostInit => Inv
  BY HostInitially DEF RigHostInit, FilesKnown, CommandAt, NoCommand
<1>2. Inv /\ [RigHostNext]_rigHostVars => Inv'
  BY HostStepwise, FilesStepwise
<1>3. Inv => RegistryIsTrue
  BY DEF HostInv, RunningKnown, FilesKnown, RegistryIsTrue, CommandAt, NoCommand
<1> QED
  BY <1>1, <1>2, <1>3, PTL DEF RigHostSpec

\* No ledger records a landing its repository lacks, live, archived or brought back, for any
\* number of rigs and landings, whatever else fails, if a restore of the two volumes does not
\* end between them: a backup takes the ledger first while the integrator works (app::backup).
THEOREM LandingsStay ==
    ASSUME RigHostAssumption, "restore_repo" \notin HostFailAt
    PROVE  RigHostSpec => []LandingsExist
<1> DEFINE Inv == HostInv /\ VolumesTrue
<1>1. RigHostInit => Inv
  BY HostInitially, HeldIs DEF RigHostInit, VolumesTrue, NoFurther, NoVolumes, CommandAt, NoCommand
<1>2. Inv /\ [RigHostNext]_rigHostVars => Inv'
  BY HostStepwise, VolumesStepwise DEF HostInv
<1>3. Inv => LandingsExist
  BY DEF VolumesTrue, NoFurther, LandingsExist, CommandAt
<1> QED
  BY <1>1, <1>2, <1>3, PTL DEF RigHostSpec

-----------------------------------------------------------------------------
(* Desk: the invariant.                                                    *)

Has(steps, name) == \E k \in DOMAIN steps : steps[k] = name

\* The steps that ask for a scope, or change what it is needed for.
OfScope == [plan |-> {"may_plan", "cancel_task", "close_items", "close_epic", "create", "run"},
            resolve |-> {"may_resolve", "note", "close_item", "retry"}]
Asking == [plan |-> "may_plan", resolve |-> "may_resolve"]

\* A sequence of steps with none of a scope.
Without(steps, scope) == \A name \in OfScope[scope] : ~Has(steps, name)

\* One that asks for the scope before anything else.
AsksFirst(steps, scope) == steps # <<>> /\ Head(steps) = Asking[scope]

\* A call is about one scope: its steps and what it has done so far need no other, and as long
\* as the client is not known to have it, it has done nothing and is yet to ask for it.
Serves(c, scope) ==
    /\ \A other \in {"plan", "resolve"} \ {scope} : Without(call[c].steps, other)
    /\ \A what \in did[c] : Needed(what) = scope
    /\ \/ Allows(c, scope)
       \/ /\ did[c] = {}
          /\ AsksFirst(call[c].steps, scope) \/ Without(call[c].steps, scope)

CallsAreGranted ==
    \A c \in Clients : \E scope \in {"plan", "resolve"} : Serves(c, scope)

\* Whoever was told Forbidden has changed nothing.
ForbiddenDidNothing ==
    \A c \in Clients : call[c].answer = "forbidden" => did[c] = {} /\ call[c].steps = <<>>

\* In the steps of a call the items are closed right after the tasks are stopped, and the close
\* of an item leads to the retry of its task.
OrderAt(steps, k) ==
    /\ steps[k] = "close_items" => k > 1 /\ steps[k - 1] = "cancel_task"
    /\ steps[k] = "close_item" => k < Len(steps) /\ steps[k + 1] = "load"
    /\ steps[k] = "load" => k < Len(steps) /\ steps[k + 1] = "retry"

InOrder(steps) == \A k \in DOMAIN steps : OrderAt(steps, k)

\* So it is of the steps a call has left, but for the stop behind it.
StepsInOrder ==
    \A c \in Clients : \A k \in DOMAIN call[c].steps :
        \/ OrderAt(call[c].steps, k)
        \/ /\ k = 1 /\ call[c].steps[k] = "close_items"
           /\ deskTask \in {"closed", "canceled"}

DeskInv == DeskTypeOK /\ CallsAreGranted

-----------------------------------------------------------------------------
(* Desk: the operations' steps.                                            *)

\* The steps of an operation that needs a scope, and those that make one up.
Segment(steps, scope) ==
    /\ steps \in Seq(StepNames)
    /\ InOrder(steps)
    /\ \A other \in {"plan", "resolve"} \ {scope} : Without(steps, other)

Program(steps, scope) ==
    Segment(steps, scope) /\ (AsksFirst(steps, scope) \/ Without(steps, scope))

LEMMA Joined ==
    ASSUME NEW scope \in {"plan", "resolve"}, NEW s, NEW t, Segment(s, scope), Segment(t, scope)
    PROVE  Segment(s \o t, scope) /\ (AsksFirst(s, scope) => AsksFirst(s \o t, scope))
<1> DEFINE u == s \o t
<1>1. s \in Seq(StepNames) /\ t \in Seq(StepNames)
  BY DEF Segment
<1>2. /\ u \in Seq(StepNames) /\ Len(u) = Len(s) + Len(t)
      /\ \A k \in 1..Len(s) : u[k] = s[k]
      /\ \A k \in 1..Len(t) : u[Len(s) + k] = t[k]
  BY <1>1
<1>3. Len(s) \in Nat /\ Len(t) \in Nat
  BY <1>1
<1> HIDE DEF u
<1>4. \A k \in 1..Len(u) : k \in 1..Len(s) \/ (k - Len(s) \in 1..Len(t) /\ u[k] = t[k - Len(s)])
  <2> SUFFICES ASSUME NEW k \in 1..Len(u), k \notin 1..Len(s)
               PROVE  k - Len(s) \in 1..Len(t) /\ u[k] = t[k - Len(s)]
    OBVIOUS
  <2>1. k - Len(s) \in 1..Len(t)
    BY <1>2, <1>3
  <2>2. Len(s) + (k - Len(s)) = k
    BY <1>3
  <2> QED
    BY <1>2, <2>1, <2>2
<1>5. InOrder(u)
  <2> SUFFICES ASSUME NEW k \in 1..Len(u) PROVE OrderAt(u, k)
    BY <1>2 DEF InOrder
  <2>1. CASE k \in 1..Len(s)
    <3>1. OrderAt(s, k)
      BY <1>1, <2>1 DEF Segment, InOrder
    <3>2. k > 1 => u[k - 1] = s[k - 1]
      BY <1>2, <1>3, <2>1
    <3>3. k < Len(s) => u[k + 1] = s[k + 1] /\ k < Len(u)
      BY <1>2, <1>3, <2>1
    <3> QED
      BY <1>2, <2>1, <3>1, <3>2, <3>3 DEF OrderAt
  <2>2. CASE k - Len(s) \in 1..Len(t) /\ u[k] = t[k - Len(s)]
    <3>1. PICK j \in 1..Len(t) : k = Len(s) + j
      BY <1>3, <2>2
    <3>2. OrderAt(t, j) /\ u[k] = t[j]
      BY <1>1, <1>2, <3>1 DEF Segment, InOrder
    <3>3. j > 1 => k > 1 /\ u[k - 1] = t[j - 1]
      <4> SUFFICES ASSUME j > 1 PROVE k > 1 /\ u[k - 1] = t[j - 1]
        OBVIOUS
      <4>1. j - 1 \in 1..Len(t) /\ k - 1 = Len(s) + (j - 1) /\ k > 1
        BY <1>3, <3>1
      <4> QED
        BY <1>2, <4>1
    <3>4. j < Len(t) => k < Len(u) /\ u[k + 1] = t[j + 1]
      <4> SUFFICES ASSUME j < Len(t) PROVE k < Len(u) /\ u[k + 1] = t[j + 1]
        OBVIOUS
      <4>1. j + 1 \in 1..Len(t) /\ k + 1 = Len(s) + (j + 1) /\ k < Len(u)
        BY <1>2, <1>3, <3>1
      <4> QED
        BY <1>2, <4>1
    <3> QED
      BY <3>2, <3>3, <3>4 DEF OrderAt
  <2> QED
    BY <1>4, <2>1, <2>2
<1>6. \A name : Has(u, name) => Has(s, name) \/ Has(t, name)
  BY <1>1, <1>2, <1>4 DEF Has
<1>7. \A other \in {"plan", "resolve"} \ {scope} : Without(u, other)
  BY <1>6 DEF Segment, Without
<1>8. AsksFirst(s, scope) => AsksFirst(u, scope)
  <2>1. s # <<>> => Len(s) > 0 /\ Head(s) = s[1]
    BY <1>1
  <2>2. Len(u) > 0 => u # <<>> /\ Head(u) = u[1]
    BY <1>2
  <2> QED
    BY <1>2, <1>3, <2>1, <2>2 DEF AsksFirst
<1>9. Segment(u, scope) /\ (AsksFirst(s, scope) => AsksFirst(u, scope))
  BY <1>2, <1>5, <1>7, <1>8 DEF Segment
<1> QED
  BY <1>9 DEF u

\* What every client may have done, as a call: its options' and its operations' steps.
LEMMA RetryProgram == Program(Retry, "resolve") /\ AsksFirst(Retry, "resolve")
<1>1. Retry \in Seq(StepNames) /\ Retry # <<>>
  BY DEF Retry, StepNames
<1>2. InOrder(Retry)
  BY DEF Retry, InOrder, OrderAt
<1>3. Without(Retry, "plan")
  BY DEF Retry, Without, Has, OfScope
<1>4. AsksFirst(Retry, "resolve")
  BY DEF Retry, AsksFirst, Asking
<1> QED
  BY <1>1, <1>2, <1>3, <1>4 DEF Program, Segment

LEMMA GuidedProgram == Program(Guided, "resolve")
<1> DEFINE first == <<"may_resolve", "note">>
<1>1. first \in Seq(StepNames)
  BY DEF StepNames
<1>2. InOrder(first) /\ Without(first, "plan") /\ AsksFirst(first, "resolve")
  BY DEF InOrder, OrderAt, Without, Has, OfScope, AsksFirst, Asking
<1>3. Segment(first, "resolve") /\ AsksFirst(first, "resolve")
  BY <1>1, <1>2 DEF Segment
<1>4. Segment(Retry, "resolve")
  BY RetryProgram DEF Program
<1> HIDE DEF first
<1>5. Segment(first \o Retry, "resolve") /\ AsksFirst(first \o Retry, "resolve")
  BY <1>3, <1>4, Joined
<1> QED
  BY <1>5 DEF Program, Guided, first

LEMMA CancelProgram == Program(CancelEpic, "plan") /\ AsksFirst(CancelEpic, "plan")
<1>1. CancelEpic \in Seq(StepNames)
  BY DEF CancelEpic, StepNames
<1>2. InOrder(CancelEpic)
  BY DEF CancelEpic, InOrder, OrderAt
<1>3. Without(CancelEpic, "resolve")
  BY DEF CancelEpic, Without, Has, OfScope
<1>4. AsksFirst(CancelEpic, "plan")
  BY DEF CancelEpic, AsksFirst, Asking
<1> QED
  BY <1>1, <1>2, <1>3, <1>4 DEF Program, Segment

LEMMA PlanProgram == Program(Plan, "plan") /\ AsksFirst(Plan, "plan")
<1> DEFINE first == <<"may_plan", "admit">>
           queued == <<"create", "await">>
           run == <<"run">>
           last == <<"may_watch">>
           planned == IF planner = "queue" THEN queued ELSE run
<1>1. /\ first \in Seq(StepNames) /\ queued \in Seq(StepNames) /\ run \in Seq(StepNames)
      /\ last \in Seq(StepNames)
  BY DEF StepNames
<1>2. InOrder(first) /\ InOrder(queued) /\ InOrder(run) /\ InOrder(last)
  BY DEF InOrder, OrderAt
<1>3. /\ Without(first, "resolve") /\ Without(queued, "resolve") /\ Without(run, "resolve")
      /\ Without(last, "resolve")
  BY DEF Without, Has, OfScope
<1>4. AsksFirst(first, "plan")
  BY DEF AsksFirst, Asking
<1>5. Segment(first, "plan") /\ Segment(planned, "plan") /\ Segment(last, "plan")
  BY <1>1, <1>2, <1>3 DEF Segment
<1>6. Plan = first \o planned \o last
  BY DEF Plan
<1> HIDE DEF first, planned, last
<1>7. Segment(first \o planned, "plan") /\ AsksFirst(first \o planned, "plan")
  BY <1>4, <1>5, Joined
<1>8. Segment(first \o planned \o last, "plan") /\ AsksFirst(first \o planned \o last, "plan")
  BY <1>5, <1>7, Joined
<1> QED
  BY <1>6, <1>8 DEF Program

LEMMA ReplanProgram == Program(Replan, "plan")
<1>1. Segment(CancelEpic, "plan") /\ Segment(Plan, "plan")
  BY CancelProgram, PlanProgram DEF Program
<1>2. Segment(CancelEpic \o Plan, "plan") /\ AsksFirst(CancelEpic \o Plan, "plan")
  BY <1>1, CancelProgram, Joined
<1> QED
  BY <1>2 DEF Replan, Program

LEMMA ShortPrograms ==
    /\ Program(Enqueue, "plan")
    /\ Program(AboutUpstream, "resolve")
    /\ Program(<<"may_watch">>, "plan")
<1> DEFINE watch == <<"may_watch">>
<1>1. Enqueue \in Seq(StepNames) /\ AboutUpstream \in Seq(StepNames) /\ watch \in Seq(StepNames)
  BY DEF Enqueue, AboutUpstream, StepNames
<1>2. InOrder(Enqueue) /\ InOrder(AboutUpstream) /\ InOrder(watch)
  BY DEF Enqueue, AboutUpstream, InOrder, OrderAt
<1>3. /\ Without(Enqueue, "resolve") /\ Without(AboutUpstream, "plan")
      /\ Without(watch, "resolve") /\ Without(watch, "plan")
  BY DEF Enqueue, AboutUpstream, Without, Has, OfScope
<1>4. AsksFirst(Enqueue, "plan") /\ AsksFirst(AboutUpstream, "resolve")
  BY DEF Enqueue, AboutUpstream, AsksFirst, Asking
<1> QED
  BY <1>1, <1>2, <1>3, <1>4 DEF Program, Segment

LEMMA EveryProgram ==
    /\ \A o \in DOMAIN Operations : \E scope \in {"plan", "resolve"} : Program(Operations[o], scope)
    /\ \A o \in DOMAIN Options : \E scope \in {"plan", "resolve"} : Program(Options[o], scope)
BY RetryProgram, GuidedProgram, CancelProgram, PlanProgram, ReplanProgram, ShortPrograms
   DEF Operations, Options

-----------------------------------------------------------------------------
(* Desk: types, and what a step of a call may be.                          *)

AnswerNames ==
    {"none", "ok", "forbidden", "terminal", "refused", "budget", "rejected", "unreachable",
     "failed", "declined"}
Doings == {"note", "resolve", "stop", "plan"}

\* The call goes on to its next step, or answers.
LEMMA GoesOn ==
    ASSUME DeskTypeOK, NEW c \in Clients, call[c].steps # <<>>, Goes(c)
    PROVE  /\ call' \in [Clients -> CallRecords]
           /\ call'[c].steps = Tail(call[c].steps)
           /\ call'[c].item = call[c].item
           /\ call'[c].answer \in {call[c].answer, "ok"}
           /\ \A d \in Clients \ {c} : call'[d] = call[d]
<1>1. call[c] \in CallRecords
  BY DEF DeskTypeOK
<1>2. Tail(call[c].steps) \in Seq(StepNames)
  BY <1>1 DEF CallRecords
<1>3. /\ Onward(c) \in CallRecords
      /\ Onward(c).steps = Tail(call[c].steps) /\ Onward(c).item = call[c].item
      /\ Onward(c).answer \in {call[c].answer, "ok"}
  BY <1>1, <1>2 DEF Onward, CallRecords
<1> QED
  BY <1>3 DEF Goes, DeskTypeOK

LEMMA AnswersEnd ==
    ASSUME DeskTypeOK, NEW c \in Clients, NEW answer \in AnswerNames, Answers(c, answer)
    PROVE  /\ call' \in [Clients -> CallRecords]
           /\ call'[c].steps = <<>>
           /\ call'[c].answer = answer
           /\ \A d \in Clients \ {c} : call'[d] = call[d]
<1>1. <<>> \in Seq(StepNames)
  OBVIOUS
<1> QED
  BY <1>1 DEF Answers, DeskTypeOK, CallRecords, AnswerNames

LEMMA DoesType ==
    ASSUME DeskTypeOK, NEW c \in Clients, NEW what \in Doings, Does(c, what)
    PROVE  /\ did' \in [Clients -> SUBSET Doings]
           /\ did'[c] = did[c] \cup {what}
           /\ \A d \in Clients \ {c} : did'[d] = did[d]
BY DEF Does, DeskTypeOK, Doings

\* A step passes, stops the call, or changes something its scope is needed for.
Passes(c) ==
    /\ did' = did
    /\ call'[c].steps = Tail(call[c].steps)
    /\ call'[c].answer \in {call[c].answer, "ok"}
    /\ \A scope \in {"plan", "resolve"} :
           Head(call[c].steps) = Asking[scope] => Allows(c, scope)

Denied(c) ==
    \/ ~Allows(c, "watch")
    \/ \E scope \in {"plan", "resolve"} :
           Head(call[c].steps) = Asking[scope] /\ ~Allows(c, scope)

Stops(c) ==
    /\ did' = did
    /\ \/ call'[c].steps = <<>> /\ (call'[c].answer = "forbidden" => Denied(c))
       \/ call'[c].steps = <<"may_watch">> /\ call'[c].answer = call[c].answer

Changes(c, scope) ==
    /\ Head(call[c].steps) \in OfScope[scope] \ {Asking[scope]}
    /\ \E what \in Doings : Needed(what) = scope /\ did'[c] = did[c] \cup {what}
    /\ call'[c].steps = Tail(call[c].steps)
    /\ call'[c].answer \in {call[c].answer, "ok"}

\* A step of a call: the types kept, other clients' calls as they were, one of the three.
CallShape(c) ==
    /\ call' \in [Clients -> CallRecords] /\ did' \in [Clients -> SUBSET Doings]
    /\ call[c].steps # <<>>
    /\ \A d \in Clients \ {c} : call'[d] = call[d] /\ did'[d] = did[d]
    /\ Passes(c) \/ Stops(c) \/ Changes(c, "plan") \/ Changes(c, "resolve")

LEMMA GoesShape ==
    ASSUME DeskTypeOK, NEW c \in Clients, call[c].steps # <<>>, Goes(c), did' = did,
           \A scope \in {"plan", "resolve"} :
               Head(call[c].steps) = Asking[scope] => Allows(c, scope)
    PROVE  CallShape(c)
BY GoesOn DEF CallShape, Passes, DeskTypeOK, Doings

LEMMA AnswersShape ==
    ASSUME DeskTypeOK, NEW c \in Clients, call[c].steps # <<>>, did' = did,
           NEW answer \in AnswerNames, Answers(c, answer), answer = "forbidden" => Denied(c)
    PROVE  CallShape(c)
BY AnswersEnd DEF CallShape, Stops, DeskTypeOK, Doings

LEMMA DoesShape ==
    ASSUME DeskTypeOK, NEW c \in Clients, call[c].steps # <<>>, Goes(c),
           NEW scope \in {"plan", "resolve"},
           Head(call[c].steps) \in OfScope[scope] \ {Asking[scope]},
           NEW what \in Doings, Does(c, what), Needed(what) = scope
    PROVE  CallShape(c)
BY GoesOn, DoesType DEF CallShape, Changes

LEMMA CallShapes ==
    ASSUME DeskTypeOK, NEW c \in Clients, CallStep(c)
    PROVE  CallShape(c)
<1> USE DEF At, others, deskLedger
<1>0. /\ Asking["plan"] = "may_plan" /\ Asking["resolve"] = "may_resolve"
      /\ \A a \in {"ok", "forbidden", "terminal", "refused", "budget", "rejected", "unreachable",
                   "failed", "declined"} : a \in AnswerNames
      /\ \A w \in {"note", "resolve", "stop", "plan"} : w \in Doings
  BY DEF Asking, AnswerNames, Doings
<1>1. CASE MayWatch(c) \/ MayPlan(c) \/ MayResolve(c)
  <2>1. PICK scope \in {"watch", "plan", "resolve"} :
            /\ Authorize(c, scope) /\ call[c].steps # <<>>
            /\ scope = "watch" => Head(call[c].steps) = "may_watch"
            /\ scope # "watch" => Head(call[c].steps) = Asking[scope]
    BY <1>0, <1>1 DEF MayWatch, MayPlan, MayResolve
  <2>2. CASE Allows(c, scope)
    BY <1>0, <2>1, <2>2, GoesShape DEF Authorize
  <2>3. CASE ~Allows(c, scope)
    <3>1. Denied(c)
      BY <2>1, <2>3 DEF Denied
    <3> QED
      BY <1>0, <2>1, <2>3, <3>1, AnswersShape DEF Authorize
  <2> QED
    BY <2>2, <2>3
<1>2. CASE ItemOpen(c) \/ EpicOpen(c)
  <2>1. PICK state : Reads(c, state)
    BY <1>2 DEF ItemOpen, EpicOpen
  <2>2. call[c].steps # <<>> /\ Head(call[c].steps) \in {"item_open", "epic_open"}
    BY <1>2 DEF ItemOpen, EpicOpen
  <2>3. CASE ~Allows(c, "watch")
    BY <1>0, <2>1, <2>2, <2>3, AnswersShape DEF Reads, Denied
  <2>4. CASE Allows(c, "watch") /\ IsTerminal(state)
    BY <1>0, <2>1, <2>2, <2>4, AnswersShape DEF Reads
  <2>5. CASE Allows(c, "watch") /\ ~IsTerminal(state)
    BY <1>0, <2>1, <2>2, <2>5, GoesShape DEF Reads
  <2> QED
    BY <2>3, <2>4, <2>5
<1>3. CASE Admit(c)
  BY <1>0, <1>3, GoesShape, AnswersShape DEF Admit
<1>4. CASE Upstream(c)
  BY <1>0, <1>4, AnswersShape DEF Upstream
<1>5. CASE StepFails(c)
  BY <1>0, <1>5, AnswersShape DEF StepFails
<1>6. CASE Note(c) \/ CloseItem(c)
  BY <1>0, <1>6, DoesShape DEF Note, CloseItem, OfScope, Needed
<1>7. CASE Load(c)
  <2>1. CASE deskTask = "incident"
    BY <1>0, <1>7, <2>1, GoesShape DEF Load
  <2>2. CASE deskTask # "incident"
    <3>1. call' = [call EXCEPT ![c].steps = <<"may_watch">>] /\ did' = did /\ call[c].steps # <<>>
      BY <1>7, <2>2 DEF Load
    <3>2. <<"may_watch">> \in Seq(StepNames)
      BY DEF StepNames
    <3>3. call' \in [Clients -> CallRecords]
      BY <3>1, <3>2 DEF DeskTypeOK, CallRecords
    <3>4. call'[c].steps = <<"may_watch">> /\ call'[c].answer = call[c].answer
      BY <3>1 DEF DeskTypeOK, CallRecords
    <3>5. \A d \in Clients \ {c} : call'[d] = call[d]
      BY <3>1 DEF DeskTypeOK
    <3> QED
      BY <3>1, <3>3, <3>4, <3>5 DEF CallShape, Stops, DeskTypeOK, Doings
  <2> QED
    BY <2>1, <2>2
<1>8. CASE RetryTask(c)
  <2>1. CASE deskTask = "incident"
    BY <1>0, <1>8, <2>1, DoesShape DEF RetryTask, OfScope, Needed
  <2>2. CASE deskTask # "incident"
    BY <1>0, <1>8, <2>2, AnswersShape DEF RetryTask
  <2> QED
    BY <2>1, <2>2
<1>9. CASE CancelTask(c) \/ CloseItems(c) \/ CloseEpic(c)
  BY <1>0, <1>9, DoesShape DEF CancelTask, CloseItems, CloseEpic, OfScope, Needed
<1>10. CASE CreateRequest(c)
  <2>1. /\ call' = [call EXCEPT ![c] = [Onward(c) EXCEPT !.request = Len(requests) + 1]]
        /\ call[c].steps # <<>> /\ Head(call[c].steps) = "create" /\ Does(c, "plan")
    BY <1>10 DEF CreateRequest
  <2>2. call[c] \in CallRecords
    BY DEF DeskTypeOK
  <2>3. Tail(call[c].steps) \in Seq(StepNames) /\ Len(requests) + 1 \in Nat
    BY <2>1, <2>2 DEF CallRecords, DeskTypeOK
  <2>4. /\ Onward(c) \in CallRecords
        /\ Onward(c).steps = Tail(call[c].steps) /\ Onward(c).answer \in {call[c].answer, "ok"}
    BY <2>2, <2>3 DEF Onward, CallRecords
  <2>5. /\ call' \in [Clients -> CallRecords]
        /\ call'[c].steps = Tail(call[c].steps)
        /\ call'[c].answer \in {call[c].answer, "ok"}
        /\ \A d \in Clients \ {c} : call'[d] = call[d]
    BY <2>1, <2>3, <2>4 DEF CallRecords, DeskTypeOK
  <2>6. Changes(c, "plan")
    BY <1>0, <2>1, <2>5, DoesType DEF Changes, OfScope, Needed
  <2> QED
    BY <1>0, <2>1, <2>5, <2>6, DoesType DEF CallShape
<1>11. CASE PlannerAnswered(c) \/ PlannerTimeout(c)
  BY <1>0, <1>11, GoesShape, AnswersShape DEF PlannerAnswered, PlannerTimeout
<1>12. CASE RunPlanner(c)
  <2>1. call[c].steps # <<>> /\ Head(call[c].steps) = "run"
    BY <1>12 DEF RunPlanner
  <2>2. CASE Does(c, "plan") /\ Goes(c)
    BY <1>0, <2>1, <2>2, DoesShape DEF OfScope, Needed
  <2>3. CASE did' = did /\ \E answer \in {"rejected", "unreachable"} : Answers(c, answer)
    BY <1>0, <2>1, <2>3, AnswersShape
  <2> QED
    BY <1>12, <2>2, <2>3 DEF RunPlanner
<1> QED
  BY <1>1, <1>2, <1>3, <1>4, <1>5, <1>6, <1>7, <1>8, <1>9, <1>10, <1>11, <1>12 DEF CallStep

\* A call begun: declined, or one of the programs to go through.
LEMMA CallBegins ==
    ASSUME DeskAssumption, DeskTypeOK, NEW c \in Clients, Call(c)
    PROVE  /\ DeskTypeOK'
           /\ deskTask' = deskTask /\ incidents' = incidents /\ items' = items
           /\ call[c].steps = <<>>
           /\ \A d \in Clients \ {c} : call'[d] = call[d] /\ did'[d] = did[d]
           /\ did'[c] = {}
           /\ call'[c].answer # "forbidden"
           /\ \/ call'[c].steps = <<>>
              \/ \E scope \in {"plan", "resolve"} : Program(call'[c].steps, scope)
<1>1. NoCall \in CallRecords
  <2>1. <<>> \in Seq(StepNames)
    OBVIOUS
  <2> QED
    BY <2>1 DEF NoCall, CallRecords, DeskAssumption
<1>2. Declined \in CallRecords /\ Declined.steps = <<>> /\ Declined.answer = "declined"
  BY <1>1 DEF Declined, NoCall, CallRecords
<1>3. \A steps \in Seq(StepNames) : [NoCall EXCEPT !.steps = steps] \in CallRecords
  BY <1>1 DEF CallRecords
<1>4. \A steps \in Seq(StepNames), i \in 1..incidents :
          [NoCall EXCEPT !.steps = steps, !.item = i] \in CallRecords
  <2>1. \A i \in 1..incidents : i \in 0..MaxIncidents
    <3>1. incidents \in 0..MaxIncidents
      BY DEF DeskTypeOK
    <3> QED
      BY <3>1 DEF DeskAssumption
  <2> QED
    BY <1>1, <2>1 DEF CallRecords
<1>5. calls' \in 0..MaxCalls
  <2>1. calls \in 0..MaxCalls /\ calls < MaxCalls /\ calls' = calls + 1
    BY DEF Call, DeskTypeOK
  <2> QED
    BY <2>1 DEF DeskAssumption
<1>6. /\ did' \in [Clients -> SUBSET Doings]
      /\ did'[c] = {} /\ \A d \in Clients \ {c} : did'[d] = did[d]
  BY DEF Call, DeskTypeOK, Doings
<1>7. PICK rec \in CallRecords :
          /\ call' = [call EXCEPT ![c] = rec]
          /\ rec.answer # "forbidden"
          /\ \/ rec.steps = <<>>
             \/ \E scope \in {"plan", "resolve"} : Program(rec.steps, scope)
  <2>1. CASE call' = [call EXCEPT ![c] = Declined]
    BY <1>2, <2>1
  <2>2. CASE \E o \in DOMAIN Operations :
                 call' = [call EXCEPT ![c] = [NoCall EXCEPT !.steps = Operations[o]]]
    <3>1. PICK o \in DOMAIN Operations :
              call' = [call EXCEPT ![c] = [NoCall EXCEPT !.steps = Operations[o]]]
      BY <2>2
    <3>2. PICK scope \in {"plan", "resolve"} : Program(Operations[o], scope)
      BY EveryProgram
    <3> DEFINE steps == Operations[o]
    <3> HIDE DEF steps
    <3>3. steps \in Seq(StepNames)
      BY <3>2 DEF Program, Segment, steps
    <3>4. LET rec == [NoCall EXCEPT !.steps = steps]
          IN  rec \in CallRecords /\ rec.steps = steps /\ rec.answer = "none"
      BY <1>3, <3>3 DEF NoCall
    <3> QED
      BY <3>1, <3>2, <3>4 DEF steps
  <2>3. CASE \E o \in DOMAIN Options, i \in 1..incidents :
                 call' = [call EXCEPT ![c] = [NoCall EXCEPT !.steps = Options[o], !.item = i]]
    <3>1. PICK o \in DOMAIN Options, i \in 1..incidents :
              call' = [call EXCEPT ![c] = [NoCall EXCEPT !.steps = Options[o], !.item = i]]
      BY <2>3
    <3>2. PICK scope \in {"plan", "resolve"} : Program(Options[o], scope)
      BY EveryProgram
    <3> DEFINE steps == Options[o]
    <3> HIDE DEF steps
    <3>3. steps \in Seq(StepNames)
      BY <3>2 DEF Program, Segment, steps
    <3>4. LET rec == [NoCall EXCEPT !.steps = steps, !.item = i]
          IN  rec \in CallRecords /\ rec.steps = steps /\ rec.answer = "none"
      BY <1>4, <3>3 DEF NoCall
    <3> QED
      BY <3>1, <3>2, <3>4 DEF steps
  <2> QED
    BY <2>1, <2>2, <2>3 DEF Call
<1>8. /\ call' \in [Clients -> CallRecords]
      /\ call'[c] = rec /\ \A d \in Clients \ {c} : call'[d] = call[d]
  BY <1>7 DEF DeskTypeOK
<1>9. UNCHANGED <<deskTask, incidents, items, epic, requests, planner, deskFaults>>
      /\ call[c].steps = <<>>
  BY DEF Call, deskLedger, others
<1>10. DeskTypeOK'
  BY <1>5, <1>6, <1>8, <1>9 DEF DeskTypeOK, Doings
<1> QED
  BY <1>6, <1>7, <1>8, <1>9, <1>10

LEMMA DeskInitTypes == DeskAssumption /\ DeskInit => DeskTypeOK
<1> SUFFICES ASSUME DeskAssumption, DeskInit PROVE DeskTypeOK
  OBVIOUS
<1>1. NoCall \in CallRecords
  <2>1. <<>> \in Seq(StepNames)
    OBVIOUS
  <2> QED
    BY <2>1 DEF NoCall, CallRecords, DeskAssumption
<1>2. requests \in Seq({"open", "planned", "failed"})
  BY DEF DeskInit
<1> QED
  BY <1>1, <1>2 DEF DeskInit, DeskTypeOK, DeskAssumption

LEMMA DeskTypes ==
    ASSUME DeskAssumption, DeskTypeOK, [DeskNext]_deskVars
    PROVE  DeskTypeOK'
<1>1. CASE Escalate \/ TaskLands \/ StewardCloses
  <2>1. incidents \in 0..MaxIncidents /\ items \subseteq 1..incidents
    BY DEF DeskTypeOK
  <2>2. incidents' \in 0..MaxIncidents /\ items' \subseteq 1..incidents'
    <3>1. CASE Escalate
      <4>1. /\ incidents < MaxIncidents /\ incidents' = incidents + 1
            /\ items' = items \cup {incidents + 1}
        BY <3>1 DEF Escalate, RigWrites
      <4> QED
        BY <2>1, <4>1 DEF DeskAssumption
    <3>2. CASE TaskLands \/ StewardCloses
      BY <2>1, <3>2 DEF TaskLands, StewardCloses, RigWrites
    <3> QED
      BY <1>1, <3>1, <3>2
  <2>3. /\ deskTask' \in {deskTask, "incident", "closed"} /\ epic' \in {epic, "closed"}
        /\ UNCHANGED <<requests, call, did, calls, planner, deskFaults>>
    BY <1>1 DEF Escalate, TaskLands, StewardCloses, RigWrites, others
  <2> QED
    BY <2>2, <2>3 DEF DeskTypeOK
<1>2. CASE PlannerAnswers
  <2>1. requests' \in Seq({"open", "planned", "failed"})
    BY <1>2 DEF PlannerAnswers, DeskTypeOK
  <2> QED
    BY <1>2, <2>1 DEF PlannerAnswers, DeskTypeOK, others
<1>3. CASE \E c \in Clients : Call(c)
  BY <1>3, CallBegins
<1>4. ASSUME NEW c \in Clients, CallStep(c) PROVE DeskTypeOK'
  <2>1. call' \in [Clients -> CallRecords] /\ did' \in [Clients -> SUBSET Doings]
    BY <1>4, CallShapes DEF CallShape
  <2>2. requests' \in Seq({"open", "planned", "failed"})
    <3>1. CASE requests' = requests
      BY <3>1 DEF DeskTypeOK
    <3>2. CASE requests' = Append(requests, "open") \/ requests' = Append(requests, "planned")
      <4>1. /\ requests \in Seq({"open", "planned", "failed"})
            /\ "open" \in {"open", "planned", "failed"}
            /\ "planned" \in {"open", "planned", "failed"}
        BY DEF DeskTypeOK
      <4> QED
        BY <3>2, <4>1, AppendProperties
    <3> QED
      BY <1>4, <3>1, <3>2 DEF CallStep, MayWatch, MayPlan, MayResolve, ItemOpen, EpicOpen, Admit,
         Upstream, StepFails, Note, CloseItem, Load, RetryTask, CancelTask, CloseItems, CloseEpic,
         CreateRequest, PlannerAnswered, PlannerTimeout, RunPlanner, Authorize, Reads, deskLedger
  <2>3. deskFaults' \in 0..MaxDeskFaults
    <3>1. CASE StepFails(c)
      BY <3>1 DEF StepFails, DeskTypeOK, DeskAssumption
    <3>2. CASE deskFaults' = deskFaults
      BY <3>2 DEF DeskTypeOK
    <3> QED
      BY <1>4, <3>1, <3>2 DEF CallStep, MayWatch, MayPlan, MayResolve, ItemOpen, EpicOpen, Admit,
         Upstream, Note, CloseItem, Load, RetryTask, CancelTask, CloseItems, CloseEpic,
         CreateRequest, PlannerAnswered, PlannerTimeout, RunPlanner, Authorize, Reads, others
  <2>4. /\ deskTask' \in {deskTask, "open", "canceled"}
        /\ incidents' = incidents
        /\ items' \subseteq items
        /\ epic' \in {epic, "canceled"}
        /\ calls' = calls /\ planner' = planner
    BY <1>4 DEF CallStep, MayWatch, MayPlan, MayResolve, ItemOpen, EpicOpen, Admit, Upstream,
       StepFails, Note, CloseItem, Load, RetryTask, CancelTask, CloseItems, CloseEpic,
       CreateRequest, PlannerAnswered, PlannerTimeout, RunPlanner, Authorize, Reads, deskLedger,
       others
  <2> QED
    BY <2>1, <2>2, <2>3, <2>4 DEF DeskTypeOK, Doings
<1>5. CASE UNCHANGED deskVars
  BY <1>5 DEF deskVars, DeskTypeOK
<1> QED
  BY <1>1, <1>2, <1>3, <1>4, <1>5 DEF DeskNext

-----------------------------------------------------------------------------
(* Desk: what is changed is granted.                                       *)

LEMMA TailHas ==
    ASSUME NEW steps \in Seq(StepNames), steps # <<>>
    PROVE  /\ Has(steps, Head(steps))
           /\ \A name : Has(Tail(steps), name) => Has(steps, name)
<1>1. /\ Len(steps) \in Nat /\ Len(steps) > 0 /\ Head(steps) = steps[1]
      /\ Len(Tail(steps)) = Len(steps) - 1
      /\ \A k \in 1..Len(Tail(steps)) : Tail(steps)[k] = steps[k + 1]
  OBVIOUS
<1> QED
  BY <1>1 DEF Has

LEMMA DeskInitially == DeskAssumption /\ DeskInit => DeskInv
<1> SUFFICES ASSUME DeskAssumption, DeskInit PROVE DeskInv
  OBVIOUS
<1>1. \A c \in Clients : Serves(c, "plan")
  BY DEF DeskInit, NoCall, Serves, Without, Has, OfScope
<1> QED
  BY <1>1, DeskInitTypes DEF DeskInv, CallsAreGranted

LEMMA ServesStep ==
    ASSUME DeskTypeOK, NEW c \in Clients, NEW scope \in {"plan", "resolve"}, Serves(c, scope),
           CallShape(c)
    PROVE  Serves(c, scope)'
<1> DEFINE steps == call[c].steps
<1>1. steps \in Seq(StepNames) /\ steps # <<>>
  BY DEF DeskTypeOK, CallRecords, CallShape
<1>2. Has(steps, Head(steps)) /\ \A name : Has(Tail(steps), name) => Has(steps, name)
  BY <1>1, TailHas
<1>3. \A s \in {"plan", "resolve"} : Without(steps, s) => Without(Tail(steps), s)
  BY <1>2 DEF Without
<1>4. /\ \A other \in {"plan", "resolve"} \ {scope} : Without(steps, other)
      /\ \A what \in did[c] : Needed(what) = scope
      /\ \/ Allows(c, scope)
         \/ did[c] = {} /\ (AsksFirst(steps, scope) \/ Without(steps, scope))
  BY DEF Serves
<1> HIDE DEF steps
<1>5. CASE Passes(c)
  <2>1. did' = did /\ call'[c].steps = Tail(steps)
        /\ (Head(steps) = Asking[scope] => Allows(c, scope))
    BY <1>5 DEF Passes, steps
  <2>2. Allows(c, scope) \/ (did[c] = {} /\ Without(Tail(steps), scope))
    BY <1>3, <1>4, <2>1 DEF AsksFirst
  <2> QED
    BY <1>3, <1>4, <2>1, <2>2 DEF Serves, Allows
<1>6. CASE Stops(c)
  <2>1. \A s \in {"plan", "resolve"} :
            Without(<<>>, s) /\ Without(<<"may_watch">>, s)
    BY DEF Without, Has, OfScope
  <2>2. did' = did /\ (call'[c].steps = <<>> \/ call'[c].steps = <<"may_watch">>)
    BY <1>6 DEF Stops
  <2> QED
    BY <1>4, <2>1, <2>2 DEF Serves, Allows
<1>7. ASSUME NEW s \in {"plan", "resolve"}, Changes(c, s) PROVE Serves(c, scope)'
  <2>1. Head(steps) \in OfScope[s] /\ Head(steps) # Asking[s] /\ call'[c].steps = Tail(steps)
    BY <1>7 DEF Changes, steps
  <2>2. ~Without(steps, s)
    BY <1>2, <2>1 DEF Without
  <2>3. s = scope
    BY <1>4, <2>2
  <2>4. Allows(c, scope)
    BY <1>4, <2>1, <2>2, <2>3 DEF AsksFirst
  <2>5. \A what \in did'[c] : Needed(what) = scope
    BY <1>4, <1>7, <2>3 DEF Changes
  <2> QED
    BY <1>3, <1>4, <2>1, <2>4, <2>5 DEF Serves, Allows
<1> QED
  BY <1>5, <1>6, <1>7 DEF CallShape

LEMMA GrantedStepwise ==
    ASSUME DeskAssumption, DeskInv, [DeskNext]_deskVars
    PROVE  DeskInv'
<1>1. DeskTypeOK'
  BY DeskTypes DEF DeskInv
<1> SUFFICES ASSUME NEW d \in Clients PROVE \E scope \in {"plan", "resolve"} : Serves(d, scope)'
  BY <1>1 DEF DeskInv, CallsAreGranted
<1>2. PICK scope \in {"plan", "resolve"} : Serves(d, scope)
  BY DEF DeskInv, CallsAreGranted
<1>3. CASE call'[d] = call[d] /\ did'[d] = did[d]
  BY <1>2, <1>3 DEF Serves, Allows
<1>4. CASE Call(d)
  <2>1. did'[d] = {}
    BY <1>4, CallBegins DEF DeskInv
  <2>2. CASE call'[d].steps = <<>>
    <3>1. \A s \in {"plan", "resolve"} : Without(<<>>, s)
      BY DEF Without, Has, OfScope
    <3> QED
      BY <2>1, <2>2, <3>1 DEF Serves
  <2>3. CASE \E s \in {"plan", "resolve"} : Program(call'[d].steps, s)
    BY <2>1, <2>3 DEF Serves, Program, Segment
  <2> QED
    BY <1>4, <2>2, <2>3, CallBegins DEF DeskInv
<1>5. CASE CallStep(d)
  BY <1>2, <1>5, CallShapes, ServesStep DEF DeskInv
<1>6. CASE \E c \in Clients \ {d} : Call(c) \/ CallStep(c)
  <2>1. call'[d] = call[d] /\ did'[d] = did[d]
    BY <1>6, CallBegins, CallShapes DEF CallShape, DeskInv
  <2> QED
    BY <1>3, <2>1
<1>7. CASE Escalate \/ TaskLands \/ StewardCloses \/ PlannerAnswers \/ UNCHANGED deskVars
  <2>1. call' = call /\ did' = did
    BY <1>7 DEF Escalate, TaskLands, StewardCloses, PlannerAnswers, RigWrites, deskVars
  <2> QED
    BY <1>3, <2>1
<1> QED
  BY <1>4, <1>5, <1>6, <1>7 DEF DeskNext

\* Whoever may change something on the rig may also watch it.
ChangersWatch ==
    \A c \in Clients : Allows(c, "plan") \/ Allows(c, "resolve") => Allows(c, "watch")

LEMMA ForbiddenStepwise ==
    ASSUME DeskAssumption, ChangersWatch, DeskInv, ForbiddenDidNothing, [DeskNext]_deskVars
    PROVE  ForbiddenDidNothing'
<1> SUFFICES ASSUME NEW d \in Clients, call'[d].answer = "forbidden"
             PROVE  did'[d] = {} /\ call'[d].steps = <<>>
  BY DEF ForbiddenDidNothing
<1>1. CASE call'[d] = call[d] /\ did'[d] = did[d]
  BY <1>1 DEF ForbiddenDidNothing
<1>2. ~Call(d)
  BY CallBegins DEF DeskInv
<1>3. CASE CallStep(d)
  <2> DEFINE steps == call[d].steps
  <2>1. CallShape(d) /\ steps # <<>>
    BY <1>3, CallShapes DEF DeskInv, CallShape
  <2>2. call[d].answer # "forbidden"
    BY <2>1 DEF ForbiddenDidNothing
  <2>3. did' = did /\ call'[d].steps = <<>> /\ Denied(d)
    BY <2>1, <2>2 DEF CallShape, Passes, Stops, Changes
  <2>4. PICK scope \in {"plan", "resolve"} : Serves(d, scope)
    BY DEF DeskInv, CallsAreGranted
  <2>5. ~Allows(d, scope)
    <3>1. CASE ~Allows(d, "watch")
      BY <3>1 DEF ChangersWatch
    <3>2. ASSUME NEW s \in {"plan", "resolve"}, Head(steps) = Asking[s], ~Allows(d, s)
          PROVE  ~Allows(d, scope)
      <4>1. steps \in Seq(StepNames)
        BY DEF DeskInv, DeskTypeOK, CallRecords
      <4>2. Has(steps, Asking[s]) /\ Asking[s] \in OfScope[s]
        BY <2>1, <3>2, <4>1, TailHas DEF Asking, OfScope
      <4>3. s = scope
        BY <2>4, <4>2 DEF Serves, Without
      <4> QED
        BY <3>2, <4>3
    <3> QED
      BY <2>3, <3>1, <3>2 DEF Denied
  <2> QED
    BY <2>3, <2>4, <2>5 DEF Serves
<1>4. CASE \E c \in Clients \ {d} : Call(c) \/ CallStep(c)
  <2>1. call'[d] = call[d] /\ did'[d] = did[d]
    BY <1>4, CallBegins, CallShapes DEF CallShape, DeskInv
  <2> QED
    BY <1>1, <2>1
<1>5. CASE Escalate \/ TaskLands \/ StewardCloses \/ PlannerAnswers \/ UNCHANGED deskVars
  <2>1. call' = call /\ did' = did
    BY <1>5 DEF Escalate, TaskLands, StewardCloses, PlannerAnswers, RigWrites, deskVars
  <2> QED
    BY <1>1, <2>1
<1> QED
  BY <1>2, <1>3, <1>4, <1>5 DEF DeskNext

-----------------------------------------------------------------------------
(* Desk: a task in incident is in the inbox.                               *)

\* What a call has left, after a step, is in order where it was.
LEMMA TailOrder ==
    ASSUME NEW steps \in Seq(StepNames), steps # <<>>, NEW k \in 1..Len(Tail(steps)),
           OrderAt(steps, k + 1)
    PROVE  \/ OrderAt(Tail(steps), k)
           \/ k = 1 /\ Tail(steps)[k] = "close_items" /\ Head(steps) = "cancel_task"
<1> DEFINE rest == Tail(steps)
<1>1. /\ Len(steps) \in Nat /\ Len(steps) > 0 /\ Head(steps) = steps[1]
      /\ Len(rest) = Len(steps) - 1
      /\ \A j \in 1..Len(rest) : rest[j] = steps[j + 1]
  OBVIOUS
<1> HIDE DEF rest
<1>2. k \in Nat /\ rest[k] = steps[k + 1] /\ k <= Len(rest)
  BY <1>1 DEF rest
<1>3. k > 1 => rest[k - 1] = steps[k]
  <2> SUFFICES ASSUME k > 1 PROVE rest[k - 1] = steps[k]
    OBVIOUS
  <2>1. k - 1 \in 1..Len(rest) /\ (k - 1) + 1 = k
    BY <1>1, <1>2
  <2> QED
    BY <1>1, <2>1
<1>4. k < Len(rest) => rest[k + 1] = steps[k + 2]
  <2> SUFFICES ASSUME k < Len(rest) PROVE rest[k + 1] = steps[k + 2]
    OBVIOUS
  <2>1. k + 1 \in 1..Len(rest) /\ (k + 1) + 1 = k + 2
    BY <1>1, <1>2
  <2> QED
    BY <1>1, <2>1
<1>5. /\ steps[k + 1] = "close_items" => steps[k] = "cancel_task"
      /\ steps[k + 1] = "close_item" => k + 1 < Len(steps) /\ steps[k + 2] = "load"
      /\ steps[k + 1] = "load" => k + 1 < Len(steps) /\ steps[k + 2] = "retry"
  <2>1. (k + 1) - 1 = k /\ (k + 1) + 1 = k + 2
    BY <1>2
  <2> QED
    BY <2>1 DEF OrderAt
<1>6. rest[k] = "close_items" => k > 1 \/ (k = 1 /\ Head(steps) = "cancel_task")
  BY <1>1, <1>2, <1>5
<1>7. OrderAt(rest, k) \/ (k = 1 /\ rest[k] = "close_items" /\ Head(steps) = "cancel_task")
  BY <1>1, <1>2, <1>3, <1>4, <1>5, <1>6 DEF OrderAt
<1> QED
  BY <1>7 DEF rest

\* A task that is over stays over, and a stop leaves it so.
TaskOver == deskTask \in {"closed", "canceled"}

LEMMA OverStays ==
    ASSUME TaskOver, [DeskNext]_deskVars
    PROVE  TaskOver'
BY DEF TaskOver, DeskNext, Escalate, TaskLands, StewardCloses, PlannerAnswers, RigWrites, Call,
   CallStep, MayWatch, MayPlan, MayResolve, ItemOpen, EpicOpen, Admit, Upstream, StepFails, Note,
   CloseItem, Load, RetryTask, CancelTask, CloseItems, CloseEpic, CreateRequest, PlannerAnswered,
   PlannerTimeout, RunPlanner, Authorize, Reads, deskLedger, deskVars

LEMMA StopEnds ==
    ASSUME DeskTypeOK, NEW c \in Clients, CallStep(c), Head(call[c].steps) = "cancel_task"
    PROVE  TaskOver' \/ call'[c].steps = <<>>
<1>1. CASE StepFails(c)
  <2>1. Answers(c, "failed")
    BY <1>1 DEF StepFails
  <2> QED
    BY <2>1, AnswersEnd DEF AnswerNames
<1>2. CASE CancelTask(c)
  BY <1>2 DEF CancelTask, TaskOver
<1> QED
  BY <1>1, <1>2 DEF CallStep, At, MayWatch, MayPlan, MayResolve, ItemOpen, EpicOpen, Admit,
     Upstream, Note, CloseItem, Load, RetryTask, CloseItems, CloseEpic, CreateRequest,
     PlannerAnswered, PlannerTimeout, RunPlanner

LEMMA OrderStepwise ==
    ASSUME DeskAssumption, DeskTypeOK, StepsInOrder, [DeskNext]_deskVars
    PROVE  StepsInOrder'
<1> SUFFICES ASSUME NEW d \in Clients, NEW k \in DOMAIN call'[d].steps
             PROVE  \/ OrderAt(call'[d].steps, k)
                    \/ k = 1 /\ call'[d].steps[k] = "close_items" /\ TaskOver'
  BY DEF StepsInOrder, TaskOver
<1>1. CASE call'[d].steps = call[d].steps
  <2>1. \/ OrderAt(call[d].steps, k)
        \/ k = 1 /\ call[d].steps[k] = "close_items" /\ TaskOver
    BY <1>1 DEF StepsInOrder, TaskOver
  <2> QED
    BY <1>1, <2>1, OverStays
<1>2. CASE Call(d)
  BY <1>2, CallBegins DEF Program, Segment, InOrder
<1>3. CASE CallStep(d)
  <2> DEFINE steps == call[d].steps
  <2>1. CallShape(d) /\ steps \in Seq(StepNames) /\ steps # <<>>
    BY <1>3, CallShapes DEF CallShape, DeskTypeOK, CallRecords
  <2>2. CASE call'[d].steps = Tail(steps)
    <3>1. k \in 1..Len(Tail(steps)) /\ k + 1 \in DOMAIN steps /\ k + 1 # 1
      BY <2>1, <2>2
    <3>2. OrderAt(steps, k + 1)
      BY <3>1 DEF StepsInOrder
    <3>3. \/ OrderAt(Tail(steps), k)
          \/ k = 1 /\ Tail(steps)[k] = "close_items" /\ Head(steps) = "cancel_task"
      BY <2>1, <3>1, <3>2, TailOrder
    <3>4. call'[d].steps # <<>>
      OBVIOUS
    <3>5. Head(steps) = "cancel_task" => TaskOver'
      BY <1>3, <3>4, StopEnds
    <3> QED
      BY <2>2, <3>3, <3>5
  <2>3. CASE call'[d].steps = <<>>
    BY <2>3
  <2>4. CASE call'[d].steps = <<"may_watch">>
    BY <2>4 DEF OrderAt
  <2> QED
    BY <2>1, <2>2, <2>3, <2>4 DEF CallShape, Passes, Stops, Changes
<1>4. CASE \E c \in Clients \ {d} : Call(c) \/ CallStep(c)
  <2>1. call'[d] = call[d]
    BY <1>4, CallBegins, CallShapes DEF CallShape
  <2> QED
    BY <1>1, <2>1
<1>5. CASE Escalate \/ TaskLands \/ StewardCloses \/ PlannerAnswers \/ UNCHANGED deskVars
  <2>1. call' = call
    BY <1>5 DEF Escalate, TaskLands, StewardCloses, PlannerAnswers, RigWrites, deskVars
  <2> QED
    BY <1>1, <2>1
<1> QED
  BY <1>2, <1>3, <1>4, <1>5 DEF DeskNext

\* No resolution is broken off between the close of an item and the retry of its task.
Resolutions == {"load", "retry"} \cap DeskFailAt = {}

\* The call of a client is about to reopen the task of the last incident.
Reopens(c) == call[c].item = incidents /\ (At(c, "load") \/ At(c, "retry"))

LEMMA HeadOrder ==
    ASSUME DeskTypeOK, StepsInOrder, NEW c \in Clients, call[c].steps # <<>>
    PROVE  LET steps == call[c].steps IN
           /\ Head(steps) = "close_items" => TaskOver
           /\ Head(steps) = "close_item" => Tail(steps) # <<>> /\ Head(Tail(steps)) = "load"
           /\ Head(steps) = "load" => Tail(steps) # <<>> /\ Head(Tail(steps)) = "retry"
<1> DEFINE steps == call[c].steps
<1>1. steps \in Seq(StepNames)
  BY DEF DeskTypeOK, CallRecords
<1>2. /\ Len(steps) \in Nat /\ Len(steps) > 0 /\ Head(steps) = steps[1]
      /\ 1 < Len(steps) => Tail(steps) # <<>> /\ Head(Tail(steps)) = steps[2]
  <2>1. /\ Len(steps) \in Nat /\ Len(steps) > 0 /\ Head(steps) = steps[1]
        /\ Tail(steps) \in Seq(StepNames) /\ Len(Tail(steps)) = Len(steps) - 1
        /\ \A k \in 1..Len(Tail(steps)) : Tail(steps)[k] = steps[k + 1]
    BY <1>1
  <2>2. 1 < Len(steps) => Len(Tail(steps)) > 0 /\ Tail(steps)[1] = steps[2]
    BY <2>1
  <2>3. Len(Tail(steps)) > 0 => Tail(steps) # <<>> /\ Head(Tail(steps)) = Tail(steps)[1]
    <3>1. \A s \in Seq(StepNames) : Len(s) > 0 => s # <<>> /\ Head(s) = s[1]
      OBVIOUS
    <3> QED
      BY <2>1, <3>1
  <2> QED
    BY <2>1, <2>2, <2>3
<1>3. OrderAt(steps, 1) \/ (steps[1] = "close_items" /\ TaskOver)
  BY <1>1, <1>2 DEF StepsInOrder, TaskOver
<1> HIDE DEF steps
<1>4. 1 + 1 = 2 /\ ~(1 > 1)
  OBVIOUS
<1>5. /\ Head(steps) = "close_items" => TaskOver
      /\ Head(steps) = "close_item" => Tail(steps) # <<>> /\ Head(Tail(steps)) = "load"
      /\ Head(steps) = "load" => Tail(steps) # <<>> /\ Head(Tail(steps)) = "retry"
  BY <1>2, <1>3, <1>4 DEF OrderAt
<1> QED
  BY <1>5 DEF steps

\* A step of a call keeps every item of an open incident, or is about to reopen the task.
LEMMA CallKeepsItem ==
    ASSUME DeskTypeOK, StepsInOrder, Resolutions, IncidentHasItem, NEW c \in Clients, CallStep(c)
    PROVE  IncidentHasItem'
<1> SUFFICES ASSUME deskTask' = "incident"
             PROVE  incidents' \in items' \/ \E d \in Clients : Reopens(d)'
  BY DEF IncidentHasItem, Reopens
<1>1. deskTask = "incident" /\ incidents' = incidents
  BY DEF CallStep, MayWatch, MayPlan, MayResolve, ItemOpen, EpicOpen, Admit, Upstream, StepFails,
     Note, CloseItem, Load, RetryTask, CancelTask, CloseItems, CloseEpic, CreateRequest,
     PlannerAnswered, PlannerTimeout, RunPlanner, Authorize, Reads, deskLedger
<1>2. call[c].steps # <<>> /\ \A d \in Clients \ {c} : call'[d] = call[d]
  BY CallShapes DEF CallShape
<1>3. /\ Head(call[c].steps) = "close_items" => TaskOver
      /\ Head(call[c].steps) = "close_item" =>
             Tail(call[c].steps) # <<>> /\ Head(Tail(call[c].steps)) = "load"
      /\ Head(call[c].steps) = "load" =>
             Tail(call[c].steps) # <<>> /\ Head(Tail(call[c].steps)) = "retry"
  BY <1>2, HeadOrder
<1>4. CASE CloseItem(c)
  <2>1. /\ call'[c].steps = Tail(call[c].steps) /\ call'[c].item = call[c].item
        /\ items' = items \ {call[c].item} /\ Head(call[c].steps) = "close_item"
    BY <1>2, <1>4, GoesOn DEF CloseItem, At
  <2>2. call[c].item = incidents => Reopens(c)'
    BY <1>1, <1>3, <2>1 DEF Reopens, At
  <2>3. \A d \in Clients : Reopens(d) => Reopens(d)'
    BY <1>1, <1>2, <2>1 DEF Reopens, At
  <2> QED
    BY <1>1, <2>1, <2>2, <2>3 DEF IncidentHasItem, Reopens
<1>5. CASE Load(c)
  <2>1. /\ call'[c].steps = Tail(call[c].steps) /\ call'[c].item = call[c].item
        /\ items' = items /\ Head(call[c].steps) = "load"
    BY <1>1, <1>2, <1>5, GoesOn DEF Load, At, deskLedger
  <2>2. \A d \in Clients : Reopens(d) => Reopens(d)'
    BY <1>1, <1>2, <1>3, <2>1 DEF Reopens, At
  <2> QED
    BY <1>1, <2>1, <2>2 DEF IncidentHasItem, Reopens
<1>6. CASE ~CloseItem(c) /\ ~Load(c)
  <2>1. ~RetryTask(c)
    <3>1. deskTask' # "incident" \/ ~RetryTask(c)
      BY <1>1 DEF RetryTask
    <3> QED
      BY <3>1
  <2>2. ~CloseItems(c)
    BY <1>1, <1>3 DEF CloseItems, At, TaskOver
  <2>3. items' = items /\ ~At(c, "load") /\ ~At(c, "retry")
    BY <1>6, <2>1, <2>2 DEF CallStep, At, MayWatch, MayPlan, MayResolve, ItemOpen, EpicOpen,
       Admit, Upstream, StepFails, Note, CancelTask, CloseEpic, CreateRequest, PlannerAnswered,
       PlannerTimeout, RunPlanner, Authorize, Reads, deskLedger, Resolutions
  <2>4. \A d \in Clients : Reopens(d) => Reopens(d)'
    BY <1>1, <1>2, <2>3 DEF Reopens, At
  <2> QED
    BY <1>1, <2>3, <2>4 DEF IncidentHasItem, Reopens
<1> QED
  BY <1>4, <1>5, <1>6

LEMMA ItemStepwise ==
    ASSUME DeskAssumption, DeskTypeOK, StepsInOrder, Resolutions, IncidentHasItem,
           [DeskNext]_deskVars
    PROVE  IncidentHasItem'
<1>1. CASE Escalate
  BY <1>1 DEF Escalate, RigWrites, IncidentHasItem
<1>2. CASE TaskLands
  BY <1>2 DEF TaskLands, RigWrites, IncidentHasItem
<1>3. CASE StewardCloses \/ PlannerAnswers \/ UNCHANGED deskVars
  BY <1>3 DEF StewardCloses, PlannerAnswers, deskVars, IncidentHasItem, At
<1>4. ASSUME NEW c \in Clients, Call(c) PROVE IncidentHasItem'
  <2>1. /\ deskTask' = deskTask /\ incidents' = incidents /\ items' = items
        /\ call[c].steps = <<>> /\ \A d \in Clients \ {c} : call'[d] = call[d]
    BY <1>4, CallBegins
  <2>2. \A d \in Clients : Reopens(d) => Reopens(d)'
    BY <2>1 DEF Reopens, At
  <2> QED
    BY <2>1, <2>2 DEF IncidentHasItem, Reopens
<1> QED
  BY <1>1, <1>2, <1>3, <1>4, CallKeepsItem DEF DeskNext

-----------------------------------------------------------------------------
(* Desk: theorems.                                                         *)

\* The ledger and the calls of any number of clients keep their shapes (Call, RemoteError).
THEOREM DeskTypeCorrect == ASSUME DeskAssumption PROVE DeskSpec => []DeskTypeOK
<1>1. DeskInit => DeskTypeOK
  BY DeskInitTypes
<1>2. DeskTypeOK /\ [DeskNext]_deskVars => DeskTypeOK'
  BY DeskTypes
<1> QED
  BY <1>1, <1>2, PTL DEF DeskSpec

\* Whatever scopes clients hold and whichever commands fail, no call has changed what the scopes
\* of its client do not allow (authorize in service.rs, service_options.rs).
THEOREM ChangesAreGranted ==
    ASSUME DeskAssumption
    PROVE  DeskSpec => [](\A c \in Clients : \A what \in did[c] : Allows(c, Needed(what)))
<1>1. DeskInit => DeskInv
  BY DeskInitially
<1>2. DeskInv /\ [DeskNext]_deskVars => DeskInv'
  BY GrantedStepwise
<1>3. DeskInv => \A c \in Clients : \A what \in did[c] : Allows(c, Needed(what))
  <2> SUFFICES ASSUME DeskInv, NEW c \in Clients, NEW what \in did[c]
               PROVE  Allows(c, Needed(what))
    OBVIOUS
  <2>1. PICK scope \in {"plan", "resolve"} : Serves(c, scope)
    BY DEF DeskInv, CallsAreGranted
  <2> QED
    BY <2>1 DEF Serves
<1> QED
  BY <1>1, <1>2, <1>3, PTL DEF DeskSpec

\* And if whoever may change something may also watch, whoever is told Forbidden has changed
\* nothing: a call that is past its first change meets no scope its client lacks.
THEOREM ForbiddenIsHarmless ==
    ASSUME DeskAssumption, ChangersWatch
    PROVE  DeskSpec => []GrantedOnly
<1> DEFINE Inv == DeskInv /\ ForbiddenDidNothing
<1>1. DeskInit => Inv
  BY DeskInitially DEF DeskInit, NoCall, ForbiddenDidNothing
<1>2. Inv /\ [DeskNext]_deskVars => Inv'
  BY GrantedStepwise, ForbiddenStepwise
<1>3. Inv => GrantedOnly
  <2> SUFFICES ASSUME Inv, NEW c \in Clients
               PROVE  /\ \A what \in did[c] : Allows(c, Needed(what))
                      /\ call[c].answer = "forbidden" => did[c] = {}
    BY DEF GrantedOnly
  <2>1. PICK scope \in {"plan", "resolve"} : Serves(c, scope)
    BY DEF DeskInv, CallsAreGranted
  <2> QED
    BY <2>1 DEF Serves, ForbiddenDidNothing
<1> QED
  BY <1>1, <1>2, <1>3, PTL DEF DeskSpec

\* A task in incident stays where the operator sees it, however many clients resolve and cancel
\* at once and wherever a cancel is broken off, if no resolution is broken off between the close
\* of the item and the retry (resolve, cancel_task).
THEOREM IncidentKeepsItem ==
    ASSUME DeskAssumption, Resolutions
    PROVE  DeskSpec => []IncidentHasItem
<1> DEFINE Inv == DeskTypeOK /\ StepsInOrder /\ IncidentHasItem
<1>1. DeskInit => Inv
  BY DeskInitTypes DEF DeskInit, NoCall, StepsInOrder, IncidentHasItem
<1>2. Inv /\ [DeskNext]_deskVars => Inv'
  BY DeskTypes, OrderStepwise, ItemStepwise
<1>3. Inv => IncidentHasItem
  OBVIOUS
<1> QED
  BY <1>1, <1>2, <1>3, PTL DEF DeskSpec

-----------------------------------------------------------------------------
(* Ledger: what is written is read.                                        *)

\* What callers write as the metadata of a bead of a kind.
Given(kind) ==
    CASE kind = "epic" -> {{}}
      [] kind = "task" -> {{NewTask}, {Moved}}
      [] kind = "verify" -> {{}, {Checks}}
      [] kind = "merge" -> {{Branch}}
      [] kind = "plan_request" -> {{{}}, {{"rig/epic"}}}

LEMMA KindIsRead ==
    ASSUME NEW labels, NEW kind \in Kinds, labels \cap Kinds = {kind}
    PROVE  KindOf(labels) = kind
<1>1. Cardinality(labels \cap Kinds) = 1
    BY FS_Singleton
<1>2. \A k \in Kinds : k \in labels <=> k = kind
    OBVIOUS
<1>3. (CHOOSE k \in Kinds : k \in labels) = kind
    BY <1>2
<1> QED
    BY <1>1, <1>3 DEF KindOf

\* A bead whose metadata holds one raw value, which decodes to m.
LEMMA RawIsRead ==
    ASSUME NEW kind \in Kinds, NEW raw, NEW m, NEW b,
           KeyOf[kind] \in MetaKeys,
           Decoded(KeyOf[kind], raw) = m,
           ~Undecodable(KeyOf[kind], raw),
           DOMAIN b.metadata = {KeyOf[kind]}, b.metadata[KeyOf[kind]] = raw,
           b.labels \cap Kinds = {kind}
    PROVE  Read(b) = Typed(kind, {m})
<1> DEFINE key == KeyOf[kind]
<1>2. DOMAIN b.metadata = {key} /\ b.metadata[key] = raw
    OBVIOUS
<1>3. ~ \E k \in DOMAIN b.metadata : Undecodable(k, b.metadata[k])
    BY <1>2
<1>4. ASSUME NEW field \in {"kind"} \cup MetaKeys, field # "kind"
      PROVE  {Decoded(k, b.metadata[k]) : k \in {field} \cap DOMAIN b.metadata}
                 = IF field = key THEN {m} ELSE {}
    <2>1. CASE field = key
        <3>1. {field} \cap DOMAIN b.metadata = {key}
            BY <1>2, <2>1
        <3>2. Decoded(key, b.metadata[key]) = m
            BY <1>2
        <3> HIDE DEF key
        <3> QED
            BY <2>1, <3>1, <3>2
    <2>2. CASE field # key
        <3>1. {field} \cap DOMAIN b.metadata = {}
            BY <1>2, <2>2
        <3> HIDE DEF key
        <3> QED
            BY <2>2, <3>1
    <2> QED
        BY <2>1, <2>2
<1>5. KindOf(b.labels) = kind
    BY KindIsRead
<1>6. Read(b) = [field \in {"kind"} \cup MetaKeys |->
                    IF field = "kind" THEN kind ELSE IF field = key THEN {m} ELSE {}]
    BY <1>3, <1>4, <1>5 DEF Read
<1> QED
    BY <1>6 DEF Typed

\* The wire keeps a value that decodes to itself.
LEMMA ValueIsRead ==
    ASSUME NEW kind \in Kinds, NEW m, NEW b,
           KeyOf[kind] \in MetaKeys,
           Decoded(KeyOf[kind], Raw(kind, m)) = m,
           ~Undecodable(KeyOf[kind], Raw(kind, m)),
           b.metadata = Wrapped(kind, {m}), b.labels \cap Kinds = {kind}
    PROVE  Read(b) = Typed(kind, {m})
<1>1. (CHOOSE n \in {m} : TRUE) = m
    OBVIOUS
<1>2. {KeyOf[kind] : n \in {m}} = {KeyOf[kind]}
    OBVIOUS
<1>3. DOMAIN b.metadata = {KeyOf[kind]} /\ b.metadata[KeyOf[kind]] = Raw(kind, m)
    BY <1>1, <1>2 DEF Wrapped
<1> QED
    BY <1>3, RawIsRead

LEMMA NothingIsRead ==
    ASSUME NEW kind \in Kinds, NEW b,
           b.metadata = Wrapped(kind, {}), b.labels \cap Kinds = {kind}
    PROVE  Read(b) = Typed(kind, {})
<1>1. DOMAIN b.metadata = {}
    BY DEF Wrapped
<1>2. \A field : {Decoded(k, b.metadata[k]) : k \in {field} \cap DOMAIN b.metadata} = {}
    BY <1>1
<1>3. KindOf(b.labels) = kind
    BY KindIsRead
<1>4. Read(b) = [field \in {"kind"} \cup MetaKeys |-> IF field = "kind" THEN kind ELSE {}]
    BY <1>1, <1>2, <1>3 DEF Read
<1> QED
    BY <1>4 DEF Typed

\* What a caller writes is what a reader gets.
LEMMA WrittenIsRead ==
    ASSUME NEW kind \in Kinds, NEW meta \in Given(kind), NEW b,
           b.metadata = Wrapped(kind, meta), b.labels \cap Kinds = {kind}
    PROVE  Read(b) = Typed(kind, meta)
<1>1. CASE kind = "epic"
    BY <1>1, NothingIsRead DEF Given
<1>2. CASE kind = "task"
    <2>1. PICK m \in {NewTask, Moved} : meta = {m}
        BY <1>2 DEF Given
    <2>2. TaskMeta(RawTask(m)) = m /\ RawTask(m).version = Version
        <3>1. TaskMeta(RawTask(NewTask)) = NewTask /\ RawTask(NewTask).version = Version
            BY DEF TaskMeta, RawTask, NewTask, Default, Absent
        <3>2. TaskMeta(RawTask(Moved)) = Moved /\ RawTask(Moved).version = Version
            BY DEF TaskMeta, RawTask, Moved, Default, Absent
        <3> QED
            BY <2>1, <3>1, <3>2
    <2>3. KeyOf[kind] = "fac" /\ Raw(kind, m) = RawTask(m) /\ "fac" \in MetaKeys
        BY <1>2 DEF KeyOf, Raw, MetaKeys, Kinds, None
    <2>4. Decoded("fac", RawTask(m)) = m /\ ~Undecodable("fac", RawTask(m))
        BY <2>2 DEF Decoded, Undecodable
    <2> QED
        BY <2>1, <2>3, <2>4, ValueIsRead
<1>3. CASE kind = "verify"
    <2>1. meta = {} \/ meta = {Checks}
        BY <1>3 DEF Given
    <2>2. VerifyMeta(RawVerify(Checks)) = Checks
        <3>1. {"cargo test"} \ {"blank"} = {"cargo test"}
            OBVIOUS
        <3> QED
            BY <3>1 DEF VerifyMeta, RawVerify, Checks, Default, Absent
    <2>3. RawVerify(Checks).version = Version /\ Checks.commands # {}
        BY DEF RawVerify, Checks
    <2>4. /\ KeyOf[kind] = "fac_verify" /\ Raw(kind, Checks) = RawVerify(Checks)
          /\ "fac_verify" \in MetaKeys
        BY <1>3 DEF KeyOf, Raw, MetaKeys, Kinds, None
    <2>5. /\ Decoded("fac_verify", RawVerify(Checks)) = Checks
          /\ ~Undecodable("fac_verify", RawVerify(Checks))
        BY <2>2, <2>3 DEF Decoded, Undecodable
    <2> QED
        BY <2>1, <2>4, <2>5, ValueIsRead, NothingIsRead
<1>4. CASE kind = "merge"
    <2>1. meta = {Branch}
        BY <1>4 DEF Given
    <2>2. MergeMeta(RawMerge(Branch)) = Branch /\ RawMerge(Branch).version = Version
        BY DEF MergeMeta, RawMerge, Branch
    <2>3. /\ KeyOf[kind] = "fac_merge" /\ Raw(kind, Branch) = RawMerge(Branch)
          /\ "fac_merge" \in MetaKeys
        BY <1>4 DEF KeyOf, Raw, MetaKeys, Kinds, None
    <2>4. /\ Decoded("fac_merge", RawMerge(Branch)) = Branch
          /\ ~Undecodable("fac_merge", RawMerge(Branch))
        BY <2>2 DEF Decoded, Undecodable
    <2> QED
        BY <2>1, <2>3, <2>4, ValueIsRead
<1>5. CASE kind = "plan_request"
    <2>1. PICK m \in {{}, {"rig/epic"}} : meta = {m}
        BY <1>5 DEF Given
    <2>2. KeyOf[kind] = "fac_needs" /\ Raw(kind, m) = m /\ "fac_needs" \in MetaKeys
        BY <1>5 DEF KeyOf, Raw, MetaKeys, Kinds, None
    <2>3. Decoded("fac_needs", m) = m /\ ~Undecodable("fac_needs", m)
        BY DEF Decoded, Undecodable
    <2> QED
        BY <2>1, <2>2, <2>3, ValueIsRead
<1> QED
    BY <1>1, <1>2, <1>3, <1>4, <1>5 DEF Kinds

-----------------------------------------------------------------------------
(* Ledger: the invariant.                                                  *)

IsSeq(s) == \E S : s \in Seq(S)

\* t is s but for x at i.
Puts(s, t, i, x) ==
    /\ IsSeq(t) /\ Len(t) = Len(s) /\ t[i] = x
    /\ \A j \in 1..Len(s) : j # i => t[j] = s[j]

LEMMA Replacing ==
    ASSUME NEW s, IsSeq(s), NEW i \in 1..Len(s), NEW x
    PROVE  Puts(s, [s EXCEPT ![i] = x], i, x)
<1> DEFINE t == [s EXCEPT ![i] = x]
<1>1. PICK S : s \in Seq(S)
    BY DEF IsSeq
<1>2. s \in Seq(S \cup {x})
    <2>1. \A j \in 1..Len(s) : s[j] \in S
        BY <1>1
    <2> QED
        BY <1>1, <2>1, IsASeq, LenProperties
<1>3. t \in Seq(S \cup {x}) /\ Len(t) = Len(s) /\ t[i] = x
      /\ \A j \in 1..Len(s) : j # i => t[j] = s[j]
    BY <1>2, ExceptSeq, x \in S \cup {x}
<1> QED
    BY <1>3 DEF IsSeq, Puts

LEMMA Appending ==
    ASSUME NEW s, IsSeq(s), NEW x
    PROVE  LET t == Append(s, x) IN
           /\ Len(s) \in Nat
           /\ IsSeq(t) /\ Len(t) = Len(s) + 1 /\ t[Len(s) + 1] = x
           /\ \A j \in 1..Len(s) : t[j] = s[j]
<1>1. PICK S : s \in Seq(S)
    BY DEF IsSeq
<1>2. s \in Seq(S \cup {x})
    <2>1. \A j \in 1..Len(s) : s[j] \in S
        BY <1>1
    <2> QED
        BY <1>1, <2>1, IsASeq, LenProperties
<1>3. x \in S \cup {x}
    OBVIOUS
<1> QED
    BY <1>2, <1>3, AppendProperties DEF IsSeq

\* A bead of a ledger of n beads, as it is and as it was meant.  One that may be ready, now or
\* once it is given up, has every edge it was meant to have.
BeadIsTrue(b, m, n) ==
    /\ DOMAIN b = {"labels", "metadata", "needs", "holder", "status"}
    /\ DOMAIN m = {"typed", "needs"}
    /\ b.labels \subseteq Kinds \cup {Canceled}
    /\ DOMAIN b.metadata \subseteq MetaKeys
    /\ b.needs \subseteq 1..n
    /\ m.needs \subseteq 1..n
    /\ b.holder \in Callers \cup {None}
    /\ b.status \in {"open", "in_progress", "deferred", "closed"}
    /\ Read(b) = m.typed
    /\ m.typed.kind \in Kinds
    /\ b.labels \cap Kinds = {m.typed.kind}
    /\ b.status = "open" \/ b.holder # None \/ m.typed.kind # "task" => m.needs \subseteq b.needs

BeadsTrue ==
    /\ IsSeq(beads) /\ IsSeq(meant)
    /\ Len(meant) = Len(beads)
    /\ \A i \in Ids : BeadIsTrue(beads[i], meant[i], Len(beads))

\* A create still knows the edges its bead lacks.
CreatesTrue ==
    /\ creating \in [Callers -> [at : {"idle", "edges", "undefer"}, bead : Nat,
                                 edges : SUBSET Nat, deferred : BOOLEAN]]
    /\ \A c \in Callers :
           \/ creating[c] = NoCreate
           \/ LET i == creating[c].bead IN
              /\ i \in Ids
              /\ creating[c].edges \subseteq Ids
              /\ creating[c].at = "undefer" => creating[c].edges = {}
              /\ meant[i].needs \subseteq beads[i].needs \cup creating[c].edges

LedgerInv ==
    /\ Len(beads) <= MaxBeads
    /\ BeadsTrue
    /\ CreatesTrue
    /\ writes \in 0..MaxWrites /\ ledgerFaults \in 0..MaxLedgerFaults

LEMMA LedgerInvIsEnough ==
    ASSUME LedgerInv
    PROVE  LedgerTypeOK /\ ReadsAsMeant
<1> USE DEF LedgerInv
<1>1. LedgerTypeOK
    <2>1. ASSUME NEW c \in Callers
          PROVE  creating[c].bead \in Ids \cup {0} /\ creating[c].edges \subseteq Ids
        BY DEF CreatesTrue, NoCreate
    <2> QED
        BY <2>1 DEF LedgerTypeOK, BeadsTrue, BeadIsTrue, Ids
<1>2. ASSUME NEW i \in Ids
      PROVE  /\ Read(beads[i]) = meant[i].typed
             /\ \A k \in Kinds :
                    i \in ListActive(k) \cup ListDeferred(k) \cup ListClosed(k)
                        => meant[i].typed.kind = k
             /\ i \in Ready("task") => \A n \in meant[i].needs : ~IsOpen(n)
    <2> USE DEF Labelled
    <2>1. BeadIsTrue(beads[i], meant[i], Len(beads))
        BY DEF BeadsTrue
    <2>2. Read(beads[i]) = meant[i].typed
        BY <2>1 DEF BeadIsTrue
    <2>3. ASSUME NEW k \in Kinds, i \in ListActive(k) \cup ListDeferred(k) \cup ListClosed(k)
          PROVE  meant[i].typed.kind = k
        <3>1. k \in beads[i].labels \cap Kinds
            BY <2>3 DEF ListActive, ListDeferred, ListClosed
        <3> QED
            BY <2>1, <3>1 DEF BeadIsTrue
    <2>4. ASSUME i \in Ready("task"), NEW n \in meant[i].needs
          PROVE  ~IsOpen(n)
        <3>1. beads[i].status = "open" /\ ~Blocked(i)
            BY <2>4 DEF Ready
        <3>2. n \in beads[i].needs
            BY <2>1, <3>1 DEF BeadIsTrue
        <3> QED
            BY <3>1, <3>2 DEF Blocked
    <2> QED
        BY <2>2, <2>3, <2>4
<1>3. ReadsAsMeant
    BY <1>2 DEF ReadsAsMeant
<1> QED
    BY <1>1, <1>3

LEMMA TypedKind ==
    ASSUME NEW kind \in Kinds, NEW meta
    PROVE  Typed(kind, meta).kind = kind
    BY DEF Typed

\* A bead as `create` leaves it before its edges.
LEMMA FreshIsTrue ==
    ASSUME NEW kind \in Kinds, NEW meta, NEW metadata, NEW deferred \in BOOLEAN,
           NEW n \in Nat, NEW needs \in SUBSET (1..n),
           DOMAIN metadata \subseteq MetaKeys,
           Read(Bead({kind}, metadata, deferred)) = Typed(kind, meta),
           needs # {} => deferred /\ kind = "task"
    PROVE  BeadIsTrue(Bead({kind}, metadata, deferred),
                      [typed |-> Typed(kind, meta), needs |-> needs], n)
<1> DEFINE b == Bead({kind}, metadata, deferred)
           m == [typed |-> Typed(kind, meta), needs |-> needs]
<1>1. /\ DOMAIN b = {"labels", "metadata", "needs", "holder", "status"}
      /\ b.labels = {kind} /\ b.metadata = metadata /\ b.needs = {} /\ b.holder = None
      /\ b.status = IF deferred THEN "deferred" ELSE "open"
    BY DEF Bead
<1>2. DOMAIN m = {"typed", "needs"} /\ m.needs = needs /\ m.typed = Typed(kind, meta)
    OBVIOUS
<1>3. m.typed.kind = kind
    BY <1>2, TypedKind
<1>4. b.labels \cap Kinds = {m.typed.kind} /\ b.labels \subseteq Kinds \cup {Canceled}
    BY <1>1, <1>3
<1>5. Read(b) = m.typed
    BY <1>2
<1> HIDE DEF b, m
<1>6. b.status = "open" \/ b.holder # None \/ m.typed.kind # "task" => m.needs \subseteq b.needs
    BY <1>1, <1>2, <1>3
<1>7. BeadIsTrue(b, m, n)
    BY <1>1, <1>2, <1>3, <1>4, <1>5, <1>6 DEF BeadIsTrue
<1> QED
    BY <1>7 DEF b, m

\* What an older release left out reads as its default.
LEMMA OldTaskIsRead ==
    /\ DOMAIN OldTask.metadata \subseteq MetaKeys /\ OldTask.labels = {"task"}
    /\ \E m : OldTask.typed = Typed("task", {m})
    /\ Read(Bead({"task"}, OldTask.metadata, FALSE)) = OldTask.typed
<1>1. PICK raw : raw = [version |-> Version, budget |-> Absent, releases |-> Absent,
                        state |-> "open"]
    OBVIOUS
<1>2. PICK m : m = [budget |-> "three attempts", releases |-> "none", state |-> "open"]
    OBVIOUS
<1>3. /\ OldTask.labels = {"task"} /\ OldTask.metadata = [k \in {"fac"} |-> raw]
      /\ OldTask.typed = Typed("task", {m})
    BY <1>1, <1>2 DEF OldTask
<1>4. TaskMeta(raw) = m /\ raw.version = Version
    BY <1>1, <1>2 DEF TaskMeta, Default, Absent
<1>5. Decoded("fac", raw) = m /\ ~Undecodable("fac", raw)
    BY <1>4 DEF Decoded, Undecodable
<1>6. KeyOf["task"] = "fac" /\ "fac" \in MetaKeys /\ "task" \in Kinds
    BY DEF KeyOf, MetaKeys, Kinds, None
<1>7. PICK b : b = Bead({"task"}, OldTask.metadata, FALSE)
    OBVIOUS
<1>8. DOMAIN b.metadata = {"fac"} /\ b.metadata["fac"] = raw /\ b.labels \cap Kinds = {"task"}
    BY <1>3, <1>6, <1>7 DEF Bead
<1>9. Read(b) = Typed("task", {m})
    BY <1>5, <1>6, <1>8, RawIsRead
<1> QED
    BY <1>3, <1>6, <1>7, <1>9

LEMMA OldVerifyIsRead ==
    /\ DOMAIN OldVerify.metadata \subseteq MetaKeys /\ OldVerify.labels = {"verify"}
    /\ \E m : OldVerify.typed = Typed("verify", {m})
    /\ Read(Bead({"verify"}, OldVerify.metadata, FALSE)) = OldVerify.typed
<1>1. PICK raw : raw = [version |-> Version, commands |-> {"blank", "cargo test"},
                        timeout |-> Absent]
    OBVIOUS
<1>2. PICK m : m = [commands |-> {"cargo test"}, timeout |-> "20 minutes"]
    OBVIOUS
<1>3. /\ OldVerify.labels = {"verify"} /\ OldVerify.metadata = [k \in {"fac_verify"} |-> raw]
      /\ OldVerify.typed = Typed("verify", {m})
    BY <1>1, <1>2 DEF OldVerify
<1>4. VerifyMeta(raw) = m /\ raw.version = Version /\ m.commands # {}
    <2>1. {"blank", "cargo test"} \ {"blank"} = {"cargo test"}
        OBVIOUS
    <2> QED
        BY <1>1, <1>2, <2>1 DEF VerifyMeta, Default, Absent
<1>5. Decoded("fac_verify", raw) = m /\ ~Undecodable("fac_verify", raw)
    BY <1>4 DEF Decoded, Undecodable
<1>6. KeyOf["verify"] = "fac_verify" /\ "fac_verify" \in MetaKeys /\ "verify" \in Kinds
    BY DEF KeyOf, MetaKeys, Kinds, None
<1>7. PICK b : b = Bead({"verify"}, OldVerify.metadata, FALSE)
    OBVIOUS
<1>8. /\ DOMAIN b.metadata = {"fac_verify"} /\ b.metadata["fac_verify"] = raw
      /\ b.labels \cap Kinds = {"verify"}
    BY <1>3, <1>6, <1>7 DEF Bead
<1>9. Read(b) = Typed("verify", {m})
    BY <1>5, <1>6, <1>8, RawIsRead
<1> QED
    BY <1>3, <1>6, <1>7, <1>9

LEMMA LedgerInvInit == LedgerInit => LedgerInv
<1> SUFFICES ASSUME LedgerInit PROVE LedgerInv
    OBVIOUS
<1> USE DEF LedgerInit
<1>1. PICK old \in OldBeads :
          /\ beads = <<Bead(old.labels, old.metadata, FALSE)>>
          /\ meant = <<[typed |-> old.typed, needs |-> {}]>>
    OBVIOUS
<1>2. IsSeq(beads) /\ IsSeq(meant) /\ Len(beads) = 1 /\ Len(meant) = 1
    <2>1. ASSUME NEW x
          PROVE  IsSeq(<<x>>) /\ Len(<<x>>) = 1
        <3>1. <<x>> \in Seq({x}) /\ Len(<<x>>) = 1
            OBVIOUS
        <3> QED
            BY <3>1 DEF IsSeq
    <2> QED
        BY <1>1, <2>1
<1>3. BeadIsTrue(beads[1], meant[1], 1)
    <2>1. PICK kind \in {"task", "verify"} :
              /\ DOMAIN old.metadata \subseteq MetaKeys /\ old.labels = {kind}
              /\ \E m : old.typed = Typed(kind, {m})
              /\ Read(Bead({kind}, old.metadata, FALSE)) = old.typed
        BY OldTaskIsRead, OldVerifyIsRead DEF OldBeads
    <2>2. PICK m : old.typed = Typed(kind, {m})
        BY <2>1
    <2>3. kind \in Kinds /\ FALSE \in BOOLEAN /\ 1 \in Nat /\ {} \in SUBSET (1..1)
        BY DEF Kinds
    <2>4. BeadIsTrue(Bead({kind}, old.metadata, FALSE),
                     [typed |-> Typed(kind, {m}), needs |-> {}], 1)
        BY <2>1, <2>2, <2>3, FreshIsTrue
    <2> QED
        BY <1>1, <2>1, <2>2, <2>4
<1>4. BeadsTrue
    <2>1. Ids = {1}
        BY <1>2 DEF Ids
    <2> QED
        BY <1>2, <1>3, <2>1 DEF BeadsTrue
<1>5. CreatesTrue
    <2>1. NoCreate \in [at : {"idle", "edges", "undefer"}, bead : Nat, edges : SUBSET Nat,
                        deferred : BOOLEAN]
        BY DEF NoCreate
    <2> QED
        BY <2>1 DEF CreatesTrue
<1> QED
    BY <1>2, <1>4, <1>5, LedgerAssumption DEF LedgerInv

LEMMA WrittenKeys ==
    ASSUME NEW kind \in Kinds, NEW meta \in Given(kind)
    PROVE  DOMAIN Wrapped(kind, meta) \subseteq MetaKeys
<1>1. kind # "epic" => KeyOf[kind] \in MetaKeys
    BY DEF KeyOf, MetaKeys, Kinds, None
<1>2. kind = "epic" => meta = {}
    BY DEF Given
<1>3. DOMAIN Wrapped(kind, meta) = {KeyOf[kind] : m \in meta}
    BY DEF Wrapped
<1> QED
    BY <1>1, <1>2, <1>3

\* One bead is written.
LEMMA BeadChanges ==
    ASSUME BeadsTrue, NEW i \in Ids, NEW b, NEW m,
           beads' = [beads EXCEPT ![i] = b],
           Puts(meant, meant', i, m),
           BeadIsTrue(b, m, Len(beads))
    PROVE  /\ BeadsTrue' /\ Len(beads') = Len(beads) /\ Ids' = Ids
           /\ beads'[i] = b /\ \A j \in Ids : j # i => beads'[j] = beads[j]
<1>1. Puts(beads, beads', i, b)
    BY Replacing DEF BeadsTrue, Ids
<1>2. /\ IsSeq(beads') /\ Len(beads') = Len(beads) /\ beads'[i] = b
      /\ \A j \in 1..Len(beads) : j # i => beads'[j] = beads[j]
    BY <1>1 DEF Puts
<1>3. /\ IsSeq(meant') /\ Len(meant') = Len(meant) /\ meant'[i] = m
      /\ \A j \in 1..Len(meant) : j # i => meant'[j] = meant[j]
    BY DEF Puts
<1>4. ASSUME NEW j \in Ids
      PROVE  BeadIsTrue(beads'[j], meant'[j], Len(beads'))
    <2>1. BeadIsTrue(beads[j], meant[j], Len(beads)) /\ Len(meant) = Len(beads)
        BY DEF BeadsTrue
    <2>2. CASE j = i
        BY <1>2, <1>3, <2>2
    <2>3. CASE j # i
        <3>1. beads'[j] = beads[j] /\ meant'[j] = meant[j]
            BY <1>2, <1>3, <2>1, <2>3 DEF Ids
        <3> QED
            BY <1>2, <2>1, <3>1
    <2> QED
        BY <2>2, <2>3
<1>5. Ids' = Ids
    BY <1>2 DEF Ids
<1>6. Len(meant) = Len(beads)
    BY DEF BeadsTrue
<1>7. BeadsTrue'
    BY <1>2, <1>3, <1>4, <1>5, <1>6 DEF BeadsTrue
<1> QED
    BY <1>2, <1>5, <1>7 DEF Ids

LEMMA MeantStays ==
    ASSUME BeadsTrue, NEW i \in Ids, UNCHANGED meant
    PROVE  Puts(meant, meant', i, meant[i])
BY DEF BeadsTrue, Puts

\* The step of a call that is one command.
LEMMA WriteKeepsInv ==
    ASSUME LedgerInv, NEW i \in Ids, NEW b, NEW m,
           Writes(i, b),
           Puts(meant, meant', i, m),
           BeadIsTrue(b, m, Len(beads))
    PROVE  LedgerInv'
<1> USE DEF LedgerInv
<1>1. /\ beads' = [beads EXCEPT ![i] = b] /\ creating' = creating
      /\ \A c \in Callers : creating[c].bead # i
      /\ writes > 0 /\ writes' = writes - 1 /\ ledgerFaults' = ledgerFaults
    BY DEF Writes
<1>2. /\ BeadsTrue' /\ Len(beads') = Len(beads) /\ Ids' = Ids
      /\ \A j \in Ids : j # i => beads'[j] = beads[j]
    BY <1>1, BeadChanges
<1>3. CreatesTrue'
    <2>1. ASSUME NEW c \in Callers, creating[c] # NoCreate
          PROVE  LET j == creating[c].bead IN beads'[j] = beads[j] /\ meant'[j] = meant[j]
        <3>1. creating[c].bead \in Ids /\ creating[c].bead # i /\ Len(meant) = Len(beads)
            BY <1>1, <2>1 DEF CreatesTrue, BeadsTrue
        <3> QED
            BY <1>2, <3>1 DEF Puts, Ids
    <2> QED
        BY <1>1, <1>2, <2>1 DEF CreatesTrue
<1>4. writes' \in 0..MaxWrites
    BY <1>1, LedgerAssumption
<1> QED
    BY <1>1, <1>2, <1>3, <1>4

LEMMA SetsMetadataKeepsInv ==
    ASSUME LedgerInv, NEW i \in Ids, NEW kind \in Kinds, NEW m, {m} \in Given(kind),
           SetsMetadata(i, kind, m)
    PROVE  LedgerInv'
<1> DEFINE b == [beads[i] EXCEPT !.metadata = Wrapped(kind, {m})]
           n == [typed |-> Typed(kind, {m}), needs |-> meant[i].needs]
<1>1. /\ Writes(i, b) /\ meant[i].typed.kind = kind
      /\ meant' = [meant EXCEPT ![i] = n]
    BY DEF SetsMetadata, IsKind
<1>2. BeadIsTrue(beads[i], meant[i], Len(beads))
    BY DEF LedgerInv, BeadsTrue
<1>3. Puts(meant, meant', i, n)
    BY <1>1, Replacing DEF LedgerInv, BeadsTrue, Ids
<1>4. BeadIsTrue(b, n, Len(beads))
    <2>1. /\ DOMAIN b = DOMAIN beads[i] /\ b.metadata = Wrapped(kind, {m})
          /\ b.labels = beads[i].labels /\ b.needs = beads[i].needs
          /\ b.holder = beads[i].holder /\ b.status = beads[i].status
        BY <1>2 DEF BeadIsTrue
    <2>2. b.labels \cap Kinds = {kind}
        BY <1>1, <1>2, <2>1 DEF BeadIsTrue
    <2>3. Read(b) = Typed(kind, {m})
        BY <2>1, <2>2, WrittenIsRead
    <2>4. DOMAIN b.metadata \subseteq MetaKeys
        BY <2>1, WrittenKeys
    <2>5. n.typed.kind = kind /\ n.typed = Typed(kind, {m}) /\ n.needs = meant[i].needs
          /\ DOMAIN n = {"typed", "needs"}
        BY TypedKind
    <2> HIDE DEF b, n
    <2> QED
        BY <1>1, <1>2, <2>1, <2>2, <2>3, <2>4, <2>5 DEF BeadIsTrue
<1> HIDE DEF b, n
<1> QED
    BY <1>1, <1>3, <1>4, WriteKeepsInv

LEMMA ReadDependsOn ==
    ASSUME NEW b, NEW d, b.metadata = d.metadata, KindOf(b.labels) = KindOf(d.labels)
    PROVE  Read(b) = Read(d)
BY DEF Read

\* Commands that leave the kind and the metadata of a bead as they are.
LEMMA SameReading ==
    ASSUME NEW b, NEW d, NEW m, NEW e, NEW n,
           BeadIsTrue(b, m, n),
           DOMAIN d = DOMAIN b, DOMAIN e = DOMAIN m, e.typed = m.typed,
           d.metadata = b.metadata, d.labels \cap Kinds = b.labels \cap Kinds,
           d.labels \subseteq Kinds \cup {Canceled},
           d.needs \subseteq 1..n, e.needs \subseteq 1..n,
           d.holder \in Callers \cup {None},
           d.status \in {"open", "in_progress", "deferred", "closed"},
           d.status = "open" \/ d.holder # None \/ m.typed.kind # "task"
               => e.needs \subseteq d.needs
    PROVE  BeadIsTrue(d, e, n)
<1>1. KindOf(d.labels) = m.typed.kind /\ KindOf(b.labels) = m.typed.kind
    BY KindIsRead DEF BeadIsTrue
<1>2. Read(d) = Read(b)
    BY <1>1, ReadDependsOn
<1> QED
    BY <1>2 DEF BeadIsTrue

\* An edge is added, to what is meant too or not.
LEMMA EdgeIsTrue ==
    ASSUME NEW n, NEW b, NEW m, NEW to \in 1..n, BeadIsTrue(b, m, n)
    PROVE  /\ BeadIsTrue(WithNeed(b, to), m, n)
           /\ BeadIsTrue(WithNeed(b, to), WithNeed(m, to), n)
<1> DEFINE d == WithNeed(b, to)
           e == WithNeed(m, to)
<1>1. /\ DOMAIN d = DOMAIN b /\ d.needs = b.needs \cup {to} /\ d.metadata = b.metadata
      /\ d.labels = b.labels /\ d.holder = b.holder /\ d.status = b.status
    BY DEF WithNeed, BeadIsTrue
<1>2. DOMAIN e = DOMAIN m /\ e.needs = m.needs \cup {to} /\ e.typed = m.typed
    BY DEF WithNeed, BeadIsTrue
<1> HIDE DEF d, e
<1>3. /\ d.needs \subseteq 1..n /\ e.needs \subseteq 1..n /\ m.needs \subseteq 1..n
      /\ d.labels \subseteq Kinds \cup {Canceled} /\ d.holder \in Callers \cup {None}
      /\ d.status \in {"open", "in_progress", "deferred", "closed"}
    BY <1>1, <1>2 DEF BeadIsTrue
<1>4. d.status = "open" \/ d.holder # None \/ m.typed.kind # "task"
          => m.needs \subseteq d.needs /\ e.needs \subseteq d.needs
    BY <1>1, <1>2 DEF BeadIsTrue
<1>5. BeadIsTrue(d, m, n)
    BY <1>1, <1>3, <1>4, SameReading
<1>6. BeadIsTrue(d, e, n)
    BY <1>1, <1>2, <1>3, <1>4, SameReading
<1> QED
    BY <1>5, <1>6 DEF d, e

LEMMA StatusIsTrue ==
    ASSUME NEW n, NEW b, NEW m, NEW status \in {"open", "in_progress", "deferred", "closed"},
           BeadIsTrue(b, m, n),
           status = "open" => m.needs \subseteq b.needs
    PROVE  BeadIsTrue(WithStatus(b, status), m, n)
<1> DEFINE d == WithStatus(b, status)
<1>1. /\ DOMAIN d = DOMAIN b /\ d.needs = b.needs /\ d.metadata = b.metadata
      /\ d.labels = b.labels /\ d.holder = b.holder /\ d.status = status
    BY DEF WithStatus, BeadIsTrue
<1> HIDE DEF d
<1>2. /\ d.needs \subseteq 1..n /\ m.needs \subseteq 1..n
      /\ d.labels \subseteq Kinds \cup {Canceled} /\ d.holder \in Callers \cup {None}
    BY <1>1 DEF BeadIsTrue
<1>3. d.status = "open" \/ d.holder # None \/ m.typed.kind # "task" => m.needs \subseteq d.needs
    BY <1>1 DEF BeadIsTrue
<1>4. BeadIsTrue(d, m, n)
    BY <1>1, <1>2, <1>3, SameReading
<1> QED
    BY <1>4 DEF d

-----------------------------------------------------------------------------
(* Ledger: the steps.                                                      *)

\* What the roles create.
LEMMA NewBeadsAre ==
    ASSUME NEW kind \in Kinds, NEW new \in NewBeads(kind)
    PROVE  /\ new.kind = kind /\ new.meta \in Given(kind) /\ new.deferred \in BOOLEAN
           /\ new.needs \subseteq Ids
           /\ new.needs # {} => kind = "task"
<1>1. CASE kind = "epic"
    <2>1. new = [kind |-> kind, parent |-> {}, meta |-> {}, needs |-> {},
                 deferred |-> FALSE]
        BY <1>1 DEF NewBeads
    <2>2. {} \in Given(kind)
        BY <1>1 DEF Given
    <2> QED
        BY <2>1, <2>2
<1>2. CASE kind = "merge"
    <2>1. new = [kind |-> kind, parent |-> {}, meta |-> {Branch}, needs |-> {},
                 deferred |-> FALSE]
        BY <1>2 DEF NewBeads
    <2>2. {Branch} \in Given(kind)
        BY <1>2 DEF Given
    <2> QED
        BY <2>1, <2>2
<1>3. CASE kind = "plan_request"
    <2>1. new = [kind |-> kind, parent |-> {}, meta |-> {{"rig/epic"}}, needs |-> {},
                 deferred |-> TRUE]
        BY <1>3 DEF NewBeads
    <2>2. {{"rig/epic"}} \in Given(kind)
        BY <1>3 DEF Given
    <2> QED
        BY <2>1, <2>2
<1>4. CASE kind = "verify"
    <2>1. PICK e \in Ids : new = [kind |-> kind, parent |-> {e}, meta |-> {}, needs |-> {},
                                  deferred |-> FALSE]
        BY <1>4 DEF NewBeads
    <2>2. {} \in Given(kind)
        BY <1>4 DEF Given
    <2> QED
        BY <2>1, <2>2
<1>5. CASE kind = "task"
    <2>1. PICK e \in Ids,
               needs \in {{}} \cup {{t} : t \in {i \in Ids : meant[i].typed.kind = "task"}} :
              new = [kind |-> kind, parent |-> {e}, meta |-> {NewTask}, needs |-> needs,
                     deferred |-> FALSE]
        BY <1>5 DEF NewBeads
    <2>2. needs \subseteq Ids
        BY <2>1
    <2>3. {NewTask} \in Given(kind)
        BY <1>5 DEF Given
    <2> QED
        BY <1>5, <2>1, <2>2, <2>3
<1> QED
    BY <1>1, <1>2, <1>3, <1>4, <1>5 DEF Kinds

LEMMA CreateKeepsInv ==
    ASSUME LedgerInv, NEW c \in Callers, NEW kind \in Kinds, NEW new \in NewBeads(kind),
           Create(c, new)
    PROVE  LedgerInv'
<1> USE DEF LedgerInv
<1> DEFINE n == Len(beads) + 1
           deferred == new.needs # {} \/ new.deferred
           b == Bead({kind}, Wrapped(kind, new.meta), deferred)
           m == [typed |-> Typed(kind, new.meta), needs |-> new.needs]
<1>1. /\ new.kind = kind /\ new.meta \in Given(kind) /\ new.deferred \in BOOLEAN
      /\ new.needs \subseteq Ids
      /\ new.needs # {} => kind = "task"
    BY NewBeadsAre
<1>2. /\ Len(beads) < MaxBeads /\ creating[c] = NoCreate
      /\ beads' = Append(beads, b) /\ meant' = Append(meant, m)
      /\ writes' = writes /\ ledgerFaults' = ledgerFaults
    BY <1>1 DEF Create, Labels
<1>3. Len(meant) = Len(beads) /\ IsSeq(beads) /\ IsSeq(meant)
    BY DEF BeadsTrue
<1> HIDE DEF b, m
<1>4. /\ Len(beads) \in Nat /\ IsSeq(beads') /\ Len(beads') = n /\ beads'[n] = b
      /\ \A j \in 1..Len(beads) : beads'[j] = beads[j]
    BY <1>2, <1>3, Appending
<1>5. /\ IsSeq(meant') /\ Len(meant') = n /\ meant'[n] = m
      /\ \A j \in 1..Len(beads) : meant'[j] = meant[j]
    BY <1>2, <1>3, Appending
<1>6. BeadIsTrue(b, m, n)
    <2>1. n \in Nat /\ new.needs \in SUBSET (1..n) /\ deferred \in BOOLEAN
        BY <1>1, <1>4 DEF Ids
    <2>2. DOMAIN Wrapped(kind, new.meta) \subseteq MetaKeys
        BY <1>1, WrittenKeys
    <2>3. Read(b) = Typed(kind, new.meta)
        <3>1. b.metadata = Wrapped(kind, new.meta) /\ b.labels \cap Kinds = {kind}
            BY DEF b, Bead
        <3> QED
            BY <1>1, <3>1, WrittenIsRead
    <2>4. new.needs # {} => deferred /\ kind = "task"
        BY <1>1
    <2> HIDE DEF n, deferred
    <2> QED
        BY <2>1, <2>2, <2>3, <2>4, FreshIsTrue DEF b, m
<1>7. Ids' = 1..n /\ Ids = 1..Len(beads)
    BY <1>4 DEF Ids
<1>8. ASSUME NEW j \in Ids
      PROVE  BeadIsTrue(beads'[j], meant'[j], n)
    <2>1. BeadIsTrue(beads[j], meant[j], Len(beads))
        BY DEF BeadsTrue
    <2>2. 1..Len(beads) \subseteq 1..n
        BY <1>4
    <2>3. BeadIsTrue(beads[j], meant[j], n)
        BY <2>1, <2>2 DEF BeadIsTrue
    <2> QED
        BY <1>4, <1>5, <1>7, <2>3
<1>9. BeadsTrue'
    <2>1. \A j \in Ids' : BeadIsTrue(beads'[j], meant'[j], Len(beads'))
        BY <1>4, <1>5, <1>6, <1>7, <1>8
    <2> QED
        BY <1>4, <1>5, <2>1 DEF BeadsTrue
<1>10. CreatesTrue'
    <2> DEFINE made == [at |-> "edges", bead |-> n, edges |-> new.needs,
                        deferred |-> new.deferred]
    <2>1. \/ new.needs = {} /\ creating' = creating
          \/ creating' = [creating EXCEPT ![c] = made]
        BY DEF Create
    <2>2. made \in [at : {"idle", "edges", "undefer"}, bead : Nat, edges : SUBSET Nat,
                    deferred : BOOLEAN]
        BY <1>1, <1>4 DEF Ids
    <2>3. creating' \in [Callers -> [at : {"idle", "edges", "undefer"}, bead : Nat,
                                     edges : SUBSET Nat, deferred : BOOLEAN]]
        <3> HIDE DEF made
        <3> QED
            BY <2>1, <2>2 DEF CreatesTrue
    <2>4. ASSUME NEW d \in Callers, creating'[d] # NoCreate
          PROVE  LET i == creating'[d].bead IN
                 /\ i \in Ids'
                 /\ creating'[d].edges \subseteq Ids'
                 /\ creating'[d].at = "undefer" => creating'[d].edges = {}
                 /\ meant'[i].needs \subseteq beads'[i].needs \cup creating'[d].edges
        <3>1. CASE creating'[d] = creating[d]
            <4>1. LET i == creating[d].bead IN
                  /\ i \in Ids /\ creating[d].edges \subseteq Ids
                  /\ creating[d].at = "undefer" => creating[d].edges = {}
                  /\ meant[i].needs \subseteq beads[i].needs \cup creating[d].edges
                BY <2>4, <3>1 DEF CreatesTrue
            <4>2. Ids \subseteq Ids'
                BY <1>4, <1>7
            <4> QED
                BY <1>4, <1>5, <1>7, <3>1, <4>1, <4>2
        <3>2. CASE creating'[d] = made
            <4>1. m.needs = new.needs
                BY DEF m
            <4>2. n \in Ids' /\ new.needs \subseteq Ids'
                BY <1>1, <1>4, <1>7
            <4> QED
                BY <1>5, <3>2, <4>1, <4>2
        <3>3. creating'[d] = creating[d] \/ creating'[d] = made
            <4> HIDE DEF made
            <4> QED
                BY <2>1 DEF CreatesTrue
        <3> QED
            BY <3>1, <3>2, <3>3
    <2> QED
        BY <2>3, <2>4 DEF CreatesTrue
<1> QED
    BY <1>2, <1>4, <1>9, <1>10, LedgerAssumption

\* A command of a create, and what is left of the call after it.
LEMMA CreatingKeepsInv ==
    ASSUME LedgerInv, NEW c \in Callers, creating[c] # NoCreate,
           NEW b, BeadIsTrue(b, meant[creating[c].bead], Len(beads)),
           beads[creating[c].bead].needs \subseteq b.needs,
           beads' = [beads EXCEPT ![creating[c].bead] = b],
           NEW made \in [at : {"idle", "edges", "undefer"}, bead : Nat, edges : SUBSET Nat,
                         deferred : BOOLEAN],
           \/ made = NoCreate
           \/ /\ made.bead = creating[c].bead
              /\ made.edges \subseteq creating[c].edges
              /\ made.at = "undefer" => made.edges = {}
              /\ creating[c].edges \subseteq b.needs \cup made.edges,
           creating' = [creating EXCEPT ![c] = made],
           UNCHANGED <<meant, writes>>, ledgerFaults' \in 0..MaxLedgerFaults
    PROVE  LedgerInv'
<1> USE DEF LedgerInv
<1> DEFINE i == creating[c].bead
<1>1. /\ i \in Ids /\ creating[c].edges \subseteq Ids
      /\ meant[i].needs \subseteq beads[i].needs \cup creating[c].edges
    BY DEF CreatesTrue
<1>2. Puts(meant, meant', i, meant[i])
    BY <1>1, MeantStays
<1> HIDE DEF i
<1>3. /\ BeadsTrue' /\ Len(beads') = Len(beads) /\ Ids' = Ids
      /\ beads'[i] = b /\ \A j \in Ids : j # i => beads'[j] = beads[j]
    BY <1>1, <1>2, BeadChanges DEF i
<1>4. \A j \in Ids : beads[j].needs \subseteq beads'[j].needs
    BY <1>3 DEF i
<1>5. ASSUME NEW d \in Callers, creating'[d] # NoCreate
      PROVE  LET j == creating'[d].bead IN
             /\ j \in Ids'
             /\ creating'[d].edges \subseteq Ids'
             /\ creating'[d].at = "undefer" => creating'[d].edges = {}
             /\ meant'[j].needs \subseteq beads'[j].needs \cup creating'[d].edges
    <2>1. CASE d = c
        <3>1. creating'[d] = made /\ made # NoCreate
            BY <1>5, <2>1 DEF CreatesTrue
        <3>2. made.bead = i /\ made.edges \subseteq Ids
            BY <1>1, <3>1 DEF i
        <3>3. meant[i].needs \subseteq b.needs \cup made.edges
            BY <1>1, <3>1 DEF i
        <3> QED
            BY <1>1, <1>3, <3>1, <3>2, <3>3
    <2>2. CASE d # c
        <3>1. creating'[d] = creating[d]
            BY <2>2 DEF CreatesTrue
        <3>2. LET j == creating[d].bead IN
              /\ j \in Ids /\ creating[d].edges \subseteq Ids
              /\ creating[d].at = "undefer" => creating[d].edges = {}
              /\ meant[j].needs \subseteq beads[j].needs \cup creating[d].edges
            BY <1>5, <3>1 DEF CreatesTrue
        <3> QED
            BY <1>3, <1>4, <3>1, <3>2
    <2> QED
        BY <2>1, <2>2
<1>6. creating' \in [Callers -> [at : {"idle", "edges", "undefer"}, bead : Nat,
                                 edges : SUBSET Nat, deferred : BOOLEAN]]
    BY DEF CreatesTrue
<1>7. CreatesTrue'
    BY <1>5, <1>6 DEF CreatesTrue
<1> QED
    BY <1>3, <1>7

LEMMA NoCreateIsOne ==
    NoCreate \in [at : {"idle", "edges", "undefer"}, bead : Nat, edges : SUBSET Nat,
                  deferred : BOOLEAN]
BY DEF NoCreate

LEMMA EdgeKeepsInv ==
    ASSUME LedgerInv, NEW c \in Callers, Edge(c)
    PROVE  LedgerInv'
<1> DEFINE i == creating[c].bead
<1>1. PICK n \in creating[c].edges :
          /\ beads' = [beads EXCEPT ![i] = WithNeed(beads[i], n)]
          /\ creating' = [creating EXCEPT ![c] = Left(creating[c], n)]
    BY DEF Edge
<1>2. creating[c].at = "edges" /\ creating[c] # NoCreate
    BY DEF Edge, NoCreate
<1>3. /\ i \in Ids /\ n \in 1..Len(beads)
      /\ creating[c] \in [at : {"idle", "edges", "undefer"}, bead : Nat, edges : SUBSET Nat,
                          deferred : BOOLEAN]
    BY <1>1, <1>2 DEF LedgerInv, CreatesTrue, Ids
<1>4. BeadIsTrue(beads[i], meant[i], Len(beads))
    BY <1>3 DEF LedgerInv, BeadsTrue
<1>5. /\ BeadIsTrue(WithNeed(beads[i], n), meant[i], Len(beads))
      /\ WithNeed(beads[i], n).needs = beads[i].needs \cup {n}
    <2>1. PICK d, m : d = beads[i] /\ m = meant[i]
        OBVIOUS
    <2>2. BeadIsTrue(d, m, Len(beads))
        BY <1>4, <2>1
    <2>3. BeadIsTrue(WithNeed(d, n), m, Len(beads))
        BY <1>3, <2>2, EdgeIsTrue
    <2>4. WithNeed(d, n).needs = d.needs \cup {n}
        BY <2>2 DEF WithNeed, BeadIsTrue
    <2> QED
        BY <2>1, <2>3, <2>4
<1>6. PICK made : made = Left(creating[c], n)
    OBVIOUS
<1>7. made \in [at : {"idle", "edges", "undefer"}, bead : Nat, edges : SUBSET Nat,
                deferred : BOOLEAN]
    BY <1>3, <1>6, NoCreateIsOne DEF Left
<1>8. \/ made = NoCreate
      \/ /\ made.bead = i /\ made.edges = creating[c].edges \ {n}
         /\ made.at = "undefer" => made.edges = {}
    BY <1>2, <1>3, <1>6 DEF Left
<1>9. PICK b : b = WithNeed(beads[i], n)
    OBVIOUS
<1>10. /\ BeadIsTrue(b, meant[i], Len(beads)) /\ beads[i].needs \subseteq b.needs
       /\ made # NoCreate => creating[c].edges \subseteq b.needs \cup made.edges
       /\ made.edges \subseteq creating[c].edges \/ made = NoCreate
    BY <1>5, <1>8, <1>9
<1>11. UNCHANGED <<meant, writes>> /\ ledgerFaults' \in 0..MaxLedgerFaults
    BY DEF Edge, LedgerInv
<1> QED
    BY <1>1, <1>2, <1>6, <1>7, <1>8, <1>9, <1>10, <1>11, CreatingKeepsInv

\* A create that is done, or is not finished.
LEMMA EndKeepsInv ==
    ASSUME LedgerInv, NEW c \in Callers, creating[c] # NoCreate,
           creating' = [creating EXCEPT ![c] = NoCreate],
           UNCHANGED <<meant, writes>>, ledgerFaults' \in 0..MaxLedgerFaults,
           LET i == creating[c].bead IN
           \/ beads' = beads
           \/ /\ creating[c].at = "edges"
              /\ \E n \in creating[c].edges :
                     beads' = [beads EXCEPT ![i] = WithNeed(beads[i], n)]
           \/ /\ creating[c].at = "undefer"
              /\ beads' = [beads EXCEPT ![i] = WithStatus(beads[i], "open")]
    PROVE  LedgerInv'
<1> DEFINE i == creating[c].bead
<1>1. /\ i \in Ids /\ creating[c].edges \subseteq 1..Len(beads)
      /\ creating[c].at = "undefer" => creating[c].edges = {}
      /\ meant[i].needs \subseteq beads[i].needs \cup creating[c].edges
    BY DEF LedgerInv, CreatesTrue, Ids
<1>2. BeadIsTrue(beads[i], meant[i], Len(beads))
    BY <1>1 DEF LedgerInv, BeadsTrue
<1>3. CASE beads' = beads
    <2>1. Ids' = Ids /\ BeadsTrue'
        BY <1>3 DEF Ids, LedgerInv, BeadsTrue
    <2>2. CreatesTrue'
        BY <1>3, <2>1, NoCreateIsOne DEF LedgerInv, CreatesTrue
    <2> QED
        BY <1>3, <2>1, <2>2 DEF LedgerInv
<1>4. CASE \E n \in creating[c].edges : beads' = [beads EXCEPT ![i] = WithNeed(beads[i], n)]
    <2>1. PICK n \in creating[c].edges : beads' = [beads EXCEPT ![i] = WithNeed(beads[i], n)]
        BY <1>4
    <2>2. PICK b : b = WithNeed(beads[i], n)
        OBVIOUS
    <2>3. BeadIsTrue(b, meant[i], Len(beads)) /\ beads[i].needs \subseteq b.needs
        <3>1. n \in 1..Len(beads)
            BY <1>1
        <3>2. PICK d, m : d = beads[i] /\ m = meant[i]
            OBVIOUS
        <3>3. BeadIsTrue(d, m, Len(beads))
            BY <1>2, <3>2
        <3>4. BeadIsTrue(WithNeed(d, n), m, Len(beads))
            BY <3>1, <3>3, EdgeIsTrue
        <3>5. WithNeed(d, n).needs = d.needs \cup {n}
            BY <3>3 DEF WithNeed, BeadIsTrue
        <3> QED
            BY <2>2, <3>2, <3>4, <3>5
    <2> QED
        BY <2>1, <2>2, <2>3, CreatingKeepsInv, NoCreateIsOne
<1>5. CASE creating[c].at = "undefer" /\ beads' = [beads EXCEPT ![i] = WithStatus(beads[i], "open")]
    <2>1. PICK b : b = WithStatus(beads[i], "open")
        OBVIOUS
    <2>2. BeadIsTrue(b, meant[i], Len(beads))
        BY <1>1, <1>2, <1>5, <2>1, StatusIsTrue
    <2>3. beads[i].needs \subseteq b.needs
        BY <1>2, <2>1 DEF WithStatus, BeadIsTrue
    <2> QED
        BY <1>5, <2>1, <2>2, <2>3, CreatingKeepsInv, NoCreateIsOne
<1> QED
    BY <1>3, <1>4, <1>5

LEMMA UndeferKeepsInv ==
    ASSUME LedgerInv, NEW c \in Callers, Undefer(c)
    PROVE  LedgerInv'
<1>1. creating[c] # NoCreate /\ ledgerFaults' \in 0..MaxLedgerFaults
    BY DEF Undefer, NoCreate, LedgerInv
<1> QED
    BY <1>1, EndKeepsInv DEF Undefer

LEMMA BreaksOffKeepsInv ==
    ASSUME LedgerInv, NEW c \in Callers, CreateBreaksOff(c)
    PROVE  LedgerInv'
<1>1. ledgerFaults' \in 0..MaxLedgerFaults
    BY LedgerAssumption DEF CreateBreaksOff, LedgerInv
<1> QED
    BY <1>1, EndKeepsInv DEF CreateBreaksOff

LEMMA SetMetaKeepsInv ==
    ASSUME LedgerInv, NEW i \in Ids, SetMeta(i) \/ SetVerify(i) \/ SetNeeds(i)
    PROVE  LedgerInv'
<1>1. CASE SetMeta(i)
    <2>1. PICK m \in {NewTask, Moved} : SetsMetadata(i, "task", m)
        BY <1>1 DEF SetMeta
    <2>2. "task" \in Kinds /\ {m} \in Given("task")
        BY DEF Kinds, Given
    <2> QED
        BY <2>1, <2>2, SetsMetadataKeepsInv
<1>2. CASE SetVerify(i)
    <2>1. "verify" \in Kinds /\ {Checks} \in Given("verify")
        BY DEF Kinds, Given
    <2> QED
        BY <1>2, <2>1, SetsMetadataKeepsInv DEF SetVerify
<1>3. CASE SetNeeds(i)
    <2>1. "plan_request" \in Kinds /\ {{}} \in Given("plan_request")
        BY DEF Kinds, Given
    <2> QED
        BY <1>3, <2>1, SetsMetadataKeepsInv DEF SetNeeds
<1> QED
    BY <1>1, <1>2, <1>3

LEMMA AddNeedsKeepsInv ==
    ASSUME LedgerInv, NEW i \in Ids, NEW n \in Ids, AddNeeds(i, n)
    PROVE  LedgerInv'
<1>1. BeadIsTrue(beads[i], meant[i], Len(beads)) /\ n \in 1..Len(beads)
    BY DEF LedgerInv, BeadsTrue, Ids
<1>2. BeadIsTrue(WithNeed(beads[i], n), WithNeed(meant[i], n), Len(beads))
    BY <1>1, EdgeIsTrue
<1>3. Puts(meant, meant', i, WithNeed(meant[i], n))
    BY Replacing DEF LedgerInv, BeadsTrue, Ids, AddNeeds
<1> QED
    BY <1>2, <1>3, WriteKeepsInv DEF AddNeeds

\* A command that changes the bead only.
LEMMA ShownKeepsInv ==
    ASSUME LedgerInv, NEW i \in Ids, NEW b, Writes(i, b), UNCHANGED meant,
           BeadIsTrue(b, meant[i], Len(beads))
    PROVE  LedgerInv'
<1>1. Puts(meant, meant', i, meant[i])
    BY MeantStays DEF LedgerInv
<1> QED
    BY <1>1, WriteKeepsInv

LEMMA ReleaseRequestKeepsInv ==
    ASSUME LedgerInv, NEW i \in Ids, ReleaseRequest(i)
    PROVE  LedgerInv'
<1>1. BeadIsTrue(beads[i], meant[i], Len(beads))
    BY DEF LedgerInv, BeadsTrue
<1>2. meant[i].needs \subseteq beads[i].needs
    BY <1>1 DEF ReleaseRequest, IsKind, BeadIsTrue
<1>3. BeadIsTrue(WithStatus(beads[i], "open"), meant[i], Len(beads))
    BY <1>1, <1>2, StatusIsTrue
<1> QED
    BY <1>3, ShownKeepsInv DEF ReleaseRequest

LEMMA CloseKeepsInv ==
    ASSUME LedgerInv, NEW i \in Ids, Close(i)
    PROVE  LedgerInv'
<1>1. BeadIsTrue(beads[i], meant[i], Len(beads))
    BY DEF LedgerInv, BeadsTrue
<1>2. BeadIsTrue(WithStatus(beads[i], "closed"), meant[i], Len(beads))
    BY <1>1, StatusIsTrue
<1> QED
    BY <1>2, ShownKeepsInv DEF Close

LEMMA LabelKeepsInv ==
    ASSUME LedgerInv, NEW i \in Ids, Label(i)
    PROVE  LedgerInv'
<1> DEFINE b == [beads[i] EXCEPT !.labels = @ \cup {Canceled}]
<1>1. BeadIsTrue(beads[i], meant[i], Len(beads))
    BY DEF LedgerInv, BeadsTrue
<1>2. /\ DOMAIN b = DOMAIN beads[i] /\ b.metadata = beads[i].metadata
      /\ b.labels = beads[i].labels \cup {Canceled} /\ b.needs = beads[i].needs
      /\ b.holder = beads[i].holder /\ b.status = beads[i].status
    BY <1>1 DEF BeadIsTrue
<1>3. Canceled \notin Kinds
    BY DEF Canceled, Kinds
<1>4. Writes(i, b) /\ UNCHANGED meant
    BY DEF Label
<1> HIDE DEF b
<1>5. b.labels \cap Kinds = beads[i].labels \cap Kinds
    BY <1>2, <1>3
<1>6. /\ b.labels \subseteq Kinds \cup {Canceled}
      /\ b.needs \subseteq 1..Len(beads) /\ meant[i].needs \subseteq 1..Len(beads)
      /\ b.holder \in Callers \cup {None}
      /\ b.status \in {"open", "in_progress", "deferred", "closed"}
      /\ b.status = "open" \/ b.holder # None \/ meant[i].typed.kind # "task"
             => meant[i].needs \subseteq b.needs
    BY <1>1, <1>2 DEF BeadIsTrue
<1>7. BeadIsTrue(b, meant[i], Len(beads))
    BY <1>1, <1>2, <1>5, <1>6, SameReading
<1> QED
    BY <1>4, <1>7, ShownKeepsInv

LEMMA ClaimsKeepInv ==
    ASSUME LedgerInv, NEW i \in Ids,
           (\E c \in Callers : TryClaim(c, i)) \/ Unclaim(i)
    PROVE  LedgerInv'
<1>1. BeadIsTrue(beads[i], meant[i], Len(beads))
    BY DEF LedgerInv, BeadsTrue
<1>2. PICK holder \in Callers \cup {None}, status \in {"open", "in_progress"} :
          /\ Writes(i, [beads[i] EXCEPT !.holder = holder, !.status = status])
          /\ UNCHANGED meant
          /\ beads[i].status = "open" \/ beads[i].holder # None
    BY DEF TryClaim, Unclaim, Ready
<1> DEFINE b == [beads[i] EXCEPT !.holder = holder, !.status = status]
<1>3. /\ DOMAIN b = DOMAIN beads[i] /\ b.metadata = beads[i].metadata
      /\ b.labels = beads[i].labels /\ b.needs = beads[i].needs
      /\ b.holder = holder /\ b.status = status
    BY <1>1 DEF BeadIsTrue
<1>4. Writes(i, b)
    BY <1>2
<1> HIDE DEF b
<1>5. /\ b.labels \subseteq Kinds \cup {Canceled}
      /\ b.needs \subseteq 1..Len(beads) /\ meant[i].needs \subseteq 1..Len(beads)
      /\ b.holder \in Callers \cup {None}
      /\ b.status \in {"open", "in_progress", "deferred", "closed"}
      /\ meant[i].needs \subseteq b.needs
    BY <1>1, <1>2, <1>3 DEF BeadIsTrue
<1>6. BeadIsTrue(b, meant[i], Len(beads))
    BY <1>1, <1>3, <1>5, SameReading
<1> QED
    BY <1>2, <1>4, <1>6, ShownKeepsInv

LEMMA LedgerInvNext ==
    ASSUME LedgerInv, [LedgerNext]_ledgerVars
    PROVE  LedgerInv'
<1>1. CASE \E c \in Callers, kind \in Kinds : \E new \in NewBeads(kind) : Create(c, new)
    BY <1>1, CreateKeepsInv
<1>2. CASE \E c \in Callers : Edge(c)
    BY <1>2, EdgeKeepsInv
<1>3. CASE \E c \in Callers : Undefer(c)
    BY <1>3, UndeferKeepsInv
<1>4. CASE \E c \in Callers : CreateBreaksOff(c)
    BY <1>4, BreaksOffKeepsInv
<1>5. CASE \E i \in Ids : (\E c \in Callers : TryClaim(c, i)) \/ Unclaim(i)
    BY <1>5, ClaimsKeepInv
<1>6. CASE \E i \in Ids : SetMeta(i) \/ SetVerify(i) \/ SetNeeds(i)
    BY <1>6, SetMetaKeepsInv
<1>7. CASE \E i \in Ids, n \in Ids : AddNeeds(i, n)
    BY <1>7, AddNeedsKeepsInv
<1>8. CASE \E i \in Ids : ReleaseRequest(i)
    BY <1>8, ReleaseRequestKeepsInv
<1>9. CASE \E i \in Ids : Label(i)
    BY <1>9, LabelKeepsInv
<1>10. CASE \E i \in Ids : Close(i)
    BY <1>10, CloseKeepsInv
<1>11. CASE UNCHANGED ledgerVars
    BY <1>11 DEF ledgerVars, LedgerInv, BeadsTrue, CreatesTrue, Ids
<1> QED
    BY <1>1, <1>2, <1>3, <1>4, <1>5, <1>6, <1>7, <1>8, <1>9, <1>10, <1>11 DEF LedgerNext

LEMMA LedgerKeepsInv == LedgerSpec => []LedgerInv
<1>1. LedgerInv /\ [LedgerNext]_ledgerVars => LedgerInv'
    BY LedgerInvNext
<1> QED
    BY LedgerInvInit, <1>1, PTL DEF LedgerSpec

-----------------------------------------------------------------------------
(* Ledger: the theorems.                                                   *)

\* The ledger keeps its shape (RawBead, BeadStatus).
THEOREM LedgerTypeCorrect == LedgerSpec => []LedgerTypeOK
<1>1. LedgerInv => LedgerTypeOK
    BY LedgerInvIsEnough
<1> QED
    BY LedgerKeepsInv, <1>1, PTL

\* The ledger reads as it was meant, for any number of callers, beads, commands and failures,
\* wherever in a create they strike: the last write of a bead is what its reader gets, a listing
\* by kind holds that kind only, and no task is ready while one it was created to need is open
\* (create, set_meta, TryFrom<RawBead>).
THEOREM LedgerReadsAsMeant == LedgerSpec => []ReadsAsMeant
<1>1. LedgerInv => ReadsAsMeant
    BY LedgerInvIsEnough
<1> QED
    BY LedgerKeepsInv, <1>1, PTL
=============================================================================
