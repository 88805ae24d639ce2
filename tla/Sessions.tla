-------------------------------- MODULE Sessions -------------------------------
(***************************************************************************)
(* An agent's session and the role around it: the worker's, in the task's  *)
(* worktree, and the planner's, in the main checkout, under one of the     *)
(* harnesses (crates/infra/src/claude.rs, opencode.rs, codex.rs), confined *)
(* to what it may write (confine.rs).  A session may edit, commit, write   *)
(* why it is blocked, answer, fail, be refused by the provider, be out of  *)
(* time or lose its lease; the role may die at any point, and leaves what  *)
(* lies where it ran.                                                      *)
(*                                                                         *)
(* A file is known by the session that wrote it.  One session runs at a    *)
(* time: a worker and a planner share no directory, and two holders of one *)
(* task are the business of module Rig.                                    *)
(***************************************************************************)
EXTENDS Naturals, FiniteSets

CONSTANTS
    Harnesses,         \* HarnessKind: a subset of {"claude", "opencode", "codex"}
    MaxSessions,       \* bound: sessions, numbered from 1
    MaxSessionFaults,  \* bound: failed steps and deaths of a role
    SessionFailAt      \* where they may happen

SessionsAssumption ==
    /\ Harnesses \subseteq {"claude", "opencode", "codex"}
    /\ MaxSessions \in Nat
    /\ MaxSessionFaults \in Nat

VARIABLES
    harness,       \* --harness: what the rig's roles run their sessions with
    task,          \* "ready", "held" or "submitted"
    request,       \* the plan request: "open" or "closed"
    resume,        \* the task's notes have a `resume-from` marker
    tree,          \* the files at the task's worktree path, Clean when nothing is there
    branch,        \* the files of the task branch's head
    checkout,      \* the files of the main checkout that git does not track
    session,       \* the session that runs and where its role is
    started,       \* sessions so far
    result,        \* history: what the last session to conclude came to
    sessionFaults  \* faults left to happen

directories == <<tree, branch, checkout>>
sessionLedger == <<task, request, resume>>
sessionsVars == <<harness, sessionLedger, directories, session, started, result, sessionFaults>>

Numbers == 1..MaxSessions

\* What a directory may hold besides the project: Codex's scratch directory and the last
\* message in it, the note of a blocked agent, and the edits of sessions.  0 is no file.
Files == [scratch : BOOLEAN, last : 0..MaxSessions, note : 0..MaxSessions, work : SUBSET Numbers]
Clean == [scratch |-> FALSE, last |-> 0, note |-> 0, work |-> {}]

\* `moved`: the branch's head is not where the session's checkout began.
\* `outcome`: what the harness returned: "ok", "error", "refused" (ProviderStop) or "none"
\* (an Err); `answer`: whose words it took; `blocked`: whose note was found.
NoSession ==
    [role |-> "none", at |-> "idle", moved |-> FALSE, ends |-> "none", outcome |-> "none",
     answer |-> 0, blocked |-> 0, resumed |-> FALSE]

NoResult ==
    [number |-> 0, did |-> "none", ends |-> "none", answer |-> 0, blocked |-> 0,
     resumed |-> FALSE, files |-> Clean]

SessionsInit ==
    /\ harness \in Harnesses
    /\ task = "ready"
    /\ request = "open"
    /\ resume = FALSE
    /\ tree = Clean
    /\ branch = Clean
    /\ checkout = Clean
    /\ session = NoSession
    /\ started = 0
    /\ result = NoResult
    /\ sessionFaults = MaxSessionFaults

SessionFault(at) ==
    /\ at \in SessionFailAt
    /\ sessionFaults > 0
    /\ sessionFaults' = sessionFaults - 1

RoleAt(role, at) == session.role = role /\ session.at = at
SessionGoes(at) == session' = [session EXCEPT !.at = at]

-----------------------------------------------------------------------------
(* What a session is given.                                                *)

\* The tools of a role: the worker's agents have all, the planner's may look.
Tools(role) == IF role = "worker" THEN "full" ELSE "read_only"

\* writable_for: a worktree and the refs of its branch; of the main checkout nothing but the
\* scratch directory the harness names.
Writable(role) ==
    (IF role = "worker" THEN {"directory", "refs"} ELSE {})
    \cup (IF harness = "codex" THEN {"scratch"} ELSE {})

\* The agent may write there.
May(place) == Tools(session.role) = "full" /\ place \in Writable(session.role)

\* The files in the directory the session runs in, and their change.
Here == IF session.role = "worker" THEN tree ELSE checkout
Leaves(f) ==
    IF session.role = "worker" THEN tree' = f /\ UNCHANGED checkout
    ELSE checkout' = f /\ UNCHANGED tree

-----------------------------------------------------------------------------
(* The role before the session.                                            *)

\* work_once claims the task; a marker in its notes has it go on from its own branch.
Claim ==
    /\ session = NoSession /\ task = "ready" /\ started < MaxSessions
    /\ task' = "held"
    /\ started' = started + 1
    /\ session' = [NoSession EXCEPT !.role = "worker", !.at = "cut", !.resumed = resume]
    /\ UNCHANGED <<harness, request, resume, directories, result, sessionFaults>>

\* branch_worktree: what was left at the path goes, the branch begins anew at its base.
Cut ==
    /\ RoleAt("worker", "cut")
    /\ branch' = IF session.resumed THEN branch ELSE Clean
    /\ tree' = branch'
    /\ SessionGoes("mcp")
    /\ UNCHANGED <<harness, sessionLedger, checkout, started, result, sessionFaults>>

\* plan_queued_once takes the request and plans in the main checkout.
TakeRequest ==
    /\ session = NoSession /\ request = "open" /\ started < MaxSessions
    /\ started' = started + 1
    /\ session' = [NoSession EXCEPT !.role = "planner", !.at = "start"]
    /\ UNCHANGED <<harness, sessionLedger, directories, result, sessionFaults>>

\* The task's packet cannot be read or the worktree is refused: the worker gives up.
CutFails ==
    /\ RoleAt("worker", "cut")
    /\ SessionFault("cut")
    /\ session' = NoSession
    /\ UNCHANGED <<harness, sessionLedger, directories, started, result>>

\* McpConfig::load of the checkout; a file that is no configuration is noted on the task and
\* left out, and a note that cannot be written leaves the worktree where it is.
ReadMcp ==
    /\ RoleAt("worker", "mcp")
    /\ \/ SessionGoes("start") /\ UNCHANGED sessionFaults
       \/ session' = NoSession /\ SessionFault("mcp")
    /\ UNCHANGED <<harness, sessionLedger, directories, started, result>>

\* The program does not start, or its server does not become healthy.
StartFails ==
    /\ session.at = "start"
    /\ SessionFault("start")
    /\ session' = [session EXCEPT !.at = "ended", !.outcome = "none"]
    /\ UNCHANGED <<harness, sessionLedger, directories, started, result>>

-----------------------------------------------------------------------------
(* The session.                                                            *)

\* Mutant of StartCodex: the directory is used as it is.
StartCodexOver ==
    /\ session.at = "start" /\ harness = "codex"
    /\ Leaves([Here EXCEPT !.scratch = TRUE])
    /\ SessionGoes("run")
    /\ UNCHANGED <<harness, sessionLedger, branch, started, result, sessionFaults>>

\* CodexCli::run makes its scratch directory and removes the message of an earlier run.
StartCodex ==
    /\ session.at = "start" /\ harness = "codex"
    /\ Leaves([Here EXCEPT !.scratch = TRUE, !.last = 0])
    /\ SessionGoes("run")
    /\ UNCHANGED <<harness, sessionLedger, branch, started, result, sessionFaults>>

\* `claude -p` is given its tools, its turns and its budget.
StartClaude ==
    /\ session.at = "start" /\ harness = "claude"
    /\ SessionGoes("run")
    /\ UNCHANGED <<harness, sessionLedger, directories, started, result, sessionFaults>>

\* An OpenCode server on a free port, once it is healthy.
StartOpencode ==
    /\ session.at = "start" /\ harness = "opencode"
    /\ SessionGoes("run")
    /\ UNCHANGED <<harness, sessionLedger, directories, started, result, sessionFaults>>

\* The agent edits files, commits them by itself though it is told not to, writes
\* FACTORY_BLOCKED.md.
Edit ==
    /\ session.at = "run" /\ May("directory")
    /\ tree' = [tree EXCEPT !.work = @ \cup {started}]
    /\ UNCHANGED <<harness, sessionLedger, branch, checkout, session, started, result,
                   sessionFaults>>

AgentCommits ==
    /\ session.at = "run" /\ May("refs")
    /\ tree # branch
    /\ branch' = tree
    /\ session' = [session EXCEPT !.moved = TRUE]
    /\ UNCHANGED <<harness, sessionLedger, tree, checkout, started, result, sessionFaults>>

WriteNote ==
    /\ session.at = "run" /\ May("directory")
    /\ tree' = [tree EXCEPT !.note = started]
    /\ UNCHANGED <<harness, sessionLedger, branch, checkout, session, started, result,
                   sessionFaults>>

\* Codex writes the final answer of a turn to the file it was given.
WriteLast ==
    /\ session.at = "run" /\ "scratch" \in Writable(session.role)
    /\ Leaves([Here EXCEPT !.last = started])
    /\ UNCHANGED <<harness, sessionLedger, branch, session, started, result, sessionFaults>>

\* The program ends, or the server answers: with an answer, an error, or the provider's
\* refusal.
Ends ==
    /\ session.at = "run"
    /\ \E how \in {"answer", "error", "refusal"} :
           session' = [session EXCEPT !.at = "collect", !.ends = how]
    /\ UNCHANGED <<harness, sessionLedger, directories, started, result, sessionFaults>>

\* Out of time, the child is killed and nothing of its directory put away.
BreaksOff == session' = [session EXCEPT !.at = "ended", !.outcome = "none"]

OutOfTime ==
    /\ session.at = "run"
    /\ SessionFault("time")
    /\ BreaksOff
    /\ UNCHANGED <<harness, sessionLedger, directories, started, result>>

\* A heartbeat is refused: the Steward took the lease back, and the session is abandoned.
LoseLease ==
    /\ RoleAt("worker", "run")
    /\ SessionFault("lease")
    /\ BreaksOff
    /\ task' = "ready"
    /\ UNCHANGED <<harness, request, resume, directories, started, result>>

\* What the harness printed or answered cannot be read, or is an HTTP error.
Unreadable ==
    /\ session.at = "collect" /\ harness # "codex"
    /\ SessionFault("read")
    /\ BreaksOff
    /\ UNCHANGED <<harness, sessionLedger, directories, started, result>>

\* From<Envelope>: claude names an error, and by its kind or status the provider's refusal.
ClaudeOutcome(ends) ==
    CASE ends = "answer" -> {"ok"} [] ends = "error" -> {"error"} [] ends = "refusal" -> {"refused"}

\* From<MessageResponse>: the same of OpenCode, whose server may answer a refusal with an
\* HTTP error instead of a message that carries one.
OpencodeOutcome(ends) ==
    ClaudeOutcome(ends) \cup (IF ends = "refusal" THEN {"none"} ELSE {})

Collect ==
    /\ session.at = "collect" /\ harness # "codex"
    /\ \E outcome \in IF harness = "claude" THEN ClaudeOutcome(session.ends)
                                            ELSE OpencodeOutcome(session.ends) :
           session' = [session EXCEPT !.at = "ended", !.outcome = outcome, !.answer = started]
    /\ UNCHANGED <<harness, sessionLedger, directories, started, result, sessionFaults>>

\* fold: the last message in place of the events' text.  Codex names no refusal.
Folded == [session EXCEPT !.at = "ended",
                          !.outcome = IF session.ends = "answer" THEN "ok" ELSE "error",
                          !.answer = IF Here.last # 0 THEN Here.last ELSE started]

\* The message is read, then the scratch directory removed, which may fail.
CollectCodex ==
    /\ session.at = "collect" /\ harness = "codex"
    /\ session' = Folded
    /\ \/ Leaves([Here EXCEPT !.scratch = FALSE, !.last = 0]) /\ UNCHANGED sessionFaults
       \/ SessionFault("scratch") /\ UNCHANGED <<tree, checkout>>
    /\ UNCHANGED <<harness, sessionLedger, branch, started, result>>

-----------------------------------------------------------------------------
(* The worker after the session, however it ended.                         *)

\* take_blocked_note reads the agent's note and removes it, which may fail.
TakeNote ==
    /\ RoleAt("worker", "ended")
    /\ session' = [session EXCEPT !.at = "commit", !.blocked = tree.note]
    /\ \/ tree' = [tree EXCEPT !.note = 0] /\ UNCHANGED sessionFaults
       \/ tree.note # 0 /\ SessionFault("note") /\ UNCHANGED tree
    /\ UNCHANGED <<harness, sessionLedger, branch, checkout, started, result>>

\* commit_all: everything in the worktree but .factory and .beads.
CommitAll ==
    /\ RoleAt("worker", "commit")
    /\ branch' = tree
    /\ session' = [session EXCEPT !.at = "tidy", !.moved = @ \/ tree # branch]
    /\ UNCHANGED <<harness, sessionLedger, tree, checkout, started, result, sessionFaults>>

\* worktree_remove; a failure leaves it to the next claim.
Tidy ==
    /\ RoleAt("worker", "tidy")
    /\ SessionGoes("decide")
    /\ \/ tree' = Clean /\ UNCHANGED sessionFaults
       \/ SessionFault("tidy") /\ UNCHANGED tree
    /\ UNCHANGED <<harness, sessionLedger, branch, checkout, started, result>>

\* The commit failed: the worktree is removed all the same and the lease left to expire.
CommitFails ==
    /\ RoleAt("worker", "commit")
    /\ SessionFault("commit")
    /\ tree' = Clean
    /\ session' = NoSession
    /\ UNCHANGED <<harness, sessionLedger, branch, checkout, started, result>>

Result(did) ==
    [number |-> started, did |-> did, ends |-> session.ends, answer |-> session.answer,
     blocked |-> session.blocked, resumed |-> session.resumed, files |-> branch]

Concludes(did) ==
    /\ result' = Result(did)
    /\ session' = NoSession
    /\ UNCHANGED <<harness, directories, started, sessionFaults>>

\* A session that failed to return leaves its lease to expire.
GiveUp ==
    /\ RoleAt("worker", "decide") /\ session.outcome = "none"
    /\ session' = NoSession
    /\ UNCHANGED <<harness, sessionLedger, directories, started, result, sessionFaults>>

\* The provider cut it off: nothing is charged, the partial commit is not verified.
Stopped ==
    /\ RoleAt("worker", "decide") /\ session.outcome = "refused"
    /\ task' = "ready"
    /\ Concludes("stopped")
    /\ UNCHANGED <<request, resume>>

\* There is nothing to verify: the head has not moved, unless it was resumed, or the agent
\* says it is blocked.
NothingToVerify == (~session.moved /\ ~session.resumed) \/ session.blocked # 0

Release ==
    /\ RoleAt("worker", "decide") /\ session.outcome \in {"ok", "error"} /\ NothingToVerify
    /\ task' = "ready"
    /\ Concludes("released")
    /\ UNCHANGED <<request, resume>>

Submit ==
    /\ RoleAt("worker", "decide") /\ session.outcome \in {"ok", "error"} /\ ~NothingToVerify
    /\ task' = "submitted"
    /\ Concludes("submitted")
    /\ UNCHANGED <<request, resume>>

-----------------------------------------------------------------------------
(* The planner after the session.                                          *)

\* The provider refused: the request stays open.
PlanWaits ==
    /\ RoleAt("planner", "ended") /\ session.outcome = "refused"
    /\ Concludes("waits")
    /\ UNCHANGED sessionLedger

\* Anything else is an answer to the request: a plan, or why there is none.
PlanAnswers ==
    /\ RoleAt("planner", "ended") /\ session.outcome # "refused"
    /\ request' = "closed"
    /\ Concludes(IF session.outcome = "ok" THEN "planned" ELSE "failed")
    /\ UNCHANGED <<task, resume>>

-----------------------------------------------------------------------------
(* Everyone else.                                                          *)

\* A role dies, with the children in its container.
Die ==
    /\ session # NoSession
    /\ SessionFault("die")
    /\ session' = NoSession
    /\ UNCHANGED <<harness, sessionLedger, directories, started, result>>

\* The Steward takes back a lease that expired; the Verifier rejects a submission.
Expire ==
    /\ session = NoSession /\ task = "held"
    /\ task' = "ready"
    /\ UNCHANGED <<harness, request, resume, directories, session, started, result, sessionFaults>>

SendBack ==
    /\ task = "submitted"
    /\ task' = "ready"
    /\ UNCHANGED <<harness, request, resume, directories, session, started, result, sessionFaults>>

\* An operator has the task go on from its branch; nothing takes the marker back.
ResumeBranch ==
    /\ task = "ready" /\ started > 0
    /\ resume' = TRUE
    /\ UNCHANGED <<harness, task, request, directories, session, started, result, sessionFaults>>

\* And another request is written.
NewRequest ==
    /\ request = "closed"
    /\ request' = "open"
    /\ UNCHANGED <<harness, task, resume, directories, session, started, result, sessionFaults>>

Worker ==
    \/ Claim \/ Cut \/ CutFails \/ ReadMcp
    \/ TakeNote \/ CommitAll \/ CommitFails \/ Tidy
    \/ GiveUp \/ Stopped \/ Release \/ Submit

Planner == TakeRequest \/ PlanWaits \/ PlanAnswers

Session ==
    \/ StartCodex \/ StartClaude \/ StartOpencode \/ StartFails
    \/ Edit \/ AgentCommits \/ WriteNote \/ WriteLast
    \/ Ends \/ OutOfTime \/ LoseLease \/ Unreadable \/ Collect \/ CollectCodex

SessionsNext ==
    \/ Worker \/ Planner \/ Session
    \/ Die \/ Expire \/ SendBack \/ ResumeBranch \/ NewRequest

SessionsSpec == SessionsInit /\ [][SessionsNext]_sessionsVars

-----------------------------------------------------------------------------
(* Properties.                                                             *)

SessionRecords ==
    [role : {"none", "worker", "planner"},
     at : {"idle", "cut", "mcp", "start", "run", "collect", "ended", "commit", "tidy", "decide"},
     moved : BOOLEAN, ends : {"none", "answer", "error", "refusal"},
     outcome : {"none", "ok", "error", "refused"},
     answer : 0..MaxSessions, blocked : 0..MaxSessions, resumed : BOOLEAN]

Results ==
    [number : 0..MaxSessions,
     did : {"none", "stopped", "released", "submitted", "waits", "planned", "failed"},
     ends : {"none", "answer", "error", "refusal"},
     answer : 0..MaxSessions, blocked : 0..MaxSessions, resumed : BOOLEAN, files : Files]

\* The shapes of the state.
SessionsTypeOK ==
    /\ harness \in Harnesses
    /\ task \in {"ready", "held", "submitted"}
    /\ request \in {"open", "closed"}
    /\ resume \in BOOLEAN
    /\ tree \in Files /\ branch \in Files /\ checkout \in Files
    /\ session \in SessionRecords
    /\ started \in 0..MaxSessions
    /\ result \in Results
    /\ sessionFaults \in 0..MaxSessionFaults

\* A role goes by what its own session left, and hands over nothing else.  The answer and the
\* note that says the agent is blocked are not an earlier session's (CodexCli::run,
\* branch_worktree, take_blocked_note); what is submitted has no scratch file and no note in
\* it, nothing of an attempt before it unless an operator asked for that, and no part of what
\* a provider cut off, where the harness can tell (work_once, commit_all).  A resumed session
\* may find a note in the branch: an agent that commits by itself commits that too, and its
\* role may die before removing it.
SessionsKeepApart ==
    /\ result.answer \in {0, result.number}
    /\ ~result.resumed => result.blocked \in {0, result.number}
    /\ result.did = "submitted" =>
           /\ ~result.files.scratch /\ result.files.last = 0 /\ result.files.note = 0
           /\ ~result.resumed => result.files.work \subseteq {result.number}
           /\ harness # "codex" => result.ends # "refusal"
=============================================================================
