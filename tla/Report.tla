--------------------------------- MODULE Report --------------------------------
(***************************************************************************)
(* The throughput report of an epic (crates/app/src/metrics.rs): the roles *)
(* change the ledger and then write a line to the event log, each at its   *)
(* own pace, and the report is folded from the lines alone.  A line tells  *)
(* of a task, not of an attempt: the fold gives it to the attempt that was *)
(* claimed last.  The line of a change may be written after the next       *)
(* role's, or never, if the role dies or its next command fails.           *)
(*                                                                         *)
(* `told` is what the fold has made of the log so far: it takes one line   *)
(* after the other and looks at none again.                                *)
(***************************************************************************)
EXTENDS Integers, FiniteSets, Sequences, FiniteSetsExt, SequencesExt

CONSTANTS
    Tasks,      \* the epic's tasks
    NeedsOf,    \* NeedsOf[t]: the tasks t waits for
    Workers,
    MaxClaims,        \* bound: claims of all tasks
    MaxTime,          \* bound: the clock stops here
    MaxReportFaults,  \* bound: deaths of roles and failed commands
    ReportFailAt      \* where they may happen: a subset of {"die", "close"}

VARIABLES
    standing,     \* standing[t]: where the task is in the ledger, and who holds it
    line,         \* line[r]: what role r has yet to write to the log, or NoLine
    busy,         \* busy[r]: the task role r checks or lands, or NoTask
    truth,        \* history: truth[t], the attempts of t as the ledger saw them
    told,         \* told[t]: the fold of the log
    gap,          \* a line was not written
    now,          \* seconds
    reportFaults  \* faults left to happen

reportVars == <<standing, line, busy, truth, told, gap, now, reportFaults>>

NoTask == "none"
Roles == Workers \cup {"verifier", "integrator"}

\* Workers have names of their own.
ReportAssumption ==
    /\ Workers \cap {"verifier", "integrator", NoTask} = {} /\ NoTask \notin Tasks
    /\ MaxClaims \in Nat /\ MaxTime \in Nat /\ MaxReportFaults \in Nat

NoTime == -1
NoLine == [kind |-> "none", task |-> NoTask, good |-> FALSE]
Line(kind, t, good) == [kind |-> kind, task |-> t, good |-> good]

\* Attempt: one session of a task.  The stamps of its other stages and what ended it are left
\* out, and so are the lines that tell of nothing else: no total is made of them.
Attempt(t) ==
    [claimed |-> t, submitted |-> NoTime, passed |-> "unknown", landed |-> FALSE]

\* TaskMetrics.  The queue's planner writes when it planned a task, `factory plan` does not.
Metrics(planned) == [planned |-> planned, attempts |-> <<>>]

ReportInit ==
    /\ standing = [t \in Tasks |-> [at |-> "ready", by |-> NoTask]]
    /\ line = [r \in Roles |-> NoLine]
    /\ busy = [r \in Roles |-> NoTask]
    /\ truth = [t \in Tasks |-> <<>>]
    /\ \E planned \in {0, NoTime} : told = [t \in Tasks |-> Metrics(planned)]
    /\ gap = FALSE
    /\ now = 0
    /\ reportFaults = MaxReportFaults

ReportFault(at) ==
    /\ at \in ReportFailAt
    /\ reportFaults > 0
    /\ reportFaults' = reportFaults - 1

-----------------------------------------------------------------------------
(* The fold.                                                               *)

\* Mutant of Landed: a verdict is there.
LandedAtAll(l) == TRUE

\* The verdict of an integration: what landed, null when nothing did.
Landed(l) == l.good

Sets(a, l, t) ==
    CASE l.kind = "submitted" -> [a EXCEPT !.submitted = t]
      [] l.kind = "verified" -> [a EXCEPT !.passed = IF l.good THEN "yes" ELSE "no"]
      [] l.kind = "integrated" -> [a EXCEPT !.landed = Landed(l)]
      [] OTHER -> a

\* tasks_of: a claim begins an attempt, any other line tells of the last one, if there is one.
Fold(m, l, t) ==
    CASE l.kind = "claimed" -> [m EXCEPT !.attempts = Append(m.attempts, Attempt(t))]
      [] l.kind # "claimed" /\ m.attempts = <<>> -> m
      [] OTHER -> LET last == Len(m.attempts)
                      attempt == Sets(m.attempts[last], l, t)
                  IN  [m EXCEPT !.attempts = [m.attempts EXCEPT ![last] = attempt]]

\* A role's line in the log, stamped with the time t.
Logged(l, t) == told' = [told EXCEPT ![l.task] = Fold(@, l, t)]

-----------------------------------------------------------------------------
(* The roles.                                                              *)

Free(r) == line[r] = NoLine /\ busy[r] = NoTask

\* The attempt of the ledger's that is under way.
Mark(t, field, value) ==
    LET last == Len(truth[t])
        attempt == [truth[t][last] EXCEPT ![field] = value]
    IN  truth' = [truth EXCEPT ![t] = [truth[t] EXCEPT ![last] = attempt]]

\* Role r moves the task and has a line to write.
Moves(r, t, at, by, kind, good) ==
    /\ standing' = [standing EXCEPT ![t] = [at |-> at, by |-> by]]
    /\ line' = [line EXCEPT ![r] = Line(kind, t, good)]

Claims == MapThenSumSet(LAMBDA t : Len(truth[t]), Tasks)

Claim(w, t) ==
    /\ Free(w) /\ standing[t].at = "ready" /\ Claims < MaxClaims
    /\ \A u \in Tasks : standing[u].by # w
    /\ \A n \in NeedsOf[t] : standing[n].at = "done"
    /\ Moves(w, t, "held", w, "claimed", TRUE)
    /\ truth' = [truth EXCEPT ![t] = Append(@, [passed |-> FALSE, landed |-> FALSE])]
    /\ UNCHANGED <<busy, told, gap, now, reportFaults>>

Submit(w, t) ==
    /\ Free(w) /\ standing[t].by = w
    /\ Moves(w, t, "in_verify", NoTask, "submitted", TRUE)
    /\ UNCHANGED <<busy, truth, told, gap, now, reportFaults>>

\* A session ends without a submission: released, or stopped by the provider.
HandBack(w, t) ==
    /\ Free(w) /\ standing[t].by = w
    /\ standing' = [standing EXCEPT ![t] = [at |-> "ready", by |-> NoTask]]
    /\ UNCHANGED <<line, busy, truth, told, gap, now, reportFaults>>

\* The Steward takes back a lease that ran out, long after its holder wrote that it claimed.
Reap(t) ==
    /\ standing[t].at = "held" /\ line[standing[t].by] = NoLine
    /\ standing' = [standing EXCEPT ![t] = [at |-> "ready", by |-> NoTask]]
    /\ UNCHANGED <<line, busy, truth, told, gap, now, reportFaults>>

\* The Verifier and the Integrator take a task, then work, then tell.
Start(r, t, at) ==
    /\ Free(r) /\ standing[t].at = at
    /\ busy' = [busy EXCEPT ![r] = t]
    /\ UNCHANGED <<standing, line, truth, told, gap, now, reportFaults>>

StartVerify(t) == Start("verifier", t, "in_verify")
StartIntegrate(t) == Start("integrator", t, "mergeable")

Verify(t) ==
    /\ busy["verifier"] = t
    /\ busy' = [busy EXCEPT !["verifier"] = NoTask]
    /\ \E good \in BOOLEAN :
           /\ Moves("verifier", t, IF good THEN "mergeable" ELSE "ready", NoTask, "verified", good)
           /\ Mark(t, "passed", good)
    /\ UNCHANGED <<told, gap, now, reportFaults>>

Integrate(t) ==
    /\ busy["integrator"] = t
    /\ busy' = [busy EXCEPT !["integrator"] = NoTask]
    /\ \E good \in BOOLEAN :
           /\ Moves("integrator", t, IF good THEN "done" ELSE "ready", NoTask, "integrated", good)
           /\ Mark(t, "landed", good)
    /\ UNCHANGED <<told, gap, now, reportFaults>>

\* The merge bead cannot be closed: the pass tells of the error and not of the landing.
CloseFails(t) ==
    /\ ReportFault("close")
    /\ busy["integrator"] = t
    /\ busy' = [busy EXCEPT !["integrator"] = NoTask]
    /\ \E good \in BOOLEAN :
           /\ standing' = [standing EXCEPT ![t] = [at |-> IF good THEN "done" ELSE "ready",
                                               by |-> NoTask]]
           /\ Mark(t, "landed", good)
    /\ gap' = TRUE
    /\ UNCHANGED <<line, told, now>>

\* JsonlSink::record: one line, one write.
Record(r) ==
    /\ line[r] # NoLine
    /\ Logged(line[r], now)
    /\ line' = [line EXCEPT ![r] = NoLine]
    /\ UNCHANGED <<standing, busy, truth, gap, now, reportFaults>>

\* A role dies with its task or its line; a line is also lost when its write fails, which is
\* only logged: the role goes on.
Die(r) ==
    /\ ~Free(r)
    /\ ReportFault("die")
    /\ line' = [line EXCEPT ![r] = NoLine]
    /\ busy' = [busy EXCEPT ![r] = NoTask]
    /\ gap' = (gap \/ line[r] # NoLine)
    /\ UNCHANGED <<standing, truth, told, now>>

Tick ==
    /\ now < MaxTime
    /\ now' = now + 1
    /\ UNCHANGED <<standing, line, busy, truth, told, gap, reportFaults>>

ReportNext ==
    \/ \E t \in Tasks :
           \/ \E w \in Workers : Claim(w, t) \/ Submit(w, t) \/ HandBack(w, t)
           \/ Reap(t)
           \/ StartVerify(t) \/ Verify(t)
           \/ StartIntegrate(t) \/ Integrate(t) \/ CloseFails(t)
    \/ \E r \in Roles : Record(r) \/ Die(r)
    \/ Tick

ReportSpec == ReportInit /\ [][ReportNext]_reportVars

-----------------------------------------------------------------------------
(* The report.                                                             *)

Attempts == UNION {{<<t, i>> : i \in DOMAIN told[t].attempts} : t \in Tasks}
Of(a) == told[a[1]].attempts[a[2]]

\* Attempt::session, TaskMetrics::landed_at, retry_tax, first_pass.
Session(a) == IF a.submitted = NoTime THEN 0 ELSE a.submitted - a.claimed
SessionsOf(t, kept(_)) ==
    MapThenSumSet(LAMBDA i : Session(told[t].attempts[i]),
                  {i \in DOMAIN told[t].attempts : kept(told[t].attempts[i])})
HasLanded(t) == \E i \in DOMAIN told[t].attempts : told[t].attempts[i].landed
RetryTax(t) == SessionsOf(t, LAMBDA a : ~a.landed)
FirstPass(t) == told[t].attempts # <<>> /\ told[t].attempts[1].passed = "yes"

\* critical_path: the longest chain of landed sessions along `needs`; the edges are those the
\* planner wrote.
CriticalPath ==
    LET own(t) == SessionsOf(t, LAMBDA a : a.landed)
        edges(t) == IF told[t].planned = NoTime THEN {} ELSE NeedsOf[t]
        chain(s) == \A i \in 1..Len(s) - 1 : s[i] \in edges(s[i + 1])
        chains == {s \in SeqOf(Tasks, Cardinality(Tasks)) : s # <<>> /\ chain(s)}
    IN  Max({FoldSeq(LAMBDA t, sum : own(t) + sum, 0, s) : s \in chains} \cup {0})

\* concurrency: sessions begun less sessions ended, at second s.
Live(s) ==
    LET begun == {a \in Attempts : Of(a).claimed <= s}
        ended == {a \in Attempts :
                      (IF Of(a).submitted = NoTime THEN Of(a).claimed ELSE Of(a).submitted) <= s}
    IN  Cardinality(begun) - Cardinality(ended)

\* epic: the work.
Work == MapThenSumSet(LAMBDA t : SessionsOf(t, LAMBDA a : TRUE), Tasks)

-----------------------------------------------------------------------------
(* Properties.                                                             *)

Standings ==
    [at : {"ready", "held", "in_verify", "mergeable", "done"}, by : Workers \cup {NoTask}]

LineShapes ==
    [kind : {"none", "claimed", "submitted", "verified", "integrated"},
     task : Tasks \cup {NoTask}, good : BOOLEAN]

Attempted ==
    [claimed : 0..MaxTime, submitted : {NoTime} \cup 0..MaxTime,
     passed : {"unknown", "yes", "no"}, landed : BOOLEAN]

\* The shapes of the state.
ReportTypeOK ==
    /\ standing \in [Tasks -> Standings]
    /\ line \in [Roles -> LineShapes]
    /\ busy \in [Roles -> Tasks \cup {NoTask}]
    /\ truth \in [Tasks -> Seq([passed : BOOLEAN, landed : BOOLEAN])]
    /\ told \in [Tasks -> [planned : {0, NoTime}, attempts : Seq(Attempted)]]
    /\ gap \in BOOLEAN
    /\ now \in 0..MaxTime /\ reportFaults \in 0..MaxReportFaults

\* What became of each task is told as the ledger saw it, in whatever order the lines came: a
\* task the report calls landed has landed.  If no line was lost it calls landed all that have,
\* once they are written, and first pass only what passed at the first attempt (tasks_of).
ToldAsItWas ==
    /\ \A t \in Tasks : HasLanded(t) => \E i \in DOMAIN truth[t] : truth[t][i].landed
    /\ ~gap => \A t \in Tasks :
           /\ FirstPass(t) => truth[t][1].passed
           /\ standing[t].at = "done" /\ line["integrator"] = NoLine => HasLanded(t)

\* And the totals are of that: the critical path and the retry tax together come to no more
\* than the work; if no line was lost, no more sessions live at any time than there are workers
\* (concurrency, epic).  A lost line may break that one: the lines of the next attempt then tell
\* of the one before.
ReportIsTrue ==
    /\ ToldAsItWas
    /\ CriticalPath + MapThenSumSet(RetryTax, Tasks) <= Work
    /\ ~gap => \A s \in 0..MaxTime : Live(s) \in 0..Cardinality(Workers)
=============================================================================
