------------------------------ MODULE MCConsole -------------------------------
(***************************************************************************)
(* TLC instances of the parts that work on the ledger from outside a rig:  *)
(* PlanOrder, where work comes in; CrossRig, Streams and Notices, the      *)
(* console's; Rig, as it repairs itself, and Landing, for what must happen *)
(* in the end.  Each works on a ledger of its own here, so each is         *)
(* explored by itself: `part` says which, and the others stay as they      *)
(* start.                                                                  *)
(***************************************************************************)
EXTENDS PlanOrder, CrossRig, Streams, Notices

CONSTANTS u1, u2, p1, p2, g1, a1, h1, h2

VARIABLE part

-------------------------------------------------------------------------------
\* One request that waits for two epics of other rigs; failures at any step but the read
\* of a contract, which passes for none.
RetriedSteps ==
    {"show", "ask", "raise", "describe", "undefer", "set_needs", "close", "resolve"}
TwoNeeds == <<u1, u2>>
-------------------------------------------------------------------------------
\* One task, with a subscriber or with a browser that has the rig's stream: the two share
\* nothing but the log.
StreamSteps == {"line", "log", "update", "stream", "list"}

-------------------------------------------------------------------------------
\* One task and whoever tells people of it: the alerts, or the bot and its commands.
NoticeSteps == {"list", "poll", "post", "restart"}

-------------------------------------------------------------------------------
\* The Integrator: two submissions, two commits people make, one fault anywhere.
VARIABLES land_local, land_remote, land_outcome, land_job, land_checked, land_made,
    land_faults

L == INSTANCE Landing WITH
    Patches <- {p1, p2}, Hands <- {g1}, MaxFaults <- 1,
    local <- land_local, remote <- land_remote, outcome <- land_outcome, job <- land_job,
    checked <- land_checked, made <- land_made, faults <- land_faults

land_vars == <<land_local, land_remote, land_outcome, land_job, land_checked, land_made,
    land_faults>>

-------------------------------------------------------------------------------
\* A rig of one worker; a crash or a failed command at any step whose loss another role
\* makes good.
VARIABLES rig_meta, rig_status, rig_verifyBead, rig_merges, rig_incidents, rig_main,
    rig_verified, rig_tree, rig_now, rig_faults, rig_requests, rig_job

\* All but the steps between a write of the task and a command nothing repeats, the lease of
\* a claim already won, and an operator's request half done.
RepairedSteps ==
    {"try", "checkout", "session", "tidy", "check", "show", "match", "land", "landed", "skip",
     "repair", "create",
     "heartbeat", "submit", "lease_expired", "release", "provider_stopped",
     "verify_passed", "verify_blocked", "verify_failed", "merged", "merge_failed", "cancel",
     "escalate", "OpenMergeBead", "CloseMergeBeads"}

I == INSTANCE Rig WITH
    Agents <- {a1}, Heads <- {h1, h2}, AttemptLimit <- 2, TokenLimit <- 1, WallLimit <- 0,
    Ttl <- 1, AtomicApply <- TRUE, MaxFaults <- 1, MaxRequests <- 0, MaxTime <- 9,
    OperatorDoes <- {}, CrashAt <- RepairedSteps,
    meta <- rig_meta, status <- rig_status, verifyBead <- rig_verifyBead,
    merges <- rig_merges, incidents <- rig_incidents, main <- rig_main,
    verified <- rig_verified, tree <- rig_tree, now <- rig_now, faults <- rig_faults,
    requests <- rig_requests, job <- rig_job

rig_vars == <<rig_meta, rig_status, rig_verifyBead, rig_merges, rig_incidents, rig_main,
    rig_verified, rig_tree, rig_now, rig_faults, rig_requests, rig_job>>

-------------------------------------------------------------------------------
\* Plans of up to three tasks with up to two needs, said twice or not; "?" is no key.
NeedTexts == UNION {[1..n -> Keys] : n \in 0..2} \cup {<<"b", "?">>}
TaskTexts ==
    [key : Keys, needs : NeedTexts, formed : {TRUE}]
    \cup {[key |-> "?", needs |-> <<>>, formed |-> TRUE],
          [key |-> "c", needs |-> <<>>, formed |-> FALSE]}
PlanTexts ==
    [blocked : {FALSE}, titled : {TRUE}, tasks : UNION {[1..n -> TaskTexts] : n \in 0..3}]
    \cup [blocked : BOOLEAN, titled : BOOLEAN, tasks : [1..1 -> TaskTexts]]

-------------------------------------------------------------------------------
ASSUME ConsoleAssumption == 
    /\ CrossRigAssumption
    /\ StreamsAssumption
    /\ NoticesAssumption
    /\ L!LandingAssumption

MCInit ==
    /\ part \in {"plan", "crossrig", "streams", "notices", "landing", "repair"}
    /\ Init /\ CrossRigInit /\ StreamsInit /\ NoticesInit /\ L!Init /\ I!Init
    /\ part # "notices" => watcher.who = "alerts"
    /\ sub.at = "away" <=> pump.at = "off"
    /\ part # "streams" => sub.at = "idle"

MCNext ==
    /\ part' = part
    /\ \/ /\ part = "plan"
          /\ Next
          /\ UNCHANGED <<crossRigVars, streamsVars, noticesVars, land_vars, rig_vars>>
       \/ /\ part = "crossrig"
          /\ CrossRigNext
          /\ UNCHANGED <<vars, streamsVars, noticesVars, land_vars, rig_vars>>
       \/ /\ part = "streams"
          /\ StreamsNext
          /\ UNCHANGED <<vars, crossRigVars, noticesVars, land_vars, rig_vars>>
       \/ /\ part = "notices"
          /\ NoticesNext
          /\ UNCHANGED <<vars, crossRigVars, streamsVars, land_vars, rig_vars>>
       \/ /\ part = "landing"
          /\ L!Next
          /\ UNCHANGED <<vars, crossRigVars, streamsVars, noticesVars, rig_vars>>
       \/ /\ part = "repair"
          /\ I!Next
          /\ UNCHANGED <<vars, crossRigVars, streamsVars, noticesVars, land_vars>>

mcvars == <<part, vars, crossRigVars, streamsVars, noticesVars, land_vars, rig_vars>>

\* Each part under the fairness of its own module.
MCFairness ==
    /\ \A u \in {u1, u2} : WF_(crossRigVars)(part = "crossrig" /\ RigStep(u))
    /\ WF_(crossRigVars)(part = "crossrig" /\ SweepStep)
    /\ WF_(crossRigVars)(part = "crossrig" /\ OperatorStep)
    /\ WF_(streamsVars)(part = "streams" /\ BeginLine)
    /\ WF_(streamsVars)(part = "streams" /\ EndLine)
    /\ WF_(streamsVars)(part = "streams" /\ SubReadsLog)
    /\ WF_(streamsVars)(part = "streams" /\ SubReadsTask)
    /\ WF_(streamsVars)(part = "streams" /\ Connect)
    /\ WF_(streamsVars)(part = "streams" /\ PumpReadsLog)
    /\ WF_(streamsVars)(part = "streams" /\ PumpTask)
    /\ WF_(streamsVars)(part = "streams" /\ OnFrame)
    /\ WF_(streamsVars)(part = "streams" /\ ListTasks)
    /\ WF_(streamsVars)(part = "streams" /\ SetTasks)
    /\ WF_(streamsVars)(part = "streams" /\ Backstop)
    /\ WF_(streamsVars)(part = "streams" /\ ListAll)
    /\ WF_(streamsVars)(part = "streams" /\ SetAll)
    /\ WF_(noticesVars)(part = "notices" /\ Sweep)
    /\ WF_(noticesVars)(part = "notices" /\ (Poll \/ Command))
    /\ WF_(land_vars)(part = "landing" /\ L!Integrator)
    /\ \A p \in I!Processes : WF_(rig_vars)(part = "repair" /\ I!Step(p))
    /\ WF_(rig_vars)(part = "repair" /\ I!Tick)

MCSpec == MCInit /\ [][MCNext]_mcvars /\ MCFairness

-------------------------------------------------------------------------------
(* The properties; the comment of each is in its own module.               *)

\* Every part keeps to the shapes of its own module.
TypesOK ==
    /\ part = "plan" => TypeOK
    /\ part = "crossrig" => CrossRigTypeOK
    /\ part = "streams" => StreamsTypeOK
    /\ part = "notices" => NoticesTypeOK
    /\ part = "landing" => L!TypeOK
    /\ part = "repair" => I!TypeOK

\* A waiting request is never forgotten: it is released or closed, or a question asks about
\* it, though sweeps fail half-way and answers break off between two of their commands.
NobodyWaitsSilently == []<>(part = "crossrig" => Heard)

\* Every submission is landed, sent back or canceled: retrying trouble on our side does not
\* retry for ever.
EverySubmissionSettles == []<>(part = "landing" => L!AllSettled)

\* Work on the task comes to an end a person sees, though processes crash, sessions fail and
\* verdicts go either way: it lands, is canceled, or is escalated and in the operator's inbox,
\* whoever filed it first and whichever bead a retry has closed.
Settles == []<>(part = "repair" => I!Settled /\ (rig_meta.state = "closed" => I!BeadsClosed))
===============================================================================
