----------------------------- MODULE LandingProofs -----------------------------
(***************************************************************************)
(* Theorems of Landing, for any number of submissions, hand commits and    *)
(* faults: a submission lands once and as it was checked, what is reported *)
(* merged is at the remote, and no commit people made is lost.             *)
(***************************************************************************)
EXTENDS Landing, SequenceTheorems, TLAPS

-----------------------------------------------------------------------------
(* The inductive invariant.                                                *)

Branch == Seq(Patches \cup Hands)

\* Every submission in s, but for those after position n, has passed the checks where it is.
AsChecked(s, n, c) == \A i \in 1..n : s[i] \in Patches => SubSeq(s, 1, i) \in c

\* A branch of known changes, each in it once, its first n of them checked.
Clean(s, n, c, m) ==
    /\ s \in Branch
    /\ IsInjective(s)
    /\ Range(s) \cap Hands \subseteq m
    /\ AsChecked(s, n, c)

Sound(s, c, m) == Clean(s, Len(s), c, m)

\* What the rebase makes: sound, once its last change has been checked too.
Candidate(s, c, m) == Clean(s, Len(s) - 1, c, m)

Steps == {"idle", "pick", "sync", "rebase", "check", "read", "ff", "push", "rollback",
          "merged", "reject"}

Jobs == [at: Steps, list: SUBSET Patches, patch: Patches \cup {Nothing},
         head: Branch, before: Branch]

JobOK ==
    /\ job \in Jobs
    /\ job.at \notin {"idle", "pick"} => job.patch \in Patches

\* Both copies of the branch are sound, whoever moved them.
BranchesSound == Sound(local, checked, made) /\ Sound(remote, checked, made)

\* The rebased branch: sound once the checks passed, and made of the branch it was put on.
HeadOK ==
    /\ job.at = "check" => Candidate(job.head, checked, made)
    /\ job.at \in {"read", "ff", "push", "rollback"} => Sound(job.head, checked, made)
    /\ job.at \in {"check", "read", "ff"} => job.patch \in Range(job.head)
    /\ job.at \in {"check", "read"} => Range(job.head) \subseteq Range(local) \cup Patches

\* What a rollback would go back to: a sound branch with the hand work of the rebased one.
BeforeOK ==
    job.at \in {"ff", "push", "rollback"} =>
        /\ Sound(job.before, checked, made)
        /\ Range(job.head) \subseteq Range(job.before) \cup Patches

\* The submission is where the step just taken put it.
PatchPlaced ==
    /\ job.at = "push" => job.patch \in Range(local)
    /\ job.at = "merged" => job.patch \in Range(remote)

IInv ==
    /\ TypeOK /\ JobOK
    /\ BranchesSound /\ HeadOK /\ BeforeOK /\ PatchPlaced
    /\ HandWorkSurvives /\ MergedIsAtRemote

-----------------------------------------------------------------------------
(* Branches.                                                               *)

LEMMA PrefixRange ==
    ASSUME NEW s \in Branch, NEW t \in Branch, IsPrefix(s, t)
    PROVE  Range(s) \subseteq Range(t)
<1>1. Len(s) \in Nat /\ Len(t) \in Nat /\ Len(s) <= Len(t)
  BY DEF Branch, IsPrefix
<1>2. DOMAIN s = 1..Len(s) /\ DOMAIN t = 1..Len(t)
  BY DEF Branch
<1>3. SubSeq(t, 1, Len(s)) = s
  BY SubSeqFull DEF Branch, IsPrefix
<1>4. \A i \in 1..Len(s) : t[i] \in Patches \cup Hands
  BY <1>1 DEF Branch
<1>5. \A i \in 1..Len(s) : SubSeq(t, 1, Len(s))[i] = t[i]
  BY <1>1, <1>4 DEF Branch
<1>6. \A i \in DOMAIN s : i \in DOMAIN t /\ s[i] = t[i]
  BY <1>1, <1>2, <1>3, <1>5
<1> QED
  BY <1>6 DEF Range

LEMMA AppendTo ==
    ASSUME NEW s \in Branch, NEW x \in Patches \cup Hands
    PROVE  /\ Append(s, x) \in Branch
           /\ Len(Append(s, x)) = Len(s) + 1
           /\ DOMAIN Append(s, x) = DOMAIN s \cup {Len(s) + 1}
           /\ Len(s) + 1 \notin DOMAIN s
           /\ \A i \in DOMAIN s : Append(s, x)[i] = s[i]
           /\ Append(s, x)[Len(s) + 1] = x
           /\ \A i \in DOMAIN s : SubSeq(Append(s, x), 1, i) = SubSeq(s, 1, i)
<1>1. Len(s) \in Nat /\ DOMAIN s = 1..Len(s) /\ s \in Seq(Patches \cup Hands)
  BY DEF Branch
<1>2. /\ Append(s, x) \in Seq(Patches \cup Hands)
      /\ Len(Append(s, x)) = Len(s) + 1
      /\ \A i \in 1..Len(s) : Append(s, x)[i] = s[i]
      /\ Append(s, x)[Len(s) + 1] = x
  BY <1>1
<1>3. DOMAIN Append(s, x) = 1..(Len(s) + 1)
  BY <1>2
<1>4. ASSUME NEW i \in 1..Len(s)
      PROVE  SubSeq(Append(s, x), 1, i) = SubSeq(s, 1, i)
  BY <1>1, <1>2, <1>4
<1> QED
  BY <1>1, <1>2, <1>3, <1>4 DEF Branch

LEMMA RangeOfAppend ==
    ASSUME NEW s \in Branch, NEW x \in Patches \cup Hands
    PROVE  Range(Append(s, x)) = Range(s) \cup {x}
BY AppendTo DEF Range

\* More checks passed and more hand commits made: a clean branch is so still.
LEMMA CleanMore ==
    ASSUME NEW s, NEW n, NEW c, NEW m, NEW d, NEW k, Clean(s, n, c, m), c \subseteq d, m \subseteq k
    PROVE  Clean(s, n, d, k)
BY DEF Clean, AsChecked

LEMMA CleanAppend ==
    ASSUME NEW s, NEW c, NEW m, NEW x \in Patches \cup Hands, Sound(s, c, m),
           x \notin Range(s), x \in Hands => x \in m
    PROVE  Candidate(Append(s, x), c, m)
<1> DEFINE t == Append(s, x)
<1>1. s \in Branch
  BY DEF Sound, Clean
<1>2. t \in Branch /\ Len(t) = Len(s) + 1 /\ Range(t) = Range(s) \cup {x}
  BY <1>1, AppendTo, RangeOfAppend
<1>3. IsInjective(t)
  <2>1. IsInjective(s)
    BY DEF Sound, Clean
  <2>2. \A i \in DOMAIN s : s[i] # x
    BY DEF Range
  <2> QED
    BY <1>1, <2>1, <2>2, AppendTo DEF IsInjective
<1>4. AsChecked(t, Len(t) - 1, c)
  <2>1. Len(s) \in Nat /\ DOMAIN s = 1..Len(s)
    BY <1>1 DEF Branch
  <2>2. Len(t) - 1 = Len(s)
    BY <1>2, <2>1
  <2>3. \A i \in 1..Len(s) : t[i] = s[i] /\ SubSeq(t, 1, i) = SubSeq(s, 1, i)
    BY <1>1, <2>1, AppendTo
  <2> HIDE DEF t
  <2> QED
    BY <2>2, <2>3 DEF AsChecked, Sound, Clean
<1>5. Range(t) \cap Hands \subseteq m
  BY <1>2 DEF Sound, Clean
<1> QED
  BY <1>2, <1>3, <1>4, <1>5 DEF Candidate, Clean

\* A candidate is sound when its last change is nobody's submission, and when it was checked.
LEMMA CandidateSound ==
    ASSUME NEW s, NEW c, NEW m, Candidate(s, c, m),
           s[Len(s)] \in Patches => s \in c
    PROVE  Sound(s, c, m)
<1>1. s \in Branch
  BY DEF Candidate, Clean
<1>2. SubSeq(s, 1, Len(s)) = s
  BY <1>1, SubSeqFull DEF Branch
<1>3. \A i \in 1..Len(s) : i = Len(s) \/ i \in 1..(Len(s) - 1)
  <2>1. Len(s) \in Nat
    BY <1>1 DEF Branch
  <2> QED
    BY <2>1
<1>4. AsChecked(s, Len(s), c)
  BY <1>2, <1>3 DEF Candidate, Clean, AsChecked
<1> QED
  BY <1>4 DEF Candidate, Sound, Clean

LEMMA SoundAppend ==
    ASSUME LandingAssumption, NEW s, NEW c, NEW m, NEW h \in Hands, Sound(s, c, m), h \notin m
    PROVE  Sound(Append(s, h), c, m \cup {h})
<1>1. Sound(s, c, m \cup {h})
  BY CleanMore DEF Sound
<1>2. h \notin Range(s)
  BY DEF Sound, Clean
<1>3. Candidate(Append(s, h), c, m \cup {h})
  BY <1>1, <1>2, CleanAppend
<1>4. s \in Branch
  BY DEF Sound, Clean
<1>5. Append(s, h)[Len(Append(s, h))] = h
  BY <1>4, AppendTo
<1> QED
  BY <1>3, <1>5, CandidateSound DEF LandingAssumption

LEMMA RebasedIs ==
    ASSUME NEW p \in Patches, LandingAssumption, BranchesSound
    PROVE  /\ Candidate(Rebased(p), checked, made)
           /\ Rebased(p) \in Branch
           /\ p \in Range(Rebased(p))
           /\ Range(Rebased(p)) \subseteq Range(local) \cup Patches
<1>1. local \in Branch /\ Sound(local, checked, made)
  BY DEF BranchesSound, Sound, Clean
<1>2. CASE p \in Range(local)
  <2>1. Rebased(p) = local
    BY <1>2 DEF Rebased
  <2>2. Len(local) \in Nat
    BY <1>1 DEF Branch
  <2>3. \A i \in 1..(Len(local) - 1) : i \in 1..Len(local)
    BY <2>2
  <2>4. Candidate(local, checked, made)
    BY <1>1, <2>3 DEF Candidate, Sound, Clean, AsChecked
  <2> QED
    BY <1>1, <1>2, <2>1, <2>4
<1>3. CASE p \notin Range(local)
  <2>1. Rebased(p) = Append(local, p) /\ p \notin Hands
    BY <1>3 DEF Rebased, LandingAssumption
  <2> QED
    BY <1>1, <1>3, <2>1, CleanAppend, RangeOfAppend, AppendTo
<1> QED
  BY <1>2, <1>3

-----------------------------------------------------------------------------
(* The integrator's bookkeeping.                                           *)

\* Steps of which the invariant asks nothing but their types.
Away == {"idle", "pick", "sync", "rebase", "reject"}

LEMMA AwayIsFree ==
    ASSUME job'.at \in Away
    PROVE  HeadOK' /\ BeforeOK' /\ PatchPlaced'
BY DEF Away, HeadOK, BeforeOK, PatchPlaced

LEMMA IdleOK == Idle \in Jobs /\ Idle.at = "idle"
<1>1. <<>> \in Branch
  BY DEF Branch
<1> QED
  BY <1>1 DEF Idle, Jobs, Steps

LEMMA NextBeadOK ==
    ASSUME JobOK, NextBead
    PROVE  JobOK' /\ job'.at \in Away
<1>1. job.list \in SUBSET Patches
  BY DEF JobOK, Jobs
<1>2. job' \in Jobs /\ job'.at \in {"idle", "pick"}
  BY <1>1, IdleOK DEF NextBead, Jobs, Steps
<1> QED
  BY <1>2 DEF JobOK, Away

LEMMA GoesToOK ==
    ASSUME JobOK, job.at \notin {"idle", "pick"}, NEW step \in Steps, GoesTo(step)
    PROVE  /\ JobOK'
           /\ job'.at = step
           /\ job'.patch = job.patch /\ job'.head = job.head /\ job'.before = job.before
BY DEF JobOK, Jobs, GoesTo, Steps

LEMMA FaultOK ==
    ASSUME LandingAssumption, TypeOK, faults > 0, faults' = faults - 1
    PROVE  faults' \in 0..MaxFaults
BY DEF LandingAssumption, TypeOK

\* A step that moves neither branch, and only the job.
LEMMA JobStep ==
    ASSUME IInv, UNCHANGED <<branches, outcome, checked, made>>, faults' \in 0..MaxFaults,
           JobOK', HeadOK', BeforeOK', PatchPlaced'
    PROVE  IInv'
<1>1. /\ local' = local /\ remote' = remote /\ outcome' = outcome
      /\ checked' = checked /\ made' = made
  BY DEF branches
<1>2. TypeOK'
  <2>1. job'.list \subseteq Patches /\ job'.patch \in Patches \cup {Nothing}
    BY DEF JobOK, Jobs
  <2> QED
    BY <1>1, <2>1 DEF IInv, TypeOK
<1>3. BranchesSound' /\ HandWorkSurvives' /\ MergedIsAtRemote'
  BY <1>1 DEF IInv, BranchesSound, HandWorkSurvives, MergedIsAtRemote
<1> QED
  BY <1>2, <1>3 DEF IInv

-----------------------------------------------------------------------------
(* Every step keeps the invariant.                                         *)

LEMMA Initially == LandingAssumption /\ Init => IInv
<1> SUFFICES ASSUME LandingAssumption, Init PROVE IInv
  OBVIOUS
<1>1. TypeOK /\ JobOK
  BY IdleOK DEF Init, TypeOK, JobOK, Jobs, LandingAssumption
<1>2. BranchesSound
  BY DEF Init, BranchesSound, Sound, Clean, AsChecked, Branch, IsInjective, Range
<1>3. HeadOK /\ BeforeOK /\ PatchPlaced
  BY DEF Init, Idle, HeadOK, BeforeOK, PatchPlaced
<1>4. HandWorkSurvives /\ MergedIsAtRemote
  BY DEF Init, HandWorkSurvives, MergedIsAtRemote
<1> QED
  BY <1>1, <1>2, <1>3, <1>4 DEF IInv

LEMMA ListInv == ASSUME IInv, ListMerges PROVE IInv'
<1>1. job' = [Idle EXCEPT !.at = "pick",
                          !.list = {p \in Patches : outcome[p] = "mergeable"}]
  BY DEF ListMerges
<1>2. job' \in Jobs /\ job'.at = "pick"
  BY <1>1, IdleOK DEF Jobs, Steps
<1>3. JobOK' /\ job'.at \in Away
  BY <1>2 DEF JobOK, Away
<1>4. UNCHANGED <<branches, outcome, checked, made>> /\ faults' \in 0..MaxFaults
  BY DEF IInv, ListMerges, TypeOK
<1> QED
  BY <1>3, <1>4, AwayIsFree, JobStep

LEMMA PickInv == ASSUME IInv, NEW p \in Patches, PickMerge(p) PROVE IInv'
<1> DEFINE left == [job EXCEPT !.list = @ \ {p}]
<1>1. job \in Jobs /\ job.at = "pick"
  BY DEF IInv, JobOK, PickMerge
<1>2. left \in Jobs /\ left.at = "pick"
  BY <1>1 DEF Jobs
<1>3. \/ job' = [left EXCEPT !.at = "sync", !.patch = p]
      \/ job' = Idle
      \/ job' = left
  BY DEF PickMerge
<1> HIDE DEF left
<1>4. /\ job' \in Jobs
      /\ \/ job'.at = "sync" /\ job'.patch = p
         \/ job'.at \in {"idle", "pick"}
  BY <1>2, <1>3, IdleOK DEF Jobs, Steps
<1>5. JobOK' /\ job'.at \in Away
  BY <1>4 DEF JobOK, Away
<1>6. UNCHANGED <<branches, outcome, checked, made>> /\ faults' \in 0..MaxFaults
  BY DEF IInv, PickMerge, TypeOK
<1> QED
  BY <1>5, <1>6, AwayIsFree, JobStep

\* The steps that only go on to another one, of which nothing is asked.
LEMMA OnwardInv ==
    ASSUME IInv, SyncUpToDate \/ SyncDiverged \/ RebaseConflict \/ ChecksFail
    PROVE  IInv'
<1>1. job.at \notin {"idle", "pick"} /\ (GoesTo("rebase") \/ GoesTo("reject"))
  BY DEF SyncUpToDate, SyncDiverged, RebaseConflict, ChecksFail
<1>2. JobOK' /\ job'.at \in Away
  BY <1>1, GoesToOK DEF IInv, Steps, Away
<1>3. UNCHANGED <<branches, outcome, checked, made>> /\ faults' \in 0..MaxFaults
  BY DEF IInv, SyncUpToDate, SyncDiverged, RebaseConflict, ChecksFail, TypeOK
<1> QED
  BY <1>2, <1>3, AwayIsFree, JobStep

LEMMA NotForwardInv == ASSUME IInv, NotFastForward PROVE IInv'
<1>1. JobOK' /\ job'.at \in Away
  BY NextBeadOK DEF IInv, NotFastForward
<1>2. UNCHANGED <<branches, outcome, checked, made>> /\ faults' \in 0..MaxFaults
  BY DEF IInv, NotFastForward, TypeOK
<1> QED
  BY <1>1, <1>2, AwayIsFree, JobStep

LEMMA InfraInv == ASSUME LandingAssumption, IInv, Infra PROVE IInv'
<1>1. JobOK' /\ job'.at \in Away
  BY NextBeadOK DEF IInv, Infra
<1>2. UNCHANGED <<branches, outcome, checked, made>> /\ faults' \in 0..MaxFaults
  BY FaultOK DEF IInv, Infra
<1> QED
  BY <1>1, <1>2, AwayIsFree, JobStep

LEMMA CrashInv == ASSUME LandingAssumption, IInv, Crash PROVE IInv'
<1>1. JobOK' /\ job'.at \in Away
  BY IdleOK DEF Crash, JobOK, Away
<1>2. UNCHANGED <<branches, outcome, checked, made>> /\ faults' \in 0..MaxFaults
  BY FaultOK DEF IInv, Crash
<1> QED
  BY <1>1, <1>2, AwayIsFree, JobStep

LEMMA RebaseInv == ASSUME LandingAssumption, IInv, Rebase PROVE IInv'
<1>1. job.patch \in Patches
  BY DEF IInv, JobOK, Rebase
<1>2. /\ job' = [job EXCEPT !.at = "check", !.head = Rebased(job.patch)]
      /\ UNCHANGED <<branches, outcome, checked, made, faults>>
  BY DEF Rebase
<1>3. /\ Candidate(Rebased(job.patch), checked, made)
      /\ Rebased(job.patch) \in Branch
      /\ job.patch \in Range(Rebased(job.patch))
      /\ Range(Rebased(job.patch)) \subseteq Range(local) \cup Patches
  BY <1>1, RebasedIs DEF IInv
<1>4. /\ JobOK' /\ job'.at = "check"
      /\ job'.head = Rebased(job.patch) /\ job'.patch = job.patch
  BY <1>1, <1>2, <1>3 DEF IInv, JobOK, Jobs, Steps
<1>5. HeadOK' /\ BeforeOK' /\ PatchPlaced'
  BY <1>2, <1>3, <1>4 DEF HeadOK, BeforeOK, PatchPlaced, branches
<1>6. UNCHANGED <<branches, outcome, checked, made>> /\ faults' \in 0..MaxFaults
  BY <1>2 DEF IInv, TypeOK
<1> QED
  BY <1>4, <1>5, <1>6, JobStep

LEMMA ReadInv == ASSUME IInv, ReadHead PROVE IInv'
<1>1. /\ job.at = "read"
      /\ job' = [job EXCEPT !.at = "ff", !.before = local]
      /\ UNCHANGED <<branches, outcome, checked, made, faults>>
  BY DEF ReadHead
<1>2. local \in Branch /\ Sound(local, checked, made)
  BY DEF IInv, BranchesSound, Sound, Clean
<1>3. /\ JobOK' /\ job'.at = "ff"
      /\ job'.head = job.head /\ job'.before = local /\ job'.patch = job.patch
  BY <1>1, <1>2 DEF IInv, JobOK, Jobs, Steps
<1>4. HeadOK' /\ BeforeOK' /\ PatchPlaced'
  BY <1>1, <1>2, <1>3 DEF IInv, HeadOK, BeforeOK, PatchPlaced, branches
<1>5. UNCHANGED <<branches, outcome, checked, made>> /\ faults' \in 0..MaxFaults
  BY <1>1 DEF IInv, TypeOK
<1> QED
  BY <1>3, <1>4, <1>5, JobStep

\* The checks passed: the rebased branch is sound, and what was sound is so still.
LEMMA ChecksPassInv == ASSUME IInv, ChecksPass PROVE IInv'
<1>1. /\ job.at = "check" /\ checked' = checked \cup {job.head} /\ GoesTo("read")
      /\ local' = local /\ remote' = remote /\ outcome' = outcome
      /\ made' = made /\ faults' = faults
  BY DEF ChecksPass, branches
<1>2. /\ JobOK' /\ job'.at = "read"
      /\ job'.patch = job.patch /\ job'.head = job.head
  BY <1>1, GoesToOK DEF IInv, Steps
<1>3. BranchesSound'
  BY <1>1, CleanMore DEF IInv, BranchesSound, Sound
<1>4. Sound(job.head, checked', made')
  <2>1. Candidate(job.head, checked', made')
    BY <1>1, CleanMore DEF IInv, HeadOK, Candidate
  <2>2. job.head \in checked'
    BY <1>1
  <2> QED
    BY <2>1, <2>2, CandidateSound
<1>5. HeadOK' /\ BeforeOK' /\ PatchPlaced'
  BY <1>1, <1>2, <1>4 DEF IInv, HeadOK, BeforeOK, PatchPlaced
<1>6. TypeOK'
  BY <1>1, <1>2 DEF IInv, TypeOK, JobOK, Jobs
<1>7. HandWorkSurvives' /\ MergedIsAtRemote'
  BY <1>1 DEF IInv, HandWorkSurvives, MergedIsAtRemote
<1> QED
  BY <1>2, <1>3, <1>5, <1>6, <1>7 DEF IInv

LEMMA SyncForwardInv == ASSUME IInv, SyncForward PROVE IInv'
<1>1. /\ job.at = "sync" /\ IsPrefix(local, remote) /\ local' = remote /\ GoesTo("rebase")
      /\ remote' = remote /\ outcome' = outcome /\ checked' = checked
      /\ made' = made /\ faults' = faults
  BY DEF SyncForward, IsStrictPrefix
<1>2. JobOK' /\ job'.at \in Away
  BY <1>1, GoesToOK DEF IInv, Steps, Away
<1>3. local \in Branch /\ remote \in Branch
  BY DEF IInv, BranchesSound, Sound, Clean
<1>4. Range(local) \subseteq Range(remote)
  BY <1>1, <1>3, PrefixRange
<1>5. BranchesSound' /\ HandWorkSurvives' /\ MergedIsAtRemote'
  BY <1>1, <1>4 DEF IInv, BranchesSound, HandWorkSurvives, MergedIsAtRemote
<1>6. TypeOK'
  BY <1>1, <1>2 DEF IInv, TypeOK, JobOK, Jobs
<1> QED
  BY <1>2, <1>5, <1>6, AwayIsFree DEF IInv

\* The local branch becomes the rebased one, which holds it and the submission.
LEMMA FastForwardInv == ASSUME IInv, FastForward PROVE IInv'
<1>1. /\ job.at = "ff" /\ IsPrefix(local, job.head) /\ local' = job.head /\ GoesTo("push")
      /\ remote' = remote /\ outcome' = outcome /\ checked' = checked
      /\ made' = made /\ faults' = faults
  BY DEF FastForward
<1>2. /\ JobOK' /\ job'.at = "push"
      /\ job'.patch = job.patch /\ job'.head = job.head /\ job'.before = job.before
  BY <1>1, GoesToOK DEF IInv, Steps
<1>3. /\ local \in Branch /\ job.head \in Branch
      /\ Sound(job.head, checked, made) /\ job.patch \in Range(job.head)
  BY <1>1 DEF IInv, BranchesSound, HeadOK, Sound, Clean
<1>4. Range(local) \subseteq Range(job.head)
  BY <1>1, <1>3, PrefixRange
<1>5. BranchesSound' /\ HandWorkSurvives' /\ MergedIsAtRemote'
  BY <1>1, <1>3, <1>4 DEF IInv, BranchesSound, HandWorkSurvives, MergedIsAtRemote
<1>6. HeadOK' /\ BeforeOK' /\ PatchPlaced'
  BY <1>1, <1>2, <1>3 DEF IInv, HeadOK, BeforeOK, PatchPlaced
<1>7. TypeOK'
  BY <1>1, <1>2, <1>3 DEF IInv, TypeOK, JobOK, Jobs, Branch
<1> QED
  BY <1>2, <1>5, <1>6, <1>7 DEF IInv

\* What the remote has once it took the local branch.
LEMMA Pushed ==
    ASSUME IInv, IsPrefix(remote, local)
    PROVE  /\ remote \in Branch /\ local \in Branch
           /\ Range(remote) \subseteq Range(local)
           /\ Sound(local, checked, made)
<1>1. remote \in Branch /\ local \in Branch /\ Sound(local, checked, made)
  BY DEF IInv, BranchesSound, Sound, Clean
<1> QED
  BY <1>1, PrefixRange

LEMMA PushInv == ASSUME IInv, Push PROVE IInv'
<1>1. /\ job.at = "push" /\ IsPrefix(remote, local) /\ remote' = local /\ GoesTo("merged")
      /\ local' = local /\ outcome' = outcome /\ checked' = checked
      /\ made' = made /\ faults' = faults
  BY DEF Push
<1>2. JobOK' /\ job'.at = "merged" /\ job'.patch = job.patch
  BY <1>1, GoesToOK DEF IInv, Steps
<1>3. BranchesSound' /\ HandWorkSurvives' /\ MergedIsAtRemote'
  BY <1>1, Pushed DEF IInv, BranchesSound, HandWorkSurvives, MergedIsAtRemote
<1>4. HeadOK' /\ BeforeOK' /\ PatchPlaced'
  BY <1>1, <1>2 DEF IInv, HeadOK, BeforeOK, PatchPlaced
<1>5. TypeOK'
  BY <1>1, <1>2 DEF IInv, TypeOK, JobOK, Jobs
<1> QED
  BY <1>2, <1>3, <1>4, <1>5 DEF IInv

LEMMA PushRefusedInv == ASSUME IInv, PushRefused PROVE IInv'
<1>1. /\ job.at = "push" /\ GoesTo("rollback")
      /\ UNCHANGED <<branches, outcome, checked, made, faults>>
  BY DEF PushRefused
<1>2. /\ JobOK' /\ job'.at = "rollback"
      /\ job'.patch = job.patch /\ job'.head = job.head /\ job'.before = job.before
  BY <1>1, GoesToOK DEF IInv, Steps
<1>3. HeadOK' /\ BeforeOK' /\ PatchPlaced'
  BY <1>1, <1>2 DEF IInv, HeadOK, BeforeOK, PatchPlaced, branches
<1>4. UNCHANGED <<branches, outcome, checked, made>> /\ faults' \in 0..MaxFaults
  BY <1>1 DEF IInv, TypeOK
<1> QED
  BY <1>2, <1>3, <1>4, JobStep

\* Whether or not the remote took the branch before the connection broke.
LEMMA PushFailsInv == ASSUME LandingAssumption, IInv, PushFails PROVE IInv'
<1>1. /\ job.at = "push" /\ faults > 0 /\ faults' = faults - 1 /\ GoesTo("rollback")
      /\ remote' = remote \/ (IsPrefix(remote, local) /\ remote' = local)
      /\ local' = local /\ outcome' = outcome /\ checked' = checked /\ made' = made
  BY DEF PushFails
<1>2. /\ JobOK' /\ job'.at = "rollback"
      /\ job'.patch = job.patch /\ job'.head = job.head /\ job'.before = job.before
  BY <1>1, GoesToOK DEF IInv, Steps
<1>3. BranchesSound' /\ HandWorkSurvives' /\ MergedIsAtRemote'
  BY <1>1, Pushed DEF IInv, BranchesSound, HandWorkSurvives, MergedIsAtRemote
<1>4. HeadOK' /\ BeforeOK' /\ PatchPlaced'
  BY <1>1, <1>2 DEF IInv, HeadOK, BeforeOK, PatchPlaced
<1>5. faults' \in 0..MaxFaults
  BY <1>1, FaultOK DEF IInv
<1>6. TypeOK'
  BY <1>1, <1>2, <1>5 DEF IInv, TypeOK, JobOK, Jobs
<1> QED
  BY <1>2, <1>3, <1>4, <1>6 DEF IInv

\* The branch gone back to has all hand work of the one given up, which alone may be reset.
LEMMA RollBackInv == ASSUME LandingAssumption, IInv, RollBack PROVE IInv'
<1>1. /\ job.at = "rollback" /\ NextBead
      /\ local' = local \/ (local = job.head /\ local' = job.before)
      /\ remote' = remote /\ outcome' = outcome /\ checked' = checked
      /\ made' = made /\ faults' = faults
  BY DEF RollBack
<1>2. JobOK' /\ job'.at \in Away
  BY <1>1, NextBeadOK DEF IInv
<1>3. /\ Sound(job.before, checked, made) /\ job.before \in Branch
      /\ Range(job.head) \subseteq Range(job.before) \cup Patches
  BY <1>1 DEF IInv, BeforeOK, Sound, Clean
<1>4. BranchesSound' /\ MergedIsAtRemote'
  BY <1>1, <1>3 DEF IInv, BranchesSound, MergedIsAtRemote
<1>5. HandWorkSurvives'
  <2>1. made \cap Patches = {} /\ made \subseteq Range(local) \cup Range(remote)
    BY DEF IInv, TypeOK, LandingAssumption, HandWorkSurvives
  <2>2. made \cap Range(local) \subseteq Range(local')
    BY <1>1, <1>3, <2>1
  <2> QED
    BY <1>1, <2>1, <2>2 DEF HandWorkSurvives
<1>6. TypeOK'
  BY <1>1, <1>2, <1>3 DEF IInv, TypeOK, JobOK, Jobs, Branch
<1> QED
  BY <1>2, <1>4, <1>5, <1>6, AwayIsFree DEF IInv

LEMMA ReportInv ==
    ASSUME IInv, NEW step \in {"merged", "reject"}, NEW result \in {"merged", "reworked"},
           Reports(step, result), result = "merged" => step = "merged"
    PROVE  IInv'
<1>1. /\ job.at = step /\ NextBead
      /\ outcome' = [outcome EXCEPT ![job.patch] = IF @ = "mergeable" THEN result ELSE @]
      /\ local' = local /\ remote' = remote /\ checked' = checked
      /\ made' = made /\ faults' = faults
  BY DEF Reports, branches
<1>2. JobOK' /\ job'.at \in Away
  BY <1>1, NextBeadOK DEF IInv
<1>3. job.patch \in Patches
  BY <1>1 DEF IInv, JobOK
<1>4. MergedIsAtRemote'
  <2>1. step = "merged" => job.patch \in Range(remote)
    BY <1>1 DEF IInv, PatchPlaced
  <2>2. \A p \in Patches : outcome'[p] = "merged" =>
            outcome[p] = "merged" \/ (p = job.patch /\ result = "merged")
    BY <1>1, <1>3 DEF IInv, TypeOK
  <2> QED
    BY <1>1, <2>1, <2>2 DEF IInv, MergedIsAtRemote
<1>5. BranchesSound' /\ HandWorkSurvives'
  BY <1>1 DEF IInv, BranchesSound, HandWorkSurvives
<1>6. TypeOK'
  BY <1>1, <1>2, <1>3 DEF IInv, TypeOK, JobOK, Jobs
<1> QED
  BY <1>2, <1>4, <1>5, <1>6, AwayIsFree DEF IInv

\* A hand commit on either copy: what the integrator knows of the branch stays true.
LEMMA CommitInv ==
    ASSUME LandingAssumption, IInv, NEW h \in Hands, CommitAtRemote(h) \/ CommitLocally(h)
    PROVE  IInv'
<1>1. /\ h \notin made /\ made' = made \cup {h}
      /\ \/ remote' = Append(remote, h) /\ local' = local
         \/ local' = Append(local, h) /\ remote' = remote
      /\ outcome' = outcome /\ job' = job /\ checked' = checked /\ faults' = faults
  BY DEF CommitAtRemote, CommitLocally
<1>2. /\ local \in Branch /\ remote \in Branch
      /\ Sound(local, checked, made) /\ Sound(remote, checked, made)
  BY DEF IInv, BranchesSound, Sound, Clean
<1>3. /\ Sound(Append(local, h), checked, made \cup {h})
      /\ Sound(Append(remote, h), checked, made \cup {h})
  BY <1>1, <1>2, SoundAppend
<1>4. /\ Range(Append(local, h)) = Range(local) \cup {h}
      /\ Range(Append(remote, h)) = Range(remote) \cup {h}
  BY <1>2, RangeOfAppend
<1>5. Range(local) \subseteq Range(local') /\ Range(remote) \subseteq Range(remote')
  BY <1>1, <1>4
<1>6. \A s : Sound(s, checked, made) => Sound(s, checked', made')
  BY <1>1, CleanMore DEF Sound
<1>7. \A s : Candidate(s, checked, made) => Candidate(s, checked', made')
  BY <1>1, CleanMore DEF Candidate
<1>8. BranchesSound'
  BY <1>1, <1>2, <1>3, <1>6 DEF BranchesSound
<1>9. HandWorkSurvives' /\ MergedIsAtRemote'
  BY <1>1, <1>4, <1>5 DEF IInv, HandWorkSurvives, MergedIsAtRemote
<1>10. HeadOK'
  BY <1>1, <1>5, <1>6, <1>7 DEF IInv, HeadOK
<1>11. BeforeOK'
  BY <1>1, <1>6 DEF IInv, BeforeOK
<1>12. PatchPlaced'
  BY <1>1, <1>5 DEF IInv, PatchPlaced
<1>13. JobOK' /\ TypeOK'
  <2>1. local' \in Branch /\ remote' \in Branch
    BY <1>8 DEF BranchesSound, Sound, Clean
  <2> QED
    BY <1>1, <2>1 DEF IInv, JobOK, TypeOK, Branch
<1> QED
  BY <1>8, <1>9, <1>10, <1>11, <1>12, <1>13 DEF IInv

LEMMA CancelInv == ASSUME IInv, NEW p \in Patches, Cancel(p) PROVE IInv'
<1>1. /\ outcome' = [outcome EXCEPT ![p] = "canceled"]
      /\ local' = local /\ remote' = remote /\ job' = job /\ checked' = checked
      /\ made' = made /\ faults' = faults
  BY DEF Cancel, branches
<1>2. MergedIsAtRemote'
  <2>1. \A q \in Patches : outcome'[q] = "merged" => outcome[q] = "merged"
    BY <1>1 DEF IInv, TypeOK
  <2> QED
    BY <1>1, <2>1 DEF IInv, MergedIsAtRemote
<1>3. BranchesSound' /\ HandWorkSurvives'
  BY <1>1 DEF IInv, BranchesSound, HandWorkSurvives
<1>4. HeadOK' /\ BeforeOK' /\ PatchPlaced' /\ JobOK'
  BY <1>1 DEF IInv, HeadOK, BeforeOK, PatchPlaced, JobOK
<1>5. TypeOK'
  BY <1>1 DEF IInv, TypeOK
<1> QED
  BY <1>2, <1>3, <1>4, <1>5 DEF IInv

LEMMA StutterInv == ASSUME IInv, UNCHANGED vars PROVE IInv'
<1>1. /\ UNCHANGED <<branches, outcome, checked, made>> /\ job' = job /\ faults' = faults
      /\ local' = local /\ remote' = remote /\ checked' = checked /\ made' = made
  BY DEF vars, branches
<1>2. HeadOK' /\ BeforeOK' /\ PatchPlaced' /\ JobOK'
  BY <1>1 DEF IInv, HeadOK, BeforeOK, PatchPlaced, JobOK
<1>3. faults' \in 0..MaxFaults
  BY <1>1 DEF IInv, TypeOK
<1> QED
  BY <1>1, <1>2, <1>3, JobStep

LEMMA Stepwise == ASSUME LandingAssumption, IInv, [Next]_vars PROVE IInv'
<1>1. ASSUME Integrator PROVE IInv'
  <2>1. CASE ListMerges \/ \E p \in Patches : PickMerge(p)
    BY <2>1, ListInv, PickInv
  <2>2. CASE SyncUpToDate \/ SyncForward \/ SyncDiverged
    BY <2>2, OnwardInv, SyncForwardInv
  <2>3. CASE Rebase \/ RebaseConflict \/ ChecksPass \/ ChecksFail
    BY <2>3, RebaseInv, OnwardInv, ChecksPassInv
  <2>4. CASE ReadHead \/ FastForward \/ NotFastForward
    BY <2>4, ReadInv, FastForwardInv, NotForwardInv
  <2>5. CASE Push \/ PushRefused \/ RollBack
    BY <2>5, PushInv, PushRefusedInv, RollBackInv
  <2>6. CASE ReportMerged
    BY <2>6, ReportInv DEF ReportMerged
  <2>7. CASE ReportRejected
    BY <2>7, ReportInv DEF ReportRejected
  <2> QED
    BY <1>1, <2>1, <2>2, <2>3, <2>4, <2>5, <2>6, <2>7 DEF Integrator
<1>2. CASE PushFails \/ Infra \/ Crash
  BY <1>2, PushFailsInv, InfraInv, CrashInv
<1>3. CASE \E h \in Hands : CommitAtRemote(h) \/ CommitLocally(h)
  BY <1>3, CommitInv
<1>4. CASE \E p \in Patches : Cancel(p)
  BY <1>4, CancelInv
<1>5. CASE UNCHANGED vars
  BY <1>5, StutterInv
<1> QED
  BY <1>1, <1>2, <1>3, <1>4, <1>5 DEF Next

LEMMA Invariance == ASSUME LandingAssumption PROVE Spec => []IInv
<1>1. Init => IInv
  BY Initially
<1>2. IInv /\ [Next]_vars => IInv'
  BY Stepwise
<1> QED
  BY <1>1, <1>2, PTL DEF Spec

-----------------------------------------------------------------------------
(* The theorems.                                                           *)

\* The branches, the ledger's outcomes and the integrator's job keep to their types.
THEOREM TypeCorrect == ASSUME LandingAssumption PROVE Spec => []TypeOK
BY Invariance, PTL DEF IInv

\* However many submissions and hand commits there are, no command, rollback, fault or crash
\* of the integrator loses a commit somebody made.
THEOREM NoHandWorkLost == ASSUME LandingAssumption PROVE Spec => []HandWorkSurvives
BY Invariance, PTL DEF IInv

\* A task reported merged has its submission at the remote, for good.
THEOREM MergedIsThere == ASSUME LandingAssumption PROVE Spec => []MergedIsAtRemote
BY Invariance, PTL DEF IInv

\* No submission is twice in a branch, and each at the remote passed the project checks on
\* top of exactly the history it has there, after any number of retries.
THEOREM LandedOnceAsChecked == ASSUME LandingAssumption PROVE Spec => []LandsOnceAsChecked
<1>1. IInv => LandsOnceAsChecked
  BY DEF IInv, BranchesSound, Sound, Clean, AsChecked, LandsOnceAsChecked
<1> QED
  BY <1>1, Invariance, PTL
=============================================================================
