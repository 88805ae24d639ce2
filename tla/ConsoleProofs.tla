----------------------------- MODULE ConsoleProofs ------------------------------
(***************************************************************************)
(* Theorems of the console's modules, for every value of their constants:  *)
(* CrossRig, for every set of epics a request may need; Streams, for every *)
(* number of changes; Notices, for any messages; Report, which is read off *)
(* the same log the streams are, for any tasks and workers.  Any number of *)
(* crashes and failed commands in each.                                    *)
(***************************************************************************)
EXTENDS CrossRig, Streams, Notices, Report, SequenceTheorems, FiniteSetTheorems, TLAPS

-----------------------------------------------------------------------------
(* CrossRig.  First, of sequences.                                         *)

LEMMA ElementsOf ==
    ASSUME NEW S, NEW s \in Seq(S)
    PROVE  /\ ToSet(s) \subseteq S
           /\ \A k \in 1..Len(s) : s[k] \in ToSet(s)
           /\ \A v \in ToSet(s) : \E k \in 1..Len(s) : s[k] = v
BY DEF ToSet

LEMMA ConcatHolds ==
    ASSUME NEW S, NEW s \in Seq(S), NEW t \in Seq(S), NEW n \in 1..Len(t)
    PROVE  t[n] \in ToSet(s \o t)
<1> DEFINE m == Len(s) + n
<1>1. m \in 1..(Len(s) + Len(t)) /\ ~(m <= Len(s)) /\ m - Len(s) = n
    OBVIOUS
<1> HIDE DEF m
<1>2. (s \o t)[m] = t[n] /\ s \o t \in Seq(S) /\ m \in 1..Len(s \o t)
    BY <1>1, ConcatProperties
<1>. QED  BY <1>2, ElementsOf

\* What a request keeps without one of its needs: every other need.
LEMMA RemovingOneKeepsOthers ==
    ASSUME NEW S, NEW s \in Seq(S), NEW i \in 1..Len(s)
    PROVE  /\ RemoveAt(s, i) \in Seq(S)
           /\ \A v \in ToSet(s) : v # s[i] => v \in ToSet(RemoveAt(s, i))
<1> DEFINE before == SubSeq(s, 1, i - 1)
           after == SubSeq(s, i + 1, Len(s))
<1>0. i \in Int /\ Len(s) \in Nat /\ 1 <= i /\ i <= Len(s)
    OBVIOUS
<1>1. /\ before \in Seq(S) /\ Len(before) = i - 1
      /\ \A k \in 1..(i - 1) : before[k] = s[k]
    <2>1. \A k \in 1..(i - 1) : s[k] \in S
        BY <1>0
    <2>2. i - 1 \in Int
        BY <1>0
    <2>. QED  BY <1>0, <2>1, <2>2, SubSeqProperties, SMTT(30)
<1>2. /\ after \in Seq(S) /\ Len(after) = Len(s) - i
      /\ \A k \in 1..(Len(s) - i) : after[k] = s[i + k]
    <2>1. \A k \in (i + 1)..Len(s) : s[k] \in S
        BY <1>0
    <2>2. i + 1 \in Int
        BY <1>0
    <2>. QED  BY <1>0, <2>1, <2>2, SubSeqProperties, SMTT(30)
<1>3. /\ RemoveAt(s, i) = before \o after
      /\ before \o after \in Seq(S)
      /\ Len(before \o after) = Len(s) - 1
      /\ \A k \in 1..(Len(s) - 1) :
            (before \o after)[k] = IF k <= i - 1 THEN before[k] ELSE after[k - (i - 1)]
    <2>1. RemoveAt(s, i) = before \o after
        BY DEF RemoveAt
    <2> HIDE DEF before, after
    <2>2. Len(before) + Len(after) = Len(s) - 1
        BY <1>0, <1>1, <1>2
    <2>3. /\ before \o after \in Seq(S)
          /\ Len(before \o after) = Len(before) + Len(after)
          /\ \A k \in 1..(Len(before) + Len(after)) :
                (before \o after)[k] = IF k <= Len(before) THEN before[k]
                                       ELSE after[k - Len(before)]
        BY <1>1, <1>2, ConcatProperties
    <2>. QED  BY <2>1, <2>2, <2>3, <1>1
<1> HIDE DEF before, after
<1>5. \A k \in 1..(Len(s) - 1) : (before \o after)[k] \in ToSet(before \o after)
    BY <1>3, ElementsOf
<1>4. ASSUME NEW v \in ToSet(s), v # s[i]
      PROVE  v \in ToSet(before \o after)
    <2>1. PICK k \in 1..Len(s) : s[k] = v
        BY <1>4 DEF ToSet
    <2>2. k # i
        BY <1>4, <2>1
    <2>3. CASE k < i
        <3>1. k \in 1..(i - 1) /\ k \in 1..(Len(s) - 1) /\ k <= i - 1
            BY <1>0, <2>3
        <3>2. (before \o after)[k] = v
            BY <3>1, <1>1, <1>3, <2>1
        <3>. QED  BY <3>1, <3>2, <1>5
    <2>4. CASE k > i
        <3> DEFINE m == k - 1
        <3>1. m \in 1..(Len(s) - 1) /\ ~(m <= i - 1) /\ m - (i - 1) = k - i
              /\ k - i \in 1..(Len(s) - i) /\ i + (k - i) = k
            BY <1>0, <2>4
        <3> HIDE DEF m
        <3>2. (before \o after)[m] = v
            BY <3>1, <1>2, <1>3, <2>1
        <3>. QED  BY <3>1, <3>2, <1>5
    <2>. QED  BY <1>0, <2>2, <2>3, <2>4
<1>. QED  BY <1>3, <1>4

LEMMA WithoutKeeps ==
    ASSUME request.needs \in Seq(Upstream), NEW u
    PROVE  /\ Without(u) \in Seq(Upstream)
           /\ ToSet(request.needs) \ {u} \subseteq ToSet(Without(u))
<1>1. CASE u \in ToSet(request.needs)
    <2> DEFINE i == CHOOSE j \in DOMAIN request.needs : request.needs[j] = u
    <2>1. i \in 1..Len(request.needs) /\ request.needs[i] = u
        BY <1>1 DEF ToSet
    <2>2. Without(u) = RemoveAt(request.needs, i)
        BY <1>1 DEF Without
    <2> HIDE DEF i
    <2>. QED  BY <2>1, <2>2, RemovingOneKeepsOthers
<1>2. CASE u \notin ToSet(request.needs)
    BY <1>2 DEF Without
<1>. QED  BY <1>1, <1>2

-----------------------------------------------------------------------------
(* Shapes.                                                                 *)

Flags == BOOLEAN

EpicRecords ==
    [work : {"going", "landed", "canceled"}, status : {"open", "closed"}, canceled : Flags,
     contract : Texts, cancel : {"no", "label", "close"}]

\* A cancel works from the children to the label to the epic; a contract comes after the close.
EpicOK(x) ==
    /\ x.status = "closed" => x.work # "going"
    /\ x.cancel # "no" => x.work = "canceled"
    /\ x.cancel = "close" => x.canceled
    /\ x.work = "canceled" /\ x.cancel = "no" => x.canceled
    /\ x.contract # "none" => x.status = "closed"

Asking == {"show", "children", "ask", "raise"}
Telling == {"describe", "undefer"}
SweepSteps == {"idle"} \cup Asking \cup Telling
AnswerSteps == {"idle", "set_needs", "undefer", "close", "resolve"}

EpicShape == up \in [Upstream -> EpicRecords] /\ \A u \in Upstream : EpicOK(up[u])

RequestShape ==
    request \in [status : {"deferred", "open", "closed"}, needs : Seq(Upstream),
                 text : Seq(Upstream \X Texts), dropped : SUBSET Upstream]

\* While the sweep asks, a need is left; when it tells, it has read every one.
SweepShape ==
    /\ sweep \in [at : SweepSteps, needs : Seq(Upstream), text : Seq(Upstream \X Texts),
                  landed : Seq(Upstream \X Texts)]
    /\ sweep.at \in Asking => Len(sweep.landed) < Len(sweep.needs)
    /\ sweep.at \in Telling => Len(sweep.landed) = Len(sweep.needs)

\* An answer is given to an open question, and only its end takes the question away.
OperatorShape ==
    /\ operator \in [at : AnswerSteps, on : Upstream \cup {"none"}, kept : Seq(Upstream)]
    /\ operator.at # "idle" => operator.on \in Upstream /\ questions[operator.on] > 0

CountShape == questions \in [Upstream -> Nat] /\ faults \in 0..MaxFaults

Shape == EpicShape /\ RequestShape /\ SweepShape /\ OperatorShape /\ CountShape

LEMMA ShapeFirst ==
    ASSUME CrossRigAssumption, CrossRigInit
    PROVE  Shape
<1> USE DEF CrossRigAssumption, CrossRigInit
<1>1. EpicShape
    <2>1. NewEpic \in EpicRecords
        BY DEF NewEpic, EpicRecords, Texts, Flags
    <2>2. EpicOK(NewEpic)
        BY DEF NewEpic, EpicOK
    <2>. QED  BY <2>1, <2>2 DEF EpicShape
<1>2. RequestShape
    BY DEF RequestShape
<1>3. SweepShape
    BY DEF SweepShape, IdleSweep, SweepSteps, Asking, Telling
<1>4. OperatorShape
    BY DEF OperatorShape, IdleOperator, AnswerSteps
<1>5. CountShape
    BY DEF CountShape
<1>. QED  BY <1>1, <1>2, <1>3, <1>4, <1>5 DEF Shape

LEMMA ShapeMeansTyped ==
    ASSUME Shape
    PROVE  CrossRigTypeOK
BY DEF Shape, EpicShape, RequestShape, SweepShape, OperatorShape, CountShape, CrossRigTypeOK,
       EpicRecords, Flags

-----------------------------------------------------------------------------
(* What a step on a rig does to the epic it is about.                      *)

RigMove(u) == RigStep(u) \/ CancelChildren(u) \/ LoseContract(u)

\* Landed work stays landed and a closed epic closed; its contract changes only while it is due.
Advances(x, y) ==
    /\ y \in EpicRecords /\ EpicOK(y)
    /\ x.work = "landed" => y.work = "landed"
    /\ x.status = "closed" => y.status = "closed"
    /\ x.status = "closed" /\ x.contract # "due" => y.contract = x.contract

LEMMA EpicsAdvance ==
    ASSUME CrossRigAssumption, Shape, NEW u \in Upstream, RigMove(u)
    PROVE  /\ \E y : Advances(up[u], y) /\ up' = [up EXCEPT ![u] = y]
           /\ UNCHANGED <<request, questions, sweep, operator>>
           /\ faults' \in 0..MaxFaults
<1> DEFINE x == up[u]
<1>1. x \in EpicRecords /\ EpicOK(x) /\ up \in [Upstream -> EpicRecords] /\ faults \in 0..MaxFaults
    BY DEF Shape, EpicShape, CountShape
<1>2. CASE Land(u)
    <2> DEFINE y == [x EXCEPT !.work = "landed"]
    <2>1. Advances(x, y)
        BY <1>1, <1>2 DEF Land, Advances, EpicRecords, EpicOK, Flags
    <2>. QED  BY <1>1, <1>2, <2>1 DEF Land, Epic
<1>3. CASE StewardCloses(u)
    <2> DEFINE y == [x EXCEPT !.status = "closed", !.contract = "due"]
    <2>1. Advances(x, y)
        BY <1>1, <1>3 DEF StewardCloses, Advances, EpicRecords, EpicOK, Flags, Texts
    <2>. QED  BY <1>1, <1>3, <2>1 DEF StewardCloses, Epic
<1>4. CASE WriteContract(u)
    <2> DEFINE y == [x EXCEPT !.contract = "written"]
    <2>1. Advances(x, y)
        BY <1>1, <1>4 DEF WriteContract, Advances, EpicRecords, EpicOK, Flags, Texts
    <2>. QED  BY <1>1, <1>4, <2>1 DEF WriteContract, Epic
<1>5. CASE LabelCanceled(u)
    <2> DEFINE y == [x EXCEPT !.canceled = TRUE, !.cancel = "close"]
    <2>1. TRUE \in Flags
        BY DEF Flags
    <2>2. Advances(x, y)
        BY <1>1, <1>5, <2>1 DEF LabelCanceled, Advances, EpicRecords, EpicOK
    <2>. QED  BY <1>1, <1>5, <2>2 DEF LabelCanceled, Epic
<1>6. CASE CloseCanceled(u)
    <2> DEFINE y == [x EXCEPT !.status = "closed", !.cancel = "no"]
    <2>1. Advances(x, y)
        BY <1>1, <1>6 DEF CloseCanceled, Advances, EpicRecords, EpicOK
    <2>. QED  BY <1>1, <1>6, <2>1 DEF CloseCanceled, Epic
<1>7. CASE CancelChildren(u)
    <2> DEFINE y == [x EXCEPT !.work = "canceled", !.cancel = "label"]
    <2>1. Advances(x, y)
        BY <1>1, <1>7 DEF CancelChildren, Advances, EpicRecords, EpicOK
    <2>. QED  BY <1>1, <1>7, <2>1 DEF CancelChildren, Epic
<1>8. CASE LoseContract(u)
    <2> DEFINE y == [x EXCEPT !.contract = "none"]
    <2>1. Advances(x, y)
        BY <1>1, <1>8 DEF LoseContract, Advances, EpicRecords, EpicOK, Texts
    <2>2. up' = [up EXCEPT ![u] = y]
        BY <1>8 DEF LoseContract
    <2>3. faults' \in 0..MaxFaults
        BY <1>1, <1>8 DEF LoseContract, CrossRigAssumption
    <2>. QED  BY <1>8, <2>1, <2>2, <2>3 DEF LoseContract
<1>. QED  BY <1>2, <1>3, <1>4, <1>5, <1>6, <1>7, <1>8 DEF RigMove, RigStep

LEMMA EpicsKeepShape ==
    ASSUME CrossRigAssumption, Shape, NEW u \in Upstream, RigMove(u)
    PROVE  Shape'
<1>1. PICK y : Advances(up[u], y) /\ up' = [up EXCEPT ![u] = y]
    BY EpicsAdvance
<1>2. UNCHANGED <<request, questions, sweep, operator>> /\ faults' \in 0..MaxFaults
    BY EpicsAdvance
<1>3. EpicShape'
    BY <1>1 DEF Shape, EpicShape, Advances
<1>4. (RequestShape /\ SweepShape /\ OperatorShape)'
    BY <1>2 DEF Shape, RequestShape, SweepShape, OperatorShape
<1>5. CountShape'
    BY <1>2 DEF Shape, CountShape
<1>. QED  BY <1>3, <1>4, <1>5 DEF Shape

-----------------------------------------------------------------------------
(* The sweep keeps the shapes.                                             *)

\* The epic the sweep is at is one of its needs.
LEMMA NeedIsOne ==
    ASSUME Shape, sweep.at \in Asking
    PROVE  /\ Need \in Upstream
           /\ Len(sweep.landed) + 1 \in 1..Len(sweep.needs)
           /\ Need = sweep.needs[Len(sweep.landed) + 1]
BY DEF Shape, SweepShape, Need

LEMMA AppendingKeepsShape ==
    ASSUME Shape, sweep.at = "children", NEW b \in BOOLEAN, AppendsContract(b)
    PROVE  SweepShape'
<1> DEFINE found == <<Need, HasContract(Need, b)>>
           landed == Append(sweep.landed, found)
<1>1. /\ Need \in Upstream
      /\ sweep.landed \in Seq(Upstream \X Texts) /\ sweep.needs \in Seq(Upstream)
      /\ sweep.text \in Seq(Upstream \X Texts)
      /\ Len(sweep.landed) < Len(sweep.needs)
    BY NeedIsOne DEF Shape, SweepShape, Asking
<1>2. found \in Upstream \X Texts
    BY <1>1 DEF HasContract, Texts, Shape, EpicShape, EpicRecords
<1>3. landed \in Seq(Upstream \X Texts) /\ Len(landed) = Len(sweep.landed) + 1
    BY <1>1, <1>2
<1>4. Len(landed) \in Nat /\ Len(sweep.needs) \in Nat /\ Len(landed) <= Len(sweep.needs)
    BY <1>1, <1>3
<1>5. sweep' = [sweep EXCEPT !.landed = landed,
                             !.at = IF Len(landed) = Len(sweep.needs) THEN "describe" ELSE "show"]
    BY DEF AppendsContract
<1> HIDE DEF found, landed
<1>6. CASE Len(landed) = Len(sweep.needs)
    <2>1. sweep' = [sweep EXCEPT !.landed = landed, !.at = "describe"]
        BY <1>5, <1>6
    <2>2. /\ sweep'.at = "describe" /\ sweep'.landed = landed /\ sweep'.needs = sweep.needs
          /\ sweep' \in [at : SweepSteps, needs : Seq(Upstream), text : Seq(Upstream \X Texts),
                         landed : Seq(Upstream \X Texts)]
        BY <1>3, <2>1 DEF Shape, SweepShape, SweepSteps, Telling
    <2>. QED  BY <2>2, <1>6 DEF SweepShape, Asking, Telling
<1>7. CASE Len(landed) # Len(sweep.needs)
    <2>1. sweep' = [sweep EXCEPT !.landed = landed, !.at = "show"]
        BY <1>5, <1>7
    <2>2. /\ sweep'.at = "show" /\ sweep'.landed = landed /\ sweep'.needs = sweep.needs
          /\ sweep' \in [at : SweepSteps, needs : Seq(Upstream), text : Seq(Upstream \X Texts),
                         landed : Seq(Upstream \X Texts)]
        BY <1>3, <2>1 DEF Shape, SweepShape, SweepSteps, Asking
    <2>. QED  BY <2>2, <1>4, <1>7 DEF SweepShape, Asking, Telling
<1>. QED  BY <1>6, <1>7

LEMMA IdleSweepShape ==
    ASSUME sweep' = IdleSweep
    PROVE  SweepShape'
BY DEF SweepShape, IdleSweep, SweepSteps, Asking, Telling

LEMMA SweepKeepsShape ==
    ASSUME CrossRigAssumption, Shape, SweepStep \/ SweepFails
    PROVE  Shape'
<1>0. EpicShape /\ RequestShape /\ SweepShape /\ OperatorShape /\ CountShape
    BY DEF Shape
<1>1. CASE ListDeferred
    <2>1. /\ request.needs \in Seq(Upstream) /\ request.needs # <<>>
          /\ request.text \in Seq(Upstream \X Texts)
          /\ sweep' = [at |-> "show", needs |-> request.needs, text |-> request.text,
                       landed |-> <<>>]
        BY <1>0, <1>1 DEF ListDeferred, Sweeps, IdleSweep, RequestShape
    <2>2. SweepShape'
        BY <2>1 DEF SweepShape, SweepSteps, Asking, Telling
    <2>. QED  BY <1>0, <1>1, <2>2 DEF ListDeferred, Sweeps, Shape, EpicShape, RequestShape,
                                      OperatorShape, CountShape
<1>2. CASE ShowNeed
    <2>1. \/ sweep' = IdleSweep
          \/ sweep' = [sweep EXCEPT !.at = "ask"]
          \/ sweep' = [sweep EXCEPT !.at = "children"]
        BY <1>2 DEF ShowNeed, Sweeps
    <2>2. sweep.at = "show"
        BY <1>2 DEF ShowNeed
    <2>3. SweepShape'
        <3>1. CASE sweep' = IdleSweep
            BY <3>1, IdleSweepShape
        <3>2. CASE sweep' = [sweep EXCEPT !.at = "ask"]
            BY <3>2, <2>2, <1>0 DEF SweepShape, SweepSteps, Asking, Telling
        <3>3. CASE sweep' = [sweep EXCEPT !.at = "children"]
            BY <3>3, <2>2, <1>0 DEF SweepShape, SweepSteps, Asking, Telling
        <3>. QED  BY <2>1, <3>1, <3>2, <3>3
    <2>. QED  BY <1>0, <1>2, <2>3 DEF ShowNeed, Sweeps, Shape, EpicShape, RequestShape,
                                      OperatorShape, CountShape
<1>3. CASE ReadContract
    <2>1. SweepShape'
        BY <1>3, AppendingKeepsShape DEF ReadContract
    <2>. QED  BY <1>0, <1>3, <2>1 DEF ReadContract, Shape, EpicShape, RequestShape,
                                      OperatorShape, CountShape
<1>4. CASE ListQuestions
    <2>1. SweepShape'
        <3>1. CASE sweep' = IdleSweep
            BY <3>1, IdleSweepShape
        <3>2. CASE sweep' = [sweep EXCEPT !.at = "raise"]
            BY <3>2, <1>4, <1>0 DEF ListQuestions, SweepShape, SweepSteps, Asking, Telling
        <3>. QED  BY <1>4, <3>1, <3>2 DEF ListQuestions, Sweeps
    <2>. QED  BY <1>0, <1>4, <2>1 DEF ListQuestions, Sweeps, Shape, EpicShape, RequestShape,
                                      OperatorShape, CountShape
<1>5. CASE Raise
    <2>1. SweepShape'
        BY <1>5, IdleSweepShape DEF Raise
    <2>2. Need \in Upstream /\ questions \in [Upstream -> Nat]
          /\ questions' = [questions EXCEPT ![Need] = @ + 1]
        BY <1>5, <1>0, NeedIsOne DEF Raise, Asking, CountShape
    <2>3. questions' \in [Upstream -> Nat] /\ \A u \in Upstream : questions'[u] >= questions[u]
        BY <2>2
    <2>4. CountShape'
        BY <1>0, <1>5, <2>3 DEF Raise, CountShape
    <2>5. OperatorShape'
        BY <1>0, <1>5, <2>2, <2>3 DEF Raise, OperatorShape
    <2>. QED  BY <1>0, <1>5, <2>1, <2>4, <2>5 DEF Raise, Shape, EpicShape, RequestShape
<1>6. CASE Describe
    <2>1. SweepShape'
        BY <1>6, <1>0 DEF Describe, SweepShape, SweepSteps, Asking, Telling
    <2>2. sweep.text \o sweep.landed \in Seq(Upstream \X Texts)
        BY <1>0, ConcatProperties DEF SweepShape
    <2>3. RequestShape'
        BY <1>0, <1>6, <2>2 DEF Describe, RequestShape
    <2>. QED  BY <1>0, <1>6, <2>1, <2>3 DEF Describe, Shape, EpicShape, OperatorShape, CountShape
<1>7. CASE Release
    <2>1. SweepShape'
        BY <1>7, IdleSweepShape DEF Release
    <2>2. RequestShape'
        BY <1>0, <1>7 DEF Release, Undeferred, RequestShape
    <2>. QED  BY <1>0, <1>7, <2>1, <2>2 DEF Release, Shape, EpicShape, OperatorShape, CountShape
<1>8. CASE SweepFails
    <2>1. SweepShape'
        <3>1. CASE sweep.at = "children"
            BY <1>8, <3>1, AppendingKeepsShape DEF SweepFails
        <3>2. CASE sweep.at = "ask"
            BY <1>0, <1>8, <3>2 DEF SweepFails, SweepShape, SweepSteps, Asking, Telling
        <3>3. CASE sweep.at \notin {"children", "ask"}
            BY <1>8, <3>3, IdleSweepShape DEF SweepFails
        <3>. QED  BY <3>1, <3>2, <3>3
    <2>2. CountShape'
        BY <1>0, <1>8 DEF SweepFails, CountShape, CrossRigAssumption
    <2>. QED  BY <1>0, <1>8, <2>1, <2>2 DEF SweepFails, Shape, EpicShape, RequestShape,
                                            OperatorShape
<1>. QED  BY <1>1, <1>2, <1>3, <1>4, <1>5, <1>6, <1>7, <1>8 DEF SweepStep

-----------------------------------------------------------------------------
(* The operator's answer keeps the shapes.                                 *)

LEMMA AnswerKeepsShape ==
    ASSUME Shape, NEW u \in Upstream, ContinueWithout(u) \/ CancelDependents(u)
    PROVE  Shape'
<1>0. EpicShape /\ RequestShape /\ SweepShape /\ OperatorShape /\ CountShape
    BY DEF Shape
<1>1. Without(u) \in Seq(Upstream)
    BY <1>0, WithoutKeeps DEF RequestShape
<1>2. UNCHANGED <<up, request, questions, sweep, faults>> /\ questions[u] > 0
    BY DEF ContinueWithout, CancelDependents, Answers
<1>3. OperatorShape'
    <2>1. CASE operator' = [at |-> "set_needs", on |-> u, kept |-> Without(u)]
        BY <2>1, <1>1, <1>2 DEF OperatorShape, AnswerSteps
    <2>2. CASE operator' = [at |-> "close", on |-> u, kept |-> <<>>]
        BY <2>2, <1>2 DEF OperatorShape, AnswerSteps
    <2>. QED  BY <2>1, <2>2 DEF ContinueWithout, CancelDependents, Answers
<1>. QED  BY <1>0, <1>2, <1>3 DEF Shape, EpicShape, RequestShape, SweepShape, CountShape

LEMMA OperatorKeepsShape ==
    ASSUME CrossRigAssumption, Shape, OperatorStep \/ OperatorFails
    PROVE  Shape'
<1>0. EpicShape /\ RequestShape /\ SweepShape /\ OperatorShape /\ CountShape
    BY DEF Shape
<1>1. CASE SetNeeds
    <2>1. operator.at = "set_needs" /\ operator.on \in Upstream /\ operator.kept \in Seq(Upstream)
        BY <1>0, <1>1 DEF SetNeeds, OperatorShape
    <2>2. RequestShape'
        BY <1>0, <1>1, <2>1 DEF SetNeeds, RequestShape
    <2>3. OperatorShape'
        BY <1>0, <1>1, <2>1 DEF SetNeeds, Answers, OperatorShape, AnswerSteps
    <2>. QED  BY <1>0, <1>1, <2>2, <2>3 DEF SetNeeds, Answers, Shape, EpicShape, SweepShape,
                                            CountShape
<1>2. CASE OperatorReleases
    <2>1. RequestShape'
        BY <1>0, <1>2 DEF OperatorReleases, Undeferred, RequestShape
    <2>2. OperatorShape'
        BY <1>0, <1>2 DEF OperatorReleases, Answers, OperatorShape, AnswerSteps
    <2>. QED  BY <1>0, <1>2, <2>1, <2>2 DEF OperatorReleases, Answers, Shape, EpicShape,
                                            SweepShape, CountShape
<1>3. CASE CloseRequest
    <2>1. RequestShape'
        BY <1>0, <1>3 DEF CloseRequest, RequestShape
    <2>2. OperatorShape'
        BY <1>0, <1>3 DEF CloseRequest, Answers, OperatorShape, AnswerSteps
    <2>. QED  BY <1>0, <1>3, <2>1, <2>2 DEF CloseRequest, Answers, Shape, EpicShape,
                                            SweepShape, CountShape
<1>4. CASE ResolveQuestion
    <2>1. operator.on \in Upstream /\ questions[operator.on] > 0
        BY <1>0, <1>4 DEF ResolveQuestion, OperatorShape
    <2>2. CountShape'
        BY <1>0, <1>4, <2>1 DEF ResolveQuestion, CountShape
    <2>3. OperatorShape'
        BY <1>4 DEF ResolveQuestion, OperatorShape, IdleOperator, AnswerSteps
    <2>. QED  BY <1>0, <1>4, <2>2, <2>3 DEF ResolveQuestion, Shape, EpicShape, RequestShape,
                                            SweepShape
<1>5. CASE OperatorFails
    <2>1. CountShape'
        BY <1>0, <1>5 DEF OperatorFails, CountShape, CrossRigAssumption
    <2>2. OperatorShape'
        BY <1>5 DEF OperatorFails, OperatorShape, IdleOperator, AnswerSteps
    <2>. QED  BY <1>0, <1>5, <2>1, <2>2 DEF OperatorFails, Shape, EpicShape, RequestShape,
                                            SweepShape
<1>. QED  BY <1>1, <1>2, <1>3, <1>4, <1>5 DEF OperatorStep

LEMMA ShapeStep ==
    ASSUME CrossRigAssumption, Shape, [CrossRigNext]_crossRigVars
    PROVE  Shape'
<1>1. CASE \E u \in Upstream : RigStep(u) \/ CancelChildren(u) \/ LoseContract(u)
    BY <1>1, EpicsKeepShape DEF RigMove
<1>2. CASE SweepStep \/ SweepFails
    BY <1>2, SweepKeepsShape
<1>3. CASE \E u \in Upstream : ContinueWithout(u) \/ CancelDependents(u)
    BY <1>3, AnswerKeepsShape
<1>4. CASE OperatorStep \/ OperatorFails
    BY <1>4, OperatorKeepsShape
<1>5. CASE UNCHANGED crossRigVars
    BY <1>5 DEF crossRigVars, Shape, EpicShape, RequestShape, SweepShape, OperatorShape, CountShape
<1>. QED  BY <1>1, <1>2, <1>3, <1>4, <1>5 DEF CrossRigNext

LEMMA ShapeAlways ==
    ASSUME CrossRigAssumption
    PROVE  CrossRigSpec => []Shape
<1>1. CrossRigInit => Shape
    BY ShapeFirst
<1>2. Shape /\ [CrossRigNext]_crossRigVars => Shape'
    BY ShapeStep
<1>. QED  BY <1>1, <1>2, PTL DEF CrossRigSpec

\* A request, the console's sweep and the operator's answer keep their types whatever fails and
\* however they overlap; the sweep never looks past its needs, and no question is answered twice.
THEOREM CrossRigTypesHold ==
    ASSUME CrossRigAssumption
    PROVE  CrossRigSpec => []CrossRigTypeOK
<1>1. Shape => CrossRigTypeOK
    BY ShapeMeansTyped
<1>. QED  BY <1>1, ShapeAlways, PTL

-----------------------------------------------------------------------------
(* A released request is decided.                                          *)

\* The epics the request still needs.
Remaining == ToSet(NeedList) \ request.dropped

\* What the sweep has found of its n-th need stays so.
Found(n) ==
    /\ sweep.landed[n][1] = sweep.needs[n]
    /\ up[sweep.needs[n]].work = "landed" /\ up[sweep.needs[n]].status = "closed"

\* The sweep lists every epic still needed, and passes only what has landed.
SweepOK ==
    /\ sweep.at # "idle" => Remaining \subseteq ToSet(sweep.needs)
    /\ sweep.at # "idle" => \A n \in 1..Len(sweep.landed) : Found(n)
    /\ sweep.at = "children" => up[Need].work = "landed" /\ up[Need].status = "closed"

\* An answer drops the epic it is about, and no other.
OperatorOK ==
    /\ operator.at = "set_needs" => Remaining \ {operator.on} \subseteq ToSet(operator.kept)
    /\ operator.at = "undefer" => Remaining = {}

RequestOK ==
    /\ Remaining \subseteq ToSet(request.needs)
    /\ request.status = "open" => \A u \in Remaining : up[u].work = "landed"

CrossRigInv == Shape /\ SweepOK /\ OperatorOK /\ RequestOK

LEMMA RemainingIsUpstream ==
    ASSUME CrossRigAssumption
    PROVE  Remaining \subseteq Upstream
BY ElementsOf DEF CrossRigAssumption, Remaining

LEMMA PassedAreNeeds ==
    ASSUME Shape, sweep.at # "idle"
    PROVE  /\ Len(sweep.landed) \in Nat /\ Len(sweep.needs) \in Nat
           /\ Len(sweep.landed) <= Len(sweep.needs)
           /\ \A n \in 1..Len(sweep.landed) : sweep.needs[n] \in Upstream
<1>1. /\ sweep.at \in Asking \cup Telling
      /\ sweep.landed \in Seq(Upstream \X Texts) /\ sweep.needs \in Seq(Upstream)
    BY DEF Shape, SweepShape, SweepSteps
<1>2. Len(sweep.landed) \in Nat /\ Len(sweep.needs) \in Nat
    BY <1>1
<1>3. Len(sweep.landed) <= Len(sweep.needs)
    BY <1>1, <1>2 DEF Shape, SweepShape
<1>. QED  BY <1>1, <1>2, <1>3

LEMMA EpicsStay ==
    ASSUME CrossRigAssumption, Shape, NEW u \in Upstream, RigMove(u)
    PROVE  \A v \in Upstream :
              /\ up[v].work = "landed" => up'[v].work = "landed"
              /\ up[v].status = "closed" => up'[v].status = "closed"
              /\ up[v].status = "closed" /\ up[v].contract # "due"
                   => up'[v].contract = up[v].contract
<1>1. PICK y : Advances(up[u], y) /\ up' = [up EXCEPT ![u] = y]
    BY EpicsAdvance
<1>2. up \in [Upstream -> EpicRecords]
    BY DEF Shape, EpicShape
<1>. QED  BY <1>1, <1>2 DEF Advances

LEMMA InvFirst ==
    ASSUME CrossRigAssumption, CrossRigInit
    PROVE  SweepOK /\ OperatorOK /\ RequestOK
BY DEF CrossRigInit, IdleSweep, IdleOperator, Remaining, SweepOK, OperatorOK, RequestOK

LEMMA EpicsKeepInv ==
    ASSUME CrossRigAssumption, CrossRigInv, NEW u \in Upstream, RigMove(u)
    PROVE  (SweepOK /\ OperatorOK /\ RequestOK)'
<1>0. Shape /\ SweepOK /\ OperatorOK /\ RequestOK
    BY DEF CrossRigInv
<1>1. UNCHANGED <<request, sweep, operator>>
    BY <1>0, EpicsAdvance
<1>2. Remaining' = Remaining /\ Remaining \subseteq Upstream
    BY <1>1, RemainingIsUpstream DEF Remaining
<1>3. SweepOK'
    <2>1. ASSUME sweep.at # "idle", NEW n \in 1..Len(sweep.landed)
          PROVE  Found(n)'
        <3>1. sweep.needs[n] \in Upstream /\ Found(n)
            BY <1>0, <2>1, PassedAreNeeds DEF SweepOK
        <3>. QED  BY <3>1, <1>0, <1>1, EpicsStay DEF Found
    <2>2. ASSUME sweep.at = "children"
          PROVE  up'[Need].work = "landed" /\ up'[Need].status = "closed"
        <3>1. Need \in Upstream
            BY <1>0, <2>2, NeedIsOne DEF Asking
        <3>. QED  BY <3>1, <1>0, <2>2, EpicsStay DEF SweepOK
    <2>3. Need' = Need
        BY <1>1 DEF Need
    <2>. QED  BY <1>0, <1>1, <1>2, <2>1, <2>2, <2>3 DEF SweepOK
<1>4. OperatorOK'
    BY <1>0, <1>1, <1>2 DEF OperatorOK
<1>5. RequestOK'
    BY <1>0, <1>1, <1>2, EpicsStay DEF RequestOK
<1>. QED  BY <1>3, <1>4, <1>5

-----------------------------------------------------------------------------
(* The sweep passes only what has landed.                                  *)

LEMMA IdleSweepOK ==
    ASSUME sweep' = IdleSweep
    PROVE  SweepOK'
BY DEF SweepOK, IdleSweep

\* A canceled epic is not passed: its label is written before it is closed.
LEMMA ShownHasLanded ==
    ASSUME Shape, MetWhole = TRUE, sweep.at = "show", Quiet(Need),
           up[Need].status = "closed", ~up[Need].canceled
    PROVE  up[Need].work = "landed"
<1>1. Need \in Upstream
    BY NeedIsOne DEF Asking
<1>2. up[Need] \in EpicRecords /\ EpicOK(up[Need]) /\ up[Need].cancel = "no"
    BY <1>1 DEF Shape, EpicShape, Quiet
<1>. QED  BY <1>2 DEF EpicOK, EpicRecords

LEMMA AppendedIsFound ==
    ASSUME Shape, SweepOK, sweep.at = "children", NEW b \in BOOLEAN, AppendsContract(b)
    PROVE  /\ sweep'.needs = sweep.needs /\ sweep'.text = sweep.text
           /\ sweep'.at \in {"show", "describe"}
           /\ sweep.landed \in Seq(Upstream \X Texts)
           /\ Len(sweep'.landed) = Len(sweep.landed) + 1
           /\ \A n \in 1..Len(sweep.landed) : sweep'.landed[n] = sweep.landed[n]
           /\ sweep'.landed[Len(sweep.landed) + 1] = <<Need, HasContract(Need, b)>>
<1> DEFINE found == <<Need, HasContract(Need, b)>>
           landed == Append(sweep.landed, found)
<1>1. /\ Need \in Upstream
      /\ sweep.landed \in Seq(Upstream \X Texts)
      /\ sweep \in [at : SweepSteps, needs : Seq(Upstream), text : Seq(Upstream \X Texts),
                    landed : Seq(Upstream \X Texts)]
    BY NeedIsOne DEF Shape, SweepShape, Asking
<1>2. found \in Upstream \X Texts
    BY <1>1 DEF HasContract, Texts, Shape, EpicShape, EpicRecords
<1>3. /\ Len(landed) = Len(sweep.landed) + 1
      /\ \A n \in 1..Len(sweep.landed) : landed[n] = sweep.landed[n]
      /\ landed[Len(sweep.landed) + 1] = found
    BY <1>1, <1>2
<1>4. sweep' = [sweep EXCEPT !.landed = landed,
                             !.at = IF Len(landed) = Len(sweep.needs) THEN "describe" ELSE "show"]
    BY DEF AppendsContract
<1> HIDE DEF found, landed
<1>5. sweep'.landed = landed /\ sweep'.needs = sweep.needs /\ sweep'.text = sweep.text
      /\ sweep'.at \in {"show", "describe"}
    BY <1>1, <1>4
<1>. QED  BY <1>1, <1>3, <1>5 DEF found

LEMMA AppendingKeepsSweepOK ==
    ASSUME Shape, SweepOK, sweep.at = "children", NEW b \in BOOLEAN, AppendsContract(b),
           UNCHANGED <<up, request>>
    PROVE  SweepOK'
<1>1. Remaining' = Remaining
    BY DEF Remaining
<1>2. ASSUME NEW n \in 1..Len(sweep'.landed)
      PROVE  Found(n)'
    <2>1. Len(sweep.landed) \in Nat
        BY AppendedIsFound
    <2>2. CASE n \in 1..Len(sweep.landed)
        BY <2>2, AppendedIsFound DEF SweepOK, Found
    <2>3. CASE n = Len(sweep.landed) + 1
        <3>1. sweep.needs[n] = Need
            BY <2>3 DEF Need
        <3>2. sweep'.landed[n][1] = Need
            BY <2>3, AppendedIsFound
        <3>. QED  BY <3>1, <3>2, AppendedIsFound DEF SweepOK, Found
    <2>. QED  BY <1>2, <2>1, <2>2, <2>3, AppendedIsFound
<1>. QED  BY <1>1, <1>2, AppendedIsFound DEF SweepOK

\* When the sweep has read every need, each epic still needed has landed.
LEMMA ReleasedHaveLanded ==
    ASSUME CrossRigInv, sweep.at = "undefer", NEW u \in Remaining
    PROVE  \E n \in 1..Len(sweep.landed) : sweep.needs[n] = u /\ Found(n)
<1>1. /\ Remaining \subseteq ToSet(sweep.needs)
      /\ \A n \in 1..Len(sweep.landed) : Found(n)
      /\ sweep.needs \in Seq(Upstream) /\ Len(sweep.landed) = Len(sweep.needs)
    BY DEF CrossRigInv, SweepOK, Shape, SweepShape, Telling
<1>. QED  BY <1>1, ElementsOf

LEMMA SweepKeepsInv ==
    ASSUME CrossRigAssumption, MetWhole = TRUE, CrossRigInv, SweepStep \/ SweepFails
    PROVE  (SweepOK /\ OperatorOK /\ RequestOK)'
<1>0. Shape /\ SweepOK /\ OperatorOK /\ RequestOK
    BY DEF CrossRigInv
<1>1. UNCHANGED <<up, operator>> /\ request'.dropped = request.dropped
      /\ request'.needs = request.needs
    BY <1>0 DEF SweepStep, SweepFails, ListDeferred, ShowNeed, ReadContract, ListQuestions, Raise,
                Describe, Release, Undeferred, Sweeps, Shape, RequestShape
<1>2. Remaining' = Remaining
    BY <1>1 DEF Remaining
<1>3. OperatorOK'
    BY <1>0, <1>1, <1>2 DEF OperatorOK
<1>4. ASSUME request'.status = request.status
      PROVE  RequestOK'
    BY <1>0, <1>1, <1>2, <1>4 DEF RequestOK
<1>5. CASE ListDeferred
    <2>1. request' = request /\ Len(sweep'.landed) = 0 /\ sweep'.at = "show"
          /\ sweep'.needs = request.needs
        BY <1>5 DEF ListDeferred, Sweeps, IdleSweep
    <2>2. SweepOK'
        BY <1>0, <1>2, <2>1 DEF SweepOK, RequestOK
    <2>. QED  BY <1>3, <1>4, <2>1, <2>2
<1>6. CASE ShowNeed
    <2>1. request' = request /\ up' = up /\ sweep.at = "show" /\ Quiet(Need)
        BY <1>6 DEF ShowNeed, Sweeps
    <2>2. CASE sweep' = IdleSweep
        BY <1>3, <1>4, <2>1, <2>2, IdleSweepOK
    <2>3. CASE up[Need].status = "closed" /\ up[Need].canceled
               /\ sweep' = [sweep EXCEPT !.at = "ask"]
        <3>1. sweep'.at = "ask" /\ sweep'.landed = sweep.landed /\ sweep'.needs = sweep.needs
            BY <2>3, <1>0 DEF Shape, SweepShape
        <3>2. SweepOK'
            BY <1>0, <1>2, <2>1, <3>1 DEF SweepOK, Found
        <3>. QED  BY <1>3, <1>4, <2>1, <3>2
    <2>4. CASE up[Need].status = "closed" /\ ~up[Need].canceled
               /\ sweep' = [sweep EXCEPT !.at = "children"]
        <3>1. /\ sweep'.at = "children" /\ sweep'.landed = sweep.landed
              /\ sweep'.needs = sweep.needs
            BY <2>4, <1>0 DEF Shape, SweepShape
        <3>2. Need' = Need
            BY <3>1 DEF Need
        <3>3. up[Need].work = "landed"
            BY <1>0, <2>1, <2>4, ShownHasLanded
        <3>4. SweepOK'
            BY <1>0, <1>2, <2>1, <2>4, <3>1, <3>2, <3>3 DEF SweepOK, Found
        <3>. QED  BY <1>3, <1>4, <2>1, <3>4
    <2>. QED  BY <1>6, <2>2, <2>3, <2>4 DEF ShowNeed, Sweeps
<1>7. CASE ReadContract
    <2>1. request' = request /\ up' = up /\ sweep.at = "children" /\ AppendsContract(FALSE)
        BY <1>7 DEF ReadContract
    <2>2. SweepOK'
        BY <1>0, <2>1, AppendingKeepsSweepOK
    <2>. QED  BY <1>3, <1>4, <2>1, <2>2
<1>8. CASE ListQuestions
    <2>1. request' = request /\ up' = up
        BY <1>8 DEF ListQuestions, Sweeps
    <2>2. CASE sweep' = IdleSweep
        BY <1>3, <1>4, <2>1, <2>2, IdleSweepOK
    <2>3. CASE sweep' = [sweep EXCEPT !.at = "raise"] /\ sweep.at = "ask"
        <3>1. sweep'.at = "raise" /\ sweep'.landed = sweep.landed /\ sweep'.needs = sweep.needs
            BY <2>3, <1>0 DEF Shape, SweepShape
        <3>2. SweepOK'
            BY <1>0, <1>2, <2>1, <2>3, <3>1 DEF SweepOK, Found
        <3>. QED  BY <1>3, <1>4, <2>1, <3>2
    <2>. QED  BY <1>8, <2>2, <2>3 DEF ListQuestions, Sweeps
<1>9. CASE Raise
    BY <1>9, <1>3, <1>4, IdleSweepOK DEF Raise
<1>10. CASE Describe
    <2>1. /\ request'.status = request.status /\ up' = up /\ sweep.at = "describe"
          /\ sweep'.at = "undefer" /\ sweep'.landed = sweep.landed /\ sweep'.needs = sweep.needs
        BY <1>10, <1>0 DEF Describe, Shape, SweepShape, RequestShape
    <2>2. SweepOK'
        BY <1>0, <1>2, <2>1 DEF SweepOK, Found
    <2>. QED  BY <1>3, <1>4, <2>1, <2>2
<1>11. CASE Release
    <2>1. sweep.at = "undefer" /\ SweepOK'
        BY <1>11, IdleSweepOK DEF Release
    <2>2. \A u \in Remaining : up[u].work = "landed"
        BY <2>1, ReleasedHaveLanded DEF Found
    <2>3. RequestOK'
        BY <1>0, <1>1, <1>2, <2>2 DEF RequestOK
    <2>. QED  BY <1>3, <2>1, <2>3
<1>12. CASE SweepFails
    <2>1. request' = request /\ up' = up
        BY <1>12 DEF SweepFails
    <2>2. CASE sweep.at = "children"
        <3>1. AppendsContract(TRUE)
            BY <1>12, <2>2 DEF SweepFails
        <3>2. SweepOK'
            BY <1>0, <2>1, <2>2, <3>1, AppendingKeepsSweepOK
        <3>. QED  BY <1>3, <1>4, <2>1, <3>2
    <2>3. CASE sweep.at = "ask"
        <3>1. sweep'.at = "raise" /\ sweep'.landed = sweep.landed /\ sweep'.needs = sweep.needs
            BY <1>12, <2>3, <1>0 DEF SweepFails, Shape, SweepShape
        <3>2. SweepOK'
            BY <1>0, <1>2, <2>1, <2>3, <3>1 DEF SweepOK, Found
        <3>. QED  BY <1>3, <1>4, <2>1, <3>2
    <2>4. CASE sweep.at \notin {"children", "ask"}
        BY <1>12, <1>3, <1>4, <2>1, <2>4, IdleSweepOK DEF SweepFails
    <2>. QED  BY <2>2, <2>3, <2>4
<1>. QED  BY <1>5, <1>6, <1>7, <1>8, <1>9, <1>10, <1>11, <1>12 DEF SweepStep

-----------------------------------------------------------------------------
(* An answer drops the epic it is about, and no other.                     *)

LEMMA AnswerKeepsInv ==
    ASSUME CrossRigInv, NEW u \in Upstream, ContinueWithout(u) \/ CancelDependents(u)
    PROVE  (SweepOK /\ OperatorOK /\ RequestOK)'
<1>0. Shape /\ SweepOK /\ OperatorOK /\ RequestOK
    BY DEF CrossRigInv
<1>1. UNCHANGED <<up, request, sweep>>
    BY DEF ContinueWithout, CancelDependents, Answers
<1>2. Remaining' = Remaining /\ Need' = Need
    BY <1>1 DEF Remaining, Need
<1>3. (SweepOK /\ RequestOK)'
    BY <1>0, <1>1, <1>2 DEF SweepOK, Found, RequestOK
<1>4. CASE operator' = [at |-> "set_needs", on |-> u, kept |-> Without(u)]
    <2>1. Remaining \ {u} \subseteq ToSet(Without(u))
        BY <1>0, WithoutKeeps DEF RequestOK, Shape, RequestShape
    <2>2. OperatorOK'
        BY <1>2, <1>4, <2>1 DEF OperatorOK
    <2>. QED  BY <1>3, <2>2
<1>5. CASE operator' = [at |-> "close", on |-> u, kept |-> <<>>]
    BY <1>3, <1>5 DEF OperatorOK
<1>. QED  BY <1>4, <1>5 DEF ContinueWithout, CancelDependents, Answers

LEMMA OperatorKeepsInv ==
    ASSUME CrossRigInv, OperatorStep \/ OperatorFails
    PROVE  (SweepOK /\ OperatorOK /\ RequestOK)'
<1>0. Shape /\ SweepOK /\ OperatorOK /\ RequestOK
    BY DEF CrossRigInv
<1>1. UNCHANGED <<up, sweep>>
    BY DEF OperatorStep, OperatorFails, SetNeeds, OperatorReleases, CloseRequest, ResolveQuestion,
           Answers
<1>2. ASSUME Remaining' \subseteq Remaining
      PROVE  SweepOK'
    <2>1. Need' = Need
        BY <1>1 DEF Need
    <2>. QED  BY <1>0, <1>1, <1>2, <2>1 DEF SweepOK, Found
<1>3. CASE SetNeeds
    <2>1. /\ operator.at = "set_needs"
          /\ request'.needs = operator.kept /\ request'.status = request.status
          /\ request'.dropped = request.dropped \cup {operator.on}
        BY <1>0, <1>3 DEF SetNeeds, Shape, RequestShape
    <2>2. Remaining' = Remaining \ {operator.on}
        BY <2>1 DEF Remaining
    <2>3. RequestOK'
        BY <1>0, <1>1, <2>1, <2>2 DEF RequestOK, OperatorOK
    <2>4. OperatorOK'
        <3>1. operator'.at = IF operator.kept = <<>> THEN "undefer" ELSE "resolve"
            BY <1>0, <1>3 DEF SetNeeds, Answers, Shape, OperatorShape
        <3>2. ToSet(<<>>) = {}
            BY DEF ToSet
        <3>. QED  BY <1>0, <2>1, <2>2, <3>1, <3>2 DEF OperatorOK
    <2>. QED  BY <1>2, <2>2, <2>3, <2>4
<1>4. CASE OperatorReleases
    <2>1. /\ operator.at = "undefer" /\ operator'.at = "resolve"
          /\ request'.needs = request.needs /\ request'.dropped = request.dropped
        BY <1>0, <1>4 DEF OperatorReleases, Answers, Undeferred, Shape, RequestShape, OperatorShape
    <2>2. Remaining' = Remaining /\ Remaining = {}
        BY <1>0, <2>1 DEF Remaining, OperatorOK
    <2>3. RequestOK' /\ OperatorOK'
        BY <2>1, <2>2 DEF RequestOK, OperatorOK
    <2>. QED  BY <1>2, <2>2, <2>3
<1>5. CASE CloseRequest
    <2>1. /\ operator'.at = "resolve"
          /\ request'.status = "closed"
          /\ request'.needs = request.needs /\ request'.dropped = request.dropped
        BY <1>0, <1>5 DEF CloseRequest, Answers, Shape, RequestShape, OperatorShape
    <2>2. Remaining' = Remaining
        BY <2>1 DEF Remaining
    <2>3. RequestOK' /\ OperatorOK'
        BY <1>0, <2>1, <2>2 DEF RequestOK, OperatorOK
    <2>. QED  BY <1>2, <2>2, <2>3
<1>6. CASE ResolveQuestion \/ OperatorFails
    <2>1. request' = request /\ operator'.at = "idle"
        BY <1>6 DEF ResolveQuestion, OperatorFails, IdleOperator
    <2>2. Remaining' = Remaining
        BY <2>1 DEF Remaining
    <2>3. RequestOK' /\ OperatorOK'
        BY <1>0, <1>1, <2>1, <2>2 DEF RequestOK, OperatorOK
    <2>. QED  BY <1>2, <2>2, <2>3
<1>. QED  BY <1>3, <1>4, <1>5, <1>6 DEF OperatorStep

LEMMA InvStep ==
    ASSUME CrossRigAssumption, MetWhole = TRUE, CrossRigInv, [CrossRigNext]_crossRigVars
    PROVE  CrossRigInv'
<1>0. Shape'
    BY ShapeStep DEF CrossRigInv
<1>1. CASE \E u \in Upstream : RigStep(u) \/ CancelChildren(u) \/ LoseContract(u)
    BY <1>0, <1>1, EpicsKeepInv DEF RigMove, CrossRigInv
<1>2. CASE SweepStep \/ SweepFails
    BY <1>0, <1>2, SweepKeepsInv DEF CrossRigInv
<1>3. CASE \E u \in Upstream : ContinueWithout(u) \/ CancelDependents(u)
    BY <1>0, <1>3, AnswerKeepsInv DEF CrossRigInv
<1>4. CASE OperatorStep \/ OperatorFails
    BY <1>0, <1>4, OperatorKeepsInv DEF CrossRigInv
<1>5. CASE UNCHANGED crossRigVars
    <2>1. Remaining' = Remaining /\ Need' = Need
        BY <1>5 DEF crossRigVars, Remaining, Need
    <2>2. (SweepOK /\ OperatorOK /\ RequestOK)'
        BY <1>5, <2>1 DEF crossRigVars, CrossRigInv, SweepOK, Found, OperatorOK, RequestOK
    <2>. QED  BY <1>0, <2>2 DEF CrossRigInv
<1>. QED  BY <1>1, <1>2, <1>3, <1>4, <1>5 DEF CrossRigNext

LEMMA InvAlways ==
    ASSUME CrossRigAssumption, MetWhole = TRUE
    PROVE  CrossRigSpec => []CrossRigInv
<1>1. CrossRigInit => CrossRigInv
    BY ShapeFirst, InvFirst DEF CrossRigInv
<1>2. CrossRigInv /\ [CrossRigNext]_crossRigVars => CrossRigInv'
    BY InvStep
<1>. QED  BY <1>1, <1>2, PTL DEF CrossRigSpec

\* A request is released only when each epic it was submitted with landed or was dropped by the
\* operator: for any number of epics, of sweeps and of answers, and whatever fails between two
\* of their commands, as long as no epic is met half-way through its closing or its cancel.
THEOREM ReleasesAreDecided ==
    ASSUME CrossRigAssumption, MetWhole = TRUE
    PROVE  CrossRigSpec => []ReleasedMeansDecided
<1>1. CrossRigInv => ReleasedMeansDecided
    BY DEF CrossRigInv, RequestOK, Remaining, ReleasedMeansDecided
<1>. QED  BY <1>1, InvAlways, PTL

-----------------------------------------------------------------------------
(* The planner sees each contract that was written.                        *)

\* A contract that was written or lost before it was read stays so.
Tells(u, text) ==
    /\ up[u].status = "closed" /\ up[u].contract # "due"
    /\ up[u].contract # "none" => <<u, "written">> \in ToSet(text)

\* What the sweep has read of its n-th need is its contract.
Read(n) ==
    /\ up[sweep.needs[n]].contract # "due"
    /\ sweep.landed[n][2] = up[sweep.needs[n]].contract

\* A request is open under a sweep's hands only when the operator dropped every need, so a text
\* the sweep writes then replaces no contract.
TextInv ==
    /\ sweep.at # "idle" => \A n \in 1..Len(sweep.landed) : Read(n)
    /\ sweep.at = "undefer" => request.text = sweep.text \o sweep.landed
    /\ request.status = "open" => \A u \in Remaining : Tells(u, request.text)
    /\ request.status = "open" /\ sweep.at # "idle" => Remaining = {}

LEMMA TextFirst ==
    ASSUME CrossRigInit
    PROVE  TextInv
BY DEF CrossRigInit, IdleSweep, TextInv

LEMMA EpicsKeepText ==
    ASSUME CrossRigAssumption, CrossRigInv, TextInv, NEW u \in Upstream, RigMove(u)
    PROVE  TextInv'
<1>0. Shape /\ SweepOK
    BY DEF CrossRigInv
<1>1. UNCHANGED <<request, sweep>>
    BY <1>0, EpicsAdvance
<1>2. Remaining' = Remaining /\ Remaining \subseteq Upstream
    BY <1>1, RemainingIsUpstream DEF Remaining
<1>3. ASSUME sweep.at # "idle", NEW n \in 1..Len(sweep.landed)
      PROVE  Read(n)'
    <2>1. sweep.needs[n] \in Upstream /\ Found(n) /\ Read(n)
        BY <1>0, <1>3, PassedAreNeeds DEF SweepOK, TextInv
    <2>. QED  BY <2>1, <1>0, <1>1, EpicsStay DEF Found, Read
<1>4. ASSUME NEW v \in Remaining, Tells(v, request.text)
      PROVE  Tells(v, request.text)'
    <2>1. v \in Upstream
        BY <1>2
    <2>2. up'[v].status = "closed" /\ up'[v].contract = up[v].contract
        BY <1>0, <1>4, <2>1, EpicsStay DEF Tells
    <2>. QED  BY <1>1, <1>4, <2>2 DEF Tells
<1>. QED  BY <1>1, <1>2, <1>3, <1>4 DEF TextInv

LEMMA SweepKeepsText ==
    ASSUME CrossRigAssumption, MetWhole = TRUE, "children" \notin FailAt, CrossRigInv, TextInv,
           SweepStep \/ SweepFails
    PROVE  TextInv'
<1>0. Shape /\ SweepOK
    BY DEF CrossRigInv
<1>1. up' = up /\ request'.dropped = request.dropped
    BY <1>0 DEF SweepStep, SweepFails, ListDeferred, ShowNeed, ReadContract, ListQuestions, Raise,
                Describe, Release, Undeferred, Sweeps, Shape, RequestShape
<1>2. Remaining' = Remaining
    BY <1>1 DEF Remaining
<1>3. ASSUME request' = request, sweep' = IdleSweep
      PROVE  TextInv'
    BY <1>1, <1>2, <1>3 DEF TextInv, Tells, IdleSweep
<1>4. ASSUME request' = request, sweep.at \in Asking, sweep'.at \in Asking,
             sweep'.landed = sweep.landed, sweep'.needs = sweep.needs
      PROVE  TextInv'
    BY <1>1, <1>2, <1>4 DEF TextInv, Tells, Read, Asking
<1>5. CASE ListDeferred
    <2>1. /\ request' = request /\ request.status = "deferred"
          /\ sweep'.at = "show" /\ Len(sweep'.landed) = 0
        BY <1>5 DEF ListDeferred, Sweeps, IdleSweep
    <2>. QED  BY <2>1 DEF TextInv
<1>6. CASE ShowNeed
    <2>1. request' = request /\ sweep.at = "show"
        BY <1>6 DEF ShowNeed, Sweeps
    <2>2. CASE sweep' = IdleSweep
        BY <1>3, <2>1, <2>2
    <2>3. CASE \/ sweep' = [sweep EXCEPT !.at = "ask"]
               \/ sweep' = [sweep EXCEPT !.at = "children"]
        <3>1. /\ sweep'.at \in {"ask", "children"}
              /\ sweep'.landed = sweep.landed /\ sweep'.needs = sweep.needs
            BY <2>3, <1>0 DEF Shape, SweepShape
        <3>. QED  BY <1>4, <2>1, <3>1 DEF Asking
    <2>. QED  BY <1>6, <2>2, <2>3 DEF ShowNeed, Sweeps
<1>7. CASE ReadContract
    <2>1. request' = request /\ sweep.at = "children" /\ Quiet(Need) /\ AppendsContract(FALSE)
        BY <1>7 DEF ReadContract
    <2>2. FALSE \in BOOLEAN
        OBVIOUS
    <2>3. Len(sweep.landed) \in Nat
        BY <1>0, <2>1, PassedAreNeeds
    <2>4. /\ sweep'.needs = sweep.needs /\ sweep'.at \in {"show", "describe"}
          /\ Len(sweep'.landed) = Len(sweep.landed) + 1
          /\ \A n \in 1..Len(sweep.landed) : sweep'.landed[n] = sweep.landed[n]
          /\ sweep'.landed[Len(sweep.landed) + 1] = <<Need, HasContract(Need, FALSE)>>
        BY <1>0, <2>1, <2>2, AppendedIsFound, Zenon
    <2>5. ASSUME NEW n \in 1..Len(sweep'.landed)
          PROVE  Read(n)'
        <3>1. CASE n \in 1..Len(sweep.landed)
            BY <3>1, <1>1, <2>1, <2>4 DEF TextInv, Read
        <3>2. CASE n = Len(sweep.landed) + 1
            <4>1. sweep.needs[n] = Need
                BY <3>2 DEF Need
            <4>2. up[Need].contract # "due" /\ sweep'.landed[n][2] = up[Need].contract
                BY <3>2, <2>1, <2>4 DEF Quiet, HasContract
            <4>. QED  BY <4>1, <4>2, <1>1, <2>4 DEF Read
        <3>. QED  BY <2>4, <2>5, <2>3, <3>1, <3>2
    <2>. QED  BY <1>1, <1>2, <2>1, <2>4, <2>5 DEF TextInv, Tells
<1>8. CASE ListQuestions
    <2>1. request' = request /\ sweep.at = "ask"
        BY <1>8 DEF ListQuestions, Sweeps
    <2>2. CASE sweep' = IdleSweep
        BY <1>3, <2>1, <2>2
    <2>3. CASE sweep' = [sweep EXCEPT !.at = "raise"]
        <3>1. sweep'.at = "raise" /\ sweep'.landed = sweep.landed /\ sweep'.needs = sweep.needs
            BY <2>3, <1>0 DEF Shape, SweepShape
        <3>. QED  BY <1>4, <2>1, <3>1 DEF Asking
    <2>. QED  BY <1>8, <2>2, <2>3 DEF ListQuestions, Sweeps
<1>9. CASE Raise
    BY <1>9, <1>3 DEF Raise
<1>10. CASE Describe
    <2>1. /\ request'.status = request.status
          /\ request'.text = sweep.text \o sweep.landed
          /\ sweep.at = "describe" /\ sweep'.at = "undefer" /\ sweep'.text = sweep.text
          /\ sweep'.landed = sweep.landed /\ sweep'.needs = sweep.needs
        BY <1>10, <1>0 DEF Describe, Shape, SweepShape, RequestShape
    <2>2. request'.status = "open" => Remaining' = {}
        BY <1>2, <2>1 DEF TextInv
    <2>. QED  BY <1>1, <2>1, <2>2 DEF TextInv, Read
<1>11. CASE Release
    <2>1. sweep.at = "undefer" /\ sweep'.at = "idle" /\ request'.text = request.text
          /\ (request'.status = "open" => request.status \in {"open", "deferred"})
        BY <1>0, <1>11 DEF Release, IdleSweep, Undeferred, Shape, RequestShape
    <2>2. ASSUME NEW u \in Remaining
          PROVE  Tells(u, request.text)
        <3>1. PICK n \in 1..Len(sweep.landed) : sweep.needs[n] = u /\ Found(n)
            BY <2>1, ReleasedHaveLanded
        <3>2. Read(n)
            BY <2>1 DEF TextInv
        <3>3. /\ sweep.text \in Seq(Upstream \X Texts) /\ sweep.landed \in Seq(Upstream \X Texts)
              /\ u \in Upstream /\ up[u].contract \in Texts
            BY <1>0, RemainingIsUpstream DEF Shape, SweepShape, EpicShape, EpicRecords
        <3>4. sweep.landed[n] = <<u, up[u].contract>>
            BY <3>1, <3>2, <3>3 DEF Found, Read
        <3>5. request.text = sweep.text \o sweep.landed
            BY <2>1 DEF TextInv
        <3>6. sweep.landed[n] \in ToSet(sweep.text \o sweep.landed)
            BY <3>3, ConcatHolds
        <3>7. up[u].contract # "none" => up[u].contract = "written"
            BY <3>1, <3>2, <3>3 DEF Read, Texts
        <3>. QED  BY <3>1, <3>2, <3>4, <3>5, <3>6, <3>7 DEF Tells, Found, Read
    <2>. QED  BY <1>1, <1>2, <2>1, <2>2 DEF TextInv, Tells
<1>12. CASE SweepFails
    <2>1. request' = request /\ sweep.at # "children"
        BY <1>12 DEF SweepFails
    <2>2. CASE sweep.at = "ask"
        <3>1. sweep'.at = "raise" /\ sweep'.landed = sweep.landed /\ sweep'.needs = sweep.needs
            BY <1>12, <2>2, <1>0 DEF SweepFails, Shape, SweepShape
        <3>. QED  BY <1>4, <2>1, <2>2, <3>1 DEF Asking
    <2>3. CASE sweep.at # "ask"
        BY <1>12, <1>3, <2>1, <2>3 DEF SweepFails
    <2>. QED  BY <2>2, <2>3
<1>. QED  BY <1>5, <1>6, <1>7, <1>8, <1>9, <1>10, <1>11, <1>12 DEF SweepStep

\* The operator's answer opens a request that needs nothing any more, and writes no text.
LEMMA OperatorKeepsText ==
    ASSUME CrossRigInv, TextInv,
           \/ OperatorStep \/ OperatorFails
           \/ \E u \in Upstream : ContinueWithout(u) \/ CancelDependents(u)
    PROVE  TextInv'
<1>1. Shape /\ OperatorOK /\ UNCHANGED <<up, sweep>>
    BY DEF CrossRigInv, OperatorStep, OperatorFails, SetNeeds, OperatorReleases, CloseRequest,
           ResolveQuestion, Answers, ContinueWithout, CancelDependents
<1>2. ASSUME request'.text = request.text, Remaining' \subseteq Remaining,
             request'.status = "open" => request.status = "open" \/ Remaining = {}
      PROVE  TextInv'
    BY <1>1, <1>2 DEF TextInv, Tells, Read
<1>3. CASE SetNeeds
    <2>1. request'.text = request.text /\ request'.status = request.status
          /\ request'.dropped = request.dropped \cup {operator.on}
        BY <1>1, <1>3 DEF SetNeeds, Shape, RequestShape
    <2>2. Remaining' \subseteq Remaining
        BY <2>1 DEF Remaining
    <2>. QED  BY <1>2, <2>1, <2>2
<1>4. CASE OperatorReleases
    <2>1. request'.text = request.text /\ request'.dropped = request.dropped
          /\ operator.at = "undefer"
        BY <1>1, <1>4 DEF OperatorReleases, Undeferred, Shape, RequestShape
    <2>2. Remaining' = Remaining /\ Remaining = {}
        BY <1>1, <2>1 DEF Remaining, OperatorOK
    <2>. QED  BY <1>2, <2>1, <2>2
<1>5. CASE CloseRequest
    <2>1. request'.text = request.text /\ request'.dropped = request.dropped
          /\ request'.status = "closed"
        BY <1>1, <1>5 DEF CloseRequest, Shape, RequestShape
    <2>2. Remaining' = Remaining
        BY <2>1 DEF Remaining
    <2>. QED  BY <1>2, <2>1, <2>2
<1>6. CASE \/ ResolveQuestion \/ OperatorFails
           \/ \E u \in Upstream : ContinueWithout(u) \/ CancelDependents(u)
    <2>1. request' = request
        BY <1>6 DEF ResolveQuestion, OperatorFails, ContinueWithout, CancelDependents
    <2>2. Remaining' = Remaining
        BY <2>1 DEF Remaining
    <2>. QED  BY <1>2, <2>1, <2>2
<1>. QED  BY <1>3, <1>4, <1>5, <1>6 DEF OperatorStep

LEMMA TextStep ==
    ASSUME CrossRigAssumption, MetWhole = TRUE, "children" \notin FailAt, CrossRigInv, TextInv,
           [CrossRigNext]_crossRigVars
    PROVE  TextInv'
<1>1. CASE \E u \in Upstream : RigStep(u) \/ CancelChildren(u) \/ LoseContract(u)
    BY <1>1, EpicsKeepText DEF RigMove
<1>2. CASE SweepStep \/ SweepFails
    BY <1>2, SweepKeepsText
<1>3. CASE \/ OperatorStep \/ OperatorFails
           \/ \E u \in Upstream : ContinueWithout(u) \/ CancelDependents(u)
    BY <1>3, OperatorKeepsText
<1>4. CASE UNCHANGED crossRigVars
    <2>1. Remaining' = Remaining
        BY <1>4 DEF crossRigVars, Remaining
    <2>. QED  BY <1>4, <2>1 DEF crossRigVars, TextInv, Tells, Read
<1>. QED  BY <1>1, <1>2, <1>3, <1>4 DEF CrossRigNext

\* A released request's text holds the contract of every epic it still needs that has one: the
\* sweep's stale copy of needs and text loses none, whatever the operator drops meanwhile.  A
\* read of a contract that fails is taken for an epic without one, and is left out here.
THEOREM ContractsAreSeen ==
    ASSUME CrossRigAssumption, MetWhole = TRUE, "children" \notin FailAt
    PROVE  CrossRigSpec => []PlannerSeesContract
<1>1. CrossRigInit => CrossRigInv /\ TextInv
    BY ShapeFirst, InvFirst, TextFirst DEF CrossRigInv
<1>2. CrossRigInv /\ TextInv /\ [CrossRigNext]_crossRigVars => CrossRigInv' /\ TextInv'
    BY InvStep, TextStep
<1>3. TextInv => PlannerSeesContract
    BY DEF TextInv, Tells, Remaining, PlannerSeesContract
<1>. QED  BY <1>1, <1>2, <1>3, PTL DEF CrossRigSpec

-----------------------------------------------------------------------------
(* Streams.                                                                *)

\* A subscription has read as many lines as its cursor says, and they are the first ones, sent
\* or about to be.
SubOrder ==
    /\ sub.cursor = 2 * (Len(sub.sent) + Len(sub.batch))
    /\ sub.at # "task" => sub.batch = <<>>
    /\ SentInOrder
    /\ \A i \in DOMAIN sub.batch : sub.batch[i] = Len(sub.sent) + i

PumpWorks == pump.at = "tasks" => pump.batch > 0

StreamsInv == StreamsTypeOK /\ SubOrder /\ PumpWorks

\* The parts of StreamsTypeOK.
RigOK ==
    /\ ledger \in 0..Versions
    /\ due \in Seq(Kinds) /\ log \in Seq(Kinds) /\ torn \in BOOLEAN
    /\ torn => log # <<>>
    /\ Len(log) + Len(due) <= ledger
Subs(size, lines) ==
    [at : {"idle", "away", "log", "task", "closed"}, cursor : 0..size,
     batch : Seq(1..lines), sent : Seq(1..lines), final : {"none", "over", "error"}]
Pumps(size, lines) ==
    [at : {"off", "down", "log", "tasks"}, cursor : 0..size, batch : 0..lines,
     frames : Seq(Frames)]
BrowserOK ==
    /\ view \in 0..ledger \cup {Gone}
    /\ refresh \in [at : {"idle", "asked", "listed"}, again : BOOLEAN, value : 0..ledger]
    /\ all \in [at : {"idle", "asked", "listed"}, value : 0..ledger]

LEMMA StreamsTypeParts ==
    StreamsTypeOK <=>
        /\ RigOK
        /\ sub \in Subs(Size, Len(log))
        /\ pump \in Pumps(Size, Len(log))
        /\ wire \in Seq(Frames)
        /\ BrowserOK
        /\ streamFaults \in 0..MaxStreamFaults
BY DEF StreamsTypeOK, RigOK, Subs, Pumps, BrowserOK

LEMMA StreamsTypeNext ==
    ASSUME RigOK', sub' \in Subs(Size, Len(log))', pump' \in Pumps(Size, Len(log))',
           wire' \in Seq(Frames)', BrowserOK', streamFaults' \in 0..MaxStreamFaults
    PROVE  StreamsTypeOK'
BY DEF StreamsTypeOK, RigOK, Subs, Pumps, BrowserOK

LEMMA SizeIsNat ==
    ASSUME RigOK
    PROVE  /\ Size \in Nat /\ Len(log) \in Nat
           /\ Size <= 2 * Len(log)
           /\ Size \div 2 \in 0..Len(log) /\ ReadTo = 2 * (Size \div 2) /\ ReadTo \in 0..Size
<1>1. Len(log) \in Nat /\ (torn => Len(log) > 0)
    BY DEF RigOK
<1>2. Size \in Nat /\ Size <= 2 * Len(log)
    BY <1>1 DEF Size
<1>. HIDE DEF Size
<1>3. Size \div 2 \in 0..Len(log) /\ 2 * (Size \div 2) \in 0..Size
    BY <1>1, <1>2
<1>. QED  BY <1>1, <1>2, <1>3 DEF ReadTo

\* The complete lines after a cursor that a read has left: those not read yet, all of them.
LEMMA LinesAfter ==
    ASSUME RigOK, NEW k \in Nat, 2 * k <= Size
    PROVE  /\ Lines(2 * k) \in Seq(1..Len(log))
           /\ k + Len(Lines(2 * k)) = Size \div 2
           /\ \A i \in DOMAIN Lines(2 * k) : Lines(2 * k)[i] = k + i
<1>. DEFINE last == Size \div 2
            n == IF last < k + 1 THEN 0 ELSE last - (k + 1) + 1
<1>1. Size \in Nat /\ Len(log) \in Nat /\ last \in 0..Len(log) /\ k <= last
    BY SizeIsNat
<1>2. (2 * k + 1) \div 2 + 1 = k + 1
    OBVIOUS
<1>3. Lines(2 * k) = [i \in 1..n |-> (k + 1) + i - 1]
    BY <1>2 DEF Lines
<1>. HIDE DEF last
<1>4. n \in Nat /\ k + n = last
    BY <1>1
<1>. HIDE DEF n
<1>5. \A i \in 1..n : (k + 1) + i - 1 = k + i /\ k + i \in 1..Len(log)
    BY <1>1, <1>4
<1>6. Lines(2 * k) \in [1..n -> 1..Len(log)]
    BY <1>3, <1>5
<1>7. Lines(2 * k) \in Seq(1..Len(log)) /\ Len(Lines(2 * k)) = n /\ DOMAIN Lines(2 * k) = 1..n
    BY <1>4, <1>6
<1>8. \A i \in 1..n : Lines(2 * k)[i] = k + i
    BY <1>3, <1>5
<1>. QED  BY <1>4, <1>7, <1>8 DEF last

\* The lines after any cursor, and how many of them are of certain kinds.
LEMMA LinesCounted ==
    ASSUME RigOK, NEW cursor \in 0..Size, NEW kinds
    PROVE  /\ HowMany(Lines(cursor), kinds) \in 0..Len(log)
           /\ [i \in 1..HowMany(Lines(cursor), kinds) |-> Minded] \in Seq(Frames)
<1>. DEFINE lines == Lines(cursor)
            first == (cursor + 1) \div 2 + 1
            last == Size \div 2
            n == IF last < first THEN 0 ELSE last - first + 1
            some == {i \in DOMAIN lines : log[lines[i]] \in kinds}
<1>1. Size \in Nat /\ Len(log) \in Nat /\ last \in 0..Len(log) /\ cursor \in Nat
    BY SizeIsNat
<1>2. first \in Nat /\ first >= 1
    BY <1>1
<1>3. DOMAIN lines = 1..n
    BY DEF Lines
<1>. HIDE DEF last, first
<1>4. n \in 0..Len(log)
    BY <1>1, <1>2
<1>. HIDE DEF n, lines
<1>5. IsFiniteSet(1..n) /\ Cardinality(1..n) = n
    BY <1>4, FS_Interval
<1>6. IsFiniteSet(some) /\ Cardinality(some) <= n
    <2>1. some \in SUBSET (1..n)
        BY <1>3
    <2>. QED  BY <1>5, <2>1, FS_Subset
<1>7. Cardinality(some) \in Nat
    BY <1>6, FS_CardinalityType
<1>8. HowMany(lines, kinds) = Cardinality(some)
    BY DEF HowMany
<1>. HIDE DEF some
<1>9. HowMany(lines, kinds) \in 0..Len(log)
    BY <1>1, <1>4, <1>6, <1>7, <1>8
<1>10. Minded \in Frames
    BY DEF Minded, Frames, RigOK
<1>11. [i \in 1..HowMany(lines, kinds) |-> Minded] \in Seq(Frames)
    BY <1>7, <1>8, <1>10
<1>. QED  BY <1>9, <1>11 DEF lines

LEMMA StreamFaultCounts ==
    ASSUME StreamsAssumption, StreamsTypeOK, NEW at, StreamFault(at)
    PROVE  streamFaults' \in 0..MaxStreamFaults
BY DEF StreamsAssumption, StreamsTypeOK, StreamFault

-----------------------------------------------------------------------------
(* Steps of the rig.                                                       *)

LEMMA ChangeTaskKeeps ==
    ASSUME StreamsAssumption, StreamsInv, ChangeTask
    PROVE  StreamsInv'
<1>1. PICK k \in Kinds : due' = Append(due, k)
    BY DEF ChangeTask
<1>2. /\ ledger # Versions /\ ledger' = ledger + 1
      /\ UNCHANGED <<log, torn, sub, browser, streamFaults>>
    BY DEF ChangeTask, Over
<1>3. RigOK /\ BrowserOK /\ Versions \in Nat
    BY StreamsTypeParts DEF StreamsInv, StreamsAssumption
<1>4. RigOK'
    <2>1. due' \in Seq(Kinds) /\ Len(due') = Len(due) + 1
        BY <1>1, <1>3 DEF RigOK
    <2>2. Len(log) \in Nat /\ Len(due) \in Nat
        BY <1>3 DEF RigOK
    <2>. QED  BY <1>2, <1>3, <2>1, <2>2 DEF RigOK
<1>5. ledger \in Nat /\ 0..ledger \subseteq 0..(ledger + 1)
    BY <1>3 DEF RigOK
<1>6. Frames \subseteq Frames'
    BY <1>2, <1>5 DEF Frames
<1>7. wire' \in Seq(Frames') /\ pump'.frames \in Seq(Frames')
    <2>1. wire \in Seq(Frames) /\ pump.frames \in Seq(Frames) /\ wire' = wire /\ pump' = pump
        BY <1>2 DEF StreamsInv, StreamsTypeOK, browser
    <2>2. Seq(Frames) \subseteq Seq(Frames')
        BY <1>6
    <2>. QED  BY <2>1, <2>2
<1>8. Size' = Size
    BY <1>2 DEF Size
<1>9. pump' \in Pumps(Size, Len(log))' /\ sub' \in Subs(Size, Len(log))'
    BY <1>2, <1>7, <1>8, StreamsTypeParts DEF StreamsInv, Pumps, Subs, browser
<1>10. BrowserOK'
    BY <1>2, <1>3, <1>5 DEF BrowserOK, browser, Gone
<1>11. StreamsTypeOK'
    <2>1. streamFaults' \in 0..MaxStreamFaults
        BY <1>2, StreamsTypeParts DEF StreamsInv
    <2>. QED  BY <1>4, <1>7, <1>9, <1>10, <2>1, StreamsTypeNext
<1>12. SubOrder' /\ PumpWorks'
    BY <1>2 DEF StreamsInv, SubOrder, SentInOrder, PumpWorks, browser
<1>. QED  BY <1>11, <1>12 DEF StreamsInv

\* The log grows by a line or by half of one.
LEMMA LogGrows ==
    ASSUME StreamsInv, RigOK', UNCHANGED <<ledger, sub, browser>>,
           Size <= Size', Len(log) <= Len(log'), streamFaults' \in 0..MaxStreamFaults
    PROVE  StreamsInv'
<1>1. Size \in Nat /\ Len(log) \in Nat /\ Size' \in Nat /\ Len(log') \in Nat
    <2>1. Size \in Nat /\ Len(log) \in Nat
        BY SizeIsNat, StreamsTypeParts DEF StreamsInv
    <2>2. Len(log') \in Nat /\ (torn' => Len(log') > 0)
        BY DEF RigOK
    <2>. QED  BY <2>1, <2>2 DEF Size
<1>2. Frames' = Frames
    BY DEF Frames
<1>3. sub' \in Subs(Size, Len(log))'
    <2>1. sub \in Subs(Size, Len(log)) /\ sub' = sub
        BY StreamsTypeParts DEF StreamsInv
    <2>2. 1..Len(log) \subseteq 1..Len(log') /\ 0..Size \subseteq 0..Size'
        BY <1>1
    <2>3. Seq(1..Len(log)) \subseteq Seq(1..Len(log'))
        BY <2>2
    <2>. QED  BY <2>1, <2>2, <2>3 DEF Subs
<1>4. pump' \in Pumps(Size, Len(log))'
    <2>1. pump \in Pumps(Size, Len(log)) /\ pump' = pump
        BY StreamsTypeParts DEF StreamsInv, browser
    <2>2. 0..Len(log) \subseteq 0..Len(log') /\ 0..Size \subseteq 0..Size'
        BY <1>1
    <2>. QED  BY <1>2, <2>1, <2>2 DEF Pumps
<1>5. wire' \in Seq(Frames') /\ BrowserOK'
    BY <1>2, StreamsTypeParts DEF StreamsInv, BrowserOK, browser, Gone
<1>6. StreamsTypeOK'
    BY <1>3, <1>4, <1>5, StreamsTypeNext
<1>7. SubOrder' /\ PumpWorks'
    BY DEF StreamsInv, SubOrder, SentInOrder, PumpWorks, browser
<1>. QED  BY <1>6, <1>7 DEF StreamsInv

LEMMA BeginLineKeeps ==
    ASSUME StreamsAssumption, StreamsInv, BeginLine
    PROVE  StreamsInv'
<1>1. /\ due # <<>> /\ ~torn /\ log' = Append(log, Head(due)) /\ due' = Tail(due)
      /\ torn' = TRUE /\ UNCHANGED <<ledger, sub, browser, streamFaults>>
    BY DEF BeginLine
<1>2. RigOK /\ streamFaults' \in 0..MaxStreamFaults
    BY <1>1, StreamsTypeParts DEF StreamsInv
<1>3. /\ log' \in Seq(Kinds) /\ Len(log') = Len(log) + 1 /\ due' \in Seq(Kinds)
      /\ Len(due') = Len(due) - 1 /\ Len(log) \in Nat /\ Len(due) \in Nat
    BY <1>1, <1>2 DEF RigOK
<1>4. RigOK'
    <2>1. log' # <<>> /\ torn' \in BOOLEAN /\ Len(log') + Len(due') = Len(log) + Len(due)
        BY <1>1, <1>3
    <2>. QED  BY <1>1, <1>2, <1>3, <2>1 DEF RigOK
<1>5. Size <= Size' /\ Len(log) <= Len(log')
    BY <1>1, <1>3 DEF Size
<1>. QED  BY <1>1, <1>2, <1>4, <1>5, LogGrows

LEMMA EndLineKeeps ==
    ASSUME StreamsAssumption, StreamsInv, EndLine
    PROVE  StreamsInv'
<1>1. /\ torn /\ torn' = FALSE
      /\ UNCHANGED <<ledger, due, log, sub, browser, streamFaults>>
    BY DEF EndLine
<1>2. RigOK /\ streamFaults' \in 0..MaxStreamFaults
    BY <1>1, StreamsTypeParts DEF StreamsInv
<1>3. RigOK' /\ Len(log) \in Nat
    <2>1. torn' \in BOOLEAN
        BY <1>1
    <2>. QED  BY <1>1, <1>2, <2>1 DEF RigOK
<1>4. Size <= Size' /\ Len(log) <= Len(log')
    BY <1>1, <1>3 DEF Size
<1>. QED  BY <1>1, <1>2, <1>3, <1>4, LogGrows

LEMMA LoseLineKeeps ==
    ASSUME StreamsAssumption, StreamsInv, LoseLine
    PROVE  StreamsInv'
<1>1. /\ due # <<>> /\ due' = Tail(due) /\ streamFaults' \in 0..MaxStreamFaults
      /\ UNCHANGED <<ledger, log, torn, sub, browser>>
    BY StreamFaultCounts DEF LoseLine, StreamsInv
<1>2. RigOK
    BY StreamsTypeParts DEF StreamsInv
<1>3. /\ due' \in Seq(Kinds) /\ Len(due') = Len(due) - 1
      /\ Len(log) \in Nat /\ Len(due) \in Nat
    BY <1>1, <1>2 DEF RigOK
<1>4. RigOK'
    BY <1>1, <1>2, <1>3 DEF RigOK
<1>5. Size <= Size' /\ Len(log) <= Len(log')
    BY <1>1, <1>2, <1>3, SizeIsNat DEF Size
<1>. QED  BY <1>1, <1>4, <1>5, LogGrows

-----------------------------------------------------------------------------
(* Steps of the subscription.                                              *)

\* Only the subscription moves.
LEMMA SubMoves ==
    ASSUME StreamsInv, UNCHANGED <<rig, browser>>, sub' \in Subs(Size, Len(log)), SubOrder',
           streamFaults' \in 0..MaxStreamFaults
    PROVE  StreamsInv'
<1>1. Size' = Size /\ Frames' = Frames
    BY DEF Size, Frames, rig
<1>2. StreamsTypeOK'
    <2>1. RigOK' /\ BrowserOK' /\ wire' \in Seq(Frames')
        BY <1>1, StreamsTypeParts DEF StreamsInv, RigOK, BrowserOK, rig, browser, Gone
    <2>2. pump' \in Pumps(Size, Len(log))' /\ sub' \in Subs(Size, Len(log))'
        BY <1>1, StreamsTypeParts DEF StreamsInv, Pumps, Subs, rig, browser
    <2>. QED  BY <2>1, <2>2, StreamsTypeNext
<1>3. PumpWorks'
    BY DEF StreamsInv, PumpWorks, browser
<1>. QED  BY <1>2, <1>3 DEF StreamsInv

LEMMA SubShape ==
    ASSUME StreamsInv
    PROVE  /\ sub \in Subs(Size, Len(log)) /\ RigOK /\ SubOrder
           /\ streamFaults \in 0..MaxStreamFaults
BY StreamsTypeParts DEF StreamsInv

\* Steps that move its place and its end alone.
LEMMA SubPlaces ==
    ASSUME StreamsInv, NEW at \in {"log", "closed"}, NEW final \in {"none", "over", "error"},
           sub' = [sub EXCEPT !.at = at, !.final = final], sub.batch = <<>>
    PROVE  sub' \in Subs(Size, Len(log)) /\ SubOrder'
<1>1. sub' \in Subs(Size, Len(log))
    BY SubShape DEF Subs
<1>2. /\ sub'.cursor = sub.cursor /\ sub'.batch = sub.batch /\ sub'.sent = sub.sent
    BY SubShape DEF Subs
<1>. QED  BY <1>1, <1>2, SubShape DEF SubOrder, SentInOrder

LEMMA SubscribeKeeps ==
    ASSUME StreamsAssumption, StreamsInv, Subscribe
    PROVE  StreamsInv'
<1>1. /\ sub.at = "idle" /\ UNCHANGED <<rig, browser, streamFaults>>
      /\ sub' = IF Over(ledger) THEN [sub EXCEPT !.at = "closed", !.final = "over"]
                ELSE [sub EXCEPT !.at = "log"]
    BY DEF Subscribe, Subscribed
<1>2. sub.batch = <<>> /\ sub.final \in {"none", "over", "error"}
    BY <1>1, SubShape DEF SubOrder, Subs
<1>3. [sub EXCEPT !.at = "log"] = [sub EXCEPT !.at = "log", !.final = sub.final]
    BY SubShape DEF Subs
<1>4. sub' \in Subs(Size, Len(log)) /\ SubOrder'
    BY <1>1, <1>2, <1>3, SubPlaces
<1>. QED  BY <1>1, <1>4, SubMoves, SubShape

LEMMA SubLogFailsKeeps ==
    ASSUME StreamsAssumption, StreamsInv, SubLogFails
    PROVE  StreamsInv'
<1>1. /\ sub.at = "log" /\ UNCHANGED <<rig, browser>>
      /\ sub' = [sub EXCEPT !.at = "closed", !.final = "error"]
      /\ streamFaults' \in 0..MaxStreamFaults
    BY StreamFaultCounts DEF SubLogFails, StreamsInv
<1>2. sub.batch = <<>>
    BY <1>1, SubShape DEF SubOrder
<1>. QED  BY <1>1, <1>2, SubPlaces, SubMoves

\* A read of the log takes the lines that come next, and moves the cursor past them.
LEMMA SubReadsLogKeeps ==
    ASSUME StreamsAssumption, StreamsInv, SubReadsLog
    PROVE  StreamsInv'
<1>. DEFINE k == Len(sub.sent)
            lines == Lines(2 * k)
<1>1. /\ sub.at = "log" /\ UNCHANGED <<rig, browser, streamFaults>>
      /\ sub' = [sub EXCEPT !.at = "task", !.batch = Lines(sub.cursor), !.cursor = ReadTo]
    BY DEF SubReadsLog, Subscribed
<1>2. sub \in Subs(Size, Len(log)) /\ RigOK /\ SubOrder
    BY SubShape
<1>3. /\ k \in Nat /\ sub.batch = <<>> /\ sub.cursor = 2 * k /\ sub.cursor \in 0..Size
      /\ sub.sent \in Seq(1..Len(log))
    BY <1>1, <1>2 DEF SubOrder, Subs
<1>4. /\ lines \in Seq(1..Len(log)) /\ k + Len(lines) = Size \div 2
      /\ \A i \in DOMAIN lines : lines[i] = k + i
    <2>1. 2 * k <= Size
        BY <1>2, <1>3, SizeIsNat
    <2>. QED  BY <1>2, <1>3, <2>1, LinesAfter
<1>5. ReadTo = 2 * (Size \div 2) /\ ReadTo \in 0..Size
    BY <1>2, SizeIsNat
<1>6. Lines(sub.cursor) = lines
    BY <1>3
<1>. HIDE DEF lines
<1>7. sub' \in Subs(Size, Len(log))
    BY <1>1, <1>2, <1>4, <1>5, <1>6 DEF Subs
<1>8. /\ sub'.at = "task" /\ sub'.batch = lines /\ sub'.cursor = ReadTo /\ sub'.sent = sub.sent
    BY <1>1, <1>2, <1>6 DEF Subs
<1>9. SubOrder'
    <2>1. Len(sub'.sent) = k /\ Len(sub'.batch) = Len(lines) /\ sub'.cursor = 2 * (k + Len(lines))
        BY <1>4, <1>5, <1>8
    <2>. QED  BY <1>2, <1>4, <1>8, <2>1 DEF SubOrder, SentInOrder
<1>. QED  BY <1>1, <1>7, <1>9, SubMoves, SubShape

\* What was read goes out behind what was sent.
LEMMA SentIsInOrder ==
    ASSUME StreamsInv, NEW at \in {"log", "closed"}, NEW final \in {"none", "over", "error"},
           sub' = [Sent EXCEPT !.at = at, !.final = final]
    PROVE  sub' \in Subs(Size, Len(log)) /\ SubOrder'
<1>. DEFINE k == Len(sub.sent)
            n == Len(sub.batch)
            both == sub.sent \o sub.batch
<1>1. sub \in Subs(Size, Len(log)) /\ SubOrder
    BY SubShape
<1>2. sub.sent \in Seq(1..Len(log)) /\ sub.batch \in Seq(1..Len(log))
    BY <1>1 DEF Subs
<1>3. /\ both \in Seq(1..Len(log)) /\ Len(both) = k + n /\ k \in Nat /\ n \in Nat
      /\ DOMAIN both = 1..(k + n) /\ DOMAIN sub.sent = 1..k /\ DOMAIN sub.batch = 1..n
      /\ \A i \in 1..(k + n) : both[i] = IF i <= k THEN sub.sent[i] ELSE sub.batch[i - k]
    <2>1. Len(sub.sent) \in Nat /\ Len(sub.batch) \in Nat
        BY <1>2
    <2>2. /\ both \in Seq(1..Len(log)) /\ Len(both) = k + n
          /\ \A i \in 1..(k + n) : both[i] = IF i <= k THEN sub.sent[i] ELSE sub.batch[i - k]
        BY <1>2, ConcatProperties
    <2>3. DOMAIN sub.sent = 1..k /\ DOMAIN sub.batch = 1..n
        BY <1>2
    <2>4. DOMAIN both = 1..(k + n)
        BY <2>2
    <2>. QED  BY <2>1, <2>2, <2>3, <2>4
<1>4. \A i \in 1..(k + n) : both[i] = i
    <2>1. SUFFICES ASSUME NEW i \in 1..(k + n) PROVE both[i] = i
        OBVIOUS
    <2>2. CASE i <= k
        <3>1. i \in DOMAIN sub.sent
            BY <1>3, <2>2
        <3>. QED  BY <1>1, <1>3, <2>2, <3>1 DEF SubOrder, SentInOrder
    <2>3. CASE ~(i <= k)
        <3>1. i - k \in 1..n /\ k + (i - k) = i
            <4> HIDE DEF k, n, both
            <4>. QED  BY <1>3, <2>3
        <3>. QED  BY <1>1, <1>3, <2>3, <3>1 DEF SubOrder
    <2>. QED  BY <2>2, <2>3
<1>. HIDE DEF both
<1>5. /\ sub' \in Subs(Size, Len(log))
      /\ sub'.batch = <<>> /\ sub'.sent = both /\ sub'.cursor = sub.cursor
    <2>1. <<>> \in Seq(1..Len(log))
        OBVIOUS
    <2>2. Sent = [sub EXCEPT !.sent = both, !.batch = <<>>]
        BY DEF Sent, both
    <2>. QED  BY <1>1, <1>3, <2>1, <2>2 DEF Subs
<1>6. sub.cursor = 2 * (k + n)
    BY <1>1 DEF SubOrder
<1>7. SubOrder'
    <2> HIDE DEF k, n
    <2>1. Len(sub'.sent) + Len(sub'.batch) = k + n
        <3>1. Len(<<>>) = 0
            OBVIOUS
        <3>2. Len(sub'.sent) = k + n /\ k \in Nat /\ n \in Nat
            BY <1>3, <1>5
        <3>3. Len(sub'.batch) = 0
            BY <1>5, <3>1
        <3>4. k + n \in Nat /\ (k + n) + 0 = k + n
            BY <3>2
        <3>. QED  BY <3>2, <3>3, <3>4
    <2>2. SentInOrder'
        BY <1>3, <1>4, <1>5 DEF SentInOrder
    <2>3. \A i \in DOMAIN sub'.batch : sub'.batch[i] = Len(sub'.sent) + i
        <3>1. DOMAIN <<>> = {}
            OBVIOUS
        <3>. QED  BY <1>5, <3>1
    <2>. QED  BY <1>5, <1>6, <2>1, <2>2, <2>3 DEF SubOrder
<1>. QED  BY <1>5, <1>7

LEMMA SubReadsTaskKeeps ==
    ASSUME StreamsAssumption, StreamsInv, SubReadsTask \/ SubTaskFails
    PROVE  StreamsInv'
<1>1. /\ UNCHANGED <<rig, browser>>
      /\ \/ sub' = [Sent EXCEPT !.at = "closed", !.final = "over"]
         \/ sub' = [Sent EXCEPT !.at = "log"]
      /\ streamFaults' \in 0..MaxStreamFaults
    BY StreamFaultCounts, SubShape DEF SubReadsTask, SubTaskFails, Subscribed, StreamsInv
<1>2. [Sent EXCEPT !.at = "log"] = [Sent EXCEPT !.at = "log", !.final = sub.final]
      /\ sub.final \in {"none", "over", "error"}
    BY SubShape DEF Subs, Sent
<1>3. sub' \in Subs(Size, Len(log)) /\ SubOrder'
    BY <1>1, <1>2, SentIsInOrder
<1>. QED  BY <1>1, <1>3, SubMoves

-----------------------------------------------------------------------------
(* Steps of the rig's stream and of the browser.                           *)

\* Only the stream, its frames and the browser move.
LEMMA BrowserMoves ==
    ASSUME StreamsInv, UNCHANGED <<rig, sub>>, pump' \in Pumps(Size, Len(log)),
           wire' \in Seq(Frames), PumpWorks', BrowserOK', streamFaults' \in 0..MaxStreamFaults
    PROVE  StreamsInv'
<1>1. Size' = Size /\ Frames' = Frames
    BY DEF Size, Frames, rig
<1>2. StreamsTypeOK'
    <2>1. RigOK' /\ wire' \in Seq(Frames')
        BY <1>1, StreamsTypeParts DEF StreamsInv, RigOK, rig
    <2>2. pump' \in Pumps(Size, Len(log))' /\ sub' \in Subs(Size, Len(log))'
        BY <1>1, StreamsTypeParts DEF StreamsInv, Pumps, Subs, rig
    <2>. QED  BY <2>1, <2>2, StreamsTypeNext
<1>3. SubOrder'
    BY DEF StreamsInv, SubOrder, SentInOrder
<1>. QED  BY <1>2, <1>3 DEF StreamsInv

LEMMA PumpShape ==
    ASSUME StreamsInv
    PROVE  /\ pump \in Pumps(Size, Len(log)) /\ wire \in Seq(Frames) /\ RigOK /\ PumpWorks
           /\ BrowserOK /\ streamFaults \in 0..MaxStreamFaults
BY StreamsTypeParts DEF StreamsInv

LEMMA ConnectKeeps ==
    ASSUME StreamsAssumption, StreamsInv, Connect
    PROVE  StreamsInv'
<1>1. /\ pump' = [pump EXCEPT !.at = "log", !.cursor = ReadTo]
      /\ UNCHANGED <<rig, sub, wire, view, refresh, all, streamFaults>>
    BY DEF Connect
<1>2. ReadTo \in 0..Size
    BY PumpShape, SizeIsNat
<1>3. pump' \in Pumps(Size, Len(log)) /\ pump'.at = "log"
    BY <1>1, <1>2, PumpShape DEF Pumps
<1>4. PumpWorks' /\ BrowserOK'
    BY <1>1, <1>3, PumpShape DEF PumpWorks, BrowserOK, rig, Gone
<1>. QED  BY <1>1, <1>3, <1>4, PumpShape, BrowserMoves

LEMMA PumpReadsLogKeeps ==
    ASSUME StreamsAssumption, StreamsInv, PumpReadsLog
    PROVE  StreamsInv'
<1>. DEFINE tasks == HowMany(Lines(pump.cursor), TaskChanging)
            frames == [i \in 1..HowMany(Lines(pump.cursor), RefreshKinds) |-> Minded]
<1>1. /\ pump.at = "log" /\ UNCHANGED <<rig, sub, view, refresh, all, streamFaults>>
      /\ IF tasks = 0
         THEN wire' = wire \o frames /\ pump' = [pump EXCEPT !.cursor = ReadTo]
         ELSE /\ pump' = [at |-> "tasks", cursor |-> ReadTo, batch |-> tasks,
                          frames |-> frames]
              /\ wire' = wire
    BY DEF PumpReadsLog
<1>2. pump.cursor \in 0..Size
    BY PumpShape DEF Pumps
<1>3. tasks \in 0..Len(log) /\ frames \in Seq(Frames) /\ ReadTo \in 0..Size
    BY <1>2, PumpShape, LinesCounted, SizeIsNat
<1>. HIDE DEF tasks, frames
<1>4. pump' \in Pumps(Size, Len(log)) /\ wire' \in Seq(Frames)
    <2>1. wire \o frames \in Seq(Frames)
        BY <1>3, PumpShape, ConcatProperties
    <2>2. wire' \in Seq(Frames)
        BY <1>1, <2>1, PumpShape
    <2>3. pump' \in Pumps(Size, Len(log))
        <3>1. CASE tasks = 0
            <4>1. pump \in Pumps(Size, Len(log)) /\ pump' = [pump EXCEPT !.cursor = ReadTo]
                BY <1>1, <3>1, PumpShape
            <4>. QED  BY <1>3, <4>1 DEF Pumps
        <3>2. CASE tasks # 0
            <4>1. pump' = [at |-> "tasks", cursor |-> ReadTo, batch |-> tasks,
                           frames |-> frames]
                BY <1>1, <3>2
            <4>. QED  BY <1>3, <4>1 DEF Pumps
        <3>. QED  BY <3>1, <3>2
    <2>. QED  BY <2>2, <2>3
<1>5. PumpWorks'
    <2>1. tasks # 0 => tasks > 0
        BY <1>3
    <2>. QED  BY <1>1, <2>1, PumpShape DEF PumpWorks, Pumps
<1>6. BrowserOK'
    BY <1>1, PumpShape DEF BrowserOK, rig, Gone
<1>. QED  BY <1>1, <1>4, <1>5, <1>6, PumpShape, BrowserMoves

LEMMA PumpTaskKeeps ==
    ASSUME StreamsAssumption, StreamsInv, PumpTask \/ PumpTaskFails
    PROVE  StreamsInv'
<1>1. PICK frames \in Seq(Frames) : PumpWith(frames)
    <2>1. CASE PumpTask
        <3>1. [kind |-> "task_update", task |-> ledger] \in Frames
            BY PumpShape DEF Frames, RigOK
        <3>2. pump.frames \in Seq(Frames)
            BY PumpShape DEF Pumps
        <3>3. Append(pump.frames, [kind |-> "task_update", task |-> ledger]) \in Seq(Frames)
            BY <3>1, <3>2
        <3>. QED  BY <2>1, <3>3 DEF PumpTask
    <2>2. CASE PumpTaskFails
        BY <2>2, PumpShape DEF PumpTaskFails, Pumps
    <2>. QED  BY <2>1, <2>2
<1>2. streamFaults' \in 0..MaxStreamFaults
    BY StreamFaultCounts, PumpShape DEF PumpTask, PumpTaskFails, StreamsInv
<1>3. /\ pump.at = "tasks" /\ UNCHANGED <<rig, sub, view, refresh, all>>
      /\ IF pump.batch = 1
         THEN /\ wire' = wire \o frames
              /\ pump' = [pump EXCEPT !.at = "log", !.batch = 0, !.frames = <<>>]
         ELSE /\ pump' = [pump EXCEPT !.batch = @ - 1, !.frames = frames]
              /\ wire' = wire
    BY <1>1 DEF PumpWith
<1>4. /\ pump.batch \in 0..Len(log) /\ pump.batch > 0 /\ Len(log) \in Nat
      /\ <<>> \in Seq(Frames) /\ 0 \in 0..Len(log) /\ pump.batch - 1 \in 0..Len(log)
      /\ pump.batch # 1 => pump.batch - 1 > 0
    <2>1. pump.batch \in 0..Len(log) /\ pump.batch > 0 /\ Len(log) \in Nat
        BY <1>3, PumpShape, SizeIsNat DEF Pumps, PumpWorks
    <2>. QED  BY <2>1
<1>5. wire' \in Seq(Frames)
    <2>1. wire \o frames \in Seq(Frames) /\ wire \in Seq(Frames)
        BY PumpShape, ConcatProperties
    <2>. QED  BY <1>3, <2>1
<1>6. pump' \in Pumps(Size, Len(log))
    BY <1>3, <1>4, PumpShape DEF Pumps
<1>7. PumpWorks'
    BY <1>3, <1>4, PumpShape DEF PumpWorks, Pumps
<1>8. BrowserOK'
    BY <1>3, PumpShape DEF BrowserOK, rig, Gone
<1>. QED  BY <1>2, <1>3, <1>5, <1>6, <1>7, <1>8, BrowserMoves

LEMMA DropKeeps ==
    ASSUME StreamsAssumption, StreamsInv, Drop
    PROVE  StreamsInv'
<1>1. /\ pump' = [pump EXCEPT !.at = "off", !.batch = 0, !.frames = <<>>] /\ wire' = <<>>
      /\ UNCHANGED <<rig, sub, view, refresh, all>> /\ streamFaults' \in 0..MaxStreamFaults
    BY StreamFaultCounts DEF Drop, StreamsInv
<1>2. <<>> \in Seq(Frames) /\ 0 \in 0..Len(log)
    BY PumpShape, SizeIsNat
<1>3. pump' \in Pumps(Size, Len(log)) /\ pump'.at = "off"
    BY <1>1, <1>2, PumpShape DEF Pumps
<1>4. PumpWorks' /\ BrowserOK'
    BY <1>1, <1>3, PumpShape DEF PumpWorks, BrowserOK, rig, Gone
<1>. QED  BY <1>1, <1>2, <1>3, <1>4, BrowserMoves

LEMMA OnFrameKeeps ==
    ASSUME StreamsAssumption, StreamsInv, OnFrame
    PROVE  StreamsInv'
<1>1. /\ wire # <<>> /\ wire' = Tail(wire) /\ UNCHANGED <<rig, sub, pump, all, streamFaults>>
      /\ \/ view' = Head(wire).task /\ UNCHANGED refresh
         \/ refresh' = Requested /\ UNCHANGED view
    BY DEF OnFrame
<1>2. wire' \in Seq(Frames) /\ Head(wire) \in Frames
    BY <1>1, PumpShape
<1>3. Requested \in [at : {"idle", "asked", "listed"}, again : BOOLEAN, value : 0..ledger]
    <2>1. TRUE \in BOOLEAN
        OBVIOUS
    <2>. QED  BY <2>1, PumpShape DEF Requested, BrowserOK
<1>4. Head(wire).task \in 0..ledger
    BY <1>2 DEF Frames
<1>5. BrowserOK'
    BY <1>1, <1>3, <1>4, PumpShape DEF BrowserOK, rig, Gone
<1>6. PumpWorks'
    BY <1>1, PumpShape DEF PumpWorks
<1>. QED  BY <1>1, <1>2, <1>5, <1>6, PumpShape, BrowserMoves

\* The lists change nothing but the browser.
LEMMA ListsKeep ==
    ASSUME StreamsAssumption, StreamsInv,
           ListTasks \/ SetTasks \/ ListTasksFails \/ Backstop \/ ListAll \/ SetAll \/ AllFails
    PROVE  StreamsInv'
<1>1. UNCHANGED <<rig, sub, pump, wire>>
    BY DEF ListTasks, SetTasks, ListTasksFails, Backstop, ListAll, SetAll, AllFails, Refreshes,
           AllTo
<1>2. streamFaults' \in 0..MaxStreamFaults
    BY PumpShape, StreamFaultCounts DEF StreamsInv, ListTasks, SetTasks, ListTasksFails,
       Backstop, ListAll, SetAll, AllFails, Refreshes, AllTo
<1>3. /\ ledger \in Nat /\ ledger \in 0..ledger /\ 0 \in 0..ledger /\ BrowserOK
      /\ FALSE \in BOOLEAN
    BY PumpShape DEF RigOK
<1>4. Done \in [at : {"idle", "asked", "listed"}, again : BOOLEAN, value : 0..ledger]
    BY <1>3 DEF Done, BrowserOK
<1>5. CASE ListTasks \/ SetTasks \/ ListTasksFails
    <2>1. /\ refresh' \in [at : {"idle", "asked", "listed"}, again : BOOLEAN, value : 0..ledger]
          /\ view' \in {view, refresh.value} /\ UNCHANGED all
        BY <1>3, <1>4, <1>5 DEF ListTasks, SetTasks, ListTasksFails, Refreshes, BrowserOK
    <2>2. BrowserOK'
        BY <1>1, <1>3, <2>1 DEF BrowserOK, rig, Gone
    <2>. QED  BY <1>1, <1>2, <2>2, PumpShape, BrowserMoves DEF PumpWorks
<1>6. CASE Backstop \/ ListAll \/ SetAll \/ AllFails
    <2>1. /\ all' \in [at : {"idle", "asked", "listed"}, value : 0..ledger]
          /\ view' \in {view, all.value, Gone} /\ UNCHANGED refresh
        BY <1>3, <1>6 DEF Backstop, ListAll, SetAll, AllFails, AllTo
    <2>2. BrowserOK'
        BY <1>1, <1>3, <2>1 DEF BrowserOK, rig, Gone
    <2>. QED  BY <1>1, <1>2, <2>2, PumpShape, BrowserMoves DEF PumpWorks
<1>. QED  BY <1>5, <1>6

-----------------------------------------------------------------------------
LEMMA StreamsStart == ASSUME StreamsAssumption, StreamsInit PROVE StreamsInv
<1>1. /\ RigOK /\ BrowserOK /\ streamFaults \in 0..MaxStreamFaults
    <2>1. FALSE \in BOOLEAN /\ 0 \in 0..0 /\ 0 \in 0..Versions /\ <<>> \in Seq(Kinds)
        BY DEF StreamsAssumption
    <2>2. RigOK
        <3>1. Len(<<>>) + Len(<<>>) <= 0
            OBVIOUS
        <3>. QED  BY <2>1, <3>1 DEF StreamsInit, RigOK
    <2>3. BrowserOK
        BY <2>1 DEF StreamsInit, BrowserOK
    <2>. QED  BY <2>2, <2>3 DEF StreamsInit, StreamsAssumption
<1>2. Size = 0 /\ Len(log) = 0
    BY DEF StreamsInit, Size
<1>3. sub \in Subs(0, 0) /\ pump \in Pumps(0, 0) /\ wire \in Seq(Frames)
    <2>1. 0 \in 0..0 /\ <<>> \in Seq(1..0) /\ <<>> \in Seq(Frames)
        OBVIOUS
    <2>. QED  BY <2>1 DEF StreamsInit, Subs, Pumps
<1>4. SubOrder /\ PumpWorks
    BY DEF StreamsInit, SubOrder, SentInOrder, PumpWorks
<1>5. StreamsTypeOK
    BY <1>1, <1>2, <1>3, StreamsTypeParts
<1>. QED  BY <1>4, <1>5 DEF StreamsInv

LEMMA StreamsKeepInv ==
    ASSUME StreamsAssumption, StreamsInv, [StreamsNext]_streamsVars
    PROVE  StreamsInv'
<1>1. CASE ChangeTask \/ BeginLine \/ EndLine \/ LoseLine
    BY <1>1, ChangeTaskKeeps, BeginLineKeeps, EndLineKeeps, LoseLineKeeps
<1>2. CASE Subscribe \/ SubReadsLog \/ SubLogFails \/ SubReadsTask \/ SubTaskFails
    BY <1>2, SubscribeKeeps, SubReadsLogKeeps, SubLogFailsKeeps, SubReadsTaskKeeps
<1>3. CASE Connect \/ PumpReadsLog \/ PumpTask \/ PumpTaskFails \/ Drop
    BY <1>3, ConnectKeeps, PumpReadsLogKeeps, PumpTaskKeeps, DropKeeps
<1>4. CASE OnFrame \/ ListTasks \/ SetTasks \/ ListTasksFails
           \/ Backstop \/ ListAll \/ SetAll \/ AllFails
    BY <1>4, OnFrameKeeps, ListsKeep
<1>5. CASE UNCHANGED streamsVars
    <2>1. UNCHANGED <<rig, sub, browser, streamFaults>>
        BY <1>5 DEF streamsVars, rig, browser
    <2>. QED  BY <2>1, SubMoves, SubShape DEF StreamsInv, SubOrder, SentInOrder
<1>. QED  BY <1>1, <1>2, <1>3, <1>4, <1>5 DEF StreamsNext

LEMMA StreamsInvHolds == ASSUME StreamsAssumption PROVE StreamsSpec => []StreamsInv
BY StreamsStart, StreamsKeepInv, PTL DEF StreamsSpec

\* The log, the streams and the view keep their shapes: the browser shows a version the task has
\* had, and no cursor is past the log's end (FileTail, updates, live.ts).
THEOREM StreamsTypeCorrect == ASSUME StreamsAssumption PROVE StreamsSpec => []StreamsTypeOK
<1>1. StreamsInv => StreamsTypeOK
    BY DEF StreamsInv
<1>. QED  BY <1>1, StreamsInvHolds, PTL

\* Whatever fails, what a subscriber got are the first lines of the log, each once and in their
\* order (FileTail::read_from, parse_from, updates).
THEOREM LinesComeInOrder == ASSUME StreamsAssumption PROVE StreamsSpec => []SentInOrder
<1>1. StreamsInv => SentInOrder
    BY DEF StreamsInv, SubOrder
<1>. QED  BY <1>1, StreamsInvHolds, PTL

\* And if a subscription's read of the task does not fail, it is told of the end only once the
\* task is over (updates).
THEOREM SubscriptionStaysTrue ==
    ASSUME StreamsAssumption, "task" \notin StreamFailAt
    PROVE  StreamsSpec => []SubscriptionIsTrue
<1>. DEFINE OverIsOver == sub.final = "over" => Over(ledger)
<1>1. StreamsInit => OverIsOver
    BY DEF StreamsInit
<1>2. StreamsInv /\ OverIsOver /\ [StreamsNext]_streamsVars => OverIsOver'
    <2>. SUFFICES ASSUME StreamsInv, OverIsOver, [StreamsNext]_streamsVars PROVE OverIsOver'
        OBVIOUS
    <2>1. sub \in Subs(Size, Len(log))
        BY SubShape
    <2>2. CASE ChangeTask
        BY <2>2 DEF ChangeTask
    <2>3. CASE Subscribe \/ SubReadsTask
        BY <2>1, <2>3 DEF Subscribe, SubReadsTask, Subscribed, Sent, Subs, Over, rig
    <2>4. CASE SubReadsLog
        BY <2>1, <2>4 DEF SubReadsLog, Subscribed, Subs, Over, rig
    <2>5. CASE SubLogFails
        BY <2>1, <2>5 DEF SubLogFails, Subs
    <2>6. CASE SubTaskFails
        BY <2>6 DEF SubTaskFails, StreamFault
    <2>7. CASE UNCHANGED <<ledger, sub>>
        BY <2>7 DEF Over
    <2>8. BeginLine \/ EndLine \/ LoseLine => UNCHANGED <<ledger, sub>>
        BY DEF BeginLine, EndLine, LoseLine
    <2>9. Connect \/ PumpReadsLog \/ PumpTask \/ PumpTaskFails \/ Drop \/ OnFrame
              => UNCHANGED <<ledger, sub>>
        BY DEF Connect, PumpReadsLog, PumpTask, PumpTaskFails, PumpWith, Drop, OnFrame, rig
    <2>10. (\/ ListTasks \/ SetTasks \/ ListTasksFails \/ Backstop \/ ListAll \/ SetAll
            \/ AllFails \/ UNCHANGED streamsVars)
               => UNCHANGED <<ledger, sub>>
        BY DEF ListTasks, SetTasks, ListTasksFails, Backstop, ListAll, SetAll, AllFails,
               Refreshes, AllTo, streamsVars, rig
    <2>. QED  BY <2>2, <2>3, <2>4, <2>5, <2>6, <2>7, <2>8, <2>9, <2>10 DEF StreamsNext
<1>3. StreamsInv /\ OverIsOver => SubscriptionIsTrue
    BY DEF StreamsInv, SubOrder, SubscriptionIsTrue
<1>. QED  BY <1>1, <1>2, <1>3, StreamsInvHolds, PTL DEF StreamsSpec

-----------------------------------------------------------------------------
(* Notices.                                                                *)

\* A poll under way, after the live tasks were listed.
Middle == {"deferred", "vanished", "notify"}

\* A message that the task is in s is to be posted, or will be once the poll ends.
OnItsWay(s) ==
    \/ watcher.at = "post" /\ watcher.say = s
    \/ /\ watcher.at \in Middle /\ watcher.primed
       /\ watcher.now = s /\ News(watcher.seen, s)

\* The task came to s, is there still, and the watcher, who may yet say so, has not met it.
Unseen(s) ==
    /\ task = s
    /\ IF watcher.at \in Middle
       THEN IF s \in Terminal
            THEN /\ watcher.now \notin Terminal
                 /\ watcher.now # "none" \/ watcher.seen \notin {"none"} \cup Terminal
            ELSE watcher.now # s
       ELSE IF s \in Terminal
            THEN watcher.seen \notin {"none"} \cup Terminal
            ELSE watcher.primed /\ watcher.seen # s

One(p) == IF p THEN 1 ELSE 0

\* Each message about s, said, on its way or still to come of what is unseen, is about a coming
\* of its own.
Owed(s) == said[s] + One(OnItsWay(s)) + One(Unseen(s)) <= entered[s]

TellInv ==
    /\ \A s \in Told : Owed(s)
    /\ watcher.at = "post" => watcher.say # "none"
    /\ watcher.at \in {"deferred", "vanished"} => watcher.now \notin Terminal

\* A command before the offset ran once since the restart at most, one after it not at all, and
\* what is left of an answer is after it.
RunInv ==
    /\ \A m \in Commands : ran[m] <= restarts + One(m < offset)
    /\ \A m \in watcher.todo : m >= offset

NoticesInv == NoticesTypeOK /\ TellInv /\ RunInv

NoticeFaultsOK == noticeFaults' \in 0..MaxNoticeFaults

LEMMA NoticeFaultCounts ==
    ASSUME NoticesAssumption, NoticesTypeOK, NEW at, NoticeFault(at)
    PROVE  NoticeFaultsOK
BY DEF NoticesAssumption, NoticesTypeOK, NoticeFault, NoticeFaultsOK

LEMMA StatesOfATask ==
    /\ Told \subseteq States /\ Terminal \subseteq Told
    /\ "none" \notin States
    /\ \A s \in Told : s \notin Terminal => s = "input_required"
    /\ "input_required" \in Told /\ Active \subseteq States
    /\ Active \cap Told = {"input_required"} /\ Terminal \cap Active = {}
    /\ "deferred" \notin Told /\ "deferred" \in States /\ "absent" \in States
    /\ "absent" \notin Told /\ "input_required" \notin Terminal
    /\ \A who : Home(who) \in {"poll", "list"}
BY DEF Told, Terminal, States, Active, Home

\* The task moves: whoever has not met it in its new state owes at most this coming.
LEMMA MoveIsOwed ==
    ASSUME NoticesAssumption, NoticesInv, MoveTask
    PROVE  NoticesInv'
<1>. USE StatesOfATask
<1>1. PICK s \in NextStates(task) : task' = s /\ entered' = [entered EXCEPT ![s] = @ + 1]
    BY DEF MoveTask
<1>2. UNCHANGED <<watcher, said, lost, chat, noticeFaults>>
    BY DEF MoveTask
<1>3. s \in States
    BY DEF NextStates, NoticesInv, NoticesTypeOK, States, Active, Terminal
<1>4. NoticesTypeOK'
    BY <1>1, <1>2, <1>3 DEF NoticesInv, NoticesTypeOK, chat
<1>5. TellInv'
    <2>1. \A other \in Told : OnItsWay(other)' = OnItsWay(other)
        BY <1>2 DEF OnItsWay
    <2>2. SUFFICES ASSUME NEW other \in Told PROVE Owed(other)'
        BY <1>2 DEF NoticesInv, TellInv
    <2>3. entered[other] \in Nat /\ said[other] \in Nat
        BY DEF NoticesInv, NoticesTypeOK
    <2>4. Owed(other)
        BY DEF NoticesInv, TellInv
    <2>5. CASE other = s
        <3>1. entered'[other] = entered[other] + 1
            BY <1>1, <2>5, <1>3 DEF NoticesInv, NoticesTypeOK
        <3>. QED  BY <2>1, <2>3, <2>4, <3>1, <1>2 DEF Owed, One
    <2>6. CASE other # s
        <3>1. entered'[other] = entered[other]
            BY <1>1, <2>6 DEF NoticesInv, NoticesTypeOK
        <3>2. ~Unseen(other)'
            BY <1>1, <2>6 DEF Unseen
        <3>. QED  BY <2>1, <2>3, <2>4, <3>1, <3>2, <1>2 DEF Owed, One
    <2>. QED  BY <2>5, <2>6
<1>6. RunInv'
    BY <1>2 DEF NoticesInv, RunInv, chat
<1>. QED  BY <1>4, <1>5, <1>6 DEF NoticesInv

\* A step of the watcher that owes nothing new.
LEMMA WatchingIsOwed ==
    ASSUME NoticesAssumption, NoticesInv, UNCHANGED <<task, entered, said>>,
           \A s \in Told :
               One(OnItsWay(s)') + One(Unseen(s)') <= One(OnItsWay(s)) + One(Unseen(s))
    PROVE  \A s \in Told : Owed(s)'
<1>. SUFFICES ASSUME NEW s \in Told PROVE Owed(s)'
    OBVIOUS
<1>1. entered[s] \in Nat /\ said[s] \in Nat /\ Owed(s)
    BY StatesOfATask DEF NoticesInv, NoticesTypeOK, TellInv
<1>2. /\ One(OnItsWay(s)) \in Nat /\ One(Unseen(s)) \in Nat
      /\ One(OnItsWay(s)') \in Nat /\ One(Unseen(s)') \in Nat
    BY DEF One
<1>3. Owed(s)' <=> said[s] + One(OnItsWay(s)') + One(Unseen(s)') <= entered[s]
    BY DEF Owed, One
<1>. QED  BY <1>1, <1>2, <1>3 DEF Owed

\* Steps within a poll leave the chat and its commands as they are.
LEMMA SweepingRunsNothing ==
    ASSUME NoticesInv, UNCHANGED chat, watcher'.todo = watcher.todo
    PROVE  RunInv'
BY DEF NoticesInv, RunInv, chat

LEMMA ListActiveKeeps ==
    ASSUME NoticesAssumption, NoticesInv, ListActive
    PROVE  NoticesInv'
<1>. USE StatesOfATask
<1>1. /\ watcher.at = "list" /\ UNCHANGED <<task, entered, said, lost, chat, noticeFaults>>
      /\ watcher' = [watcher EXCEPT !.at = "deferred",
                                    !.now = IF task \in Active THEN task ELSE "none"]
    BY DEF ListActive, At, Steps
<1>2. NoticesTypeOK'
    BY <1>1 DEF NoticesInv, NoticesTypeOK, chat, Places
<1>3. /\ watcher'.at = "deferred" /\ watcher'.seen = watcher.seen
      /\ watcher'.primed = watcher.primed /\ watcher'.todo = watcher.todo
      /\ watcher'.now = IF task \in Active THEN task ELSE "none"
    BY <1>1 DEF NoticesInv, NoticesTypeOK
<1>4. ASSUME NEW s \in Told
      PROVE  One(OnItsWay(s)') + One(Unseen(s)') <= One(OnItsWay(s)) + One(Unseen(s))
    <2>1. OnItsWay(s)' => Unseen(s)
        BY <1>1, <1>3 DEF OnItsWay, Unseen, News, Middle
    <2>2. Unseen(s)' => Unseen(s) /\ ~OnItsWay(s)'
        BY <1>1, <1>3 DEF OnItsWay, Unseen, News, Middle
    <2>. QED  BY <2>1, <2>2 DEF One
<1>5. TellInv'
    BY <1>1, <1>3, <1>4, WatchingIsOwed DEF TellInv
<1>. QED  BY <1>1, <1>2, <1>3, <1>5, SweepingRunsNothing DEF NoticesInv

LEMMA ListWaitingKeeps ==
    ASSUME NoticesAssumption, NoticesInv, ListWaiting
    PROVE  NoticesInv'
<1>. USE StatesOfATask
<1>1. /\ watcher.at = "deferred" /\ UNCHANGED <<task, entered, said, lost, chat, noticeFaults>>
      /\ watcher' = [watcher EXCEPT !.at = "vanished",
                                    !.now = IF task = "deferred" THEN task ELSE @]
    BY DEF ListWaiting, At, Steps
<1>2. NoticesTypeOK'
    BY <1>1 DEF NoticesInv, NoticesTypeOK, chat, Places
<1>3. /\ watcher'.at = "vanished" /\ watcher'.seen = watcher.seen
      /\ watcher'.primed = watcher.primed /\ watcher'.todo = watcher.todo
      /\ watcher'.now = IF task = "deferred" THEN task ELSE watcher.now
    BY <1>1 DEF NoticesInv, NoticesTypeOK
<1>4. ASSUME NEW s \in Told
      PROVE  One(OnItsWay(s)') + One(Unseen(s)') <= One(OnItsWay(s)) + One(Unseen(s))
    <2>1. OnItsWay(s)' => OnItsWay(s)
        BY <1>1, <1>3 DEF OnItsWay, Middle
    <2>2. Unseen(s)' => Unseen(s)
        BY <1>1, <1>3 DEF Unseen, Middle
    <2>. QED  BY <2>1, <2>2 DEF One
<1>5. TellInv'
    BY <1>1, <1>3, <1>4, WatchingIsOwed DEF TellInv, NoticesInv
<1>. QED  BY <1>1, <1>2, <1>3, <1>5, SweepingRunsNothing DEF NoticesInv

\* A poll that is given up: what it met and had not said is unseen again.
LEMMA PollTasksFailsKeeps ==
    ASSUME NoticesAssumption, NoticesInv, PollTasksFails
    PROVE  NoticesInv'
<1>. USE StatesOfATask
<1>1. /\ watcher.at \in {"list", "deferred"} /\ UNCHANGED <<task, entered, said, lost, chat>>
      /\ watcher' = [watcher EXCEPT !.at = Home(watcher.who), !.now = "none"]
      /\ NoticeFaultsOK
    BY NoticeFaultCounts DEF PollTasksFails, Steps, NoticesInv
<1>2. NoticesTypeOK'
    BY <1>1 DEF NoticesInv, NoticesTypeOK, chat, Places, NoticeFaultsOK
<1>3. /\ watcher'.at \in {"poll", "list"} /\ watcher'.seen = watcher.seen
      /\ watcher'.primed = watcher.primed /\ watcher'.todo = watcher.todo
    BY <1>1 DEF NoticesInv, NoticesTypeOK
<1>4. ASSUME NEW s \in Told
      PROVE  One(OnItsWay(s)') + One(Unseen(s)') <= One(OnItsWay(s)) + One(Unseen(s))
    <2>1. ~OnItsWay(s)'
        BY <1>3 DEF OnItsWay, Middle
    <2>2. Unseen(s)' => Unseen(s) \/ OnItsWay(s)
        BY <1>1, <1>3 DEF OnItsWay, Unseen, Middle, News, NoticesInv, TellInv
    <2>. QED  BY <2>1, <2>2 DEF One
<1>5. TellInv'
    BY <1>1, <1>3, <1>4, WatchingIsOwed DEF TellInv
<1>. QED  BY <1>1, <1>2, <1>3, <1>5, SweepingRunsNothing DEF NoticesInv

LEMMA FetchVanishedKeeps ==
    ASSUME NoticesAssumption, NoticesInv, FetchVanished
    PROVE  NoticesInv'
<1>. USE StatesOfATask
<1>1. /\ watcher.at = "vanished" /\ UNCHANGED <<task, entered, said, lost, chat, noticeFaults>>
      /\ watcher' = [watcher EXCEPT !.at = "notify", !.now = IF Vanished THEN task ELSE @]
    BY DEF FetchVanished, At, Steps
<1>2. NoticesTypeOK'
    BY <1>1 DEF NoticesInv, NoticesTypeOK, chat, Places
<1>3. /\ watcher'.at = "notify" /\ watcher'.seen = watcher.seen
      /\ watcher'.primed = watcher.primed /\ watcher'.todo = watcher.todo
      /\ watcher'.now = IF Vanished THEN task ELSE watcher.now
    BY <1>1 DEF NoticesInv, NoticesTypeOK
<1>4. ASSUME NEW s \in Told
      PROVE  One(OnItsWay(s)') + One(Unseen(s)') <= One(OnItsWay(s)) + One(Unseen(s))
    <2>1. CASE Vanished
        <3>1. OnItsWay(s)' => Unseen(s)
            BY <1>1, <1>3, <2>1 DEF OnItsWay, Unseen, Vanished, News, Middle
        <3>2. ~Unseen(s)'
            BY <1>1, <1>3, <2>1 DEF Unseen, Middle
        <3>. QED  BY <3>1, <3>2 DEF One
    <2>2. CASE ~Vanished
        <3>1. OnItsWay(s)' => OnItsWay(s)
            BY <1>1, <1>3, <2>2 DEF OnItsWay, Middle
        <3>2. Unseen(s)' => Unseen(s)
            BY <1>1, <1>3, <2>2 DEF Unseen, Middle
        <3>. QED  BY <3>1, <3>2 DEF One
    <2>. QED  BY <2>1, <2>2
<1>5. TellInv'
    BY <1>1, <1>3, <1>4, WatchingIsOwed DEF TellInv
<1>. QED  BY <1>1, <1>2, <1>3, <1>5, SweepingRunsNothing DEF NoticesInv

LEMMA FetchFailsKeeps ==
    ASSUME NoticesAssumption, NoticesInv, FetchFails
    PROVE  NoticesInv'
<1>. USE StatesOfATask
<1>1. /\ watcher.at = "vanished" /\ UNCHANGED <<task, entered, said, lost, chat>>
      /\ watcher' = [watcher EXCEPT !.at = "notify"]
      /\ NoticeFaultsOK
    BY NoticeFaultCounts DEF FetchFails, At, Steps, NoticesInv
<1>2. NoticesTypeOK'
    BY <1>1 DEF NoticesInv, NoticesTypeOK, chat, Places, NoticeFaultsOK
<1>3. /\ watcher'.at = "notify" /\ watcher'.seen = watcher.seen /\ watcher'.now = watcher.now
      /\ watcher'.primed = watcher.primed /\ watcher'.todo = watcher.todo
    BY <1>1 DEF NoticesInv, NoticesTypeOK
<1>4. ASSUME NEW s \in Told
      PROVE  One(OnItsWay(s)') + One(Unseen(s)') <= One(OnItsWay(s)) + One(Unseen(s))
    <2>1. OnItsWay(s)' => OnItsWay(s)
        BY <1>1, <1>3 DEF OnItsWay, Middle
    <2>2. Unseen(s)' => Unseen(s)
        BY <1>1, <1>3 DEF Unseen, Middle
    <2>. QED  BY <2>1, <2>2 DEF One
<1>5. TellInv'
    BY <1>1, <1>3, <1>4, WatchingIsOwed DEF TellInv
<1>. QED  BY <1>1, <1>2, <1>3, <1>5, SweepingRunsNothing DEF NoticesInv

LEMMA NotifyKeeps ==
    ASSUME NoticesAssumption, NoticesInv, Notify
    PROVE  NoticesInv'
<1>. USE StatesOfATask
<1>. DEFINE news == watcher.primed /\ News(watcher.seen, watcher.now)
<1>1. /\ watcher.at = "notify" /\ UNCHANGED <<task, entered, said, lost, chat, noticeFaults>>
      /\ watcher' = [watcher EXCEPT !.seen = watcher.now, !.now = "none", !.primed = TRUE,
                        !.say = IF news THEN watcher.now ELSE "none",
                        !.at = IF news THEN "post" ELSE Home(watcher.who)]
    BY DEF Notify, At, Steps
<1>2. news => watcher.now \in Told
    BY DEF News
<1>3. NoticesTypeOK'
    <2>1. /\ watcher.now \in States \cup {"none"} /\ "none" \in States \cup {"none"}
          /\ TRUE \in BOOLEAN
          /\ (IF news THEN watcher.now ELSE "none") \in Told \cup {"none"}
          /\ (IF news THEN "post" ELSE Home(watcher.who)) \in Places
        BY <1>2 DEF NoticesInv, NoticesTypeOK, Places
    <2>. QED  BY <1>1, <2>1 DEF NoticesInv, NoticesTypeOK, chat
<1>4. /\ watcher'.at = IF news THEN "post" ELSE Home(watcher.who)
      /\ watcher'.seen = watcher.now /\ watcher'.primed /\ watcher'.todo = watcher.todo
      /\ watcher'.say = IF news THEN watcher.now ELSE "none"
    BY <1>1 DEF NoticesInv, NoticesTypeOK
<1>5. ASSUME NEW s \in Told
      PROVE  One(OnItsWay(s)') + One(Unseen(s)') <= One(OnItsWay(s)) + One(Unseen(s))
    <2>1. OnItsWay(s)' => OnItsWay(s)
        BY <1>1, <1>4 DEF OnItsWay, Middle
    <2>2. Unseen(s)' => Unseen(s)
        BY <1>1, <1>4 DEF Unseen, Middle
    <2>. QED  BY <2>1, <2>2 DEF One
<1>6. TellInv'
    <2>1. watcher'.at = "post" => watcher'.say # "none"
        BY <1>2, <1>4
    <2>2. watcher'.at \notin {"deferred", "vanished"}
        BY <1>4
    <2>. QED  BY <1>1, <1>5, <2>1, <2>2, WatchingIsOwed DEF TellInv
<1>. QED  BY <1>1, <1>3, <1>4, <1>6, SweepingRunsNothing DEF NoticesInv

\* Home from a post: what was said has left the way, or is lost.
LEMMA PostedKeeps ==
    ASSUME NoticesInv, watcher.at = "post", watcher' = Posted, UNCHANGED task
    PROVE  /\ watcher' \in [who : Watchers, at : Places, seen : States \cup {"none"},
                            now : States \cup {"none"}, primed : BOOLEAN,
                            say : Told \cup {"none"}, todo : SUBSET Commands]
           /\ watcher'.at \in {"poll", "list"} /\ watcher'.todo = watcher.todo
           /\ \A s \in Told : ~OnItsWay(s)' /\ (Unseen(s)' => Unseen(s))
<1>. USE StatesOfATask
<1>1. watcher' \in [who : Watchers, at : Places, seen : States \cup {"none"},
                    now : States \cup {"none"}, primed : BOOLEAN,
                    say : Told \cup {"none"}, todo : SUBSET Commands]
    BY DEF NoticesInv, NoticesTypeOK, Posted, Places
<1>2. /\ watcher'.at \in {"poll", "list"} /\ watcher'.todo = watcher.todo
      /\ watcher'.seen = watcher.seen /\ watcher'.primed = watcher.primed
    BY DEF NoticesInv, NoticesTypeOK, Posted
<1>3. ASSUME NEW s \in Told PROVE ~OnItsWay(s)' /\ (Unseen(s)' => Unseen(s))
    BY <1>2 DEF OnItsWay, Unseen, Middle
<1>. QED  BY <1>1, <1>2, <1>3

LEMMA PostKeeps ==
    ASSUME NoticesAssumption, NoticesInv, Post
    PROVE  NoticesInv'
<1>. USE StatesOfATask
<1>. DEFINE state == watcher.say
<1>1. /\ watcher.at = "post" /\ UNCHANGED <<task, entered, lost, chat, noticeFaults>>
      /\ watcher' = Posted /\ said' = [said EXCEPT ![state] = @ + 1]
    BY DEF Post, At
<1>2. state \in Told /\ said \in [Told -> Nat]
    BY <1>1 DEF NoticesInv, NoticesTypeOK, TellInv
<1>3. NoticesTypeOK'
    <2>1. said' \in [Told -> Nat]
        BY <1>1, <1>2
    <2>. QED  BY <1>1, <2>1, PostedKeeps DEF NoticesInv, NoticesTypeOK, chat
<1>4. ASSUME NEW s \in Told PROVE Owed(s)'
    <2>1. entered[s] \in Nat /\ said[s] \in Nat /\ Owed(s)
        BY DEF NoticesInv, NoticesTypeOK, TellInv
    <2>2. ~OnItsWay(s)' /\ (Unseen(s)' => Unseen(s))
        BY <1>1, PostedKeeps
    <2>3. CASE s = state
        <3>1. said'[s] = said[s] + 1 /\ OnItsWay(s)
            BY <1>1, <1>2, <2>3 DEF OnItsWay
        <3>. QED  BY <1>1, <2>1, <2>2, <3>1 DEF Owed, One
    <2>4. CASE s # state
        <3>1. said'[s] = said[s]
            BY <1>1, <1>2, <2>4
        <3>. QED  BY <1>1, <2>1, <2>2, <3>1 DEF Owed, One
    <2>. QED  BY <2>3, <2>4
<1>5. TellInv'
    BY <1>1, <1>4, PostedKeeps DEF TellInv
<1>. QED  BY <1>1, <1>3, <1>5, PostedKeeps, SweepingRunsNothing DEF NoticesInv

LEMMA PostFailsKeeps ==
    ASSUME NoticesAssumption, NoticesInv, PostFails
    PROVE  NoticesInv'
<1>1. /\ watcher.at = "post" /\ UNCHANGED <<task, entered, said, chat>>
      /\ watcher' = Posted /\ lost' = TRUE /\ NoticeFaultsOK
    BY NoticeFaultCounts DEF PostFails, At, NoticesInv
<1>2. NoticesTypeOK'
    BY <1>1, PostedKeeps DEF NoticesInv, NoticesTypeOK, chat, NoticeFaultsOK
<1>3. ASSUME NEW s \in Told
      PROVE  One(OnItsWay(s)') + One(Unseen(s)') <= One(OnItsWay(s)) + One(Unseen(s))
    BY <1>1, PostedKeeps DEF One
<1>4. TellInv'
    BY <1>1, <1>3, PostedKeeps, WatchingIsOwed DEF TellInv
<1>. QED  BY <1>1, <1>2, <1>4, PostedKeeps, SweepingRunsNothing DEF NoticesInv

\* A watcher that starts anew knows nothing, and owes nothing for it.
LEMMA FreshWatcher ==
    ASSUME NEW who \in Watchers
    PROVE  /\ Fresh(who) \in [who : Watchers, at : Places, seen : States \cup {"none"},
                            now : States \cup {"none"}, primed : BOOLEAN,
                            say : Told \cup {"none"}, todo : SUBSET Commands]
           /\ Fresh(who).at \in {"poll", "list"} /\ Fresh(who).seen = "none"
           /\ ~Fresh(who).primed /\ Fresh(who).todo = {}
BY StatesOfATask DEF Fresh, Places

LEMMA RestartKeeps ==
    ASSUME NoticesAssumption, NoticesInv, Restart
    PROVE  NoticesInv'
<1>. USE StatesOfATask
<1>1. /\ watcher' = Fresh(watcher.who) /\ watcher.who \in Watchers /\ lost' = TRUE
      /\ NoticeFaultsOK /\ UNCHANGED <<task, entered, said, written, kept, ran>>
      /\ \/ offset' = 1 /\ restarts' = restarts + 1
         \/ UNCHANGED <<offset, restarts>>
    BY NoticeFaultCounts DEF Restart, NoticesInv, NoticesTypeOK
<1>2. NoticesTypeOK'
    <2>1. offset' \in 1..Messages + 1 /\ restarts' \in Nat
        BY <1>1 DEF NoticesInv, NoticesTypeOK, NoticesAssumption
    <2>2. \A first, last \in watcher'.todo : last < first + Batch
        BY <1>1, FreshWatcher
    <2>. QED  BY <1>1, <2>1, <2>2, FreshWatcher DEF NoticesInv, NoticesTypeOK, NoticeFaultsOK
<1>3. ASSUME NEW s \in Told
      PROVE  One(OnItsWay(s)') + One(Unseen(s)') <= One(OnItsWay(s)) + One(Unseen(s))
    <2>1. ~OnItsWay(s)' /\ ~Unseen(s)'
        BY <1>1, FreshWatcher DEF OnItsWay, Unseen, Middle
    <2>. QED  BY <2>1 DEF One
<1>4. TellInv'
    BY <1>1, <1>3, FreshWatcher, WatchingIsOwed DEF TellInv
<1>5. RunInv'
    <2>1. ASSUME NEW m \in Commands PROVE ran'[m] <= restarts' + One(m < offset')
        <3>1. ran[m] \in Nat /\ restarts \in Nat /\ ran[m] <= restarts + One(m < offset)
            BY DEF NoticesInv, NoticesTypeOK, RunInv
        <3>. QED  BY <1>1, <3>1 DEF One
    <2>. QED  BY <1>1, <2>1, FreshWatcher DEF RunInv
<1>. QED  BY <1>2, <1>4, <1>5 DEF NoticesInv

\* Steps of the bot before it polls for tasks.
LEMMA ChattingTellsNothing ==
    ASSUME NoticesAssumption, NoticesInv, UNCHANGED <<task, entered, said>>,
           watcher.at \in {"poll", "commands"}, watcher'.at \in {"poll", "commands", "list"},
           watcher'.seen = watcher.seen, watcher'.primed = watcher.primed
    PROVE  TellInv'
<1>1. ASSUME NEW s \in Told
      PROVE  One(OnItsWay(s)') + One(Unseen(s)') <= One(OnItsWay(s)) + One(Unseen(s))
    <2>1. ~OnItsWay(s)' /\ (Unseen(s)' => Unseen(s))
        BY DEF OnItsWay, Unseen, Middle
    <2>. QED  BY <2>1 DEF One
<1>. QED  BY <1>1, WatchingIsOwed DEF TellInv

LEMMA PollKeeps ==
    ASSUME NoticesAssumption, NoticesInv, Poll
    PROVE  NoticesInv'
<1>. DEFINE from == Later(offset, kept)
            answer == {m \in Commands : m \in from..written /\ m < from + Batch}
<1>1. /\ watcher.at = "poll" /\ kept' = from
      /\ watcher' = [watcher EXCEPT !.todo = answer,
                        !.at = IF answer = {} THEN "list" ELSE "commands"]
      /\ UNCHANGED <<task, entered, said, lost, written, offset, ran, restarts, noticeFaults>>
    BY DEF Poll, At
<1>2. from \in 1..Messages + 1 /\ offset \in Nat /\ from >= offset /\ from \in Nat
    BY DEF NoticesInv, NoticesTypeOK, Later, NoticesAssumption
<1>3. /\ answer \subseteq Commands
      /\ \A m \in answer : m \in Nat /\ m >= offset
      /\ \A first, last \in answer : last < first + Batch
    BY <1>2 DEF NoticesInv, NoticesTypeOK, NoticesAssumption
<1>. HIDE DEF answer, from
<1>4. NoticesTypeOK'
    <2>1. watcher' \in [who : Watchers, at : Places, seen : States \cup {"none"},
                        now : States \cup {"none"}, primed : BOOLEAN,
                        say : Told \cup {"none"}, todo : SUBSET Commands]
        BY <1>1, <1>3 DEF NoticesInv, NoticesTypeOK, Places
    <2>2. watcher'.todo = answer
        BY <1>1 DEF NoticesInv, NoticesTypeOK
    <2>. QED  BY <1>1, <1>2, <1>3, <2>1, <2>2 DEF NoticesInv, NoticesTypeOK
<1>5. TellInv'
    <2>1. /\ watcher'.at \in {"commands", "list"} /\ watcher'.seen = watcher.seen
          /\ watcher'.primed = watcher.primed
        BY <1>1 DEF NoticesInv, NoticesTypeOK
    <2>. QED  BY <1>1, <2>1, ChattingTellsNothing
<1>6. RunInv'
    <2>1. watcher'.todo = answer
        BY <1>1 DEF NoticesInv, NoticesTypeOK
    <2>. QED  BY <1>1, <1>3, <2>1 DEF NoticesInv, RunInv
<1>. QED  BY <1>4, <1>5, <1>6 DEF NoticesInv

LEMMA PollFailsKeeps ==
    ASSUME NoticesAssumption, NoticesInv, PollFails
    PROVE  NoticesInv'
<1>1. /\ watcher.at = "poll" /\ UNCHANGED <<task, entered, said, lost, chat>>
      /\ watcher' = [watcher EXCEPT !.at = "list"] /\ NoticeFaultsOK
    BY NoticeFaultCounts DEF PollFails, At, Steps, NoticesInv
<1>2. NoticesTypeOK'
    BY <1>1 DEF NoticesInv, NoticesTypeOK, chat, Places, NoticeFaultsOK
<1>3. /\ watcher'.at = "list" /\ watcher'.seen = watcher.seen
      /\ watcher'.primed = watcher.primed /\ watcher'.todo = watcher.todo
    BY <1>1 DEF NoticesInv, NoticesTypeOK
<1>. QED  BY <1>1, <1>2, <1>3, ChattingTellsNothing, SweepingRunsNothing DEF NoticesInv

\* The command runs after the offset has moved past it, and the rest of the answer is after it.
LEMMA CommandKeeps ==
    ASSUME NoticesAssumption, NoticesInv, Command
    PROVE  NoticesInv'
<1>1. PICK m \in watcher.todo :
          /\ \A other \in watcher.todo : m <= other
          /\ offset' = Later(offset, m + 1)
          /\ ran' = [ran EXCEPT ![m] = @ + 1]
          /\ watcher' = [watcher EXCEPT !.todo = @ \ {m},
                             !.at = IF watcher.todo = {m} THEN "list" ELSE @]
    BY DEF Command
<1>2. /\ watcher.at = "commands"
      /\ UNCHANGED <<task, entered, said, lost, written, kept, restarts, noticeFaults>>
    BY DEF Command, At
<1>3. /\ m \in Commands /\ m \in 1..Messages /\ m >= offset
      /\ watcher.todo \subseteq Commands /\ offset \in Nat
      /\ \A other \in watcher.todo : other \in Nat
      /\ ran \in [Commands -> Nat] /\ restarts \in Nat /\ Messages \in Nat
    BY DEF NoticesInv, NoticesTypeOK, RunInv, NoticesAssumption
<1>4. offset' = m + 1
    BY <1>1, <1>3 DEF Later
<1>5. /\ watcher'.at \in {"commands", "list"} /\ watcher'.seen = watcher.seen
      /\ watcher'.primed = watcher.primed /\ watcher'.todo = watcher.todo \ {m}
    BY <1>1, <1>2 DEF NoticesInv, NoticesTypeOK
<1>6. NoticesTypeOK'
    <2>1. watcher' \in [who : Watchers, at : Places, seen : States \cup {"none"},
                        now : States \cup {"none"}, primed : BOOLEAN,
                        say : Told \cup {"none"}, todo : SUBSET Commands]
        <3>1. watcher.todo \ {m} \in SUBSET Commands
            BY <1>3
        <3>. QED  BY <1>1, <1>2, <3>1 DEF NoticesInv, NoticesTypeOK, Places
    <2>2. ran' \in [Commands -> Nat] /\ offset' \in 1..Messages + 1
        BY <1>1, <1>3, <1>4
    <2>3. \A first, last \in watcher'.todo : last < first + Batch
        BY <1>5 DEF NoticesInv, NoticesTypeOK
    <2>. QED  BY <1>2, <2>1, <2>2, <2>3 DEF NoticesInv, NoticesTypeOK
<1>7. TellInv'
    BY <1>2, <1>5, ChattingTellsNothing
<1>8. RunInv'
    <2>1. ASSUME NEW other \in Commands PROVE ran'[other] <= restarts' + One(other < offset')
        <3>1. ran[other] \in Nat /\ other \in Nat
            BY <1>3 DEF NoticesAssumption
        <3>2. ran[other] <= restarts + One(other < offset)
            BY DEF NoticesInv, RunInv
        <3>3. CASE other = m
            <4>1. ran'[other] = ran[other] + 1
                BY <1>1, <1>3, <3>3
            <4>. QED  BY <1>2, <1>3, <1>4, <3>1, <3>2, <3>3, <4>1 DEF One
        <3>4. CASE other # m
            <4>1. ran'[other] = ran[other]
                BY <1>1, <1>3, <3>4
            <4>. QED  BY <1>2, <1>3, <1>4, <3>1, <3>2, <4>1 DEF One
        <3>. QED  BY <3>3, <3>4
    <2>2. ASSUME NEW other \in watcher'.todo PROVE other >= offset'
        <3>1. other \in watcher.todo /\ other # m /\ other \in Nat /\ m \in Nat /\ m <= other
            BY <1>1, <1>3, <1>5
        <3>. QED  BY <1>4, <3>1
    <2>. QED  BY <2>1, <2>2 DEF RunInv
<1>. QED  BY <1>6, <1>7, <1>8 DEF NoticesInv

LEMMA WriteMessageKeeps ==
    ASSUME NoticesAssumption, NoticesInv, WriteMessage
    PROVE  NoticesInv'
<1>1. /\ written < Messages /\ written' = written + 1
      /\ UNCHANGED <<task, entered, watcher, said, lost, offset, kept, ran, restarts, noticeFaults>>
    BY DEF WriteMessage
<1>2. NoticesTypeOK'
    BY <1>1 DEF NoticesInv, NoticesTypeOK, NoticesAssumption
<1>3. TellInv'
    BY <1>1 DEF NoticesInv, TellInv, Owed, OnItsWay, Unseen
<1>4. RunInv'
    BY <1>1 DEF NoticesInv, RunInv
<1>. QED  BY <1>2, <1>3, <1>4 DEF NoticesInv

LEMMA NoticesStart == ASSUME NoticesAssumption, NoticesInit PROVE NoticesInv
<1>. USE StatesOfATask
<1>1. PICK who \in Watchers : watcher = Fresh(who)
    BY DEF NoticesInit
<1>2. NoticesTypeOK
    <2>1. \A first, last \in watcher.todo : last < first + Batch
        BY <1>1, FreshWatcher
    <2>2. /\ written \in 0..Messages /\ offset \in 1..Messages + 1
          /\ kept \in 1..Messages + 1 /\ noticeFaults \in 0..MaxNoticeFaults
        BY DEF NoticesInit, NoticesAssumption
    <2>. QED  BY <1>1, <2>1, <2>2, FreshWatcher DEF NoticesInit, NoticesTypeOK
<1>3. ASSUME NEW s \in Told PROVE Owed(s)
    <2>1. ~OnItsWay(s) /\ ~Unseen(s)
        BY <1>1, FreshWatcher DEF OnItsWay, Unseen, Middle
    <2>2. said[s] = 0 /\ entered[s] = 0
        BY DEF NoticesInit
    <2>. QED  BY <2>1, <2>2 DEF Owed, One
<1>4. TellInv
    BY <1>1, <1>3, FreshWatcher DEF TellInv
<1>5. RunInv
    <2>1. ASSUME NEW m \in Commands PROVE ran[m] <= restarts + One(m < offset)
        BY DEF NoticesInit, One
    <2>. QED  BY <1>1, <2>1, FreshWatcher DEF RunInv
<1>. QED  BY <1>2, <1>4, <1>5 DEF NoticesInv

LEMMA NoticesKeepInv ==
    ASSUME NoticesAssumption, NoticesInv, [NoticesNext]_noticesVars
    PROVE  NoticesInv'
<1>1. CASE MoveTask
    BY <1>1, MoveIsOwed
<1>2. CASE Sweep
    BY <1>2, ListActiveKeeps, ListWaitingKeeps, FetchVanishedKeeps, NotifyKeeps, PostKeeps
       DEF Sweep
<1>3. CASE PollTasksFails \/ FetchFails \/ PostFails \/ Restart
    BY <1>3, PollTasksFailsKeeps, FetchFailsKeeps, PostFailsKeeps, RestartKeeps
<1>4. CASE WriteMessage \/ Poll \/ PollFails \/ Command
    BY <1>4, WriteMessageKeeps, PollKeeps, PollFailsKeeps, CommandKeeps
<1>5. CASE UNCHANGED noticesVars
    <2>1. NoticesTypeOK'
        BY <1>5 DEF noticesVars, NoticesInv, NoticesTypeOK
    <2>2. TellInv'
        BY <1>5 DEF noticesVars, NoticesInv, TellInv, Owed, OnItsWay, Unseen
    <2>3. RunInv'
        BY <1>5 DEF noticesVars, NoticesInv, RunInv
    <2>. QED  BY <2>1, <2>2, <2>3 DEF NoticesInv
<1>. QED  BY <1>1, <1>2, <1>3, <1>4, <1>5 DEF NoticesNext

LEMMA NoticesInvHolds == ASSUME NoticesAssumption PROVE NoticesSpec => []NoticesInv
BY NoticesStart, NoticesKeepInv, PTL DEF NoticesSpec

\* The watchers' memory and the chat's offsets keep their shapes (BotState, Seen), whatever fails.
THEOREM NoticesTypeCorrect == ASSUME NoticesAssumption PROVE NoticesSpec => []NoticesTypeOK
<1>1. NoticesInv => NoticesTypeOK
    BY DEF NoticesInv
<1>. QED  BY <1>1, NoticesInvHolds, PTL

\* Nobody is told of the same coming twice and no command runs twice between two restarts of the
\* bot, for any messages and any number of failures and restarts at any step (notifications,
\* with_vanished, updates, step).
THEOREM NothingIsToldTwice == ASSUME NoticesAssumption PROVE NoticesSpec => []NothingTwice
<1>1. ASSUME NoticesInv PROVE NothingTwice
    <2>1. ASSUME NEW s \in Told PROVE said[s] <= entered[s]
        <3>1. entered[s] \in Nat /\ said[s] \in Nat /\ Owed(s)
            BY <1>1, StatesOfATask DEF NoticesInv, NoticesTypeOK, TellInv
        <3>. QED  BY <3>1 DEF Owed, One
    <2>2. ASSUME NEW m \in Commands PROVE ran[m] <= 1 + restarts
        <3>1. ran[m] \in Nat /\ restarts \in Nat /\ ran[m] <= restarts + One(m < offset)
            BY <1>1 DEF NoticesInv, NoticesTypeOK, RunInv
        <3>. QED  BY <3>1 DEF One
    <2>. QED  BY <2>1, <2>2 DEF NothingTwice
<1>. QED  BY <1>1, NoticesInvHolds, PTL

-----------------------------------------------------------------------------
(* Report: the invariant.                                                  *)

\* The lines a role writes, and that it writes one before it goes on.
LinesOK ==
    /\ \A w \in Workers : line[w].kind \in {"none", "claimed", "submitted"} /\ busy[w] = NoTask
    /\ line["verifier"].kind \in {"none", "verified"}
    /\ line["integrator"].kind \in {"none", "integrated"}
    /\ \A r \in Roles :
           /\ busy[r] # NoTask => line[r] = NoLine
           /\ line[r] # NoLine => line[r].kind # "none" /\ line[r].task \in Tasks

\* What a role has taken stays where it is, and whoever has yet to write that it claimed a task
\* still holds it.
TakenOK ==
    /\ busy["verifier"] # NoTask => standing[busy["verifier"]].at = "in_verify"
    /\ busy["integrator"] # NoTask => standing[busy["integrator"]].at = "mergeable"
    /\ \A w \in Workers : line[w].kind = "claimed" =>
           standing[line[w].task].at = "held" /\ standing[line[w].task].by = w
    /\ \A t \in Tasks :
           /\ standing[t].at = "held" <=> standing[t].by # NoTask
           /\ standing[t].at # "ready" => truth[t] # <<>>

\* A task is done exactly when its last attempt has landed; nothing tells of another landing.
LandedOf(t) ==
    /\ standing[t].at = "done" => truth[t][Len(truth[t])].landed
    /\ HasLanded(t) => standing[t].at = "done"
    /\ line["integrator"].task = t => line["integrator"].good = (standing[t].at = "done")

LandedOK == \A t \in Tasks : LandedOf(t)

\* A claim of t has yet to be written.
ClaimUnwritten(t) == \E w \in Workers : line[w].kind = "claimed" /\ line[w].task = t

\* A verdict on t has yet to be written.
VerdictUnwritten(t) == line["verifier"].task = t

\* While no line is lost the report has the attempts of the ledger, but one being written; and
\* knows of their ends, or is about to be told.
AttemptsOf(t) ==
    LET told_of == told[t].attempts
        attempts == truth[t]
    IN  /\ Len(told_of) = Len(attempts) - (IF ClaimUnwritten(t) THEN 1 ELSE 0)
        /\ standing[t].at = "done" => HasLanded(t) \/ line["integrator"].task = t
        /\ FirstPass(t) => attempts[1].passed
        /\ VerdictUnwritten(t) =>
               /\ told_of # <<>>
               /\ line["verifier"].good /\ Len(told_of) = 1 => attempts[1].passed
        /\ standing[t].at \in {"held", "in_verify"} /\ Len(attempts) = 1 =>
               ~FirstPass(t) /\ ~VerdictUnwritten(t)

AttemptsOK == \A t \in Tasks : AttemptsOf(t)

ReportInv == LinesOK /\ TakenOK /\ LandedOK /\ (~gap => AttemptsOK)
-----------------------------------------------------------------------------
-----------------------------------------------------------------------------
(* Report: the fold.                                                       *)

AttemptEnds == [passed : BOOLEAN, landed : BOOLEAN]
Metricses == [planned : {0, NoTime}, attempts : Seq(Attempted)]

\* What a line makes of the attempt it is given to.
LEMMA SetsTells ==
    ASSUME NEW a \in Attempted, NEW l \in LineShapes, NEW t \in 0..MaxTime
    PROVE  LET b == Sets(a, l, t)
           IN  /\ b \in Attempted
               /\ l.kind # "verified" => b.passed = a.passed
               /\ l.kind # "integrated" => b.landed = a.landed
               /\ l.kind = "verified" => b.passed = IF l.good THEN "yes" ELSE "no"
               /\ l.kind = "integrated" => b.landed = l.good
<1>1. CASE l.kind = "submitted"
    <2>1. Sets(a, l, t) = [a EXCEPT !.submitted = t]
        BY <1>1 DEF Sets
    <2>. QED  BY <1>1, <2>1 DEF Attempted
<1>2. CASE l.kind = "verified"
    <2>1. Sets(a, l, t) = [a EXCEPT !.passed = IF l.good THEN "yes" ELSE "no"]
        BY <1>2 DEF Sets
    <2>. QED  BY <1>2, <2>1 DEF Attempted
<1>3. CASE l.kind = "integrated"
    <2>1. Sets(a, l, t) = [a EXCEPT !.landed = l.good] /\ l.good \in BOOLEAN
        BY <1>3 DEF Sets, Landed, LineShapes
    <2>. QED  BY <1>3, <2>1 DEF Attempted
<1>4. CASE l.kind \notin {"submitted", "verified", "integrated"}
    BY <1>4 DEF Sets
<1>. QED  BY <1>1, <1>2, <1>3, <1>4

\* A claim is one more attempt, any other line changes the last one, if there is one.
LEMMA FoldTells ==
    ASSUME NEW m \in Metricses, NEW l \in LineShapes, NEW t \in 0..MaxTime
    PROVE  LET u == Fold(m, l, t)
               n == Len(m.attempts)
           IN  /\ u \in Metricses
               /\ l.kind = "claimed" =>
                      /\ Len(u.attempts) = n + 1
                      /\ \A i \in 1..n : u.attempts[i] = m.attempts[i]
                      /\ u.attempts[n + 1] = Attempt(t)
               /\ l.kind # "claimed" =>
                      /\ Len(u.attempts) = n
                      /\ \A i \in 1..n : i # n => u.attempts[i] = m.attempts[i]
                      /\ n > 0 => u.attempts[n] = Sets(m.attempts[n], l, t)
<1> DEFINE n == Len(m.attempts)
<1>0. m.attempts \in Seq(Attempted) /\ n \in Nat /\ Attempt(t) \in Attempted
    BY DEF Metricses, Attempt, Attempted
<1>1. CASE l.kind = "claimed"
    <2>1. Fold(m, l, t) = [m EXCEPT !.attempts = Append(m.attempts, Attempt(t))]
        BY <1>1 DEF Fold
    <2>2. Append(m.attempts, Attempt(t)) \in Seq(Attempted)
        BY <1>0
    <2>3. /\ Len(Append(m.attempts, Attempt(t))) = n + 1
          /\ \A i \in 1..n : Append(m.attempts, Attempt(t))[i] = m.attempts[i]
          /\ Append(m.attempts, Attempt(t))[n + 1] = Attempt(t)
        BY <1>0
    <2>4. Fold(m, l, t) \in Metricses
          /\ Fold(m, l, t).attempts = Append(m.attempts, Attempt(t))
        BY <2>1, <2>2 DEF Metricses
    <2>. QED  BY <1>1, <2>3, <2>4
<1>2. CASE l.kind # "claimed" /\ m.attempts = <<>>
    BY <1>0, <1>2 DEF Fold
<1>3. CASE l.kind # "claimed" /\ m.attempts # <<>>
    <2> DEFINE a == Sets(m.attempts[n], l, t)
               s == [m.attempts EXCEPT ![n] = a]
    <2>1. Fold(m, l, t) = [m EXCEPT !.attempts = s]
        BY <1>3 DEF Fold
    <2>2. n \in 1..n /\ m.attempts[n] \in Attempted
        BY <1>0, <1>3
    <2>3. a \in Attempted
        BY <2>2, SetsTells
    <2> HIDE DEF a
    <2>4. s \in Seq(Attempted) /\ Len(s) = n
        BY <1>0, <2>2, <2>3
    <2>5. s[n] = a /\ \A i \in 1..n : i # n => s[i] = m.attempts[i]
        BY <1>0, <2>2
    <2> HIDE DEF s
    <2>6. Fold(m, l, t) \in Metricses /\ Fold(m, l, t).attempts = s
        BY <2>1, <2>4 DEF Metricses
    <2>. QED  BY <1>3, <2>4, <2>5, <2>6 DEF a
<1>. QED  BY <1>1, <1>2, <1>3

\* What role r's line changes of the report.
LEMMA RecordTells ==
    ASSUME ReportAssumption, ReportTypeOK, NEW r \in Roles, Record(r), NEW t \in Tasks,
           line[r].task = t
    PROVE  LET l == line[r]
               n == Len(told[t].attempts)
           IN  /\ told' \in [Tasks -> Metricses]
               /\ \A u \in Tasks : u # t => told'[u] = told[u]
               /\ Len(told'[t].attempts) = IF l.kind = "claimed" THEN n + 1 ELSE n
               /\ FirstPass(t)' =>
                      FirstPass(t) \/ (l.kind = "verified" /\ l.good /\ n = 1)
               /\ HasLanded(t)' => HasLanded(t) \/ (l.kind = "integrated" /\ l.good)
               /\ HasLanded(t) /\ (l.kind = "integrated" => l.good) => HasLanded(t)'
               /\ l.kind = "integrated" /\ l.good /\ n > 0 => HasLanded(t)'
<1> DEFINE l == line[r]
           m == told[t]
           n == Len(m.attempts)
           u == Fold(m, l, now)
<1>0. /\ t \in Tasks /\ l \in LineShapes /\ m \in Metricses /\ now \in 0..MaxTime
      /\ told \in [Tasks -> Metricses] /\ m.attempts \in Seq(Attempted) /\ n \in Nat
    BY DEF ReportTypeOK, Metricses
<1>1. told' = [told EXCEPT ![t] = u]
    <2>1. told' = [told EXCEPT ![l.task] = Fold(@, l, now)]
        BY DEF Record, Logged
    <2>. QED  BY <2>1
<1>2. /\ u \in Metricses
      /\ l.kind = "claimed" =>
             /\ Len(u.attempts) = n + 1
             /\ \A i \in 1..n : u.attempts[i] = m.attempts[i]
             /\ u.attempts[n + 1] = Attempt(now)
      /\ l.kind # "claimed" =>
             /\ Len(u.attempts) = n
             /\ \A i \in 1..n : i # n => u.attempts[i] = m.attempts[i]
             /\ n > 0 => u.attempts[n] = Sets(m.attempts[n], l, now)
    BY <1>0, FoldTells
<1> HIDE DEF u, l, m, n
<1>3. told'[t] = u /\ \A v \in Tasks : v # t => told'[v] = told[v]
    BY <1>0, <1>1
<1>4. told' \in [Tasks -> Metricses]
    BY <1>0, <1>1, <1>2
<1>5. Len(u.attempts) = IF l.kind = "claimed" THEN n + 1 ELSE n
    BY <1>2
<1>6. /\ FirstPass(t) <=> m.attempts # <<>> /\ m.attempts[1].passed = "yes"
      /\ FirstPass(t)' <=> u.attempts # <<>> /\ u.attempts[1].passed = "yes"
      /\ HasLanded(t) <=> \E i \in 1..n : m.attempts[i].landed
      /\ HasLanded(t)' <=> \E i \in 1..Len(u.attempts) : u.attempts[i].landed
    <2>1. DOMAIN m.attempts = 1..n /\ DOMAIN u.attempts = 1..Len(u.attempts)
        BY <1>0, <1>2 DEF Metricses, n
    <2>2. (FirstPass(t) <=> m.attempts # <<>> /\ m.attempts[1].passed = "yes")
          /\ (HasLanded(t) <=> \E i \in 1..n : m.attempts[i].landed)
        BY <2>1 DEF FirstPass, HasLanded, m
    <2>3. (FirstPass(t)' <=> told'[t].attempts # <<>> /\ told'[t].attempts[1].passed = "yes")
          /\ (HasLanded(t)' <=> \E i \in DOMAIN told'[t].attempts : told'[t].attempts[i].landed)
        BY DEF FirstPass, HasLanded
    <2>. QED  BY <1>3, <2>1, <2>2, <2>3
<1>7. /\ m.attempts # <<>> <=> n > 0
      /\ u.attempts # <<>> <=> Len(u.attempts) > 0
    BY <1>0, <1>2 DEF Metricses, n
<1>8. CASE l.kind = "claimed"
    <2>1. /\ Attempt(now).passed = "unknown" /\ ~Attempt(now).landed
          /\ u.attempts[n + 1] = Attempt(now) /\ Len(u.attempts) = n + 1
          /\ \A i \in 1..n : u.attempts[i] = m.attempts[i]
        BY <1>2, <1>8 DEF Attempt
    <2>2. FirstPass(t)' => FirstPass(t)
        <3>1. CASE n = 0
            BY <1>6, <2>1, <3>1
        <3>2. CASE n > 0
            <4>1. 1 \in 1..n /\ m.attempts # <<>>
                BY <1>0, <1>7, <3>2
            <4>2. u.attempts[1] = m.attempts[1]
                BY <2>1, <4>1
            <4>. QED  BY <1>6, <4>1, <4>2
        <3>. QED  BY <1>0, <3>1, <3>2
    <2>3. HasLanded(t)' <=> HasLanded(t)
        <3>1. ASSUME NEW i \in 1..n, m.attempts[i].landed
              PROVE  \E j \in 1..(n + 1) : u.attempts[j].landed
            <4>1. i \in 1..(n + 1) /\ u.attempts[i] = m.attempts[i]
                BY <1>0, <2>1
            <4>. QED  BY <3>1, <4>1
        <3>2. ASSUME NEW j \in 1..(n + 1), u.attempts[j].landed
              PROVE  \E i \in 1..n : m.attempts[i].landed
            <4>1. j # n + 1
                BY <2>1, <3>2
            <4>2. j \in 1..n
                BY <1>0, <4>1
            <4>. QED  BY <2>1, <3>2, <4>2
        <3>. QED  BY <1>6, <2>1, <3>1, <3>2
    <2>. QED  BY <1>3, <1>4, <1>5, <1>8, <2>2, <2>3 DEF l, m, n
<1>9. CASE l.kind # "claimed" /\ n = 0
    <2>1. ~FirstPass(t)' /\ ~HasLanded(t)' /\ ~HasLanded(t)
        BY <1>2, <1>6, <1>7, <1>9
    <2>. QED  BY <1>3, <1>4, <1>5, <1>9, <2>1 DEF l, m, n
<1>10. CASE l.kind # "claimed" /\ n > 0
    <2> DEFINE a == m.attempts[n]
               b == Sets(a, l, now)
    <2>1. /\ Len(u.attempts) = n /\ u.attempts[n] = b /\ n \in 1..n
          /\ \A i \in 1..n : i # n => u.attempts[i] = m.attempts[i]
        BY <1>0, <1>2, <1>10
    <2>2. a \in Attempted
        BY <1>0, <2>1 DEF m, n
    <2>3. /\ l.kind # "verified" => b.passed = a.passed
          /\ l.kind # "integrated" => b.landed = a.landed
          /\ l.kind = "verified" => b.passed = IF l.good THEN "yes" ELSE "no"
          /\ l.kind = "integrated" => b.landed = l.good
        BY <1>0, <2>2, SetsTells
    <2> HIDE DEF b
    <2>4. FirstPass(t)' => FirstPass(t) \/ (l.kind = "verified" /\ l.good /\ n = 1)
        BY <1>0, <1>6, <1>7, <1>10, <2>1, <2>3
    <2>5. HasLanded(t)' => HasLanded(t) \/ (l.kind = "integrated" /\ l.good)
        BY <1>0, <1>6, <2>1, <2>3
    <2>6. HasLanded(t) /\ (l.kind = "integrated" => l.good) => HasLanded(t)'
        BY <1>0, <1>6, <2>1, <2>3
    <2>7. l.kind = "integrated" /\ l.good => HasLanded(t)'
        BY <1>0, <1>6, <2>1, <2>3
    <2>. QED  BY <1>3, <1>4, <1>5, <1>10, <2>4, <2>5, <2>6, <2>7 DEF l, m, n
<1>. QED  BY <1>0, <1>8, <1>9, <1>10


-----------------------------------------------------------------------------
(* Report: the steps.                                                      *)

\* The roles are apart, and none of them is called as a task that is not there.
LEMMA RolesApart ==
    ASSUME ReportAssumption
    PROVE  /\ Roles = Workers \cup {"verifier", "integrator"}
           /\ \A w \in Workers : w # "verifier" /\ w # "integrator" /\ w # NoTask
           /\ NoTask \notin Tasks
BY DEF ReportAssumption, Roles

\* Nothing changes for a task nobody moves, marks or tells of.
LEMMA OthersStay ==
    ASSUME ReportTypeOK, NEW u \in Tasks,
           standing'[u] = standing[u], truth'[u] = truth[u], told'[u] = told[u],
           ClaimUnwritten(u)' <=> ClaimUnwritten(u),
           line'["verifier"].task = u =>
               line["verifier"].task = u /\ line'["verifier"].good = line["verifier"].good,
           line'["integrator"].task = u => line'["integrator"] = line["integrator"],
           line["integrator"].task = u => gap' \/ line'["integrator"].task = u
    PROVE  /\ LandedOf(u) => LandedOf(u)'
           /\ ~gap' /\ AttemptsOf(u) => AttemptsOf(u)'
<1>1. /\ HasLanded(u)' <=> HasLanded(u)
      /\ FirstPass(u)' <=> FirstPass(u)
    BY DEF HasLanded, FirstPass
<1>2. LandedOf(u) => LandedOf(u)'
    BY <1>1 DEF LandedOf
<1>3. VerdictUnwritten(u)' => VerdictUnwritten(u)
                              /\ line'["verifier"].good = line["verifier"].good
    BY DEF VerdictUnwritten
<1>4. ~gap' /\ AttemptsOf(u) => AttemptsOf(u)'
    BY <1>1, <1>3 DEF AttemptsOf
<1>. QED  BY <1>2, <1>4

\* A role's move, task by task and line by line.
LEMMA MovesTells ==
    ASSUME ReportTypeOK, NEW r \in Roles, NEW t \in Tasks, NEW at, NEW by, NEW kind, NEW good,
           Moves(r, t, at, by, kind, good)
    PROVE  /\ standing'[t] = [at |-> at, by |-> by] /\ line'[r] = Line(kind, t, good)
           /\ \A u \in Tasks : u # t => standing'[u] = standing[u]
           /\ \A q \in Roles : q # r => line'[q] = line[q]
           /\ DOMAIN standing' = Tasks /\ DOMAIN line' = Roles
BY DEF Moves, ReportTypeOK

\* A claim is the next attempt; whoever made it has yet to write it.
LEMMA ClaimKeeps ==
    ASSUME ReportAssumption, ReportTypeOK, ReportInv, NEW w \in Workers, NEW t \in Tasks,
           Claim(w, t)
    PROVE  ReportTypeOK' /\ ReportInv'
<1>0. /\ Roles = Workers \cup {"verifier", "integrator"} /\ w \in Roles
      /\ \A v \in Workers : v # "verifier" /\ v # "integrator" /\ v # NoTask
      /\ NoTask \notin Tasks
    BY RolesApart
<1>1. /\ standing'[t] = [at |-> "held", by |-> w] /\ line'[w] = Line("claimed", t, TRUE)
      /\ \A u \in Tasks : u # t => standing'[u] = standing[u]
      /\ \A q \in Roles : q # w => line'[q] = line[q]
      /\ DOMAIN standing' = Tasks /\ DOMAIN line' = Roles
    BY <1>0, MovesTells DEF Claim
<1>2. /\ line[w] = NoLine /\ standing[t].at = "ready"
      /\ UNCHANGED <<busy, told, gap, now, reportFaults>>
    BY DEF Claim, Free
<1>3. /\ truth'[t] = Append(truth[t], [passed |-> FALSE, landed |-> FALSE])
      /\ \A u \in Tasks : u # t => truth'[u] = truth[u]
      /\ truth' \in [Tasks -> Seq([passed : BOOLEAN, landed : BOOLEAN])]
    BY DEF Claim, ReportTypeOK
<1>4. /\ truth[t] \in Seq([passed : BOOLEAN, landed : BOOLEAN])
      /\ Len(truth'[t]) = Len(truth[t]) + 1 /\ truth'[t] # <<>>
      /\ \A i \in 1..Len(truth[t]) : truth'[t][i] = truth[t][i]
    <2>1. truth[t] \in Seq([passed : BOOLEAN, landed : BOOLEAN])
        BY DEF ReportTypeOK
    <2>. QED  BY <1>3, <2>1
<1>5. ReportTypeOK'
    <2>1. standing' \in [Tasks -> Standings]
        BY DEF ReportTypeOK, Claim, Moves, Standings
    <2>2. line' \in [Roles -> LineShapes]
        BY <1>0 DEF ReportTypeOK, Claim, Moves, Line, LineShapes
    <2>. QED  BY <1>2, <1>3, <2>1, <2>2 DEF ReportTypeOK
<1>6. LinesOK'
    BY <1>0, <1>1, <1>2 DEF ReportInv, LinesOK, Line, NoLine
<1>7. TakenOK'
    <2>1. /\ busy'["verifier"] # NoTask => standing'[busy'["verifier"]].at = "in_verify"
          /\ busy'["integrator"] # NoTask => standing'[busy'["integrator"]].at = "mergeable"
        <3>1. /\ busy'["verifier"] = busy["verifier"]
              /\ busy'["integrator"] = busy["integrator"]
              /\ busy["verifier"] \in Tasks \cup {NoTask}
              /\ busy["integrator"] \in Tasks \cup {NoTask}
            BY <1>0, <1>2 DEF ReportTypeOK
        <3>2. /\ busy["verifier"] # NoTask => standing[busy["verifier"]].at = "in_verify"
              /\ busy["integrator"] # NoTask => standing[busy["integrator"]].at = "mergeable"
            BY DEF ReportInv, TakenOK
        <3>. QED  BY <1>1, <1>2, <3>1, <3>2
    <2>2. ASSUME NEW v \in Workers, line'[v].kind = "claimed"
          PROVE  standing'[line'[v].task].at = "held" /\ standing'[line'[v].task].by = v
        <3>1. CASE v = w
            BY <1>1, <3>1 DEF Line
        <3>2. CASE v # w
            <4>1. line'[v] = line[v] /\ line[v].task \in Tasks
                BY <1>0, <1>1, <2>2, <3>2 DEF ReportInv, LinesOK, NoLine
            <4>2. standing[line[v].task].at = "held" /\ standing[line[v].task].by = v
                BY <2>2, <4>1 DEF ReportInv, TakenOK
            <4>. QED  BY <1>1, <1>2, <4>1, <4>2
        <3>. QED  BY <3>1, <3>2
    <2>3. \A u \in Tasks :
              /\ standing'[u].at = "held" <=> standing'[u].by # NoTask
              /\ standing'[u].at # "ready" => truth'[u] # <<>>
        <3>1. standing'[t].at = "held" /\ standing'[t].by # NoTask /\ truth'[t] # <<>>
            BY <1>0, <1>1, <1>4
        <3>2. \A u \in Tasks : u # t => standing'[u] = standing[u] /\ truth'[u] = truth[u]
            BY <1>1, <1>3
        <3>. QED  BY <3>1, <3>2 DEF ReportInv, TakenOK
    <2>. QED  BY <2>1, <2>2, <2>3 DEF TakenOK
<1>8. ~ClaimUnwritten(t)
    BY <1>2 DEF ClaimUnwritten, ReportInv, TakenOK
<1>9. ClaimUnwritten(t)' /\ \A u \in Tasks : u # t => (ClaimUnwritten(u)' <=> ClaimUnwritten(u))
    BY <1>0, <1>1, <1>2 DEF ClaimUnwritten, Line, NoLine
<1>10. line'["verifier"] = line["verifier"] /\ line'["integrator"] = line["integrator"]
    BY <1>0, <1>1
<1>11. \A u \in Tasks : u # t =>
           (LandedOf(u) => LandedOf(u)') /\ (~gap' /\ AttemptsOf(u) => AttemptsOf(u)')
    BY <1>1, <1>2, <1>3, <1>9, <1>10, OthersStay
<1>12. /\ HasLanded(t)' <=> HasLanded(t)
       /\ FirstPass(t)' <=> FirstPass(t)
       /\ VerdictUnwritten(t)' <=> VerdictUnwritten(t)
    BY <1>2, <1>10 DEF HasLanded, FirstPass, VerdictUnwritten
<1>13. LandedOf(t)'
    BY <1>1, <1>2, <1>10, <1>12 DEF ReportInv, LandedOK, LandedOf
<1>14. ASSUME ~gap' PROVE AttemptsOf(t)'
    <2>1. AttemptsOf(t)
        BY <1>2, <1>14 DEF ReportInv, AttemptsOK
    <2>2. told[t].attempts \in Seq(Attempted)
        BY DEF ReportTypeOK
    <2>3. Len(told'[t].attempts) = Len(truth'[t]) - 1
        BY <1>2, <1>4, <1>8, <2>1 DEF AttemptsOf
    <2>4. told[t].attempts # <<>> => truth'[t][1] = truth[t][1] /\ Len(truth'[t]) # 1
        BY <1>4, <1>8, <2>1, <2>2 DEF AttemptsOf
    <2>5. FirstPass(t) \/ VerdictUnwritten(t) => told[t].attempts # <<>>
        BY <2>1 DEF AttemptsOf, FirstPass
    <2>6. standing'[t].at # "done"
        BY <1>1
    <2>7. FirstPass(t)' => truth'[t][1].passed
        BY <1>12, <2>1, <2>4, <2>5 DEF AttemptsOf
    <2>8. VerdictUnwritten(t)' =>
              /\ told'[t].attempts # <<>>
              /\ line'["verifier"].good /\ Len(told'[t].attempts) = 1 => truth'[t][1].passed
        BY <1>2, <1>10, <1>12, <2>1, <2>4 DEF AttemptsOf
    <2>9. Len(truth'[t]) = 1 => ~FirstPass(t)' /\ ~VerdictUnwritten(t)'
        BY <1>12, <2>4, <2>5
    <2>. QED  BY <1>9, <2>3, <2>6, <2>7, <2>8, <2>9 DEF AttemptsOf
<1>. QED  BY <1>2, <1>5, <1>6, <1>7, <1>11, <1>13, <1>14 DEF ReportInv, LandedOK, AttemptsOK

\* What a worker does with a task it holds, and the Steward with one whose worker wrote that it
\* claimed: the task moves on, the attempts stay.
LEMMA HeldMoves ==
    ASSUME ReportAssumption, ReportTypeOK, ReportInv, NEW t \in Tasks, standing[t].at = "held",
           line[standing[t].by] = NoLine,
           NEW at \in {"ready", "in_verify"}, standing'[t] = [at |-> at, by |-> NoTask],
           \A u \in Tasks : u # t => standing'[u] = standing[u],
           standing' \in [Tasks -> Standings], line' \in [Roles -> LineShapes], LinesOK',
           \A v \in Workers : line'[v] = line[v] \/ line'[v].kind = "submitted",
           \A v \in Workers : line[v].kind = "claimed" => line'[v] = line[v],
           line'["verifier"] = line["verifier"], line'["integrator"] = line["integrator"],
           UNCHANGED <<busy, truth, told, gap, now, reportFaults>>
    PROVE  ReportTypeOK' /\ ReportInv'
<1>0. /\ Roles = Workers \cup {"verifier", "integrator"}
      /\ \A v \in Workers : v # "verifier" /\ v # "integrator" /\ v # NoTask
      /\ NoTask \notin Tasks
    BY RolesApart
<1>1. ReportTypeOK'
    BY DEF ReportTypeOK
<1>2. \A v \in Workers : line[v].kind = "claimed" => line[v].task # t
    BY DEF ReportInv, TakenOK, NoLine
<1>3. \A v \in Workers : line[v].kind = "claimed" => line[v].task \in Tasks
    BY <1>0 DEF ReportInv, LinesOK, NoLine
<1>4. \A v \in Workers : line'[v].kind = "claimed" <=> line[v].kind = "claimed"
    OBVIOUS
<1>5. TakenOK'
    <2>1. /\ busy'["verifier"] # NoTask => standing'[busy'["verifier"]].at = "in_verify"
          /\ busy'["integrator"] # NoTask => standing'[busy'["integrator"]].at = "mergeable"
        <3>1. /\ busy["verifier"] \in Tasks \cup {NoTask}
              /\ busy["integrator"] \in Tasks \cup {NoTask}
            BY <1>0 DEF ReportTypeOK
        <3>2. /\ busy["verifier"] # NoTask => standing[busy["verifier"]].at = "in_verify"
              /\ busy["integrator"] # NoTask => standing[busy["integrator"]].at = "mergeable"
            BY DEF ReportInv, TakenOK
        <3>3. busy["verifier"] # t /\ busy["integrator"] # t
            BY <1>0, <3>2
        <3>. QED  BY <3>1, <3>2, <3>3
    <2>2. \A v \in Workers : line'[v].kind = "claimed" =>
              standing'[line'[v].task].at = "held" /\ standing'[line'[v].task].by = v
        BY <1>2, <1>3, <1>4 DEF ReportInv, TakenOK
    <2>3. \A u \in Tasks :
              /\ standing'[u].at = "held" <=> standing'[u].by # NoTask
              /\ standing'[u].at # "ready" => truth'[u] # <<>>
        BY DEF ReportInv, TakenOK
    <2>. QED  BY <2>1, <2>2, <2>3 DEF TakenOK
<1>6. \A u \in Tasks : ClaimUnwritten(u)' <=> ClaimUnwritten(u)
    BY <1>4 DEF ClaimUnwritten
<1>7. \A u \in Tasks : u # t =>
          (LandedOf(u) => LandedOf(u)') /\ (~gap' /\ AttemptsOf(u) => AttemptsOf(u)')
    BY <1>6, OthersStay
<1>8. /\ HasLanded(t)' <=> HasLanded(t)
      /\ FirstPass(t)' <=> FirstPass(t)
      /\ VerdictUnwritten(t)' <=> VerdictUnwritten(t)
    BY DEF HasLanded, FirstPass, VerdictUnwritten
<1>9. LandedOf(t)'
    BY <1>8 DEF ReportInv, LandedOK, LandedOf
<1>10. ASSUME ~gap' PROVE AttemptsOf(t)'
    <2>1. AttemptsOf(t)
        BY <1>10 DEF ReportInv, AttemptsOK
    <2>2. ClaimUnwritten(t)' <=> ClaimUnwritten(t)
        BY <1>6
    <2>3. standing'[t].at # "done"
        OBVIOUS
    <2>4. standing'[t].at = "in_verify" => standing[t].at = "held"
        OBVIOUS
    <2>5. standing'[t].at # "held"
        OBVIOUS
    <2>. QED  BY <1>8, <2>1, <2>2, <2>3, <2>4, <2>5 DEF AttemptsOf
<1>. QED  BY <1>1, <1>5, <1>7, <1>9, <1>10 DEF ReportInv, LandedOK, AttemptsOK

LEMMA SubmitKeeps ==
    ASSUME ReportAssumption, ReportTypeOK, ReportInv, NEW w \in Workers, NEW t \in Tasks,
           Submit(w, t)
    PROVE  ReportTypeOK' /\ ReportInv'
<1>0. /\ Roles = Workers \cup {"verifier", "integrator"} /\ w \in Roles
      /\ \A v \in Workers : v # "verifier" /\ v # "integrator" /\ v # NoTask
      /\ NoTask \notin Tasks
    BY RolesApart
<1>1. /\ standing'[t] = [at |-> "in_verify", by |-> NoTask]
      /\ line'[w] = Line("submitted", t, TRUE)
      /\ \A u \in Tasks : u # t => standing'[u] = standing[u]
      /\ \A q \in Roles : q # w => line'[q] = line[q]
    BY <1>0 DEF Submit, Moves, ReportTypeOK
<1>2. line[w] = NoLine /\ busy[w] = NoTask /\ standing[t].by = w
      /\ UNCHANGED <<busy, truth, told, gap, now, reportFaults>>
    BY DEF Submit, Free
<1>3. standing[t].at = "held" /\ line[standing[t].by] = NoLine
    BY <1>0, <1>2 DEF ReportInv, TakenOK
<1>4. standing' \in [Tasks -> Standings]
    BY DEF ReportTypeOK, Submit, Moves, Standings
<1>5. line' \in [Roles -> LineShapes]
    BY <1>0 DEF ReportTypeOK, Submit, Moves, Line, LineShapes
<1>6. LinesOK'
    BY <1>0, <1>1, <1>2 DEF ReportInv, LinesOK, Line, NoLine
<1>7. /\ \A v \in Workers : line'[v] = line[v] \/ line'[v].kind = "submitted"
      /\ \A v \in Workers : line[v].kind = "claimed" => line'[v] = line[v]
      /\ line'["verifier"] = line["verifier"] /\ line'["integrator"] = line["integrator"]
    BY <1>0, <1>1, <1>2 DEF Line, NoLine
<1>. QED  BY <1>1, <1>2, <1>3, <1>4, <1>5, <1>6, <1>7, HeldMoves

\* A held task is given back, by its worker or by the Steward.
LEMMA GivenBackKeeps ==
    ASSUME ReportAssumption, ReportTypeOK, ReportInv, NEW t \in Tasks, standing[t].at = "held",
           line[standing[t].by] = NoLine,
           standing' = [standing EXCEPT ![t] = [at |-> "ready", by |-> NoTask]],
           UNCHANGED <<line, busy, truth, told, gap, now, reportFaults>>
    PROVE  ReportTypeOK' /\ ReportInv'
<1>1. /\ standing'[t] = [at |-> "ready", by |-> NoTask]
      /\ \A u \in Tasks : u # t => standing'[u] = standing[u]
      /\ standing' \in [Tasks -> Standings]
    BY DEF ReportTypeOK, Standings
<1>2. line' \in [Roles -> LineShapes]
    BY DEF ReportTypeOK
<1>3. LinesOK'
    BY DEF ReportInv, LinesOK
<1>. QED  BY <1>1, <1>2, <1>3, HeldMoves

LEMMA HandBackKeeps ==
    ASSUME ReportAssumption, ReportTypeOK, ReportInv, NEW w \in Workers, NEW t \in Tasks,
           HandBack(w, t)
    PROVE  ReportTypeOK' /\ ReportInv'
<1>1. line[w] = NoLine /\ standing[t].by = w /\ w # NoTask
    BY RolesApart DEF HandBack, Free
<1>2. standing[t].at = "held" /\ line[standing[t].by] = NoLine
    BY <1>1 DEF ReportInv, TakenOK
<1>. QED  BY <1>2, GivenBackKeeps DEF HandBack

LEMMA ReapKeeps ==
    ASSUME ReportAssumption, ReportTypeOK, ReportInv, NEW t \in Tasks, Reap(t)
    PROVE  ReportTypeOK' /\ ReportInv'
BY GivenBackKeeps DEF Reap

\* Nothing the invariant speaks of changes but who is at work on what.
LEMMA WorkKeeps ==
    ASSUME ReportAssumption, ReportTypeOK, ReportInv,
           busy' \in [Roles -> Tasks \cup {NoTask}],
           \A r \in Roles : busy'[r] = busy[r] \/ busy'[r] = NoTask
                            \/ (line[r] = NoLine /\ r \notin Workers),
           busy'["verifier"] \in {busy["verifier"], NoTask}
               \/ standing[busy'["verifier"]].at = "in_verify",
           busy'["integrator"] \in {busy["integrator"], NoTask}
               \/ standing[busy'["integrator"]].at = "mergeable",
           now' \in 0..MaxTime, reportFaults' \in 0..MaxReportFaults,
           UNCHANGED <<standing, line, truth, told, gap>>
    PROVE  ReportTypeOK' /\ ReportInv'
<1>0. Roles = Workers \cup {"verifier", "integrator"}
    BY RolesApart
<1>1. ReportTypeOK'
    BY DEF ReportTypeOK
<1>2. LinesOK'
    BY <1>0 DEF ReportInv, LinesOK
<1>3. TakenOK'
    BY DEF ReportInv, TakenOK
<1>4. LandedOK'
    BY DEF ReportInv, LandedOK, LandedOf, HasLanded
<1>5. ASSUME ~gap' PROVE AttemptsOK'
    BY <1>5 DEF ReportInv, AttemptsOK, AttemptsOf, HasLanded, FirstPass, ClaimUnwritten,
                VerdictUnwritten
<1>. QED  BY <1>1, <1>2, <1>3, <1>4, <1>5 DEF ReportInv

LEMMA StartVerifyKeeps ==
    ASSUME ReportAssumption, ReportTypeOK, ReportInv, NEW t \in Tasks, StartVerify(t)
    PROVE  ReportTypeOK' /\ ReportInv'
<1>0. /\ Roles = Workers \cup {"verifier", "integrator"}
      /\ \A v \in Workers : v # "verifier" /\ v # "integrator"
    BY RolesApart
<1>1. /\ line["verifier"] = NoLine /\ standing[t].at = "in_verify"
      /\ busy' = [busy EXCEPT !["verifier"] = t]
      /\ UNCHANGED <<standing, line, truth, told, gap, now, reportFaults>>
    BY DEF StartVerify, Start, Free
<1>2. /\ busy' \in [Roles -> Tasks \cup {NoTask}] /\ busy'["verifier"] = t
      /\ \A r \in Roles : r # "verifier" => busy'[r] = busy[r]
    BY <1>0, <1>1 DEF ReportTypeOK
<1>3. now' \in 0..MaxTime /\ reportFaults' \in 0..MaxReportFaults
    BY <1>1 DEF ReportTypeOK
<1>4. \A r \in Roles : busy'[r] = busy[r] \/ busy'[r] = NoTask
                           \/ (line[r] = NoLine /\ r \notin Workers)
    <2>1. "verifier" \notin Workers
        BY <1>0
    <2>2. \A r \in Roles : r = "verifier" \/ busy'[r] = busy[r]
        BY <1>2
    <2>. QED  BY <1>1, <2>1, <2>2
<1>5. /\ busy'["verifier"] \in {busy["verifier"], NoTask}
            \/ standing[busy'["verifier"]].at = "in_verify"
      /\ busy'["integrator"] = busy["integrator"]
    BY <1>0, <1>1, <1>2
<1>. QED  BY <1>1, <1>2, <1>3, <1>4, <1>5, WorkKeeps

LEMMA StartIntegrateKeeps ==
    ASSUME ReportAssumption, ReportTypeOK, ReportInv, NEW t \in Tasks, StartIntegrate(t)
    PROVE  ReportTypeOK' /\ ReportInv'
<1>0. /\ Roles = Workers \cup {"verifier", "integrator"}
      /\ \A v \in Workers : v # "verifier" /\ v # "integrator"
    BY RolesApart
<1>1. /\ line["integrator"] = NoLine /\ standing[t].at = "mergeable"
      /\ busy' = [busy EXCEPT !["integrator"] = t]
      /\ UNCHANGED <<standing, line, truth, told, gap, now, reportFaults>>
    BY DEF StartIntegrate, Start, Free
<1>2. /\ busy' \in [Roles -> Tasks \cup {NoTask}] /\ busy'["integrator"] = t
      /\ \A r \in Roles : r # "integrator" => busy'[r] = busy[r]
    BY <1>0, <1>1 DEF ReportTypeOK
<1>3. now' \in 0..MaxTime /\ reportFaults' \in 0..MaxReportFaults
    BY <1>1 DEF ReportTypeOK
<1>4. \A r \in Roles : busy'[r] = busy[r] \/ busy'[r] = NoTask
                           \/ (line[r] = NoLine /\ r \notin Workers)
    <2>1. "integrator" \notin Workers
        BY <1>0
    <2>2. \A r \in Roles : r = "integrator" \/ busy'[r] = busy[r]
        BY <1>2
    <2>. QED  BY <1>1, <2>1, <2>2
<1>5. /\ busy'["integrator"] \in {busy["integrator"], NoTask}
            \/ standing[busy'["integrator"]].at = "mergeable"
      /\ busy'["verifier"] = busy["verifier"]
    BY <1>0, <1>1, <1>2
<1>. QED  BY <1>1, <1>2, <1>3, <1>4, <1>5, WorkKeeps

LEMMA TickKeeps ==
    ASSUME ReportAssumption, ReportTypeOK, ReportInv, Tick
    PROVE  ReportTypeOK' /\ ReportInv'
<1>1. now' \in 0..MaxTime
    BY DEF Tick, ReportTypeOK, ReportAssumption
<1>2. busy' = busy /\ reportFaults' \in 0..MaxReportFaults
      /\ UNCHANGED <<standing, line, truth, told, gap>>
    BY DEF Tick, ReportTypeOK
<1>3. busy' \in [Roles -> Tasks \cup {NoTask}]
    BY <1>2 DEF ReportTypeOK
<1>4. /\ \A r \in Roles : busy'[r] = busy[r] \/ busy'[r] = NoTask
                              \/ (line[r] = NoLine /\ r \notin Workers)
      /\ busy'["verifier"] \in {busy["verifier"], NoTask}
             \/ standing[busy'["verifier"]].at = "in_verify"
      /\ busy'["integrator"] \in {busy["integrator"], NoTask}
             \/ standing[busy'["integrator"]].at = "mergeable"
    BY <1>2
<1>. QED  BY <1>1, <1>2, <1>3, <1>4, WorkKeeps

\* A mark changes the attempt under way, and of it the one end.
LEMMA MarkTells ==
    ASSUME ReportTypeOK, NEW t \in Tasks, truth[t] # <<>>, NEW value \in BOOLEAN,
           NEW field \in {"passed", "landed"}, Mark(t, field, value)
    PROVE  /\ truth' \in [Tasks -> Seq(AttemptEnds)]
           /\ \A u \in Tasks : u # t => truth'[u] = truth[u]
           /\ Len(truth'[t]) = Len(truth[t]) /\ truth'[t] # <<>>
           /\ \A i \in 1..Len(truth[t]) : i # Len(truth[t]) => truth'[t][i] = truth[t][i]
           /\ truth'[t][Len(truth[t])].passed =
                  IF field = "passed" THEN value ELSE truth[t][Len(truth[t])].passed
           /\ truth'[t][Len(truth[t])].landed =
                  IF field = "landed" THEN value ELSE truth[t][Len(truth[t])].landed
<1> DEFINE last == Len(truth[t])
           attempt == [truth[t][last] EXCEPT ![field] = value]
           marked == [truth[t] EXCEPT ![last] = attempt]
<1>1. truth' = [truth EXCEPT ![t] = marked]
    BY DEF Mark
<1>2. /\ truth \in [Tasks -> Seq(AttemptEnds)] /\ truth[t] \in Seq(AttemptEnds)
      /\ last \in 1..last /\ truth[t][last] \in AttemptEnds
    <2>1. truth \in [Tasks -> Seq(AttemptEnds)] /\ truth[t] \in Seq(AttemptEnds)
        BY DEF ReportTypeOK, AttemptEnds
    <2>. QED  BY <2>1
<1>3. /\ attempt \in AttemptEnds
      /\ attempt.passed = IF field = "passed" THEN value ELSE truth[t][last].passed
      /\ attempt.landed = IF field = "landed" THEN value ELSE truth[t][last].landed
    <2>1. CASE field = "passed"
        BY <1>2, <2>1 DEF AttemptEnds
    <2>2. CASE field = "landed"
        BY <1>2, <2>2 DEF AttemptEnds
    <2>. QED  BY <2>1, <2>2
<1> HIDE DEF attempt
<1>4. /\ marked \in Seq(AttemptEnds) /\ Len(marked) = last
      /\ marked # <<>> /\ marked[last] = attempt
      /\ \A i \in 1..last : i # last => marked[i] = truth[t][i]
    BY <1>2, <1>3
<1> HIDE DEF marked
<1>. QED  BY <1>1, <1>2, <1>3, <1>4

\* A verdict: of the attempt that waits for it, before it has landed.
LEMMA VerifyKeeps ==
    ASSUME ReportAssumption, ReportTypeOK, ReportInv, NEW t \in Tasks, Verify(t)
    PROVE  ReportTypeOK' /\ ReportInv'
<1>0. /\ Roles = Workers \cup {"verifier", "integrator"}
      /\ \A v \in Workers : v # "verifier" /\ v # "integrator" /\ v # NoTask
      /\ NoTask \notin Tasks
    BY RolesApart
<1>1. PICK good \in BOOLEAN :
          /\ Moves("verifier", t, IF good THEN "mergeable" ELSE "ready", NoTask, "verified", good)
          /\ Mark(t, "passed", good)
    BY DEF Verify
<1> DEFINE at == IF good THEN "mergeable" ELSE "ready"
<1>2. /\ busy["verifier"] = t /\ busy' = [busy EXCEPT !["verifier"] = NoTask]
      /\ UNCHANGED <<told, gap, now, reportFaults>>
    BY DEF Verify
<1>3. line["verifier"] = NoLine /\ standing[t].at = "in_verify" /\ truth[t] # <<>>
    BY <1>0, <1>2 DEF ReportInv, LinesOK, TakenOK
<1>4. /\ standing'[t] = [at |-> at, by |-> NoTask]
      /\ line'["verifier"] = Line("verified", t, good)
      /\ \A u \in Tasks : u # t => standing'[u] = standing[u]
      /\ \A q \in Roles : q # "verifier" => line'[q] = line[q]
    BY <1>0, <1>1 DEF Moves, ReportTypeOK
<1>5. /\ truth' \in [Tasks -> Seq(AttemptEnds)]
      /\ \A u \in Tasks : u # t => truth'[u] = truth[u]
      /\ Len(truth'[t]) = Len(truth[t]) /\ truth'[t] # <<>>
      /\ \A i \in 1..Len(truth[t]) : i # Len(truth[t]) => truth'[t][i] = truth[t][i]
      /\ truth'[t][Len(truth[t])].passed = good
    BY <1>1, <1>3, MarkTells
<1>6. /\ busy' \in [Roles -> Tasks \cup {NoTask}] /\ busy'["verifier"] = NoTask
      /\ \A r \in Roles : r # "verifier" => busy'[r] = busy[r]
    BY <1>0, <1>2 DEF ReportTypeOK
<1>7. ReportTypeOK'
    <2>1. standing' \in [Tasks -> Standings]
        BY <1>1 DEF ReportTypeOK, Moves, Standings
    <2>2. line' \in [Roles -> LineShapes]
        BY <1>0, <1>1 DEF ReportTypeOK, Moves, Line, LineShapes
    <2>. QED  BY <1>2, <1>5, <1>6, <2>1, <2>2 DEF ReportTypeOK, AttemptEnds
<1>8. LinesOK'
    <2>1. /\ line'["verifier"].kind = "verified" /\ line'["verifier"].task = t
          /\ busy'["verifier"] = NoTask
        BY <1>4, <1>6 DEF Line
    <2>2. \A r \in Roles : r # "verifier" => line'[r] = line[r] /\ busy'[r] = busy[r]
        BY <1>4, <1>6
    <2>. QED  BY <1>0, <2>1, <2>2 DEF ReportInv, LinesOK
<1>9. \A v \in Workers : line'[v] = line[v]
    BY <1>0, <1>4
<1>10. \A v \in Workers : line[v].kind = "claimed" => line[v].task # t /\ line[v].task \in Tasks
    BY <1>0, <1>3 DEF ReportInv, LinesOK, TakenOK, NoLine
<1>11. TakenOK'
    <2>1. busy'["integrator"] # NoTask => standing'[busy'["integrator"]].at = "mergeable"
        <3>1. busy'["integrator"] = busy["integrator"]
              /\ busy["integrator"] \in Tasks \cup {NoTask}
            BY <1>0, <1>6 DEF ReportTypeOK
        <3>2. busy["integrator"] # NoTask => standing[busy["integrator"]].at = "mergeable"
            BY DEF ReportInv, TakenOK
        <3>. QED  BY <1>3, <1>4, <3>1, <3>2
    <2>2. \A v \in Workers : line'[v].kind = "claimed" =>
              standing'[line'[v].task].at = "held" /\ standing'[line'[v].task].by = v
        BY <1>4, <1>9, <1>10 DEF ReportInv, TakenOK
    <2>3. \A u \in Tasks :
              /\ standing'[u].at = "held" <=> standing'[u].by # NoTask
              /\ standing'[u].at # "ready" => truth'[u] # <<>>
        BY <1>4, <1>5 DEF ReportInv, TakenOK
    <2>. QED  BY <1>6, <2>1, <2>2, <2>3 DEF TakenOK
<1>12. (\A u \in Tasks : ClaimUnwritten(u)' <=> ClaimUnwritten(u)) /\ ~ClaimUnwritten(t)
    BY <1>9, <1>10 DEF ClaimUnwritten
<1>13. line'["integrator"] = line["integrator"]
    BY <1>0, <1>4
<1>14. \A u \in Tasks : u # t =>
           (LandedOf(u) => LandedOf(u)') /\ (~gap' /\ AttemptsOf(u) => AttemptsOf(u)')
    <2>1. line'["verifier"].task = t
        BY <1>4 DEF Line
    <2>. QED  BY <1>2, <1>4, <1>5, <1>12, <1>13, <2>1, OthersStay
<1>15. /\ HasLanded(t)' <=> HasLanded(t)
       /\ FirstPass(t)' <=> FirstPass(t)
    BY <1>2 DEF HasLanded, FirstPass
<1>16. standing'[t].at \notin {"done", "held", "in_verify"}
    BY <1>4
<1>17. LandedOf(t)'
    BY <1>3, <1>13, <1>15, <1>16 DEF ReportInv, LandedOK, LandedOf
<1>18. ASSUME ~gap' PROVE AttemptsOf(t)'
    <2>1. AttemptsOf(t)
        BY <1>2, <1>18 DEF ReportInv, AttemptsOK
    <2>2. /\ told[t].attempts \in Seq(Attempted) /\ truth[t] \in Seq(AttemptEnds)
          /\ Len(told'[t].attempts) = Len(truth'[t]) /\ told'[t].attempts = told[t].attempts
        BY <1>2, <1>5, <1>12, <2>1 DEF ReportTypeOK, AttemptsOf, AttemptEnds
    <2>3. told'[t].attempts # <<>> /\ Len(truth[t]) \in Nat /\ Len(truth[t]) > 0
        <3>1. Len(truth[t]) \in Nat /\ Len(truth[t]) > 0
            BY <1>3, <2>2
        <3>2. Len(told'[t].attempts) = Len(truth[t])
            BY <1>5, <2>2
        <3>. QED  BY <2>2, <3>1, <3>2
    <2>4. FirstPass(t) => truth'[t][1].passed
        <3>1. CASE Len(truth[t]) = 1
            BY <1>3, <2>1, <3>1 DEF AttemptsOf
        <3>2. CASE Len(truth[t]) # 1
            <4>1. 1 \in 1..Len(truth[t])
                BY <2>3
            <4>2. truth'[t][1] = truth[t][1]
                BY <1>5, <3>2, <4>1
            <4>. QED  BY <2>1, <4>2 DEF AttemptsOf
        <3>. QED  BY <3>1, <3>2
    <2>5. line'["verifier"].good /\ Len(told'[t].attempts) = 1 => truth'[t][1].passed
        <3>1. line'["verifier"].good = good
            BY <1>4 DEF Line
        <3>2. Len(told'[t].attempts) = Len(truth[t])
            BY <1>5, <2>2
        <3>3. truth'[t][Len(truth[t])].passed = good
            BY <1>5
        <3>. QED  BY <3>1, <3>2, <3>3
    <2>6. ~ClaimUnwritten(t)' /\ Len(truth'[t]) \in Nat
        BY <1>5, <1>12, <2>3
    <2>7. Len(told'[t].attempts) = Len(truth'[t]) - (IF ClaimUnwritten(t)' THEN 1 ELSE 0)
        BY <2>2, <2>6
    <2>8. FirstPass(t)' => truth'[t][1].passed
        BY <1>15, <2>4
    <2>. QED  BY <1>16, <2>3, <2>5, <2>7, <2>8 DEF AttemptsOf
<1>. QED  BY <1>2, <1>7, <1>8, <1>11, <1>14, <1>17, <1>18 DEF ReportInv, LandedOK, AttemptsOK

\* What the Integrator does to the task it has taken, whether it can tell or not.
LEMMA LandingMoves ==
    ASSUME ReportAssumption, ReportTypeOK, ReportInv, NEW t \in Tasks, busy["integrator"] = t,
           busy' = [busy EXCEPT !["integrator"] = NoTask], NEW good \in BOOLEAN,
           standing' = [standing EXCEPT ![t] = [at |-> IF good THEN "done" ELSE "ready",
                                                by |-> NoTask]],
           Mark(t, "landed", good), told' = told, now' = now,
           gap' \in BOOLEAN, reportFaults' \in 0..MaxReportFaults,
           \A v \in Workers : line'[v] = line[v], line'["verifier"] = line["verifier"],
           line' \in [Roles -> LineShapes],
           line'["integrator"] = Line("integrated", t, good)
               \/ (line'["integrator"] = NoLine /\ gap' = TRUE),
           gap => gap'
    PROVE  ReportTypeOK' /\ ReportInv'
<1>0. /\ Roles = Workers \cup {"verifier", "integrator"}
      /\ \A v \in Workers : v # "verifier" /\ v # "integrator" /\ v # NoTask
      /\ NoTask \notin Tasks
    BY RolesApart
<1> DEFINE at == IF good THEN "done" ELSE "ready"
<1>1. line["integrator"] = NoLine /\ standing[t].at = "mergeable" /\ truth[t] # <<>>
    BY <1>0 DEF ReportInv, LinesOK, TakenOK
<1>2. /\ standing'[t].at = at /\ standing'[t].by = NoTask
      /\ \A u \in Tasks : u # t => standing'[u] = standing[u]
      /\ standing' \in [Tasks -> Standings]
    BY DEF ReportTypeOK, Standings
<1>3. /\ truth' \in [Tasks -> Seq(AttemptEnds)]
      /\ \A u \in Tasks : u # t => truth'[u] = truth[u]
      /\ Len(truth'[t]) = Len(truth[t]) /\ truth'[t] # <<>>
      /\ \A i \in 1..Len(truth[t]) : i # Len(truth[t]) => truth'[t][i] = truth[t][i]
      /\ truth'[t][Len(truth[t])].passed = truth[t][Len(truth[t])].passed
      /\ truth'[t][Len(truth[t])].landed = good
    BY <1>1, MarkTells
<1>4. /\ busy' \in [Roles -> Tasks \cup {NoTask}] /\ busy'["integrator"] = NoTask
      /\ \A r \in Roles : r # "integrator" => busy'[r] = busy[r]
    BY <1>0 DEF ReportTypeOK
<1>5. ReportTypeOK'
    BY <1>2, <1>3, <1>4 DEF ReportTypeOK, AttemptEnds
<1>6. LinesOK'
    <2>1. /\ line'["integrator"].kind \in {"none", "integrated"}
          /\ line'["integrator"] # NoLine =>
                 line'["integrator"].kind # "none" /\ line'["integrator"].task \in Tasks
        BY DEF Line, NoLine
    <2>2. \A r \in Roles : r # "integrator" => line'[r] = line[r] /\ busy'[r] = busy[r]
        BY <1>0, <1>4
    <2>. QED  BY <1>0, <1>4, <2>1, <2>2 DEF ReportInv, LinesOK
<1>7. \A v \in Workers : line[v].kind = "claimed" => line[v].task # t /\ line[v].task \in Tasks
    BY <1>0, <1>1 DEF ReportInv, LinesOK, TakenOK, NoLine
<1>8. TakenOK'
    <2>1. busy'["verifier"] # NoTask => standing'[busy'["verifier"]].at = "in_verify"
        <3>1. busy'["verifier"] = busy["verifier"] /\ busy["verifier"] \in Tasks \cup {NoTask}
            BY <1>0, <1>4 DEF ReportTypeOK
        <3>2. busy["verifier"] # NoTask => standing[busy["verifier"]].at = "in_verify"
            BY DEF ReportInv, TakenOK
        <3>. QED  BY <1>1, <1>2, <3>1, <3>2
    <2>2. \A v \in Workers : line'[v].kind = "claimed" =>
              standing'[line'[v].task].at = "held" /\ standing'[line'[v].task].by = v
        BY <1>2, <1>7 DEF ReportInv, TakenOK
    <2>3. \A u \in Tasks :
              /\ standing'[u].at = "held" <=> standing'[u].by # NoTask
              /\ standing'[u].at # "ready" => truth'[u] # <<>>
        BY <1>2, <1>3 DEF ReportInv, TakenOK
    <2>. QED  BY <1>4, <2>1, <2>2, <2>3 DEF TakenOK
<1>9. (\A u \in Tasks : ClaimUnwritten(u)' <=> ClaimUnwritten(u)) /\ ~ClaimUnwritten(t)
    BY <1>7 DEF ClaimUnwritten
<1>10. \A u \in Tasks : u # t =>
           (LandedOf(u) => LandedOf(u)') /\ (~gap' /\ AttemptsOf(u) => AttemptsOf(u)')
    <2>1. line["integrator"].task \notin Tasks
          /\ line'["integrator"].task \in {t, NoTask}
        BY <1>0, <1>1 DEF Line, NoLine
    <2>. QED  BY <1>0, <1>2, <1>3, <1>9, <2>1, OthersStay
<1>11. /\ HasLanded(t)' <=> HasLanded(t)
       /\ FirstPass(t)' <=> FirstPass(t)
       /\ VerdictUnwritten(t)' <=> VerdictUnwritten(t)
    BY DEF HasLanded, FirstPass, VerdictUnwritten
<1>12. /\ ~HasLanded(t)
       /\ line'["integrator"].task = t => line'["integrator"].good = good
    <2>1. ~HasLanded(t)
        BY <1>1 DEF ReportInv, LandedOK, LandedOf
    <2>2. CASE line'["integrator"] = NoLine
        <3>1. line'["integrator"].task = NoTask /\ t # NoTask
            BY <1>0, <2>2 DEF NoLine
        <3>. QED  BY <2>1, <3>1
    <2>3. CASE line'["integrator"] = Line("integrated", t, good)
        BY <2>1, <2>3 DEF Line
    <2>. QED  BY <2>2, <2>3
<1>13. LandedOf(t)'
    BY <1>2, <1>3, <1>11, <1>12 DEF LandedOf
<1>14. ASSUME ~gap' PROVE AttemptsOf(t)'
    <2>1. AttemptsOf(t)
        BY <1>14 DEF ReportInv, AttemptsOK
    <2>2. /\ truth[t] \in Seq(AttemptEnds) /\ Len(truth[t]) \in Nat
          /\ Len(told'[t].attempts) = Len(truth'[t])
        <3>1. truth[t] \in Seq(AttemptEnds)
            BY DEF ReportTypeOK, AttemptEnds
        <3>. QED  BY <1>3, <1>9, <2>1, <3>1 DEF AttemptsOf
    <2>3. Len(told'[t].attempts) = Len(truth'[t]) - (IF ClaimUnwritten(t)' THEN 1 ELSE 0)
        <3>1. ~ClaimUnwritten(t)'
            BY <1>9
        <3>. QED  BY <1>3, <2>2, <3>1
    <2>4. line'["integrator"].task = t
        BY <1>14 DEF Line
    <2>5. truth'[t][1].passed = truth[t][1].passed
        <3>1. 1 \in 1..Len(truth[t])
            BY <1>1, <2>2
        <3>. QED  BY <1>3, <3>1
    <2>6. standing'[t].at \notin {"held", "in_verify"}
        BY <1>2
    <2>. QED  BY <1>11, <2>1, <2>3, <2>4, <2>5, <2>6 DEF AttemptsOf
<1>. QED  BY <1>5, <1>6, <1>8, <1>10, <1>13, <1>14 DEF ReportInv, LandedOK, AttemptsOK

LEMMA IntegrateKeeps ==
    ASSUME ReportAssumption, ReportTypeOK, ReportInv, NEW t \in Tasks, Integrate(t)
    PROVE  ReportTypeOK' /\ ReportInv'
<1>0. /\ Roles = Workers \cup {"verifier", "integrator"}
      /\ \A v \in Workers : v # "verifier" /\ v # "integrator" /\ v # NoTask
    BY RolesApart
<1>1. PICK good \in BOOLEAN :
          /\ Moves("integrator", t, IF good THEN "done" ELSE "ready", NoTask, "integrated", good)
          /\ Mark(t, "landed", good)
    BY DEF Integrate
<1>2. line' \in [Roles -> LineShapes]
    BY <1>0, <1>1 DEF ReportTypeOK, Moves, Line, LineShapes
<1>3. /\ \A v \in Workers : line'[v] = line[v]
      /\ line'["verifier"] = line["verifier"]
      /\ line'["integrator"] = Line("integrated", t, good)
    BY <1>0, <1>1 DEF ReportTypeOK, Moves
<1>4. standing' = [standing EXCEPT ![t] = [at |-> IF good THEN "done" ELSE "ready",
                                           by |-> NoTask]]
    BY <1>1 DEF Moves
<1>5. /\ busy["integrator"] = t /\ busy' = [busy EXCEPT !["integrator"] = NoTask]
      /\ told' = told /\ now' = now /\ gap' = gap
      /\ gap' \in BOOLEAN /\ reportFaults' \in 0..MaxReportFaults
    BY DEF Integrate, ReportTypeOK
<1>. QED  BY <1>1, <1>2, <1>3, <1>4, <1>5, LandingMoves

LEMMA CloseFailsKeeps ==
    ASSUME ReportAssumption, ReportTypeOK, ReportInv, NEW t \in Tasks, CloseFails(t)
    PROVE  ReportTypeOK' /\ ReportInv'
<1>1. PICK good \in BOOLEAN :
          /\ standing' = [standing EXCEPT ![t] = [at |-> IF good THEN "done" ELSE "ready",
                                                  by |-> NoTask]]
          /\ Mark(t, "landed", good)
    BY DEF CloseFails
<1>2. /\ busy["integrator"] = t /\ busy' = [busy EXCEPT !["integrator"] = NoTask]
      /\ line' = line /\ told' = told /\ now' = now /\ gap' = TRUE
    BY DEF CloseFails
<1>3. reportFaults' \in 0..MaxReportFaults
    BY DEF CloseFails, ReportFault, ReportTypeOK, ReportAssumption
<1>4. line["integrator"] = NoLine
    BY <1>2, RolesApart DEF ReportInv, LinesOK
<1>5. line' \in [Roles -> LineShapes] /\ \A v \in Workers : line'[v] = line[v]
    BY <1>2 DEF ReportTypeOK
<1>. QED  BY <1>1, <1>2, <1>3, <1>4, <1>5, LandingMoves

\* A line is written: the report learns of it and nothing else changes.
LEMMA RecordKeeps ==
    ASSUME ReportAssumption, ReportTypeOK, ReportInv, NEW r \in Roles, Record(r)
    PROVE  ReportTypeOK' /\ ReportInv'
<1>0. /\ Roles = Workers \cup {"verifier", "integrator"}
      /\ \A v \in Workers : v # "verifier" /\ v # "integrator" /\ v # NoTask
      /\ NoTask \notin Tasks
    BY RolesApart
<1> DEFINE t == line[r].task
           n == Len(told[t].attempts)
<1>1. /\ line[r] # NoLine /\ line[r].kind # "none" /\ t \in Tasks /\ line[r] \in LineShapes
      /\ line' = [line EXCEPT ![r] = NoLine]
      /\ UNCHANGED <<standing, busy, truth, gap, now, reportFaults>>
    BY DEF Record, ReportInv, LinesOK, ReportTypeOK
<1>2. line'[r] = NoLine /\ \A q \in Roles : q # r => line'[q] = line[q]
    BY <1>1 DEF ReportTypeOK
<1>3. PICK v \in Tasks : v = t
    BY <1>1
<1>4. /\ told' \in [Tasks -> Metricses]
      /\ \A u \in Tasks : u # v => told'[u] = told[u]
      /\ Len(told'[v].attempts) = IF line[r].kind = "claimed" THEN n + 1 ELSE n
      /\ FirstPass(v)' => FirstPass(v) \/ (line[r].kind = "verified" /\ line[r].good /\ n = 1)
      /\ HasLanded(v)' => HasLanded(v) \/ (line[r].kind = "integrated" /\ line[r].good)
      /\ HasLanded(v) /\ (line[r].kind = "integrated" => line[r].good) => HasLanded(v)'
      /\ line[r].kind = "integrated" /\ line[r].good /\ n > 0 => HasLanded(v)'
    BY <1>3, RecordTells
<1> HIDE DEF t, n
<1>5. ReportTypeOK'
    <2>1. line' \in [Roles -> LineShapes]
        BY <1>1 DEF ReportTypeOK, LineShapes, NoLine
    <2>. QED  BY <1>1, <1>4, <2>1 DEF ReportTypeOK, Metricses
<1>6. LinesOK'
    <2>1. NoLine.kind = "none" /\ busy' = busy
        BY <1>1 DEF NoLine
    <2>2. \A q \in Roles : line'[q] = line[q] \/ line'[q] = NoLine
        BY <1>2
    <2>. QED  BY <1>0, <2>1, <2>2 DEF ReportInv, LinesOK
<1>7. TakenOK'
    <2>1. ASSUME NEW w \in Workers, line'[w].kind = "claimed"
          PROVE  standing[line'[w].task].at = "held" /\ standing[line'[w].task].by = w
        <3>1. line'[w] = line[w]
            BY <1>0, <1>2, <2>1 DEF NoLine
        <3>. QED  BY <2>1, <3>1 DEF ReportInv, TakenOK
    <2>. QED  BY <1>1, <2>1 DEF ReportInv, TakenOK
<1>8. \A q \in Roles, u \in Tasks : line'[q].task = u => line'[q] = line[q]
    BY <1>0, <1>2 DEF NoLine
<1>9. \A u \in Tasks : u # v => (ClaimUnwritten(u)' <=> ClaimUnwritten(u))
    <2>1. line[r].task = v
        BY <1>3 DEF t
    <2>2. NoLine.kind = "none"
        BY DEF NoLine
    <2>3. \A w \in Workers : w # r => line'[w] = line[w]
        BY <1>0, <1>2
    <2>. QED  BY <1>2, <2>1, <2>2, <2>3 DEF ClaimUnwritten
<1>10. \A u \in Tasks : u # v =>
           (LandedOf(u) => LandedOf(u)') /\ (~gap' /\ AttemptsOf(u) => AttemptsOf(u)')
    <2>1. "verifier" \in Roles /\ "integrator" \in Roles /\ line[r].task = v
        BY <1>0, <1>3 DEF t
    <2>2. \A u \in Tasks : u # v => (line["integrator"].task = u => line'["integrator"].task = u)
        BY <1>2, <2>1
    <2>3. \A u \in Tasks :
              /\ standing'[u] = standing[u] /\ truth'[u] = truth[u]
              /\ line'["verifier"].task = u =>
                     line["verifier"].task = u /\ line'["verifier"].good = line["verifier"].good
              /\ line'["integrator"].task = u => line'["integrator"] = line["integrator"]
        BY <1>1, <1>8, <2>1
    <2>. QED  BY <1>4, <1>9, <2>2, <2>3, OthersStay
<1>11. LandedOf(v)'
    <2>1. LandedOf(v)
        BY DEF ReportInv, LandedOK
    <2>2. HasLanded(v)' => standing[v].at = "done"
        <3>1. line[r].kind = "integrated" => r = "integrator"
            BY <1>0 DEF ReportInv, LinesOK
        <3>2. line[r].task = v
            BY <1>3 DEF t
        <3>. QED  BY <1>4, <2>1, <3>1, <3>2 DEF LandedOf
    <2>3. line'["integrator"].task = v => line'["integrator"] = line["integrator"]
        BY <1>0, <1>8
    <2>. QED  BY <1>1, <2>1, <2>2, <2>3 DEF LandedOf
<1>12. ASSUME ~gap' PROVE AttemptsOf(v)'
    <2> DEFINE attempts == truth[v]
    <2>0. /\ line[r].task = v /\ n = Len(told[v].attempts)
          /\ r \in Workers \cup {"verifier", "integrator"}
        BY <1>0, <1>3 DEF t, n
    <2>1. AttemptsOf(v)
        BY <1>1, <1>12 DEF ReportInv, AttemptsOK
    <2>2. /\ attempts \in Seq(AttemptEnds) /\ Len(attempts) \in Nat /\ n \in Nat
          /\ told[v].attempts \in Seq(Attempted) /\ told'[v].attempts \in Seq(Attempted)
        <3>1. attempts \in Seq(AttemptEnds) /\ told[v].attempts \in Seq(Attempted)
            BY DEF ReportTypeOK, AttemptEnds
        <3>2. told'[v].attempts \in Seq(Attempted)
            BY <1>4 DEF Metricses
        <3>. QED  BY <2>0, <3>1, <3>2
    <2>3. truth'[v] = attempts /\ standing'[v] = standing[v]
        BY <1>1
    <2>4. line'["integrator"].task = v => line'["integrator"] = line["integrator"]
        BY <1>0, <1>8
    <2>5. VerdictUnwritten(v)' => VerdictUnwritten(v) /\ line'["verifier"] = line["verifier"]
        BY <1>0, <1>8 DEF VerdictUnwritten
    <2> HIDE DEF attempts
    <2>6. /\ Len(told[v].attempts) = Len(attempts) - (IF ClaimUnwritten(v) THEN 1 ELSE 0)
          /\ standing[v].at = "done" => HasLanded(v) \/ line["integrator"].task = v
          /\ FirstPass(v) => attempts[1].passed
          /\ VerdictUnwritten(v) =>
                 /\ told[v].attempts # <<>>
                 /\ line["verifier"].good /\ Len(told[v].attempts) = 1 => attempts[1].passed
          /\ standing[v].at \in {"held", "in_verify"} /\ Len(attempts) = 1 =>
                 ~FirstPass(v) /\ ~VerdictUnwritten(v)
        BY <2>1 DEF AttemptsOf, attempts
    <2>7. CASE line[r].kind = "claimed"
        <3>1. r \in Workers /\ ClaimUnwritten(v)
            BY <1>0, <2>0, <2>7 DEF ReportInv, LinesOK, ClaimUnwritten
        <3>2. standing[v].at = "held" /\ standing[v].by = r
            BY <2>0, <2>7, <3>1 DEF ReportInv, TakenOK
        <3>3. ~ClaimUnwritten(v)'
            <4>1. ASSUME NEW w \in Workers, line'[w].kind = "claimed", line'[w].task = v
                  PROVE  FALSE
                <5>1. w # r /\ line'[w] = line[w]
                    BY <1>0, <1>2, <4>1 DEF NoLine
                <5>2. standing[v].by = w
                    BY <4>1, <5>1 DEF ReportInv, TakenOK
                <5>. QED  BY <3>2, <5>1, <5>2
            <4>. QED  BY <4>1 DEF ClaimUnwritten
        <3>4. Len(told'[v].attempts) = Len(attempts) /\ Len(told'[v].attempts) = n + 1
            BY <1>4, <2>0, <2>2, <2>6, <2>7, <3>1
        <3>5. FirstPass(v)' => FirstPass(v)
            BY <1>4, <2>7
        <3>6. VerdictUnwritten(v) => Len(told'[v].attempts) # 1 /\ told'[v].attempts # <<>>
            <4>1. VerdictUnwritten(v) => told[v].attempts # <<>>
                BY <2>6
            <4>2. told[v].attempts # <<>> => n > 0
                BY <2>0, <2>2
            <4>3. n > 0 => Len(told'[v].attempts) # 1 /\ Len(told'[v].attempts) # 0
                BY <2>2, <3>4
            <4>4. Len(told'[v].attempts) # 0 => told'[v].attempts # <<>>
                BY <2>2
            <4>. QED  BY <4>1, <4>2, <4>3, <4>4
        <3>7. Len(told'[v].attempts) =
                  Len(truth'[v]) - (IF ClaimUnwritten(v)' THEN 1 ELSE 0)
            BY <2>2, <2>3, <3>3, <3>4
        <3>8. VerdictUnwritten(v)' =>
                  /\ told'[v].attempts # <<>>
                  /\ line'["verifier"].good /\ Len(told'[v].attempts) = 1 => truth'[v][1].passed
            BY <2>5, <3>6
        <3>9. standing'[v].at # "done"
            BY <2>3, <3>2
        <3>10. (FirstPass(v)' => truth'[v][1].passed)
               /\ (Len(truth'[v]) = 1 => ~FirstPass(v)' /\ ~VerdictUnwritten(v)')
            BY <2>3, <2>5, <2>6, <3>2, <3>5
        <3>. QED  BY <3>7, <3>8, <3>9, <3>10 DEF AttemptsOf
    <2>8. ASSUME line[r].kind # "claimed"
          PROVE  /\ Len(told'[v].attempts) =
                        Len(truth'[v]) - (IF ClaimUnwritten(v)' THEN 1 ELSE 0)
                 /\ VerdictUnwritten(v)' =>
                        /\ told'[v].attempts # <<>>
                        /\ line'["verifier"].good /\ Len(told'[v].attempts) = 1 =>
                               truth'[v][1].passed
        <3>1. ClaimUnwritten(v)' <=> ClaimUnwritten(v)
            <4>1. \A w \in Workers : line'[w].kind = "claimed" => line'[w] = line[w]
                BY <1>0, <1>2 DEF NoLine
            <4>2. \A w \in Workers : line[w].kind = "claimed" => line'[w] = line[w]
                BY <1>0, <1>2, <2>8
            <4>. QED  BY <4>1, <4>2 DEF ClaimUnwritten
        <3>2. Len(told'[v].attempts) = Len(told[v].attempts)
            BY <1>4, <2>0, <2>8
        <3>3. told'[v].attempts # <<>> <=> told[v].attempts # <<>>
            BY <2>2, <3>2
        <3>4. Len(told'[v].attempts) =
                  Len(truth'[v]) - (IF ClaimUnwritten(v)' THEN 1 ELSE 0)
            BY <2>3, <2>6, <3>1, <3>2
        <3>5. VerdictUnwritten(v)' =>
                  /\ told'[v].attempts # <<>>
                  /\ line'["verifier"].good /\ Len(told'[v].attempts) = 1 => truth'[v][1].passed
            BY <2>3, <2>5, <2>6, <3>2, <3>3
        <3>. QED  BY <3>4, <3>5
    <2>9. CASE line[r].kind = "verified"
        <3>1. r = "verifier" /\ VerdictUnwritten(v)
            BY <1>0, <2>0, <2>9 DEF ReportInv, LinesOK, VerdictUnwritten
        <3>2. FirstPass(v)' => truth'[v][1].passed
            BY <1>4, <2>0, <2>3, <2>6, <3>1
        <3>3. ~(standing'[v].at \in {"held", "in_verify"} /\ Len(truth'[v]) = 1)
            BY <2>3, <2>6, <3>1
        <3>4. standing'[v].at = "done" => HasLanded(v)' \/ line'["integrator"].task = v
            BY <1>0, <1>2, <1>4, <2>3, <2>6, <2>9, <3>1
        <3>. QED  BY <2>8, <2>9, <3>2, <3>3, <3>4 DEF AttemptsOf
    <2>10. CASE line[r].kind = "integrated"
        <3>1. r = "integrator"
            BY <1>0, <2>0, <2>10 DEF ReportInv, LinesOK
        <3>2. line[r].good = (standing[v].at = "done")
            BY <2>0, <3>1 DEF ReportInv, LandedOK, LandedOf
        <3>3. standing[v].at = "done" => n > 0
            <4>1. standing[v].at = "done" => ~ClaimUnwritten(v)
                BY DEF ClaimUnwritten, ReportInv, TakenOK
            <4>2. standing[v].at = "done" => attempts # <<>>
                BY DEF ReportInv, TakenOK, attempts
            <4>. QED  BY <2>0, <2>2, <2>6, <4>1, <4>2
        <3>4. standing'[v].at = "done" => HasLanded(v)'
            BY <1>4, <2>3, <2>10, <3>2, <3>3
        <3>5. FirstPass(v)' => FirstPass(v)
            BY <1>4, <2>10
        <3>. QED  BY <2>3, <2>5, <2>6, <2>8, <2>10, <3>4, <3>5 DEF AttemptsOf
    <2>11. CASE line[r].kind = "submitted"
        <3>1. r \in Workers
            BY <1>0, <2>0, <2>11 DEF ReportInv, LinesOK
        <3>2. line'["integrator"] = line["integrator"]
            BY <1>0, <1>2, <3>1
        <3>3. (FirstPass(v)' => FirstPass(v)) /\ (HasLanded(v) => HasLanded(v)')
            BY <1>4, <2>11
        <3>. QED  BY <2>3, <2>5, <2>6, <2>8, <2>11, <3>2, <3>3 DEF AttemptsOf
    <2>12. line[r].kind \in {"claimed", "submitted", "verified", "integrated"}
        BY <1>1 DEF LineShapes
    <2>. QED  BY <2>7, <2>9, <2>10, <2>11, <2>12
<1>. QED  BY <1>1, <1>5, <1>6, <1>7, <1>10, <1>11, <1>12 DEF ReportInv, LandedOK, AttemptsOK

\* A role dies: what it had to tell is lost for good.
LEMMA DieKeeps ==
    ASSUME ReportAssumption, ReportTypeOK, ReportInv, NEW r \in Roles, Die(r)
    PROVE  ReportTypeOK' /\ ReportInv'
<1>0. /\ Roles = Workers \cup {"verifier", "integrator"}
      /\ \A v \in Workers : v # "verifier" /\ v # "integrator" /\ v # NoTask
      /\ NoTask \notin Tasks
    BY RolesApart
<1>1. /\ line' = [line EXCEPT ![r] = NoLine] /\ busy' = [busy EXCEPT ![r] = NoTask]
      /\ gap' = (gap \/ line[r] # NoLine)
      /\ UNCHANGED <<standing, truth, told, now>>
    BY DEF Die
<1>2. /\ line'[r] = NoLine /\ \A q \in Roles : q # r => line'[q] = line[q]
      /\ busy'[r] = NoTask /\ \A q \in Roles : q # r => busy'[q] = busy[q]
    BY <1>1 DEF ReportTypeOK
<1>3. reportFaults' \in 0..MaxReportFaults
    BY DEF Die, ReportFault, ReportTypeOK, ReportAssumption
<1>4. ReportTypeOK'
    <2>1. line' \in [Roles -> LineShapes]
        <3>1. line[r] # NoLine \/ line' = line
            BY <1>1 DEF ReportTypeOK
        <3>2. NoLine \in LineShapes
            BY DEF NoLine, LineShapes
        <3>. QED  BY <1>1, <3>2 DEF ReportTypeOK
    <2>2. busy' \in [Roles -> Tasks \cup {NoTask}] /\ gap' \in BOOLEAN
        BY <1>1 DEF ReportTypeOK
    <2>. QED  BY <1>1, <1>3, <2>1, <2>2 DEF ReportTypeOK
<1>5. /\ NoLine.kind = "none" /\ NoLine.task = NoTask
      /\ \A q \in Roles : line'[q] = line[q] \/ line'[q] = NoLine
      /\ \A q \in Roles : busy'[q] = busy[q] \/ busy'[q] = NoTask
    BY <1>2 DEF NoLine
<1>6. LinesOK'
    <2>1. \A q \in Roles : busy'[q] # NoTask => line'[q] = NoLine
        BY <1>2 DEF ReportInv, LinesOK
    <2>. QED  BY <1>0, <1>5, <2>1 DEF ReportInv, LinesOK
<1>7. TakenOK'
    <2>1. \A w \in Workers : line'[w].kind = "claimed" => line'[w] = line[w]
        BY <1>0, <1>5
    <2>2. /\ busy'["verifier"] # NoTask => busy'["verifier"] = busy["verifier"]
          /\ busy'["integrator"] # NoTask => busy'["integrator"] = busy["integrator"]
        BY <1>0, <1>5
    <2>. QED  BY <1>1, <2>1, <2>2 DEF ReportInv, TakenOK
<1>8. LandedOK'
    <2>1. ASSUME NEW u \in Tasks PROVE LandedOf(u)'
        <3>1. LandedOf(u)
            BY DEF ReportInv, LandedOK
        <3>2. line'["integrator"].task = u => line'["integrator"] = line["integrator"]
            BY <1>0, <1>5
        <3>3. HasLanded(u)' <=> HasLanded(u)
            BY <1>1 DEF HasLanded
        <3>. QED  BY <1>1, <3>1, <3>2, <3>3 DEF LandedOf
    <2>. QED  BY <2>1 DEF LandedOK
<1>9. ASSUME ~gap' PROVE AttemptsOK'
    <2>1. ~gap /\ line[r] = NoLine
        BY <1>1, <1>9
    <2>2. line' = line
        BY <1>1, <2>1 DEF ReportTypeOK
    <2>3. \A u \in Tasks : ClaimUnwritten(u)' <=> ClaimUnwritten(u)
        BY <2>2 DEF ClaimUnwritten
    <2>4. \A u \in Tasks : AttemptsOf(u) => AttemptsOf(u)'
        BY <1>1, <1>9, <2>2, <2>3, OthersStay
    <2>. QED  BY <2>1, <2>4 DEF ReportInv, AttemptsOK
<1>. QED  BY <1>4, <1>6, <1>7, <1>8, <1>9 DEF ReportInv

LEMMA ReportStarts ==
    ASSUME ReportAssumption, ReportInit
    PROVE  ReportTypeOK /\ ReportInv
<1>0. /\ Roles = Workers \cup {"verifier", "integrator"} /\ NoTask \notin Tasks
    BY RolesApart
<1>1. PICK planned \in {0, NoTime} : told = [t \in Tasks |-> Metrics(planned)]
    BY DEF ReportInit
<1>2. /\ \A t \in Tasks : standing[t].at = "ready" /\ standing[t].by = NoTask
      /\ \A t \in Tasks : truth[t] = <<>> /\ told[t].attempts = <<>>
      /\ \A r \in Roles : line[r] = NoLine /\ busy[r] = NoTask
    BY <1>1 DEF ReportInit, Metrics
<1>3. ReportTypeOK
    <2>1. standing \in [Tasks -> Standings] /\ busy \in [Roles -> Tasks \cup {NoTask}]
        BY DEF ReportInit, Standings
    <2>2. line \in [Roles -> LineShapes]
        BY DEF ReportInit, NoLine, LineShapes
    <2>3. truth \in [Tasks -> Seq([passed : BOOLEAN, landed : BOOLEAN])]
        BY DEF ReportInit
    <2>4. told \in [Tasks -> [planned : {0, NoTime}, attempts : Seq(Attempted)]]
        <3>1. Metrics(planned) \in [planned : {0, NoTime}, attempts : Seq(Attempted)]
            BY DEF Metrics
        <3>. QED  BY <1>1, <3>1
    <2>5. gap = FALSE /\ now = 0 /\ reportFaults = MaxReportFaults
        BY DEF ReportInit
    <2>6. now \in 0..MaxTime /\ reportFaults \in 0..MaxReportFaults
        BY <2>5 DEF ReportAssumption
    <2>. QED  BY <2>1, <2>2, <2>3, <2>4, <2>5, <2>6 DEF ReportTypeOK
<1>4. NoLine.kind = "none" /\ NoLine.task = NoTask
    BY DEF NoLine
<1>5. LinesOK /\ TakenOK
    BY <1>0, <1>2, <1>4 DEF LinesOK, TakenOK
<1>6. \A t \in Tasks : ~HasLanded(t) /\ ~FirstPass(t) /\ ~ClaimUnwritten(t) /\ ~VerdictUnwritten(t)
    BY <1>0, <1>2, <1>4 DEF HasLanded, FirstPass, ClaimUnwritten, VerdictUnwritten
<1>7. LandedOK
    BY <1>0, <1>2, <1>4, <1>6 DEF LandedOK, LandedOf
<1>8. AttemptsOK
    <2>1. ASSUME NEW t \in Tasks PROVE AttemptsOf(t)
        <3>1. Len(told[t].attempts) = 0 /\ Len(truth[t]) = 0
            BY <1>2
        <3>2. standing[t].at = "ready"
            BY <1>2
        <3>3. ~HasLanded(t) /\ ~FirstPass(t) /\ ~ClaimUnwritten(t) /\ ~VerdictUnwritten(t)
            BY <1>6
        <3>4. Len(told[t].attempts) = Len(truth[t]) - (IF ClaimUnwritten(t) THEN 1 ELSE 0)
            <4>1. (IF ClaimUnwritten(t) THEN 1 ELSE 0) = 0
                BY <3>3
            <4>2. Len(told[t].attempts) = Len(truth[t]) - 0
                BY <3>1
            <4>. QED  BY <4>1, <4>2
        <3>. QED  BY <3>2, <3>3, <3>4 DEF AttemptsOf
    <2>. QED  BY <2>1 DEF AttemptsOK
<1>. QED  BY <1>3, <1>5, <1>7, <1>8 DEF ReportInv

LEMMA ReportSteps ==
    ASSUME ReportAssumption, ReportTypeOK, ReportInv, [ReportNext]_reportVars
    PROVE  ReportTypeOK' /\ ReportInv'
<1>1. ASSUME NEW t \in Tasks, NEW w \in Workers, Claim(w, t) \/ Submit(w, t) \/ HandBack(w, t)
      PROVE  ReportTypeOK' /\ ReportInv'
    BY <1>1, ClaimKeeps, SubmitKeeps, HandBackKeeps
<1>2. ASSUME NEW t \in Tasks, Reap(t)
      PROVE  ReportTypeOK' /\ ReportInv'
    BY <1>2, ReapKeeps
<1>3. ASSUME NEW t \in Tasks, StartVerify(t) \/ Verify(t)
      PROVE  ReportTypeOK' /\ ReportInv'
    BY <1>3, StartVerifyKeeps, VerifyKeeps
<1>4. ASSUME NEW t \in Tasks, StartIntegrate(t) \/ Integrate(t) \/ CloseFails(t)
      PROVE  ReportTypeOK' /\ ReportInv'
    BY <1>4, StartIntegrateKeeps, IntegrateKeeps, CloseFailsKeeps
<1>5. ASSUME NEW r \in Roles, Record(r) \/ Die(r)
      PROVE  ReportTypeOK' /\ ReportInv'
    BY <1>5, RecordKeeps, DieKeeps
<1>6. CASE Tick
    BY <1>6, TickKeeps
<1>7. CASE UNCHANGED reportVars
    <2>1. UNCHANGED <<standing, line, busy, truth, told, gap, now, reportFaults>>
        BY <1>7 DEF reportVars
    <2>2. ReportTypeOK'
        BY <2>1 DEF ReportTypeOK
    <2>3. LinesOK' /\ TakenOK'
        BY <2>1 DEF ReportInv, LinesOK, TakenOK
    <2>4. \A u \in Tasks : ClaimUnwritten(u)' <=> ClaimUnwritten(u)
        BY <2>1 DEF ClaimUnwritten
    <2>5. \A u \in Tasks :
              (LandedOf(u) => LandedOf(u)') /\ (~gap' /\ AttemptsOf(u) => AttemptsOf(u)')
        BY <2>1, <2>4, OthersStay
    <2>. QED  BY <2>1, <2>2, <2>3, <2>5 DEF ReportInv, LandedOK, AttemptsOK
<1>. QED  BY <1>1, <1>2, <1>3, <1>4, <1>5, <1>6, <1>7 DEF ReportNext

-----------------------------------------------------------------------------
(* Report: the theorems.                                                   *)

\* The shapes of the report's state hold, with any faults and any number of workers.
THEOREM ReportTypeCorrect ==
    ASSUME ReportAssumption
    PROVE  ReportSpec => []ReportTypeOK
<1>1. ReportInit => ReportTypeOK /\ ReportInv
    BY ReportStarts
<1>2. ReportTypeOK /\ ReportInv /\ [ReportNext]_reportVars => (ReportTypeOK /\ ReportInv)'
    BY ReportSteps
<1>. QED  BY <1>1, <1>2, PTL DEF ReportSpec

\* What becomes of a task is told as the ledger saw it, in whatever order the roles' lines come
\* and whichever are lost: a task the report calls landed has landed, and while no line is lost it
\* misses no landing that has been written and calls first pass only what passed at first.
THEOREM ReportTellsTruth ==
    ASSUME ReportAssumption
    PROVE  ReportSpec => []ToldAsItWas
<1>1. ReportInit => ReportTypeOK /\ ReportInv
    BY ReportStarts
<1>2. ReportTypeOK /\ ReportInv /\ [ReportNext]_reportVars => (ReportTypeOK /\ ReportInv)'
    BY ReportSteps
<1>3. ReportTypeOK /\ ReportInv => ToldAsItWas
    <2> SUFFICES ASSUME ReportTypeOK, ReportInv
                 PROVE  ToldAsItWas
        OBVIOUS
    <2>1. ASSUME NEW t \in Tasks, HasLanded(t)
          PROVE  \E i \in DOMAIN truth[t] : truth[t][i].landed
        <3>1. standing[t].at = "done"
            BY <2>1 DEF ReportInv, LandedOK, LandedOf
        <3>2. truth[t] # <<>> /\ truth[t][Len(truth[t])].landed
            BY <3>1 DEF ReportInv, TakenOK, LandedOK, LandedOf
        <3>3. truth[t] \in Seq(AttemptEnds)
            BY DEF ReportTypeOK, AttemptEnds
        <3>4. Len(truth[t]) \in DOMAIN truth[t]
            BY <3>2, <3>3
        <3>. QED  BY <3>2, <3>4
    <2>2. ASSUME ~gap, NEW t \in Tasks
          PROVE  /\ FirstPass(t) => truth[t][1].passed
                 /\ standing[t].at = "done" /\ line["integrator"] = NoLine => HasLanded(t)
        <3>1. AttemptsOf(t)
            BY <2>2 DEF ReportInv, AttemptsOK
        <3>2. line["integrator"] = NoLine => line["integrator"].task # t
            BY RolesApart DEF NoLine
        <3>. QED  BY <3>1, <3>2 DEF AttemptsOf
    <2>. QED  BY <2>1, <2>2 DEF ToldAsItWas
<1>. QED  BY <1>1, <1>2, <1>3, PTL DEF ReportSpec
===============================================================================
