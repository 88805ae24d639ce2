----------------------------- MODULE PlanOrderProofs -----------------------------
(***************************************************************************)
(* Theorems of PlanOrder, for plans of any length with any needs: no need  *)
(* is lost on the way to the ledger, and a plan refused as cyclic is so.   *)
(***************************************************************************)
EXTENDS PlanOrder, FiniteSetTheorems, TLAPS

-----------------------------------------------------------------------------
(* Plans.                                                                  *)

LEMMA FlawValues ==
    ASSUME NEW p, NEW n
    PROVE  Flaw(p, n) \in {"bad_key", "duplicate_key", "bad_text", "self_need", "none"}
BY DEF Flaw

\* What validate has seen to when it lets a plan go on to the sort.
LEMMA Accepted ==
    ASSUME NEW p, p.tasks \in Seq(RawTasks), Flawless(p),
           \A n \in DOMAIN p.tasks : ~Unknown(p.tasks, n)
    PROVE  /\ \A m, n \in DOMAIN p.tasks : p.tasks[m].key = p.tasks[n].key => m = n
           /\ \A n \in DOMAIN p.tasks :
                 NeedsOf(p.tasks, n) \subseteq KeysOf(p.tasks, DOMAIN p.tasks)
<1>1. \A n \in DOMAIN p.tasks : \A m \in 1..(n - 1) : p.tasks[m].key # p.tasks[n].key
  BY DEF Flawless, Flaw
<1>2. DOMAIN p.tasks = 1..Len(p.tasks) /\ Len(p.tasks) \in Nat
  OBVIOUS
<1>3. \A m, n \in DOMAIN p.tasks : m < n => p.tasks[m].key # p.tasks[n].key
  BY <1>1, <1>2
<1>4. \A m, n \in DOMAIN p.tasks : p.tasks[m].key = p.tasks[n].key => m = n
  BY <1>2, <1>3
<1> QED
  BY <1>4 DEF Unknown

\* The needs of a task are finitely many words.
LEMMA NeedsFinite ==
    ASSUME NEW p \in Seq(RawTasks), NEW n \in DOMAIN p
    PROVE  IsFiniteSet(NeedsOf(p, n)) /\ NeedsOf(p, n) \subseteq Words
<1> DEFINE s == p[n].needs
<1>1. p[n] \in RawTasks
  OBVIOUS
<1> HIDE DEF s
<1>0. s \in Seq(Words)
  BY <1>1 DEF RawTasks, s
<1>2. s \in [1..Len(s) -> Words] /\ Len(s) \in Nat
  BY <1>0
<1>3. IsFiniteSet(1..Len(s))
  BY <1>2, FS_Interval
<1>4. s \in Surjection(1..Len(s), Range(s))
  BY <1>2 DEF Surjection, Range
<1>5. IsFiniteSet(Range(s))
  BY <1>3, <1>4, FS_Surjection
<1> QED
  BY <1>2, <1>5 DEF NeedsOf, Range, s

LEMMA RangeOfAppend ==
    ASSUME NEW S, NEW s \in Seq(S), NEW x \in S
    PROVE  /\ Range(Append(s, x)) = Range(s) \cup {x}
           /\ Range(s) = {s[k] : k \in 1..Len(s)}
<1>1. DOMAIN Append(s, x) = 1..(Len(s) + 1) /\ DOMAIN s = 1..Len(s) /\ Len(s) \in Nat
  OBVIOUS
<1>2. \A k \in 1..Len(s) : Append(s, x)[k] = s[k]
  OBVIOUS
<1>3. Append(s, x)[Len(s) + 1] = x
  OBVIOUS
<1>4. 1..(Len(s) + 1) = (1..Len(s)) \cup {Len(s) + 1}
  BY <1>1
<1> QED
  BY <1>1, <1>2, <1>3, <1>4 DEF Range

-----------------------------------------------------------------------------
(* The inductive invariant.                                                *)

\* Before a plan is looked at, and while it is sorted, nothing is written.
Unwritten ==
    /\ stage = "none" => plan = <<>> /\ ordered = <<>>
    /\ stage \in {"none", "sorting"} => count = 0

\* What passed validate.
Checked ==
    stage \in {"sorting", "cycle", "writing", "written"} =>
        /\ \A m, n \in DOMAIN plan : plan[m].key = plan[n].key => m = n
        /\ \A n \in DOMAIN plan : NeedsOf(plan, n) \subseteq KeysOf(plan, DOMAIN plan)

\* The in-degree of a pending task is the number of its needs still pending.
Counted ==
    stage = "sorting" =>
        \A n \in pending : indegree[n] = Cardinality(NeedsOf(plan, n) \cap KeysOf(plan, pending))

\* A task is pending or in the order, behind everything it needs.
Placed ==
    stage \in {"sorting", "writing", "written"} =>
        /\ Range(ordered) = DOMAIN plan \ pending
        /\ \A k \in 1..Len(ordered) :
               NeedsOf(plan, ordered[k]) \subseteq KeysOf(plan, {ordered[j] : j \in 1..(k - 1)})

\* What is written has all its edges.
Edged ==
    /\ stage \in {"writing", "written"} =>
           /\ pending = {}
           /\ \A k \in 1..count : edges[ordered[k]] = NeedsOf(plan, ordered[k])
    /\ stage = "written" => count = Len(ordered)

IInv == TypeOK /\ Unwritten /\ Checked /\ Counted /\ Placed /\ Edged /\ CycleIsReal

LEMMA Initially == Init => IInv
<1> SUFFICES ASSUME Init PROVE IInv
  OBVIOUS
<1>1. plan = <<>> /\ ordered = <<>> /\ indegree = <<>> /\ edges = <<>> /\ DOMAIN plan = {}
  BY DEF Init
<1>2. TypeOK
  <2>1. plan \in Seq(RawTasks) /\ ordered \in Seq(DOMAIN plan) /\ count \in 0..Len(ordered)
    BY DEF Init
  <2>2. indegree \in [DOMAIN plan -> Nat] /\ edges \in [DOMAIN plan -> SUBSET Words]
    BY DEF Init
  <2> QED
    BY <2>1, <2>2 DEF Init, TypeOK
<1>3. Unwritten /\ Checked /\ Counted /\ Placed /\ Edged /\ CycleIsReal
  BY DEF Init, Unwritten, Checked, Counted, Placed, Edged, CycleIsReal
<1> QED
  BY <1>2, <1>3 DEF IInv

-----------------------------------------------------------------------------
(* The steps.                                                              *)

\* A plan refused by validate goes no further.
LEMMA ReceiveShape ==
    ASSUME IInv, stage = "none", NEW p \in RawPlans, NEW next, Receive(p, next),
           next \in (Problems \ {"cycle"}) \cup {"sorting"}
    PROVE  TypeOK' /\ Unwritten' /\ Edged' /\ CycleIsReal'
<1>1. p \in [blocked : BOOLEAN, titled : BOOLEAN, tasks : Seq(RawTasks)]
  BY PlanOrderAssumption
<1>2. p.tasks \in Seq(RawTasks) /\ p.titled \in BOOLEAN
  BY <1>1
<1>3. ordered = <<>> /\ count = 0
  BY DEF IInv, Unwritten
<1>4. \A n \in DOMAIN p.tasks : InDegree(p.tasks, n) \in Nat
  BY <1>2, NeedsFinite, FS_CardinalityType DEF InDegree
<1>5. TypeOK'
  <2>1. plan' = p.tasks /\ titled' = p.titled /\ stage' = next /\ pending' = DOMAIN p.tasks
    BY DEF Receive
  <2>2. indegree' \in [DOMAIN plan' -> Nat] /\ edges' \in [DOMAIN plan' -> SUBSET Words]
    BY <1>4, <2>1 DEF Receive
  <2>3. ordered' \in Seq(DOMAIN plan') /\ count' \in 0..Len(ordered')
    BY <1>3 DEF Receive
  <2> QED
    BY <1>2, <2>1, <2>2, <2>3 DEF TypeOK
<1>6. stage' = next /\ count' = 0
  BY <1>3 DEF Receive
<1>7. next \notin {"none", "cycle", "writing", "written"}
  BY DEF Problems
<1> QED
  BY <1>5, <1>6, <1>7 DEF Unwritten, Edged, CycleIsReal

LEMMA StartSortInv ==
    ASSUME IInv, stage = "none", NEW p \in RawPlans, StartSort(p)
    PROVE  IInv'
<1>1. p.tasks \in Seq(RawTasks)
  BY PlanOrderAssumption
<1>2. Receive(p, "sorting") /\ stage' = "sorting" /\ plan' = p.tasks /\ pending' = DOMAIN p.tasks
  BY DEF StartSort, Receive
<1>3. TypeOK' /\ Unwritten' /\ Edged' /\ CycleIsReal'
  <2>1. "sorting" \in (Problems \ {"cycle"}) \cup {"sorting"}
    OBVIOUS
  <2> QED
    BY <1>2, <2>1, ReceiveShape
<1>4. Checked'
  <2>1. /\ \A m, n \in DOMAIN p.tasks : p.tasks[m].key = p.tasks[n].key => m = n
        /\ \A n \in DOMAIN p.tasks :
              NeedsOf(p.tasks, n) \subseteq KeysOf(p.tasks, DOMAIN p.tasks)
    BY <1>1, Accepted DEF StartSort
  <2> QED
    BY <1>2, <2>1 DEF Checked
<1>5. Counted'
  <2> SUFFICES ASSUME NEW n \in DOMAIN p.tasks
               PROVE  indegree'[n] = Cardinality(NeedsOf(plan', n) \cap KeysOf(plan', pending'))
    BY <1>2 DEF Counted, NeedsOf, KeysOf
  <2>1. NeedsOf(p.tasks, n) \subseteq KeysOf(p.tasks, DOMAIN p.tasks)
    BY <1>1, Accepted DEF StartSort
  <2>2. NeedsOf(p.tasks, n) \cap KeysOf(p.tasks, DOMAIN p.tasks) = NeedsOf(p.tasks, n)
    BY <2>1
  <2>3. indegree'[n] = Cardinality(NeedsOf(p.tasks, n))
    BY <1>2 DEF Receive, InDegree
  <2> QED
    BY <1>2, <2>2, <2>3
<1>6. Placed'
  <2>1. ordered' = <<>>
    BY <1>2 DEF IInv, Unwritten, Receive
  <2> QED
    BY <1>2, <2>1 DEF Placed, Range
<1> QED
  BY <1>3, <1>4, <1>5, <1>6 DEF IInv

LEMMA ValidateInv == ASSUME IInv, Validate PROVE IInv'
<1>1. stage = "none"
  BY DEF Validate
<1>2. PICK p \in RawPlans :
          Blocked(p) \/ Empty(p) \/ Flawed(p) \/ UnknownNeed(p) \/ StartSort(p)
  BY DEF Validate
<1>3. ASSUME NEW next, Receive(p, next), next \in Problems \ {"cycle"} PROVE IInv'
  <2>1. TypeOK' /\ Unwritten' /\ Edged' /\ CycleIsReal'
    BY <1>1, <1>3, ReceiveShape
  <2>2. stage' \notin {"sorting", "cycle", "writing", "written"}
    BY <1>3 DEF Receive, Problems
  <2> QED
    BY <2>1, <2>2 DEF IInv, Checked, Counted, Placed
<1>4. CASE Flawed(p)
  <2>1. PICK n : Flaw(p.tasks, n) # "none" /\ Receive(p, Flaw(p.tasks, n))
    BY <1>4 DEF Flawed
  <2>2. Flaw(p.tasks, n) \in {"bad_key", "duplicate_key", "bad_text", "self_need"}
    BY <2>1, FlawValues
  <2>3. Flaw(p.tasks, n) \in Problems \ {"cycle"}
    BY <2>2 DEF Problems
  <2> QED
    BY <1>3, <2>1, <2>3
<1>5. CASE Blocked(p) \/ Empty(p) \/ UnknownNeed(p)
  BY <1>3, <1>5 DEF Blocked, Empty, UnknownNeed, Problems
<1> QED
  BY <1>1, <1>2, <1>4, <1>5, StartSortInv

\* A task placed has its needs placed before it, and each task that waited for it waits for
\* one need less.
LEMMA PlaceInv ==
    ASSUME IInv, NEW n \in DOMAIN plan, Place(n)
    PROVE  IInv'
<1> USE DEF Place
<1>1. TypeOK
  BY DEF IInv
<1>2. plan' = plan /\ stage' = "sorting" /\ stage = "sorting" /\ count' = count /\ edges' = edges
  OBVIOUS
<1>3. plan \in Seq(RawTasks) /\ ordered \in Seq(DOMAIN plan) /\ pending \subseteq DOMAIN plan
  BY <1>1 DEF TypeOK
<1>4. ordered' = Append(ordered, n) /\ pending' = pending \ {n} /\ n \in pending
  OBVIOUS
<1>5. ordered' \in Seq(DOMAIN plan) /\ Len(ordered') = Len(ordered) + 1 /\ Len(ordered) \in Nat
  BY <1>3, <1>4
<1>6. count = 0
  BY DEF IInv, Unwritten
<1>7. \A m \in DOMAIN plan : indegree[m] \in Nat
  BY <1>1 DEF TypeOK
<1>8. TypeOK'
  <2>1. indegree' \in [DOMAIN plan -> Nat]
    BY <1>7 DEF Less
  <2> QED
    BY <1>1, <1>2, <1>3, <1>4, <1>5, <1>6, <2>1 DEF TypeOK
<1>9. Unwritten' /\ Edged' /\ CycleIsReal'
  BY <1>2, <1>6 DEF Unwritten, Edged, CycleIsReal
<1>10. /\ \A k, m \in DOMAIN plan : plan[k].key = plan[m].key => k = m
       /\ \A m \in DOMAIN plan : NeedsOf(plan, m) \subseteq KeysOf(plan, DOMAIN plan)
  BY <1>2 DEF IInv, Checked
<1>11. Checked'
  BY <1>2, <1>10 DEF Checked
<1>12. KeysOf(plan, pending') = KeysOf(plan, pending) \ {plan[n].key}
  BY <1>3, <1>4, <1>10 DEF KeysOf
<1>13. Counted'
  <2> SUFFICES ASSUME NEW m \in pending'
               PROVE  indegree'[m] = Cardinality(NeedsOf(plan, m) \cap KeysOf(plan, pending'))
    BY <1>2 DEF Counted
  <2> DEFINE W == NeedsOf(plan, m) \cap KeysOf(plan, pending)
  <2>1. m \in pending /\ m \in DOMAIN plan
    BY <1>3, <1>4
  <2>2. IsFiniteSet(W)
    BY <1>3, <2>1, NeedsFinite, FS_Intersection
  <2>3. indegree[m] = Cardinality(W)
    BY <1>2, <2>1 DEF IInv, Counted
  <2>4. NeedsOf(plan, m) \cap KeysOf(plan, pending') = W \ {plan[n].key}
    BY <1>12
  <2>5. plan[n].key \in KeysOf(plan, pending)
    BY <1>4 DEF KeysOf
  <2>6. plan[n].key \in W <=> plan[n].key \in NeedsOf(plan, m)
    BY <2>5
  <2>7. Cardinality(W \ {plan[n].key}) =
            IF plan[n].key \in W THEN Cardinality(W) - 1 ELSE Cardinality(W)
    BY <2>2, FS_RemoveElement
  <2>8. Cardinality(W) \in Nat /\ (Cardinality(W) = 0 => W = {})
    BY <2>2, FS_CardinalityType, FS_EmptySet
  <2>9. indegree'[m] = IF plan[n].key \in NeedsOf(plan, m) THEN Less(indegree[m]) ELSE indegree[m]
    BY <2>1
  <2> HIDE DEF W
  <2>10. plan[n].key \in W => Cardinality(W) > 0
    BY <2>8
  <2> QED
    BY <2>3, <2>4, <2>6, <2>7, <2>8, <2>9, <2>10 DEF Less
<1>14. Placed'
  <2>1. /\ Range(ordered) = DOMAIN plan \ pending
        /\ \A k \in 1..Len(ordered) :
              NeedsOf(plan, ordered[k]) \subseteq KeysOf(plan, {ordered[j] : j \in 1..(k - 1)})
    BY <1>2 DEF IInv, Placed
  <2>2. Range(ordered') = Range(ordered) \cup {n} /\ Range(ordered) = {ordered[k] : k \in 1..Len(ordered)}
    BY <1>3, <1>4, RangeOfAppend
  <2>3. Range(ordered') = DOMAIN plan' \ pending'
    BY <1>2, <1>3, <1>4, <2>1, <2>2
  <2>4. \A k \in 1..Len(ordered) : ordered'[k] = ordered[k]
    BY <1>3, <1>4
  <2>5. ordered'[Len(ordered) + 1] = n
    BY <1>3, <1>4
  <2>6. NeedsOf(plan, n) \subseteq KeysOf(plan, Range(ordered))
    <3>1. Cardinality(NeedsOf(plan, n) \cap KeysOf(plan, pending)) = 0
      BY <1>2, <1>4 DEF IInv, Counted, Ready
    <3>2. IsFiniteSet(NeedsOf(plan, n) \cap KeysOf(plan, pending))
      BY <1>3, NeedsFinite, FS_Intersection
    <3>3. NeedsOf(plan, n) \cap KeysOf(plan, pending) = {}
      BY <3>1, <3>2, FS_EmptySet
    <3> QED
      BY <1>10, <2>1, <3>3 DEF KeysOf
  <2>7. ASSUME NEW k \in 1..Len(ordered')
        PROVE  NeedsOf(plan, ordered'[k]) \subseteq KeysOf(plan, {ordered'[j] : j \in 1..(k - 1)})
    <3>1. CASE k \in 1..Len(ordered)
      <4>1. {ordered'[j] : j \in 1..(k - 1)} = {ordered[j] : j \in 1..(k - 1)}
        BY <1>5, <2>4, <3>1
      <4> QED
        BY <2>1, <2>4, <3>1, <4>1
    <3>2. CASE k = Len(ordered) + 1
      <4>1. {ordered'[j] : j \in 1..(k - 1)} = Range(ordered)
        BY <1>5, <2>2, <2>4, <3>2
      <4> QED
        BY <2>5, <2>6, <3>2, <4>1
    <3> QED
      BY <1>5, <3>1, <3>2
  <2> QED
    BY <1>2, <2>3, <2>7 DEF Placed
<1> QED
  BY <1>8, <1>9, <1>11, <1>13, <1>14 DEF IInv

\* What is left when nothing is ready all needs one another.
LEMMA StuckInv == ASSUME IInv, Stuck PROVE IInv'
<1> USE DEF Stuck
<1>1. TypeOK' /\ Unwritten' /\ Checked' /\ Counted' /\ Placed' /\ Edged'
  BY DEF IInv, TypeOK, Unwritten, Checked, Counted, Placed, Edged, Problems
<1>2. ASSUME NEW n \in pending
      PROVE  NeedsOf(plan, n) \cap KeysOf(plan, pending) # {}
  <2>1. indegree[n] = Cardinality(NeedsOf(plan, n) \cap KeysOf(plan, pending))
    BY DEF IInv, Counted
  <2>2. indegree[n] # 0
    BY DEF Ready
  <2> QED
    BY <2>1, <2>2, FS_EmptySet
<1>3. pending # {} /\ pending \in SUBSET DOMAIN plan
  BY DEF IInv, TypeOK
<1>4. CycleIsReal'
  BY <1>2, <1>3 DEF CycleIsReal
<1> QED
  BY <1>1, <1>4 DEF IInv

LEMMA SortedInv == ASSUME IInv, Sorted PROVE IInv'
<1> USE DEF Sorted
<1>1. count = 0 /\ stage' \in {"writing", "bad_summary"}
  BY DEF IInv, Unwritten
<1> QED
  BY <1>1 DEF IInv, TypeOK, Unwritten, Checked, Counted, Placed, Edged, CycleIsReal, Problems

\* The needs of the next task are written already, so none is left out.
LEMMA WriteInv == ASSUME IInv, Write PROVE IInv'
<1> USE DEF Write
<1> DEFINE n == ordered[count + 1]
<1>1. TypeOK /\ stage = "writing" /\ stage' = "writing"
  BY DEF IInv
<1>2. count \in Nat /\ count + 1 \in 1..Len(ordered) /\ n \in DOMAIN plan /\ Len(ordered) \in Nat
  BY <1>1 DEF TypeOK
<1>3. NeedsOf(plan, n) \subseteq Ids
  BY <1>1, <1>2 DEF IInv, Placed, Ids
<1> HIDE DEF n
<1>4. edges' = [edges EXCEPT ![n] = NeedsOf(plan, n)]
  BY <1>3 DEF n
<1>5. NeedsOf(plan, n) \subseteq Words
  BY <1>1, <1>2, NeedsFinite DEF TypeOK
<1>6. TypeOK'
  BY <1>1, <1>2, <1>4, <1>5 DEF TypeOK
<1>7. Unwritten' /\ Checked' /\ Counted' /\ Placed' /\ CycleIsReal'
  <2>1. plan' = plan /\ ordered' = ordered /\ pending' = pending
    OBVIOUS
  <2>2. Checked'
    BY <1>1, <2>1 DEF IInv, Checked
  <2>3. Placed'
    BY <1>1, <2>1 DEF IInv, Placed
  <2> QED
    BY <1>1, <2>2, <2>3 DEF Unwritten, Counted, CycleIsReal
<1>8. Edged'
  <2>1. ASSUME NEW k \in 1..count' PROVE edges'[ordered[k]] = NeedsOf(plan, ordered[k])
    <3>1. ordered[k] \in DOMAIN edges
      BY <1>1, <1>2 DEF TypeOK
    <3>2. CASE k \in 1..count
      BY <1>1, <1>4, <3>1, <3>2 DEF IInv, Edged
    <3>3. CASE k = count + 1
      BY <1>4, <3>1, <3>3 DEF n
    <3> QED
      BY <1>2, <3>2, <3>3
  <2> QED
    BY <1>1, <2>1 DEF IInv, Edged
<1> QED
  BY <1>6, <1>7, <1>8 DEF IInv

LEMMA WrittenInv == ASSUME IInv, Written PROVE IInv'
<1>1. /\ stage = "writing" /\ stage' = "written" /\ count = Len(ordered)
      /\ plan' = plan /\ titled' = titled /\ pending' = pending /\ indegree' = indegree
      /\ ordered' = ordered /\ count' = count /\ edges' = edges
  BY DEF Written
<1>2. TypeOK'
  BY <1>1 DEF IInv, TypeOK
<1>3. Checked'
  BY <1>1 DEF IInv, Checked
<1>4. Placed'
  BY <1>1 DEF IInv, Placed
<1>5. Edged'
  BY <1>1 DEF IInv, Edged
<1> QED
  BY <1>1, <1>2, <1>3, <1>4, <1>5 DEF IInv, Unwritten, Counted, CycleIsReal

LEMMA StutterInv == ASSUME IInv, UNCHANGED vars PROVE IInv'
<1>1. /\ stage' = stage /\ plan' = plan /\ titled' = titled /\ pending' = pending
      /\ indegree' = indegree /\ ordered' = ordered /\ count' = count /\ edges' = edges
  BY DEF vars
<1>2. TypeOK' /\ Unwritten'
  BY <1>1 DEF IInv, TypeOK, Unwritten
<1>3. Checked' /\ Counted'
  BY <1>1 DEF IInv, Checked, Counted
<1>4. Placed' /\ Edged'
  BY <1>1 DEF IInv, Placed, Edged
<1>5. CycleIsReal'
  BY <1>1 DEF IInv, CycleIsReal
<1> QED
  BY <1>2, <1>3, <1>4, <1>5 DEF IInv

LEMMA Invariance == Spec => []IInv
<1>1. IInv /\ [Next]_vars => IInv'
  BY ValidateInv, PlaceInv, StuckInv, SortedInv, WriteInv, WrittenInv, StutterInv
     DEF Next, Sort
<1> QED
  BY Initially, <1>1, PTL DEF Spec

-----------------------------------------------------------------------------
(* The theorems.                                                           *)

\* The sort and the writing keep to their types.
THEOREM TypeCorrect == Spec => []TypeOK
BY Invariance, PTL DEF IInv

\* Whatever plan the model gives, once it is written no need of a task is missing.
THEOREM NoNeedIsLost == Spec => []EdgesKept
<1>1. IInv => EdgesKept
  <2> SUFFICES ASSUME IInv, stage = "written" PROVE EdgesKept
    BY DEF EdgesKept
  <2>1. ordered \in Seq(DOMAIN plan) /\ count = Len(ordered)
    BY DEF IInv, TypeOK, Edged
  <2>2. Range(ordered) = DOMAIN plan
    BY DEF IInv, Placed, Edged
  <2>3. \A k \in 1..Len(ordered) : edges[ordered[k]] = NeedsOf(plan, ordered[k])
    BY <2>1 DEF IInv, Edged
  <2>4. \A n \in DOMAIN plan : \E k \in 1..Len(ordered) : n = ordered[k]
    BY <2>1, <2>2 DEF Range
  <2> QED
    BY <2>2, <2>3, <2>4 DEF EdgesKept
<1> QED
  BY <1>1, Invariance, PTL

\* Whatever plan the model gives, only a plan with a cycle is refused for one.
THEOREM NoFalseCycle == Spec => []CycleIsReal
BY Invariance, PTL DEF IInv
=============================================================================
