-------------------------------- MODULE Delivery --------------------------------
(***************************************************************************)
(* What a rig promises about plans, without the beads: a request waits     *)
(* until it is answered, once, with an epic or with a refusal; an epic's   *)
(* tasks are done in the order of their needs; an epic that is over stays  *)
(* over and nothing more of it is done.                                    *)
(***************************************************************************)
EXTENDS Naturals

CONSTANTS
    Requests,  \* the plan requests
    Epics,     \* the epics a rig may open
    Tasks,     \* the tasks of a plan
    Needs      \* Needs[t]: the tasks that must be done before t

VARIABLES
    answer,    \* answer[r]: whether one was given, and its epic (None: a refusal)
    done,      \* done[e]: the tasks of e that landed
    over       \* the epics that are finished or canceled

None == 0
Waiting == [given |-> FALSE, epic |-> None]

deliveryVars == <<answer, done, over>>

DeliveryInit ==
    /\ answer = [r \in Requests |-> Waiting]
    /\ done = [e \in Epics |-> {}]
    /\ over = {}

AnswerRequest(r) ==
    /\ ~answer[r].given
    /\ \E e \in Epics \cup {None} :
           answer' = [answer EXCEPT ![r] = [given |-> TRUE, epic |-> e]]
    /\ UNCHANGED <<done, over>>

Do(e, t) ==
    /\ e \notin over
    /\ t \notin done[e]
    /\ Needs[t] \subseteq done[e]
    /\ done' = [done EXCEPT ![e] = @ \cup {t}]
    /\ UNCHANGED <<answer, over>>

Finish(e) ==
    /\ e \notin over
    /\ over' = over \cup {e}
    /\ UNCHANGED <<answer, done>>

DeliveryNext ==
    \/ \E r \in Requests : AnswerRequest(r)
    \/ \E e \in Epics : Finish(e) \/ \E t \in Tasks : Do(e, t)

DeliverySpec == DeliveryInit /\ [][DeliveryNext]_deliveryVars
=============================================================================
