----------------------------- MODULE BoardTasks -----------------------------
(***************************************************************************)
(* LeadIntake with the tasks it publishes carried out at the job boards    *)
(* (app/services/worker/hh.py and avito.py, app/adapters/hh.py, avito.py   *)
(* and _requests.py): the negotiation at HeadHunter moves to a state, the  *)
(* candidate gets the invitation.                                          *)
(*                                                                         *)
(* The queue is that of TaskDelivery: a task is there until it is done, in *)
(* no particular order. A call that fails without effect leaves the task   *)
(* where it was, whether request_with_retry tries it again or the worker   *)
(* puts it into the retry queue or among the dead letters, from which the  *)
(* scheduler takes it.                                                     *)
(***************************************************************************)
EXTENDS LeadIntake

CONSTANTS
    Untouched,   \* the state of a negotiation the bridge has not moved
    MaxUnheard   \* bound on calls whose answer is lost

ASSUME UnheardAssumption == MaxUnheard \in Nat

VARIABLES
    queue,     \* tasks that are still to be done
    stage,     \* HeadHunter: the task that moved each negotiation last
    copies,    \* invitations each candidate was sent
    asked,     \* history: the set_state task published last
    overlaid,  \* history: negotiations that had two such tasks in the queue
    unheard    \* calls that took effect and whose answer was lost

boards == <<stage, copies>>
boardVars == <<vars, queue, boards, asked, overlaid, unheard>>

\* Every variable has its type.
BoardTypeOK ==
    /\ TypeOK
    /\ queue \subseteq tasks
    /\ stage \in [HH -> {Untouched} \cup tasks]
    /\ copies \in [HH \cup Avito -> 0..MaxUnheard + 1]
    /\ asked \in [HH -> {Untouched} \cup tasks]
    /\ overlaid \subseteq HH
    /\ unheard \in 0..MaxUnheard

BoardInit ==
    /\ Init
    /\ queue = {}
    /\ stage = [a \in HH |-> Untouched]
    /\ copies = [a \in HH \cup Avito |-> 0]
    /\ asked = [a \in HH |-> Untouched]
    /\ overlaid = {}
    /\ unheard = 0

\* The set_state tasks of an application among some tasks.
Moves(a, some) ==
    {t \in some : \/ t.kind = "contact" /\ t.of = a
                  \/ t.kind = "follow" /\ LeadOf[t.of] = a}

\* A step of the intake puts what it publishes into the queue.
Enqueue ==
    LET new == tasks' \ tasks
    IN  /\ queue' = queue \cup new
        /\ asked' = [a \in HH |-> IF Moves(a, new) = {} THEN asked[a]
                                  ELSE CHOOSE t \in Moves(a, new) : TRUE]
        /\ overlaid' = overlaid \cup
              {a \in HH : Moves(a, new) # {} /\ Moves(a, queue) # {}}
        /\ UNCHANGED <<boards, unheard>>

Intake(r) == Step(r) /\ Enqueue

\* The API dies; the queue is durable.
IntakeCrash == Crash /\ Enqueue

\* Faulty: the id of the negotiation and the state have changed places in the
\* url, and the 404 is no error.
SetStateMisplaced(t) == UNCHANGED stage

\* PUT negotiations/<state>/<id>.
SetState(t) == stage' = [a \in HH |-> IF t \in Moves(a, queue) THEN t ELSE stage[a]]

\* POST of a message to either board.
SendMessage(t) ==
    copies' = IF t.kind = "invite" THEN [copies EXCEPT ![t.of] = @ + 1] ELSE copies

\* What the call of a task changes at the boards; mark_read and the autofill
\* change nothing a candidate sees.
Effect(t) == SetState(t) /\ SendMessage(t)

\* Faulty: the handler of a message raises after its call.
CarryOutRaises(t) ==
    /\ t \in queue
    /\ t.kind # "create"
    /\ Effect(t)
    /\ queue' = IF t.kind = "invite" /\ copies[t.of] = 0 THEN queue ELSE queue \ {t}
    /\ UNCHANGED <<vars, asked, overlaid, unheard>>

\* A handler's call succeeds. No handler knows the task "create" under the
\* platform it is published with.
CarryOut(t) ==
    /\ t \in queue
    /\ t.kind # "create"
    /\ Effect(t)
    /\ queue' = queue \ {t}
    /\ UNCHANGED <<vars, asked, overlaid, unheard>>

\* The call takes effect and its answer is lost, or the worker dies: the task
\* is still there.
Unheard(t) ==
    /\ unheard < MaxUnheard
    /\ t \in queue
    /\ t.kind # "create"
    /\ Effect(t)
    /\ unheard' = unheard + 1
    /\ UNCHANGED <<vars, queue, asked, overlaid>>

Handlers == \E t \in queue : CarryOut(t)

BoardNext ==
    \/ \E r \in Requests : Intake(r)
    \/ IntakeCrash
    \/ Handlers
    \/ \E t \in queue : Unheard(t)

BoardSpec == BoardInit /\ [][BoardNext]_boardVars

\* Every webhook is sent, event loops run, and the boards answer in the end. No
\* request and no task goes on for ever, so that each gets its turn.
BoardFairSpec ==
    /\ BoardSpec
    /\ WF_boardVars(\E r \in Requests : Intake(r))
    /\ WF_boardVars(Handlers)

-----------------------------------------------------------------------------
\* Properties

\* handle_hh_event: a negotiation of which no two set_state tasks were in the
\* queue at once ends in the state asked for last, whatever was delivered
\* twice; with two the order is left to the queue.
LastStateWins ==
    \A a \in HH : a \notin overlaid /\ Moves(a, queue) = {} => stage[a] = asked[a]

\* send_invite: a candidate is invited once for every webhook of his, however
\* often it is sent, but for the calls whose answer was lost.
InvitedOnce ==
    \A a \in HH \cup Avito : copies[a] <= 1 + unheard

\* create_lead, send_invite, tag_lead: an accepted application ends with a tagged
\* lead and the invitation at the candidate, unless its request failed or AmoCRM
\* wanted a new authorization.
EventuallyInvited ==
    \A a \in HH \cup Avito :
        a \in keys ~> \/ a \in tagged /\ copies[a] > 0
                      \/ \E i \in 1..Sends[a] : at[<<a, i>>] = "failed"
                      \/ Task("create", a) \in tasks

=============================================================================
