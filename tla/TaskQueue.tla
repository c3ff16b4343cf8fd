------------------------------ MODULE TaskQueue ------------------------------
(***************************************************************************)
(* The durable task queue of the bridge: the RabbitMQ client with its      *)
(* main, retry and dead-letter queues (app/services/queue.py), the two     *)
(* kinds of consumer that compete for the main queue -- the worker process *)
(* (app/services/worker_rmq.py) and the consumer started inside the API    *)
(* process (main.py, app/api/tasks.py) -- and the scheduler's job that     *)
(* feeds dead letters back (app/services/scheduler.py).                    *)
(*                                                                         *)
(* Every await of the code is a place where another process may run or the *)
(* process may die, so one delivery is handled in several steps: handler,  *)
(* publish (two tries), ack.                                               *)
(***************************************************************************)
EXTENDS Naturals, FiniteSets

CONSTANTS
    Tasks,        \* payloads submitted with publish_task
    Msgs,         \* broker message slots; bounds the copies alive at once
    Workers,      \* consumers running worker_rmq.handle
    Apis,         \* consumers running tasks.handle_task inside the API
    Schedulers,   \* processes running scheduler.retry_overdue_tasks
    NoTask, NoMsg,
    WorkerMax,    \* WORKER_MAX_ATTEMPTS
    RepubMax,     \* max_attempts given to RabbitMQClient.consume
    AttBound,     \* attempts saturate here: no comparison sees the difference
    Limit,        \* dead letters one scheduler pass may move
    Faults        \* which environment faults may occur

FaultKinds == {"crash",        \* a process dies between two steps
               "conn",         \* its connection dies, its delivery is requeued
               "refuse",       \* a publish raises AMQPError, nothing stored
               "lostconfirm",  \* a publish raises AMQPError after storing
               "lostreply"}    \* a handler fails after its effect happened

Consumers == Workers \cup Apis
Actors == Consumers \cup Schedulers
Queues == {"main", "retry", "dlq"}

ASSUME ActorsAssumption ==
    /\ Workers \cap Apis = {}
    /\ Consumers \cap Schedulers = {}
ASSUME TokensAssumption == NoTask \notin Tasks /\ NoMsg \notin Msgs
ASSUME BoundsAssumption ==
    /\ WorkerMax \in Nat \ {0}
    /\ RepubMax \in Nat \ {0}
    /\ WorkerMax <= RepubMax
    /\ AttBound \in Nat
    /\ RepubMax <= AttBound
    /\ Limit \in Nat \ {0}
ASSUME FaultsAssumption == Faults \subseteq FaultKinds

VARIABLES
    msg,      \* broker: the message in each slot and the queue it is in
    client,   \* what publish_task told the submitter of each task
    done,     \* tasks whose external effect has happened
    pc,       \* where each actor stands in its handler
    cur,      \* the unacknowledged delivery an actor still owns
    job,      \* payload, attempts and publish target held in memory
    left      \* gets a scheduler pass may still make

vars == <<msg, client, done, pc, cur, job, left>>

-----------------------------------------------------------------------------
\* Types

MsgType == [at : Queues \cup {"free", "unacked"},
            task : Tasks \cup {NoTask},
            att : 0..AttBound]

JobType == [task : Tasks \cup {NoTask},
            att : 0..AttBound,
            dest : {"none", "retry", "dlq"},
            try : 1..2]

PcType == {"idle", "handling", "publishing", "acking", "repubAck",
           "republishing", "getting", "requeueing", "finAck", "finAckErr",
           "stopped"}

FreeSlot == [at |-> "free", task |-> NoTask, att |-> 0]
NoJob == [task |-> NoTask, att |-> 0, dest |-> "none", try |-> 1]

\* Every variable has its type.
TypeOK ==
    /\ msg \in [Msgs -> MsgType]
    /\ client \in [Tasks -> {"new", "again", "ok", "error"}]
    /\ done \subseteq Tasks
    /\ pc \in [Actors -> PcType]
    /\ cur \in [Actors -> Msgs \cup {NoMsg}]
    /\ job \in [Actors -> JobType]
    /\ left \in [Schedulers -> 0..Limit]

Init ==
    /\ msg = [m \in Msgs |-> FreeSlot]
    /\ client = [t \in Tasks |-> "new"]
    /\ done = {}
    /\ pc = [c \in Actors |-> "idle"]
    /\ cur = [c \in Actors |-> NoMsg]
    /\ job = [c \in Actors |-> NoJob]
    /\ left = [c \in Schedulers |-> 0]

-----------------------------------------------------------------------------
\* Broker and connection

\* Faulty: the attempt is not counted.
BumpForgotten(a) == a

\* attempts + 1; the saturation at AttBound only keeps the model finite.
Bump(a) == IF a < AttBound THEN a + 1 ELSE a

\* The broker stores one more persistent message in queue q. Which free slot
\* it takes makes no difference; with none left the bound is reached.
FreeSlots == {m \in Msgs : msg[m].at = "free"}

Enqueue(t, q, a) ==
    /\ FreeSlots # {}
    /\ msg' = [msg EXCEPT ![CHOOSE m \in FreeSlots : TRUE] =
                 [at |-> q, task |-> t, att |-> a]]

\* The queue an actor takes its deliveries from.
Home(c) == IF c \in Schedulers THEN "dlq" ELSE "main"

\* Faulty: the finally without its ack.
AckForgotten(c) ==
    /\ UNCHANGED msg
    /\ cur' = [cur EXCEPT ![c] = NoMsg]

\* message.ack() reaches the broker: an owned delivery is forgotten; on a
\* delivery that was already requeued the frame has no effect.
Acked(c) ==
    /\ msg' = IF cur[c] = NoMsg THEN msg ELSE [msg EXCEPT ![cur[c]] = FreeSlot]
    /\ cur' = [cur EXCEPT ![c] = NoMsg]

\* Faulty: consuming with no_ack, so nothing is put back.
RequeueNoAck(c) == Acked(c)

\* The channel is gone: the broker puts the unacknowledged delivery back.
Requeued(c) ==
    /\ msg' = IF cur[c] = NoMsg THEN msg
              ELSE [msg EXCEPT ![cur[c]].at = Home(c)]
    /\ cur' = [cur EXCEPT ![c] = NoMsg]

Goto(c, l) == pc' = [pc EXCEPT ![c] = l]

\* The x-message-ttl of the retry queue runs out: dead-lettered to "tasks".
RetryExpire(m) ==
    /\ msg[m].at = "retry"
    /\ msg' = [msg EXCEPT ![m].at = "main"]
    /\ UNCHANGED <<client, done, pc, cur, job, left>>

-----------------------------------------------------------------------------
\* publish_task, called by the webhooks, the bot and the scheduler jobs:
\* one try, and one more after an AMQPError; the second error is raised.

SubmitOk(t) ==
    /\ client[t] \in {"new", "again"}
    /\ Enqueue(t, "main", 0)
    /\ client' = [client EXCEPT ![t] = "ok"]
    /\ UNCHANGED <<done, pc, cur, job, left>>

\* Faulty: publish_task logs the second error instead of raising it.
SubmitErrorSwallowed(t) ==
    /\ client[t] \in {"new", "again"}
    /\ \/ "lostconfirm" \in Faults /\ Enqueue(t, "main", 0)
       \/ "refuse" \in Faults /\ UNCHANGED msg
    /\ client' = [client EXCEPT ![t] = IF @ = "new" THEN "again" ELSE "ok"]
    /\ UNCHANGED <<done, pc, cur, job, left>>

SubmitError(t) ==
    /\ client[t] \in {"new", "again"}
    /\ \/ "lostconfirm" \in Faults /\ Enqueue(t, "main", 0)
       \/ "refuse" \in Faults /\ UNCHANGED msg
    /\ client' = [client EXCEPT ![t] = IF @ = "new" THEN "again" ELSE "error"]
    /\ UNCHANGED <<done, pc, cur, job, left>>

-----------------------------------------------------------------------------
\* consume: one delivery at a time per consumer

Deliver(c, m) ==
    /\ pc[c] = "idle"
    /\ msg[m].at = "main"
    /\ msg' = [msg EXCEPT ![m].at = "unacked"]
    /\ cur' = [cur EXCEPT ![c] = m]
    /\ job' = [job EXCEPT ![c] = [task |-> msg[m].task, att |-> msg[m].att,
                                  dest |-> "none", try |-> 1]]
    /\ Goto(c, "handling")
    /\ UNCHANGED <<client, done, left>>

HandlerOk(c) ==
    /\ pc[c] = "handling"
    /\ done' = done \cup {job[c].task}
    /\ Goto(c, "acking")
    /\ UNCHANGED <<msg, client, cur, job, left>>

\* The actor turns to publishing its payload to queue q, first try.
Aim(c, q) == job' = [job EXCEPT ![c] = [task |-> @.task, att |-> @.att,
                                        dest |-> q, try |-> 1]]

\* Where worker_rmq.handle sends a task its handler failed on. A permanent
\* failure is ReauthRequired or any exception _is_transient denies.
HandleDest(kind, att) ==
    IF kind = "transient" /\ att + 1 < WorkerMax THEN "retry" ELSE "dlq"

\* Where _republish sends it.
RepublishDest(att) == IF att + 1 >= RepubMax THEN "dlq" ELSE "retry"

\* The handler raises. The worker's handle catches it and publishes; in the
\* API handle_task lets it propagate to consume, which calls _republish.
HandlerFail(c, kind) ==
    /\ pc[c] = "handling"
    /\ \/ UNCHANGED done
       \/ "lostreply" \in Faults /\ done' = done \cup {job[c].task}
    /\ IF c \in Workers
       THEN /\ Aim(c, HandleDest(kind, job[c].att))
            /\ Goto(c, "publishing")
       ELSE /\ UNCHANGED job
            /\ Goto(c, "repubAck")
    /\ UNCHANGED <<msg, client, cur, left>>

\* message.ack() returns: after the handler in consume, at the top of
\* _republish, or in the finally of retry_overdue_tasks.
Ack(c) ==
    /\ Acked(c)
    /\ \/ /\ pc[c] = "acking"
          /\ Goto(c, "idle")
          /\ job' = [job EXCEPT ![c] = NoJob]
       \/ /\ pc[c] = "repubAck"
          /\ Goto(c, "republishing")
          /\ Aim(c, RepublishDest(job[c].att))
       \/ /\ pc[c] = "finAck"
          /\ Goto(c, "getting")
          /\ job' = [job EXCEPT ![c] = NoJob]
       \/ /\ pc[c] = "finAckErr"
          /\ Goto(c, "idle")
          /\ job' = [job EXCEPT ![c] = NoJob]
    /\ UNCHANGED <<client, done, left>>

\* message.ack() raises because the delivery's channel is closed: consume
\* calls _republish, whose own ack raises too, outside its try. AMQPError is
\* caught by the outer loop (sleep, _ensure, consume again); a RuntimeError of
\* the channel escapes the TaskGroup and ends the consumer.
AckFails(c) ==
    /\ pc[c] \in {"acking", "repubAck", "finAck", "finAckErr"}
    /\ cur[c] = NoMsg
    /\ \/ Goto(c, "idle")
       \/ c \in Consumers /\ Goto(c, "stopped")
    /\ job' = [job EXCEPT ![c] = NoJob]
    /\ UNCHANGED <<msg, client, done, cur, left>>

-----------------------------------------------------------------------------
\* publish_retry and publish_dlq: one try, and one more after an AMQPError

Publishing == {"publishing", "republishing", "requeueing"}

\* handle and _republish count one more attempt, the scheduler does not.
PublishedAtt(c) == IF c \in Schedulers THEN job[c].att ELSE Bump(job[c].att)

StoreCopy(c) == Enqueue(job[c].task, job[c].dest, PublishedAtt(c))

\* The publisher confirm arrives.
PublishOk(c) ==
    /\ StoreCopy(c)
    /\ \/ /\ pc[c] = "publishing"
          /\ Goto(c, "acking")
          /\ UNCHANGED job
       \/ /\ pc[c] = "republishing"
          /\ Goto(c, "idle")
          /\ job' = [job EXCEPT ![c] = NoJob]
       \/ /\ pc[c] = "requeueing"
          /\ Goto(c, "finAck")
          /\ UNCHANGED job
    /\ UNCHANGED <<client, done, cur, left>>

\* Faulty: the number of the try is not looked at, so there is a third.
PublishErrorOnceMore(c) ==
    /\ pc[c] \in Publishing
    /\ \/ "lostconfirm" \in Faults /\ StoreCopy(c)
       \/ "refuse" \in Faults /\ UNCHANGED msg
    /\ job' = [job EXCEPT ![c].try = @ + 1]
    /\ UNCHANGED <<client, done, pc, cur, left>>

\* The first AMQPError leads to _ensure and a second try. The second one is
\* raised: out of handle into consume, which republishes; out of _republish,
\* which only logs it, the delivery being acknowledged already; out of the
\* scheduler's try into its finally.
PublishError(c) ==
    /\ pc[c] \in Publishing
    /\ \/ "lostconfirm" \in Faults /\ StoreCopy(c)
       \/ "refuse" \in Faults /\ UNCHANGED msg
    /\ \/ /\ job[c].try = 1
          /\ job' = [job EXCEPT ![c].try = 2]
          /\ UNCHANGED pc
       \/ /\ job[c].try = 2
          /\ \/ pc[c] = "publishing" /\ Goto(c, "repubAck") /\ UNCHANGED job
             \/ /\ pc[c] = "republishing"
                /\ Goto(c, "idle")
                /\ job' = [job EXCEPT ![c] = NoJob]
             \/ pc[c] = "requeueing" /\ Goto(c, "finAckErr") /\ UNCHANGED job
    /\ UNCHANGED <<client, done, cur, left>>

-----------------------------------------------------------------------------
\* retry_overdue_tasks: every period, up to Limit dead letters

SchedStart(c) ==
    /\ pc[c] = "idle"
    /\ Goto(c, "getting")
    /\ left' = [left EXCEPT ![c] = Limit]
    /\ UNCHANGED <<msg, client, done, cur, job>>

SchedGet(c, m) ==
    /\ pc[c] = "getting"
    /\ left[c] > 0
    /\ msg[m].at = "dlq"
    /\ msg' = [msg EXCEPT ![m].at = "unacked"]
    /\ cur' = [cur EXCEPT ![c] = m]
    /\ job' = [job EXCEPT ![c] = [task |-> msg[m].task, att |-> msg[m].att,
                                  dest |-> "retry", try |-> 1]]
    /\ left' = [left EXCEPT ![c] = @ - 1]
    /\ Goto(c, "requeueing")
    /\ UNCHANGED <<client, done>>

\* q.get(fail=False) returned None, or the limit is reached.
SchedEnd(c) ==
    /\ pc[c] = "getting"
    /\ left[c] = 0 \/ \A m \in Msgs : msg[m].at # "dlq"
    /\ Goto(c, "idle")
    /\ UNCHANGED <<msg, client, done, cur, job, left>>

-----------------------------------------------------------------------------
\* Faults of the environment

\* The process dies (or is cancelled at shutdown) in the middle of a step.
Crash(c) ==
    /\ "crash" \in Faults
    /\ pc[c] \notin {"idle", "stopped"}
    /\ Requeued(c)
    /\ Goto(c, "stopped")
    /\ job' = [job EXCEPT ![c] = NoJob]
    /\ UNCHANGED <<client, done, left>>

\* restart: unless-stopped (docker-compose.yml).
Restart(c) ==
    /\ pc[c] = "stopped"
    /\ Goto(c, "idle")
    /\ UNCHANGED <<msg, client, done, cur, job, left>>

\* The connection drops while the handler runs on: the delivery is requeued
\* under the actor, which still holds the payload.
ConnLost(c) ==
    /\ "conn" \in Faults
    /\ cur[c] # NoMsg
    /\ Requeued(c)
    /\ UNCHANGED <<client, done, pc, job, left>>

-----------------------------------------------------------------------------
HandlerFails(c) == \E kind \in {"transient", "permanent"} : HandlerFail(c, kind)
Consume(c) == \E m \in Msgs : Deliver(c, m)

\* Faulty: the scheduler passes over tasks that used up their attempts.
TakeFreshDeadLetter(c) ==
    \/ \E m \in Msgs : msg[m].att < RepubMax /\ SchedGet(c, m)
    \/ /\ pc[c] = "getting"
       /\ \A m \in Msgs : msg[m].at = "dlq" => msg[m].att >= RepubMax
       /\ Goto(c, "idle")
       /\ UNCHANGED <<msg, client, done, cur, job, left>>

TakeDeadLetter(c) == \E m \in Msgs : SchedGet(c, m)

Step(c) == PublishOk(c) \/ PublishError(c) \/ Ack(c) \/ AckFails(c)
ConsumerStep(c) == Consume(c) \/ HandlerOk(c) \/ HandlerFails(c) \/ Step(c)
SchedulerStep(c) ==
    SchedStart(c) \/ TakeDeadLetter(c) \/ SchedEnd(c) \/ Step(c)

Next ==
    \/ \E t \in Tasks : SubmitOk(t) \/ SubmitError(t)
    \/ \E m \in Msgs : RetryExpire(m)
    \/ \E c \in Consumers : ConsumerStep(c)
    \/ \E c \in Schedulers : SchedulerStep(c)
    \/ \E c \in Actors : Crash(c) \/ Restart(c) \/ ConnLost(c)

Spec == Init /\ [][Next]_vars

\* The TTL runs out, the queues are first-in first-out (a waiting message is
\* not overtaken for ever), event loops run, containers restart. Nothing makes
\* a handler succeed: failing every time is a fair behaviour.
Fairness ==
    /\ \A m \in Msgs : WF_vars(RetryExpire(m))
    /\ \A m \in Msgs : SF_vars(\E c \in Consumers : Deliver(c, m))
    /\ \A c \in Consumers : WF_vars(ConsumerStep(c))
    /\ \A c \in Schedulers : WF_vars(SchedulerStep(c))
    /\ \A c \in Workers \cup Schedulers : WF_vars(Restart(c))

FairSpec == Spec /\ Fairness

-----------------------------------------------------------------------------
\* Properties

\* An actor that will still run the handler, publish or acknowledge for t.
Holds(c, t) ==
    /\ job[c].task = t
    /\ pc[c] \in {"handling", "repubAck"} \cup Publishing

\* A trace of t is left in the broker or in the memory of a live actor.
InSystem(t) ==
    \/ \E m \in Msgs : msg[m].task = t
    \/ \E c \in Actors : Holds(c, t)

\* Losing a task takes a publish that is really refused, or a crash of a
\* process that goes through _republish in normal operation (the API).
MayLose ==
    \/ "refuse" \in Faults
    \/ "crash" \in Faults /\ Apis # {}

\* A task whose publish_task succeeded is done, queued or being handled.
NotVanished == \A t \in Tasks : client[t] = "ok" => t \in done \/ InSystem(t)

\* queue.py consume: worker crashes, lost confirms and lost connections never
\* lose an accepted task (worker.handle publishes before consume acks).
NoLoss == ~MayLose => NotVanished

\* Copies of t that some actor has yet to act upon: a delivery waiting only
\* for its ack is spent; a payload in _republish after its ack is not.
Obligations(t) ==
    {m \in Msgs : /\ msg[m].task = t
                  /\ \A c \in Actors :
                        cur[c] = m => pc[c] \notin {"acking", "finAck", "finAckErr"}}
    \cup {c \in Actors : pc[c] = "republishing" /\ job[c].task = t}

MayDuplicate == Faults \cap {"crash", "conn", "lostconfirm", "lostreply"} # {}

\* Unless a fault can duplicate it, a task is carried by at most one copy
\* and by none once done: its handler is never run again after succeeding.
ExactlyOnce ==
    ~MayDuplicate =>
        \A t \in Tasks : /\ Cardinality(Obligations(t)) <= 1
                         /\ t \in done => Obligations(t) = {}

Dead(t) == \E m \in Msgs : msg[m].at = "dlq" /\ msg[m].task = t

\* Refused publishes have lost the task: nothing will carry it out any more.
Lost(t) == MayLose /\ t \notin done /\ ~InSystem(t)

\* An accepted task does not go round the retry queue for ever: it is done or
\* reaches the dead-letter queue, unless a fault that may lose it did.
EventuallySettled ==
    \A t \in Tasks : client[t] = "ok" ~> (t \in done \/ Dead(t) \/ Lost(t))

\* The remote services recover: a task that is handled again and again is one
\* day handled successfully.
Recovery ==
    \A c \in Consumers, t \in Tasks : SF_vars(HandlerOk(c) /\ job[c].task = t)

\* If they do, every accepted task that is not lost is done in the end, the
\* scheduler bringing dead letters back.
EventuallyDone ==
    Schedulers # {} /\ Recovery =>
        \A t \in Tasks : client[t] = "ok" ~> (t \in done \/ Lost(t))

\* The abstract promise: the submitter's answer, and whether the task is
\* done, somewhere in the system, or nowhere.
Promise == INSTANCE TaskDelivery WITH
    told <- [t \in Tasks |-> IF client[t] \in {"ok", "error"}
                             THEN client[t] ELSE "none"],
    life <- [t \in Tasks |-> IF t \in done THEN "done"
                             ELSE IF InSystem(t) THEN "pending" ELSE "absent"],
    CanLose <- MayLose

\* The queue keeps the promise of TaskDelivery: no task is carried out that
\* was not submitted, a lost one is never resurrected, and without a losing
\* fault none is lost.
KeepsPromise == Promise!Spec

=============================================================================
