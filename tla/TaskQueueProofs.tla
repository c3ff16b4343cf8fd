-------------------------- MODULE TaskQueueProofs --------------------------
(***************************************************************************)
(* Theorems of TaskQueue for every set of tasks, consumers and schedulers, *)
(* every attempt budget and every number of message slots.                 *)
(***************************************************************************)
EXTENDS TaskQueue, FiniteSetTheorems, TLAPS

\* Storing a message fills a slot that was free and touches no other.
LEMMA EnqueueFills ==
    ASSUME TypeOK, NEW t, NEW q, NEW a, Enqueue(t, q, a)
    PROVE  \E m \in Msgs :
              /\ msg[m].at = "free"
              /\ msg' = [msg EXCEPT ![m] = [at |-> q, task |-> t, att |-> a]]
<1>1. PICK m \in FreeSlots : TRUE
  BY DEF Enqueue
<1>2. (CHOOSE x \in FreeSlots : TRUE) \in FreeSlots
  BY <1>1
<1> QED
  BY <1>2 DEF Enqueue, FreeSlots

\* Storing a well-typed message keeps the slots well typed.
LEMMA EnqueueType ==
    ASSUME TypeOK, NEW t \in Tasks, NEW q \in Queues, NEW a \in 0..AttBound,
           Enqueue(t, q, a)
    PROVE  msg' \in [Msgs -> MsgType]
<1>1. PICK m \in Msgs : msg' = [msg EXCEPT ![m] = [at |-> q, task |-> t, att |-> a]]
  BY EnqueueFills
<1>2. [at |-> q, task |-> t, att |-> a] \in MsgType
  BY DEF MsgType
<1> QED
  BY <1>1, <1>2 DEF TypeOK

\* Counting one more attempt (_republish, handle) stays within the bound.
LEMMA BumpType == \A a \in 0..AttBound : Bump(a) \in 0..AttBound
BY BoundsAssumption DEF Bump

\* In every step that publishes from a handler the payload is a real task and
\* the target one of the two queues.
JobOK ==
    \A c \in Actors :
        /\ pc[c] \in {"handling", "repubAck"} \cup Publishing => job[c].task \in Tasks
        /\ pc[c] \in Publishing => job[c].dest \in {"retry", "dlq"}
        /\ pc[c] \in {"handling", "publishing", "repubAck", "republishing"}
              => c \in Consumers
        /\ pc[c] = "publishing" => c \in Workers
        /\ pc[c] \in {"getting", "requeueing", "finAck", "finAckErr"}
              => c \in Schedulers

\* An occupied slot holds a real task.
SlotOK == \A m \in Msgs : msg[m].at # "free" => msg[m].task \in Tasks

\* A delivery belongs to one actor, who holds the payload it carries.
OwnOK ==
    /\ \A c \in Actors :
          cur[c] # NoMsg =>
              /\ cur[c] \in Msgs
              /\ msg[cur[c]].at = "unacked"
              /\ msg[cur[c]].task = job[c].task
              /\ pc[c] \in {"handling", "repubAck", "publishing", "requeueing",
                            "acking", "finAck", "finAckErr"}
    /\ \A c, d \in Actors : cur[c] # NoMsg /\ cur[c] = cur[d] => c = d

Shape == TypeOK /\ JobOK /\ SlotOK /\ OwnOK

\* The queue starts empty and every actor idle: the shape invariant holds.
LEMMA InitShape == Init => Shape
<1> SUFFICES ASSUME Init PROVE Shape
  OBVIOUS
<1>1. TypeOK
  BY BoundsAssumption DEF Init, TypeOK, MsgType, JobType, PcType, FreeSlot, NoJob
<1>2. JobOK /\ SlotOK /\ OwnOK
  BY DEF Init, JobOK, SlotOK, OwnOK, Publishing, FreeSlot
<1> QED
  BY <1>1, <1>2 DEF Shape

\* What a publishing actor stores is a well-typed message.
LEMMA StoreType ==
    ASSUME Shape, NEW c \in Actors, pc[c] \in Publishing, StoreCopy(c)
    PROVE  msg' \in [Msgs -> MsgType]
<1>1. job[c] \in JobType /\ job[c].att \in 0..AttBound
  BY DEF Shape, TypeOK, JobType
<1>2. PublishedAtt(c) \in 0..AttBound
  BY <1>1, BumpType DEF PublishedAtt
<1>3. job[c].task \in Tasks /\ job[c].dest \in Queues
  BY DEF Shape, JobOK, Queues
<1> QED
  BY <1>2, <1>3, EnqueueType DEF StoreCopy, Shape

\* Turning to publish to the retry queue or the dead letters keeps the
\* payload in memory well typed.
LEMMA AimType ==
    ASSUME TypeOK, NEW c \in Actors, NEW q \in {"retry", "dlq"}, Aim(c, q)
    PROVE  job' \in [Actors -> JobType]
BY DEF Aim, TypeOK, JobType

\* No step of the queue, its consumers or the scheduler breaks the types.
LEMMA NextType ==
    ASSUME Shape, [Next]_vars
    PROVE  TypeOK'
<1> USE DEF Shape
<1>1. ASSUME NEW t \in Tasks, SubmitOk(t) PROVE TypeOK'
  BY <1>1, EnqueueType, BoundsAssumption DEF SubmitOk, TypeOK, Queues
<1>2. ASSUME NEW t \in Tasks, SubmitError(t) PROVE TypeOK'
  BY <1>2, EnqueueType, BoundsAssumption DEF SubmitError, TypeOK, Queues
<1>3. ASSUME NEW m \in Msgs, RetryExpire(m) PROVE TypeOK'
  BY <1>3 DEF RetryExpire, TypeOK, MsgType, Queues
<1>4. ASSUME NEW c \in Consumers, NEW m \in Msgs, Deliver(c, m) PROVE TypeOK'
  <2>1. msg[m] \in MsgType /\ c \in Actors
    BY <1>4 DEF TypeOK, Actors
  <2>2. msg' \in [Msgs -> MsgType]
    BY <1>4, <2>1 DEF Deliver, TypeOK, MsgType
  <2>3. [task |-> msg[m].task, att |-> msg[m].att, dest |-> "none", try |-> 1] \in JobType
    BY <2>1 DEF MsgType, JobType
  <2>4. job' \in [Actors -> JobType]
    BY <1>4, <2>3 DEF Deliver, TypeOK
  <2> QED
    BY <1>4, <2>1, <2>2, <2>4 DEF Deliver, Goto, TypeOK, PcType
<1>5. ASSUME NEW c \in Consumers, HandlerOk(c) PROVE TypeOK'
  BY <1>5 DEF HandlerOk, Goto, TypeOK, PcType, JobOK, Actors
<1>6. ASSUME NEW c \in Consumers, NEW kind, HandlerFail(c, kind) PROVE TypeOK'
  <2>1. job[c] \in JobType /\ job[c].task \in Tasks /\ c \in Actors
    BY <1>6 DEF HandlerFail, TypeOK, JobOK, Actors
  <2>2. done' \subseteq Tasks
    BY <1>6, <2>1 DEF HandlerFail, TypeOK
  <2>3. HandleDest(kind, job[c].att) \in {"retry", "dlq"}
    BY DEF HandleDest
  <2>4. job' \in [Actors -> JobType]
    BY <1>6, <2>1, <2>3, AimType DEF HandlerFail, TypeOK
  <2>5. pc' \in [Actors -> PcType]
    BY <1>6 DEF HandlerFail, Goto, TypeOK, PcType
  <2> QED
    BY <1>6, <2>2, <2>4, <2>5 DEF HandlerFail, TypeOK
<1>7. ASSUME NEW c \in Actors, Ack(c) PROVE TypeOK'
  <2>1. msg' \in [Msgs -> MsgType] /\ cur' \in [Actors -> Msgs \cup {NoMsg}]
    BY <1>7, BoundsAssumption DEF Ack, Acked, TypeOK, MsgType, FreeSlot
  <2>2. NoJob \in JobType /\ job[c] \in JobType
    BY <1>7, BoundsAssumption DEF NoJob, JobType, TypeOK
  <2>3. RepublishDest(job[c].att) \in {"retry", "dlq"}
    BY DEF RepublishDest
  <2>4. job' \in [Actors -> JobType]
    BY <1>7, <2>2, <2>3, AimType DEF Ack, TypeOK
  <2>5. pc' \in [Actors -> PcType]
    BY <1>7 DEF Ack, Goto, TypeOK, PcType
  <2> QED
    BY <1>7, <2>1, <2>4, <2>5 DEF Ack, TypeOK
<1>8. ASSUME NEW c \in Actors, AckFails(c) PROVE TypeOK'
  BY <1>8, BoundsAssumption DEF AckFails, Goto, TypeOK, JobType, PcType, NoJob
<1>9. ASSUME NEW c \in Actors, PublishOk(c) PROVE TypeOK'
  BY <1>9, StoreType, BoundsAssumption DEF PublishOk, Goto, Publishing, TypeOK, JobType, PcType, NoJob
<1>10. ASSUME NEW c \in Actors, PublishError(c) PROVE TypeOK'
  BY <1>10, StoreType, BoundsAssumption DEF PublishError, Goto, TypeOK, JobType, PcType, NoJob
<1>11. ASSUME NEW c \in Schedulers, SchedStart(c) PROVE TypeOK'
  BY <1>11, BoundsAssumption DEF SchedStart, Goto, TypeOK, PcType, Actors
<1>12. ASSUME NEW c \in Schedulers, NEW m \in Msgs, SchedGet(c, m) PROVE TypeOK'
  BY <1>12, BoundsAssumption DEF SchedGet, Goto, TypeOK, MsgType, JobType, PcType, Actors
<1>13. ASSUME NEW c \in Schedulers, SchedEnd(c) PROVE TypeOK'
  BY <1>13 DEF SchedEnd, Goto, TypeOK, PcType
<1>14. ASSUME NEW c \in Actors, Crash(c) PROVE TypeOK'
  BY <1>14, BoundsAssumption DEF Crash, Requeued, Home, Goto, TypeOK, MsgType, JobType, PcType, NoJob, Queues
<1>15. ASSUME NEW c \in Actors, Restart(c) PROVE TypeOK'
  BY <1>15 DEF Restart, Goto, TypeOK, PcType
<1>16. ASSUME NEW c \in Actors, ConnLost(c) PROVE TypeOK'
  BY <1>16 DEF ConnLost, Requeued, Home, TypeOK, MsgType, Queues
<1>17. CASE UNCHANGED vars
  BY <1>17 DEF vars, TypeOK
<1> QED
  BY <1>1, <1>2, <1>3, <1>4, <1>5, <1>6, <1>7, <1>8, <1>9, <1>10, <1>11, <1>12, <1>13, <1>14, <1>15, <1>16, <1>17
     DEF Next, ConsumerStep, SchedulerStep, Step, Consume, HandlerFails, TakeDeadLetter, Actors

\* Storing a real task keeps occupied slots occupied by real tasks.
LEMMA EnqueueSlot ==
    ASSUME TypeOK, SlotOK, NEW t \in Tasks, NEW q \in Queues, NEW a, Enqueue(t, q, a)
    PROVE  SlotOK'
<1>1. PICK m \in Msgs : msg' = [msg EXCEPT ![m] = [at |-> q, task |-> t, att |-> a]]
  BY EnqueueFills
<1> QED
  BY <1>1 DEF TypeOK, SlotOK

\* ... and disturbs no delivery somebody owns.
LEMMA EnqueueOwn ==
    ASSUME TypeOK, OwnOK, NEW t, NEW q, NEW a, Enqueue(t, q, a)
    PROVE  \A c \in Actors : cur[c] # NoMsg => msg'[cur[c]] = msg[cur[c]]
<1>1. PICK m \in Msgs :
         /\ msg[m].at = "free"
         /\ msg' = [msg EXCEPT ![m] = [at |-> q, task |-> t, att |-> a]]
  BY EnqueueFills
<1> QED
  BY <1>1 DEF TypeOK, OwnOK

\* The message a publishing actor stores is about a real task.
LEMMA StoreSlot ==
    ASSUME Shape, NEW c \in Actors, pc[c] \in Publishing, StoreCopy(c)
    PROVE  SlotOK'
<1>1. job[c].task \in Tasks /\ job[c].dest \in Queues
  BY DEF Shape, JobOK, Queues
<1> QED
  BY <1>1, EnqueueSlot DEF StoreCopy, Shape

\* The payload held in memory stays a real task, and every actor stays in
\* the part of the code that is its own.
LEMMA NextJob ==
    ASSUME Shape, [Next]_vars
    PROVE  JobOK'
<1> USE DEF Shape
<1>1. ASSUME NEW t \in Tasks, SubmitOk(t) PROVE JobOK'
  BY <1>1 DEF SubmitOk, JobOK, TypeOK, MsgType, Publishing, Actors, SlotOK
<1>2. ASSUME NEW t \in Tasks, SubmitError(t) PROVE JobOK'
  BY <1>2 DEF SubmitError, JobOK, TypeOK, MsgType, Publishing, Actors, SlotOK
<1>3. ASSUME NEW m \in Msgs, RetryExpire(m) PROVE JobOK'
  BY <1>3 DEF RetryExpire, JobOK, TypeOK, MsgType, Publishing, Actors, SlotOK
<1>4. ASSUME NEW c \in Consumers, NEW m \in Msgs, Deliver(c, m) PROVE JobOK'
  BY <1>4 DEF Deliver, Goto, JobOK, TypeOK, MsgType, Publishing, Actors, SlotOK
<1>5. ASSUME NEW c \in Consumers, HandlerOk(c) PROVE JobOK'
  BY <1>5 DEF HandlerOk, Goto, JobOK, TypeOK, MsgType, Publishing, Actors, SlotOK
<1>6. ASSUME NEW c \in Consumers, NEW kind, HandlerFail(c, kind) PROVE JobOK'
  BY <1>6 DEF HandlerFail, Aim, HandleDest, Goto, JobOK, TypeOK, MsgType, Publishing, Actors, SlotOK
<1>7. ASSUME NEW c \in Actors, Ack(c) PROVE JobOK'
  BY <1>7 DEF Ack, Acked, Aim, RepublishDest, Goto, JobOK, TypeOK, MsgType, Publishing, Actors, SlotOK
<1>8. ASSUME NEW c \in Actors, AckFails(c) PROVE JobOK'
  BY <1>8 DEF AckFails, Goto, JobOK, TypeOK, MsgType, Publishing, Actors, SlotOK
<1>9. ASSUME NEW c \in Actors, PublishOk(c) PROVE JobOK'
  BY <1>9 DEF PublishOk, Goto, JobOK, TypeOK, MsgType, Publishing, Actors, SlotOK
<1>10. ASSUME NEW c \in Actors, PublishError(c) PROVE JobOK'
  <2>1. CASE job[c].try = 1
    BY <1>10, <2>1 DEF PublishError, JobOK, TypeOK, JobType, Publishing
  <2>2. CASE job[c].try = 2
    BY <1>10, <2>2 DEF PublishError, Goto, JobOK, TypeOK, NoJob, Publishing
  <2>3. job[c].try = 1 \/ job[c].try = 2
    BY <1>10 DEF TypeOK, JobType
  <2> QED
    BY <2>1, <2>2, <2>3
<1>11. ASSUME NEW c \in Schedulers, SchedStart(c) PROVE JobOK'
  BY <1>11 DEF SchedStart, Goto, JobOK, TypeOK, MsgType, Publishing, Actors, SlotOK
<1>12. ASSUME NEW c \in Schedulers, NEW m \in Msgs, SchedGet(c, m) PROVE JobOK'
  BY <1>12 DEF SchedGet, Goto, JobOK, TypeOK, MsgType, Publishing, Actors, SlotOK
<1>13. ASSUME NEW c \in Schedulers, SchedEnd(c) PROVE JobOK'
  BY <1>13 DEF SchedEnd, Goto, JobOK, TypeOK, MsgType, Publishing, Actors, SlotOK
<1>14. ASSUME NEW c \in Actors, Crash(c) PROVE JobOK'
  BY <1>14 DEF Crash, Requeued, Home, Goto, JobOK, TypeOK, MsgType, Publishing, Actors, SlotOK
<1>15. ASSUME NEW c \in Actors, Restart(c) PROVE JobOK'
  BY <1>15 DEF Restart, Goto, JobOK, TypeOK, MsgType, Publishing, Actors, SlotOK
<1>16. ASSUME NEW c \in Actors, ConnLost(c) PROVE JobOK'
  BY <1>16 DEF ConnLost, Requeued, Home, JobOK, TypeOK, MsgType, Publishing, Actors, SlotOK
<1>17. CASE UNCHANGED vars
  BY <1>17 DEF vars, JobOK, TypeOK, MsgType, Publishing, Actors, SlotOK
<1> QED
  BY <1>1, <1>2, <1>3, <1>4, <1>5, <1>6, <1>7, <1>8, <1>9, <1>10, <1>11, <1>12, <1>13, <1>14, <1>15, <1>16, <1>17
     DEF Next, ConsumerStep, SchedulerStep, Step, Consume, HandlerFails,
         TakeDeadLetter, Actors

\* Slots never hold a message without a task.
LEMMA NextSlot ==
    ASSUME Shape, [Next]_vars
    PROVE  SlotOK'
<1> USE DEF Shape
<1>1. ASSUME NEW t \in Tasks, SubmitOk(t) PROVE SlotOK'
  BY <1>1, EnqueueSlot DEF SubmitOk, Queues
<1>2. ASSUME NEW t \in Tasks, SubmitError(t) PROVE SlotOK'
  <2>1. CASE Enqueue(t, "main", 0)
    BY <2>1, EnqueueSlot DEF Queues
  <2>2. CASE UNCHANGED msg
    BY <2>2 DEF SlotOK
  <2> QED
    BY <1>2, <2>1, <2>2 DEF SubmitError
<1>3. ASSUME NEW m \in Msgs, RetryExpire(m) PROVE SlotOK'
  BY <1>3 DEF RetryExpire, SlotOK, TypeOK, MsgType, FreeSlot
<1>4. ASSUME NEW c \in Consumers, NEW m \in Msgs, Deliver(c, m) PROVE SlotOK'
  BY <1>4 DEF Deliver, Goto, SlotOK, TypeOK, MsgType, FreeSlot
<1>5. ASSUME NEW c \in Consumers, HandlerOk(c) PROVE SlotOK'
  BY <1>5 DEF HandlerOk, Goto, SlotOK, TypeOK, MsgType, FreeSlot
<1>6. ASSUME NEW c \in Consumers, NEW kind, HandlerFail(c, kind) PROVE SlotOK'
  BY <1>6 DEF HandlerFail, Aim, HandleDest, Goto, SlotOK, TypeOK, MsgType, FreeSlot
<1>7. ASSUME NEW c \in Actors, Ack(c) PROVE SlotOK'
  BY <1>7 DEF Ack, Acked, Aim, RepublishDest, Goto, SlotOK, TypeOK, MsgType, FreeSlot
<1>8. ASSUME NEW c \in Actors, AckFails(c) PROVE SlotOK'
  BY <1>8 DEF AckFails, Goto, SlotOK, TypeOK, MsgType, FreeSlot
<1>9. ASSUME NEW c \in Actors, PublishOk(c) PROVE SlotOK'
  BY <1>9, StoreSlot DEF PublishOk, Publishing
<1>10. ASSUME NEW c \in Actors, PublishError(c) PROVE SlotOK'
  <2>1. CASE StoreCopy(c)
    BY <1>10, <2>1, StoreSlot DEF PublishError
  <2>2. CASE UNCHANGED msg
    BY <2>2 DEF SlotOK
  <2> QED
    BY <1>10, <2>1, <2>2 DEF PublishError
<1>11. ASSUME NEW c \in Schedulers, SchedStart(c) PROVE SlotOK'
  BY <1>11 DEF SchedStart, Goto, SlotOK, TypeOK, MsgType, FreeSlot
<1>12. ASSUME NEW c \in Schedulers, NEW m \in Msgs, SchedGet(c, m) PROVE SlotOK'
  BY <1>12 DEF SchedGet, Goto, SlotOK, TypeOK, MsgType, FreeSlot
<1>13. ASSUME NEW c \in Schedulers, SchedEnd(c) PROVE SlotOK'
  BY <1>13 DEF SchedEnd, Goto, SlotOK, TypeOK, MsgType, FreeSlot
<1>14. ASSUME NEW c \in Actors, Crash(c) PROVE SlotOK'
  BY <1>14 DEF Crash, Requeued, Home, SlotOK, OwnOK, TypeOK, MsgType
<1>15. ASSUME NEW c \in Actors, Restart(c) PROVE SlotOK'
  BY <1>15 DEF Restart, Goto, SlotOK, TypeOK, MsgType, FreeSlot
<1>16. ASSUME NEW c \in Actors, ConnLost(c) PROVE SlotOK'
  BY <1>16 DEF ConnLost, Requeued, Home, SlotOK, OwnOK, TypeOK, MsgType
<1>17. CASE UNCHANGED vars
  BY <1>17 DEF vars, SlotOK, TypeOK, MsgType, FreeSlot
<1> QED
  BY <1>1, <1>2, <1>3, <1>4, <1>5, <1>6, <1>7, <1>8, <1>9, <1>10, <1>11, <1>12, <1>13, <1>14, <1>15, <1>16, <1>17
     DEF Next, ConsumerStep, SchedulerStep, Step, Consume, HandlerFails,
         TakeDeadLetter, Actors

\* A delivery keeps exactly one owner until it is acknowledged or requeued.
LEMMA NextOwn ==
    ASSUME Shape, [Next]_vars
    PROVE  OwnOK'
<1> USE DEF Shape
<1>1. ASSUME NEW t \in Tasks, SubmitOk(t) PROVE OwnOK'
  <2>1. \A c \in Actors : cur[c] # NoMsg => msg'[cur[c]] = msg[cur[c]]
    BY <1>1, EnqueueOwn DEF SubmitOk
  <2> QED
    BY <1>1, <2>1 DEF SubmitOk, OwnOK
<1>2. ASSUME NEW t \in Tasks, SubmitError(t) PROVE OwnOK'
  <2>1. \A c \in Actors : cur[c] # NoMsg => msg'[cur[c]] = msg[cur[c]]
    BY <1>2, EnqueueOwn DEF SubmitError
  <2> QED
    BY <1>2, <2>1 DEF SubmitError, OwnOK
<1>3. ASSUME NEW m \in Msgs, RetryExpire(m) PROVE OwnOK'
  BY <1>3 DEF RetryExpire, OwnOK, TypeOK, MsgType, NoJob, Publishing, Actors, FreeSlot
<1>4. ASSUME NEW c \in Consumers, NEW m \in Msgs, Deliver(c, m) PROVE OwnOK'
  BY <1>4 DEF Deliver, Goto, OwnOK, TypeOK, MsgType, NoJob, Publishing, Actors, FreeSlot
<1>5. ASSUME NEW c \in Consumers, HandlerOk(c) PROVE OwnOK'
  BY <1>5 DEF HandlerOk, Goto, OwnOK, TypeOK, MsgType, NoJob, Publishing, Actors, FreeSlot
<1>6. ASSUME NEW c \in Consumers, NEW kind, HandlerFail(c, kind) PROVE OwnOK'
  BY <1>6 DEF HandlerFail, Aim, HandleDest, Goto, OwnOK, TypeOK, MsgType, NoJob, Publishing, Actors, FreeSlot
<1>7. ASSUME NEW c \in Actors, Ack(c) PROVE OwnOK'
  BY <1>7 DEF Ack, Acked, Aim, RepublishDest, Goto, OwnOK, TypeOK, MsgType, NoJob, Publishing, Actors, FreeSlot
<1>8. ASSUME NEW c \in Actors, AckFails(c) PROVE OwnOK'
  BY <1>8 DEF AckFails, Goto, OwnOK, TypeOK, MsgType, NoJob, Publishing, Actors, FreeSlot
<1>9. ASSUME NEW c \in Actors, PublishOk(c) PROVE OwnOK'
  <2>1. \A d \in Actors : cur[d] # NoMsg => msg'[cur[d]] = msg[cur[d]]
    BY <1>9, EnqueueOwn DEF PublishOk, StoreCopy
  <2>2. pc[c] = "republishing" => cur[c] = NoMsg
    BY <1>9 DEF OwnOK
  <2>3. /\ UNCHANGED cur
        /\ \A d \in Actors : job'[d].task = job[d].task \/ cur[d] = NoMsg
        /\ \A d \in Actors : d # c => pc'[d] = pc[d]
        /\ pc'[c] \in {"acking", "idle", "finAck"}
        /\ pc'[c] = "idle" => cur[c] = NoMsg
    BY <1>9, <2>2 DEF PublishOk, Goto, TypeOK
  <2> QED
    BY <2>1, <2>3 DEF OwnOK
<1>10. ASSUME NEW c \in Actors, PublishError(c) PROVE OwnOK'
  <2>1. \A d \in Actors : cur[d] # NoMsg => msg'[cur[d]] = msg[cur[d]]
    BY <1>10, EnqueueOwn DEF PublishError, StoreCopy
  <2>2. pc[c] = "republishing" => cur[c] = NoMsg
    BY <1>10 DEF OwnOK
  <2>3. /\ UNCHANGED cur
        /\ \A d \in Actors : job'[d].task = job[d].task \/ cur[d] = NoMsg
        /\ \A d \in Actors : d # c => pc'[d] = pc[d]
    BY <1>10, <2>2 DEF PublishError, TypeOK, JobType, Goto
  <2>4. pc'[c] = pc[c] \/ pc'[c] \in {"repubAck", "finAckErr"} \/ cur[c] = NoMsg
    BY <1>10, <2>2 DEF PublishError, Goto, TypeOK
  <2> QED
    BY <2>1, <2>3, <2>4 DEF OwnOK
<1>11. ASSUME NEW c \in Schedulers, SchedStart(c) PROVE OwnOK'
  BY <1>11 DEF SchedStart, Goto, OwnOK, TypeOK, MsgType, NoJob, Publishing, Actors, FreeSlot
<1>12. ASSUME NEW c \in Schedulers, NEW m \in Msgs, SchedGet(c, m) PROVE OwnOK'
  BY <1>12 DEF SchedGet, Goto, OwnOK, TypeOK, MsgType, NoJob, Publishing, Actors, FreeSlot
<1>13. ASSUME NEW c \in Schedulers, SchedEnd(c) PROVE OwnOK'
  BY <1>13 DEF SchedEnd, Goto, OwnOK, TypeOK, MsgType, NoJob, Publishing, Actors, FreeSlot
<1>14. ASSUME NEW c \in Actors, Crash(c) PROVE OwnOK'
  BY <1>14 DEF Crash, Requeued, Home, Goto, OwnOK, TypeOK, MsgType, NoJob, Publishing, Actors, FreeSlot
<1>15. ASSUME NEW c \in Actors, Restart(c) PROVE OwnOK'
  BY <1>15 DEF Restart, Goto, OwnOK, TypeOK, MsgType, NoJob, Publishing, Actors, FreeSlot
<1>16. ASSUME NEW c \in Actors, ConnLost(c) PROVE OwnOK'
  BY <1>16 DEF ConnLost, Requeued, Home, OwnOK, TypeOK, MsgType, NoJob, Publishing, Actors, FreeSlot
<1>17. CASE UNCHANGED vars
  BY <1>17 DEF vars, OwnOK, TypeOK, MsgType, NoJob, Publishing, Actors, FreeSlot
<1> QED
  BY <1>1, <1>2, <1>3, <1>4, <1>5, <1>6, <1>7, <1>8, <1>9, <1>10, <1>11, <1>12, <1>13, <1>14, <1>15, <1>16, <1>17
     DEF Next, ConsumerStep, SchedulerStep, Step, Consume, HandlerFails,
         TakeDeadLetter, Actors

\* In every reachable state payloads in memory are real tasks of an actor in
\* its own part of the code, slots hold tasks, and a delivery has one owner.
THEOREM Shaped == Spec => []Shape
<1>1. Shape /\ [Next]_vars => Shape'
  <2> SUFFICES ASSUME Shape, [Next]_vars PROVE Shape'
    OBVIOUS
  <2>1. TypeOK'
    BY NextType
  <2>2. JobOK'
    BY NextJob
  <2>3. SlotOK'
    BY NextSlot
  <2>4. OwnOK'
    BY NextOwn
  <2> QED
    BY <2>1, <2>2, <2>3, <2>4 DEF Shape
<1> QED
  BY InitShape, <1>1, PTL DEF Spec

\* Every variable keeps its type, for all constants.
THEOREM TypeCorrect == Spec => []TypeOK
<1>1. Shape => TypeOK
  BY DEF Shape
<1> QED
  BY Shaped, <1>1, PTL

-----------------------------------------------------------------------------
(***************************************************************************)
(* No loss. An actor waiting for an ack, or holding a payload whose        *)
(* delivery went back to the broker, may drop it at any time, so it does   *)
(* not count as carrying the task. What does carry it: its effect, a copy  *)
(* in a queue, an owned delivery still being worked on, and -- only where  *)
(* processes do not crash -- a payload on its way through _republish.      *)
(***************************************************************************)

Queued(t) == \E m \in Msgs : msg[m].at \in Queues /\ msg[m].task = t

Carries(c, t) ==
    /\ job[c].task = t
    /\ \/ pc[c] \in {"handling", "publishing", "requeueing"} /\ cur[c] # NoMsg
       \/ "crash" \notin Faults /\ pc[c] = "repubAck" /\ cur[c] # NoMsg
       \/ "crash" \notin Faults /\ pc[c] = "republishing"

Safe(t) == t \in done \/ Queued(t) \/ \E c \in Actors : Carries(c, t)

\* Nobody's trace is only that of an actor about to drop it.
TracesSafe == \A t \in Tasks : InSystem(t) \/ client[t] = "ok" => Safe(t)

SafeStays == \A t \in Tasks : Safe(t) => Safe(t)'

\* A stored message is a queued copy of its task, and no other copy goes.
LEMMA EnqueueQueued ==
    ASSUME TypeOK, NEW t, NEW q \in Queues, NEW a, Enqueue(t, q, a)
    PROVE  Queued(t)' /\ \A u : Queued(u) => Queued(u)'
<1>1. PICK m \in Msgs :
         /\ msg[m].at = "free"
         /\ msg' = [msg EXCEPT ![m] = [at |-> q, task |-> t, att |-> a]]
  BY EnqueueFills
<1>2. Queued(t)'
  BY <1>1 DEF TypeOK, Queued
<1>3. ASSUME NEW u, Queued(u) PROVE Queued(u)'
  <2>1. PICK n \in Msgs : msg[n].at \in Queues /\ msg[n].task = u
    BY <1>3 DEF Queued
  <2>2. n # m
    BY <1>1, <2>1 DEF Queues
  <2> QED
    BY <1>1, <2>1, <2>2 DEF TypeOK, Queued
<1> QED
  BY <1>2, <1>3

\* A requeued delivery is a queued copy of the task its owner was working on.
LEMMA RequeueQueued ==
    ASSUME Shape, NEW c \in Actors, Requeued(c)
    PROVE  /\ \A u : Queued(u) => Queued(u)'
           /\ \A t : t = job[c].task /\ cur[c] # NoMsg => Queued(t)'
<1> USE DEF Shape
<1>1. CASE cur[c] = NoMsg
  BY <1>1 DEF Requeued, Queued
<1>2. CASE cur[c] # NoMsg
  <2>1. /\ cur[c] \in Msgs
        /\ msg[cur[c]].at = "unacked"
        /\ msg[cur[c]].task = job[c].task
    BY <1>2 DEF OwnOK
  <2>2. msg' = [msg EXCEPT ![cur[c]].at = Home(c)] /\ Home(c) \in Queues
    BY <1>2 DEF Requeued, Home, Queues
  <2>3. msg'[cur[c]].at \in Queues /\ msg'[cur[c]].task = job[c].task
    BY <2>1, <2>2 DEF TypeOK, MsgType
  <2>4. \A n \in Msgs : n # cur[c] => msg'[n] = msg[n]
    BY <2>1, <2>2 DEF TypeOK
  <2>5. \A t : t = job[c].task => Queued(t)'
    BY <2>1, <2>3 DEF Queued
  <2>6. \A u : Queued(u) => Queued(u)'
    BY <2>1, <2>4 DEF Queued, Queues
  <2> QED
    BY <2>5, <2>6
<1> QED
  BY <1>1, <1>2

\* Where no task may be lost, no step makes a safe task unsafe.
LEMMA NextSafe ==
    ASSUME Shape, ~MayLose, [Next]_vars
    PROVE  SafeStays
<1> USE DEF Shape
<1>1. ASSUME NEW t \in Tasks, SubmitOk(t) PROVE SafeStays
  <2>1. Queued(t)' /\ \A u : Queued(u) => Queued(u)'
    BY <1>1, EnqueueQueued DEF SubmitOk, Queues
  <2> QED
    BY <1>1, <2>1 DEF SubmitOk, SafeStays, Safe, Carries, TypeOK
<1>2. ASSUME NEW t \in Tasks, SubmitError(t) PROVE SafeStays
  <2>1. \A u : Queued(u) => Queued(u)'
    <3>1. CASE Enqueue(t, "main", 0)
      BY <3>1, EnqueueQueued DEF Queues
    <3>2. CASE UNCHANGED msg
      BY <3>2 DEF Queued
    <3> QED
      BY <1>2, <3>1, <3>2 DEF SubmitError
  <2> QED
    BY <1>2, <2>1 DEF SubmitError, SafeStays, Safe, Carries, TypeOK
<1>3. ASSUME NEW m \in Msgs, RetryExpire(m) PROVE SafeStays
  <2>1. \A u : Queued(u) => Queued(u)'
    BY <1>3 DEF RetryExpire, Queued, TypeOK, MsgType, Queues
  <2> QED
    BY <1>3, <2>1 DEF RetryExpire, SafeStays, Safe, Carries
<1>4. ASSUME NEW c \in Consumers, NEW m \in Msgs, Deliver(c, m) PROVE SafeStays
  <2> SUFFICES ASSUME NEW t \in Tasks, Safe(t)
               PROVE  Safe(t)'
    BY <1>4 DEF Deliver, SafeStays
  <2>1. CASE t \in done
    BY <1>4, <2>1 DEF Deliver, Safe
  <2>2. CASE Queued(t)
    <3>1. PICK n \in Msgs : msg[n].at \in Queues /\ msg[n].task = t
      BY <2>2 DEF Queued
    <3>2. CASE n = m
      <4>1. Carries(c, t)'
        BY <1>4, <3>1, <3>2, TokensAssumption DEF Deliver, Goto, Carries, TypeOK, Actors
      <4> QED
        BY <4>1 DEF Safe, Actors
    <3>3. CASE n # m
      BY <1>4, <3>1, <3>3 DEF Deliver, Safe, Queued, TypeOK
    <3> QED
      BY <3>2, <3>3
  <2>3. ASSUME NEW d \in Actors, Carries(d, t) PROVE Carries(d, t)'
    <3>1. d # c
      BY <1>4, <2>3 DEF Deliver, Carries
    <3> QED
      BY <1>4, <2>3, <3>1 DEF Deliver, Goto, Carries, TypeOK
  <2> QED
    BY <2>1, <2>2, <2>3 DEF Safe
<1>5. ASSUME NEW c \in Consumers, HandlerOk(c) PROVE SafeStays
  <2> SUFFICES ASSUME NEW t \in Tasks, Safe(t)
               PROVE  Safe(t)'
    BY <1>5 DEF HandlerOk, SafeStays
  <2>1. CASE t \in done \/ t = job[c].task
    BY <1>5, <2>1 DEF HandlerOk, Safe
  <2>2. CASE Queued(t)
    BY <1>5, <2>2 DEF HandlerOk, Safe, Queued
  <2>3. ASSUME NEW d \in Actors, Carries(d, t), t # job[c].task PROVE Carries(d, t)'
    BY <1>5, <2>3 DEF HandlerOk, Goto, Carries, TypeOK
  <2> QED
    BY <2>1, <2>2, <2>3 DEF Safe
<1>6. ASSUME NEW c \in Consumers, NEW kind, HandlerFail(c, kind) PROVE SafeStays
  <2> SUFFICES ASSUME NEW t \in Tasks, Safe(t)
               PROVE  Safe(t)'
    BY <1>6 DEF HandlerFail, SafeStays
  <2>1. CASE t \in done
    BY <1>6, <2>1 DEF HandlerFail, Safe
  <2>2. CASE Queued(t)
    BY <1>6, <2>2 DEF HandlerFail, Safe, Queued
  <2>3. ASSUME NEW d \in Actors, Carries(d, t) PROVE Carries(d, t)'
    <3>1. CASE d # c
      BY <1>6, <2>3, <3>1 DEF HandlerFail, Aim, Goto, Carries, TypeOK
    <3>2. CASE d = c /\ c \in Workers
      BY <1>6, <2>3, <3>2 DEF HandlerFail, Aim, Goto, Carries, TypeOK, JobType
    <3>3. CASE d = c /\ c \notin Workers
      <4>1. "crash" \notin Faults
        BY <1>6, <3>3 DEF MayLose, Consumers
      <4> QED
        BY <1>6, <2>3, <3>3, <4>1 DEF HandlerFail, Goto, Carries, TypeOK
    <3> QED
      BY <3>1, <3>2, <3>3
  <2> QED
    BY <2>1, <2>2, <2>3 DEF Safe
<1>7. ASSUME NEW c \in Actors, Ack(c) PROVE SafeStays
  <2> SUFFICES ASSUME NEW t \in Tasks, Safe(t)
               PROVE  Safe(t)'
    BY <1>7 DEF Ack, SafeStays
  <2>1. CASE t \in done
    BY <1>7, <2>1 DEF Ack, Safe
  <2>2. CASE Queued(t)
    <3>1. PICK n \in Msgs : msg[n].at \in Queues /\ msg[n].task = t
      BY <2>2 DEF Queued
    <3>2. n # cur[c]
      <4> SUFFICES ASSUME n = cur[c] PROVE FALSE
        OBVIOUS
      <4>1. cur[c] # NoMsg
        BY <3>1, TokensAssumption
      <4> QED
        BY <1>7, <3>1, <4>1 DEF OwnOK, Queues
    <3>3. msg'[n] = msg[n]
      BY <1>7, <3>1, <3>2 DEF Ack, Acked, TypeOK
    <3> QED
      BY <3>1, <3>3 DEF Safe, Queued
  <2>3. ASSUME NEW d \in Actors, Carries(d, t) PROVE Carries(d, t)'
    <3>1. CASE d # c
      BY <1>7, <2>3, <3>1 DEF Ack, Acked, Aim, Goto, Carries, TypeOK
    <3>2. CASE d = c
      <4>1. pc[c] = "repubAck" /\ "crash" \notin Faults
        BY <1>7, <2>3, <3>2 DEF Ack, Carries
      <4> QED
        BY <1>7, <2>3, <3>2, <4>1 DEF Ack, Aim, Goto, Carries, TypeOK, JobType
    <3> QED
      BY <3>1, <3>2
  <2> QED
    BY <2>1, <2>2, <2>3 DEF Safe
<1>8. ASSUME NEW c \in Actors, AckFails(c) PROVE SafeStays
  <2>1. \A d \in Actors : \A t : Carries(d, t) => Carries(d, t)'
    BY <1>8 DEF AckFails, Goto, Carries, TypeOK
  <2> QED
    BY <1>8, <2>1 DEF AckFails, SafeStays, Safe, Queued
<1>9. ASSUME NEW c \in Actors, PublishOk(c) PROVE SafeStays
  <2>1. job[c].dest \in Queues /\ pc[c] \in Publishing
    BY <1>9 DEF PublishOk, JobOK, Publishing, Queues
  <2>2. ASSUME NEW t, t = job[c].task PROVE Queued(t)' /\ \A u : Queued(u) => Queued(u)'
    <3>1. Enqueue(t, job[c].dest, PublishedAtt(c))
      BY <1>9, <2>2 DEF PublishOk, StoreCopy
    <3> QED
      BY <2>1, <3>1, EnqueueQueued
  <2>3. \A d \in Actors : \A t : d # c /\ Carries(d, t) => Carries(d, t)'
    BY <1>9 DEF PublishOk, Goto, Carries, TypeOK
  <2>4. \A t : Carries(c, t) => t = job[c].task
    BY DEF Carries
  <2> QED
    BY <1>9, <2>2, <2>3, <2>4 DEF PublishOk, SafeStays, Safe
<1>10. ASSUME NEW c \in Actors, PublishError(c) PROVE SafeStays
  <2>1. job[c].dest \in Queues /\ pc[c] \in Publishing
    BY <1>10 DEF PublishError, JobOK, Publishing, Queues
  <2>2. StoreCopy(c)
    BY <1>10 DEF PublishError, MayLose
  <2>3. ASSUME NEW t, t = job[c].task PROVE Queued(t)' /\ \A u : Queued(u) => Queued(u)'
    <3>1. Enqueue(t, job[c].dest, PublishedAtt(c))
      BY <2>2, <2>3 DEF StoreCopy
    <3> QED
      BY <2>1, <3>1, EnqueueQueued
  <2>4. \A d \in Actors : \A t : d # c /\ Carries(d, t) => Carries(d, t)'
    BY <1>10 DEF PublishError, Goto, Carries, TypeOK
  <2>5. \A t : Carries(c, t) => t = job[c].task
    BY DEF Carries
  <2> QED
    BY <1>10, <2>3, <2>4, <2>5 DEF PublishError, SafeStays, Safe
<1>11. ASSUME NEW c \in Schedulers, SchedStart(c) PROVE SafeStays
  <2>1. \A d \in Actors : \A t : Carries(d, t) => Carries(d, t)'
    BY <1>11 DEF SchedStart, Goto, Carries, TypeOK
  <2> QED
    BY <1>11, <2>1 DEF SchedStart, SafeStays, Safe, Queued
<1>12. ASSUME NEW c \in Schedulers, NEW m \in Msgs, SchedGet(c, m) PROVE SafeStays
  <2> SUFFICES ASSUME NEW t \in Tasks, Safe(t)
               PROVE  Safe(t)'
    BY <1>12 DEF SchedGet, SafeStays
  <2>1. CASE t \in done
    BY <1>12, <2>1 DEF SchedGet, Safe
  <2>2. CASE Queued(t)
    <3>1. PICK n \in Msgs : msg[n].at \in Queues /\ msg[n].task = t
      BY <2>2 DEF Queued
    <3>2. CASE n = m
      <4>1. Carries(c, t)'
        BY <1>12, <3>1, <3>2, TokensAssumption DEF SchedGet, Goto, Carries, TypeOK, Actors
      <4> QED
        BY <4>1 DEF Safe, Actors
    <3>3. CASE n # m
      BY <1>12, <3>1, <3>3 DEF SchedGet, Safe, Queued, TypeOK
    <3> QED
      BY <3>2, <3>3
  <2>3. ASSUME NEW d \in Actors, Carries(d, t) PROVE Carries(d, t)'
    <3>1. d # c
      BY <1>12, <2>3 DEF SchedGet, Carries
    <3> QED
      BY <1>12, <2>3, <3>1 DEF SchedGet, Goto, Carries, TypeOK
  <2> QED
    BY <2>1, <2>2, <2>3 DEF Safe
<1>13. ASSUME NEW c \in Schedulers, SchedEnd(c) PROVE SafeStays
  <2>1. \A d \in Actors : \A t : Carries(d, t) => Carries(d, t)'
    BY <1>13 DEF SchedEnd, Goto, Carries, TypeOK
  <2> QED
    BY <1>13, <2>1 DEF SchedEnd, SafeStays, Safe, Queued
<1>14. ASSUME NEW c \in Actors, Crash(c) PROVE SafeStays
  <2>1. \A u : Queued(u) => Queued(u)'
    BY <1>14, RequeueQueued DEF Crash
  <2>2. \A d \in Actors : \A t : d # c /\ Carries(d, t) => Carries(d, t)'
    BY <1>14 DEF Crash, Requeued, Goto, Carries, TypeOK
  <2>3. \A t : Carries(c, t) => Queued(t)'
    BY <1>14, RequeueQueued DEF Crash, Carries
  <2> QED
    BY <1>14, <2>1, <2>2, <2>3 DEF Crash, SafeStays, Safe
<1>15. ASSUME NEW c \in Actors, Restart(c) PROVE SafeStays
  <2>1. \A d \in Actors : \A t : Carries(d, t) => Carries(d, t)'
    BY <1>15 DEF Restart, Goto, Carries, TypeOK
  <2> QED
    BY <1>15, <2>1 DEF Restart, SafeStays, Safe, Queued
<1>16. ASSUME NEW c \in Actors, ConnLost(c) PROVE SafeStays
  <2>1. \A u : Queued(u) => Queued(u)'
    BY <1>16, RequeueQueued DEF ConnLost
  <2>2. \A d \in Actors : \A t : d # c /\ Carries(d, t) => Carries(d, t)'
    BY <1>16 DEF ConnLost, Requeued, Carries, TypeOK
  <2>3. \A t : Carries(c, t) => Queued(t)'
    BY <1>16, RequeueQueued DEF ConnLost, Carries
  <2> QED
    BY <1>16, <2>1, <2>2, <2>3 DEF ConnLost, SafeStays, Safe
<1>17. CASE UNCHANGED vars
  BY <1>17 DEF vars, SafeStays, Safe, Queued, Carries
<1> QED
  BY <1>1, <1>2, <1>3, <1>4, <1>5, <1>6, <1>7, <1>8, <1>9, <1>10, <1>11, <1>12, <1>13, <1>14, <1>15, <1>16, <1>17
     DEF Next, ConsumerStep, SchedulerStep, Step, Consume, HandlerFails,
         TakeDeadLetter, Actors

-----------------------------------------------------------------------------
\* Traces of a task come from its submission only, and an actor can drop no
\* more than the last one of the task it has in hand.

Submits(t) == SubmitOk(t) \/ SubmitError(t)
ActorStep(c) ==
    \/ c \in Consumers /\ ConsumerStep(c)
    \/ c \in Schedulers /\ SchedulerStep(c)
    \/ Crash(c) \/ Restart(c) \/ ConnLost(c)

\* A slot that is free is empty.
FreeOK == \A m \in Msgs : msg[m].at = "free" => msg[m].task = NoTask

Whole == Shape /\ FreeOK

LEMMA NextIs ==
    [Next]_vars => \/ \E t \in Tasks : Submits(t)
                   \/ \E m \in Msgs : RetryExpire(m)
                   \/ \E c \in Actors : ActorStep(c)
                   \/ UNCHANGED vars
BY DEF Next, Submits, ActorStep, Actors

\* What an actor's step does to the slots.
LEMMA SlotSteps ==
    ASSUME Shape, NEW c \in Actors, ActorStep(c)
    PROVE  \/ UNCHANGED msg
           \/ pc[c] \in Publishing /\ StoreCopy(c)
           \/ \E m \in Msgs, q \in {"unacked"} \cup Queues :
                 msg[m].at # "free" /\ msg' = [msg EXCEPT ![m].at = q]
           \/ cur[c] # NoMsg /\ msg' = [msg EXCEPT ![cur[c]] = FreeSlot]
<1> USE DEF Shape
<1>1. CASE c \in Consumers /\ ConsumerStep(c)
  BY <1>1 DEF ConsumerStep, Consume, Deliver, HandlerOk, HandlerFails, HandlerFail, Step,
              PublishOk, PublishError, Publishing, Ack, Acked, AckFails
<1>2. CASE c \in Schedulers /\ SchedulerStep(c)
  BY <1>2 DEF SchedulerStep, SchedStart, TakeDeadLetter, SchedGet, SchedEnd, Step,
              PublishOk, PublishError, Publishing, Ack, Acked, AckFails
<1>3. CASE Crash(c) \/ ConnLost(c)
  <2>1. CASE cur[c] = NoMsg
    BY <1>3, <2>1 DEF Crash, ConnLost, Requeued
  <2>2. CASE cur[c] # NoMsg
    <3>1. cur[c] \in Msgs /\ msg[cur[c]].at # "free"
      BY <2>2 DEF OwnOK
    <3>2. msg' = [msg EXCEPT ![cur[c]].at = Home(c)] /\ Home(c) \in Queues
      BY <1>3, <2>2 DEF Crash, ConnLost, Requeued, Home, Queues
    <3> QED
      BY <3>1, <3>2
  <2> QED
    BY <2>1, <2>2
<1>4. CASE Restart(c)
  BY <1>4 DEF Restart
<1> QED
  BY <1>1, <1>2, <1>3, <1>4 DEF ActorStep

\* Storing a message fills an empty slot.
LEMMA EnqueueTraces ==
    ASSUME Whole, NEW t \in Tasks, NEW q \in Queues, NEW a, Enqueue(t, q, a)
    PROVE  /\ FreeOK'
           /\ \E m \in Msgs : msg'[m].task = t
           /\ \A m \in Msgs : msg'[m].task \in {msg[m].task, t}
           /\ \A m \in Msgs : msg[m].task \in Tasks => msg'[m].task = msg[m].task
<1>1. PICK m \in Msgs :
         /\ msg[m].at = "free"
         /\ msg' = [msg EXCEPT ![m] = [at |-> q, task |-> t, att |-> a]]
  BY EnqueueFills DEF Whole, Shape
<1>2. \A n \in Msgs : msg'[n] = IF n = m THEN [at |-> q, task |-> t, att |-> a] ELSE msg[n]
  BY <1>1 DEF Whole, Shape, TypeOK
<1> QED
  BY <1>1, <1>2, TokensAssumption DEF Whole, FreeOK, Queues

\* The tasks in the slots after an actor's step.
LEMMA SlotTraces ==
    ASSUME Whole, NEW c \in Actors, ActorStep(c)
    PROVE  /\ FreeOK'
           /\ \A m \in Msgs : \/ msg'[m].task \in {msg[m].task, NoTask}
                              \/ pc[c] \in Publishing /\ msg'[m].task = job[c].task
           /\ \A m \in Msgs : msg[m].task \in Tasks =>
                 msg'[m].task = msg[m].task \/ msg[m].task = job[c].task
<1> USE DEF Whole
<1>1. CASE UNCHANGED msg
  BY <1>1 DEF FreeOK
<1>2. CASE pc[c] \in Publishing /\ StoreCopy(c)
  <2>1. job[c].task \in Tasks /\ job[c].dest \in Queues
    BY <1>2 DEF Shape, JobOK, Queues
  <2> QED
    BY <1>2, <2>1, EnqueueTraces DEF StoreCopy
<1>3. ASSUME NEW m \in Msgs, NEW q \in {"unacked"} \cup Queues,
             msg[m].at # "free" /\ msg' = [msg EXCEPT ![m].at = q]
      PROVE  \A n \in Msgs : /\ msg'[n].task = msg[n].task
                             /\ msg'[n].at = "free" => msg[n].at = "free"
  BY <1>3 DEF Shape, TypeOK, MsgType, Queues
<1>4. CASE cur[c] # NoMsg /\ msg' = [msg EXCEPT ![cur[c]] = FreeSlot]
  <2>1. cur[c] \in Msgs /\ msg[cur[c]].task = job[c].task
    BY <1>4 DEF Shape, OwnOK
  <2>2. \A n \in Msgs : msg'[n] = IF n = cur[c] THEN FreeSlot ELSE msg[n]
    BY <1>4 DEF Shape, TypeOK
  <2> QED
    BY <2>1, <2>2 DEF FreeOK, FreeSlot
<1> QED
  BY <1>1, <1>2, <1>3, <1>4, SlotSteps DEF FreeOK

\* What an actor's step does to what the actors have in hand.
LEMMA HandTraces ==
    ASSUME Whole, NEW c \in Actors, ActorStep(c), NEW u \in Tasks
    PROVE  /\ \A d \in Actors : d # c => (Holds(d, u)' <=> Holds(d, u))
           /\ Holds(c, u)' => Holds(c, u) \/ \E m \in Msgs : msg[m].task = u
<1> USE DEF Whole, Shape
<1>1. \E l, j : /\ pc' = [pc EXCEPT ![c] = l] \/ UNCHANGED pc
                /\ job' = [job EXCEPT ![c] = j] \/ UNCHANGED job
  BY DEF ActorStep, ConsumerStep, Consume, Deliver, HandlerOk, HandlerFails, HandlerFail, Step,
         PublishOk, PublishError, Ack, AckFails, SchedulerStep, SchedStart, TakeDeadLetter,
         SchedGet, SchedEnd, Crash, Restart, ConnLost, Goto, Aim
<1>2. \A d \in Actors : d # c => (Holds(d, u)' <=> Holds(d, u))
  BY <1>1 DEF TypeOK, Holds
<1>3. Holds(c, u)' => Holds(c, u) \/ \E m \in Msgs : msg[m].task = u
  <2> SUFFICES ASSUME Holds(c, u)' PROVE Holds(c, u) \/ \E m \in Msgs : msg[m].task = u
    OBVIOUS
  <2>1. CASE c \in Consumers /\ ConsumerStep(c)
    <3>1. CASE Consume(c)
      BY <3>1 DEF Consume, Deliver, Goto, TypeOK, Holds
    <3>2. CASE HandlerOk(c)
      BY <3>2 DEF HandlerOk, Goto, TypeOK, Holds, Publishing
    <3>3. CASE HandlerFails(c)
      BY <3>3 DEF HandlerFails, HandlerFail, Aim, Goto, TypeOK, Holds, Publishing
    <3>4. CASE Ack(c)
      BY <3>4 DEF Ack, Aim, Goto, TypeOK, Holds, Publishing
    <3>5. CASE AckFails(c)
      BY <3>5 DEF AckFails, Goto, TypeOK, Holds, Publishing
    <3>6. CASE PublishOk(c)
      BY <3>6 DEF PublishOk, Goto, TypeOK, Holds, Publishing
    <3>7. CASE PublishError(c)
      BY <3>7 DEF PublishError, Goto, TypeOK, Holds, Publishing, JobType
    <3> QED
      BY <2>1, <3>1, <3>2, <3>3, <3>4, <3>5, <3>6, <3>7 DEF ConsumerStep, Step
  <2>2. CASE c \in Schedulers /\ SchedulerStep(c)
    <3>1. CASE TakeDeadLetter(c)
      BY <3>1 DEF TakeDeadLetter, SchedGet, Goto, TypeOK, Holds
    <3>2. CASE SchedStart(c) \/ SchedEnd(c)
      BY <3>2 DEF SchedStart, SchedEnd, Goto, TypeOK, Holds, Publishing
    <3>3. CASE Ack(c)
      BY <3>3 DEF Ack, Aim, Goto, TypeOK, Holds, Publishing
    <3>4. CASE AckFails(c)
      BY <3>4 DEF AckFails, Goto, TypeOK, Holds, Publishing
    <3>5. CASE PublishOk(c)
      BY <3>5 DEF PublishOk, Goto, TypeOK, Holds, Publishing
    <3>6. CASE PublishError(c)
      BY <3>6 DEF PublishError, Goto, TypeOK, Holds, Publishing, JobType
    <3> QED
      BY <2>2, <3>1, <3>2, <3>3, <3>4, <3>5, <3>6 DEF SchedulerStep, Step
  <2>3. CASE Crash(c) \/ Restart(c)
    BY <2>3 DEF Crash, Restart, Goto, TypeOK, Holds, Publishing
  <2>4. CASE ConnLost(c)
    BY <2>4 DEF ConnLost, Holds
  <2> QED
    BY <2>1, <2>2, <2>3, <2>4 DEF ActorStep
<1> QED
  BY <1>2, <1>3

LEMMA ActorTraces ==
    ASSUME Whole, NEW c \in Actors, ActorStep(c), NEW u \in Tasks
    PROVE  /\ InSystem(u)' => InSystem(u)
           /\ InSystem(u) /\ u # job[c].task => InSystem(u)'
<1>1. ASSUME InSystem(u)' PROVE InSystem(u)
  <2>1. CASE \E m \in Msgs : msg'[m].task = u
    <3>1. PICK m \in Msgs : msg'[m].task = u
      BY <2>1
    <3>2. \/ msg'[m].task = msg[m].task
          \/ msg'[m].task = NoTask
          \/ pc[c] \in Publishing /\ msg'[m].task = job[c].task
      <4>1. \A n \in Msgs : \/ msg'[n].task \in {msg[n].task, NoTask}
                            \/ pc[c] \in Publishing /\ msg'[n].task = job[c].task
        BY SlotTraces
      <4> QED
        BY <4>1
    <3> QED
      BY <3>1, <3>2, TokensAssumption DEF InSystem, Holds
  <2>2. ASSUME NEW d \in Actors, Holds(d, u)' PROVE InSystem(u)
    BY <2>2, HandTraces DEF InSystem
  <2> QED
    BY <1>1, <2>1, <2>2 DEF InSystem
<1>2. ASSUME InSystem(u), u # job[c].task PROVE InSystem(u)'
  <2>1. ASSUME NEW m \in Msgs, msg[m].task = u PROVE InSystem(u)'
    <3>1. msg'[m].task = u
      BY <1>2, <2>1, SlotTraces
    <3> QED
      BY <3>1 DEF InSystem
  <2>2. ASSUME NEW d \in Actors, Holds(d, u) PROVE InSystem(u)'
    <3>1. d # c
      BY <1>2, <2>2 DEF Holds
    <3> QED
      BY <2>2, <3>1, HandTraces DEF InSystem
  <2> QED
    BY <1>2, <2>1, <2>2 DEF InSystem
<1> QED
  BY <1>1, <1>2

LEMMA SubmitTraces ==
    ASSUME Whole, NEW t \in Tasks, Submits(t)
    PROVE  /\ FreeOK'
           /\ \/ UNCHANGED msg
              \/ InSystem(t)' /\ Queued(t)'
           /\ \A u \in Tasks \ {t} : InSystem(u)' <=> InSystem(u)
           /\ InSystem(t) => InSystem(t)'
           /\ UNCHANGED done
<1>1. UNCHANGED <<done, pc, job>> /\ (UNCHANGED msg \/ Enqueue(t, "main", 0))
  BY DEF Submits, SubmitOk, SubmitError
<1>2. CASE UNCHANGED msg
  BY <1>1, <1>2 DEF Whole, FreeOK, InSystem, Holds
<1>3. CASE Enqueue(t, "main", 0)
  <2>1. /\ FreeOK'
        /\ \E m \in Msgs : msg'[m].task = t
        /\ \A m \in Msgs : msg'[m].task \in {msg[m].task, t}
        /\ \A m \in Msgs : msg[m].task \in Tasks => msg'[m].task = msg[m].task
        /\ Queued(t)'
    BY <1>3, EnqueueTraces, EnqueueQueued DEF Queues, Whole, Shape
  <2>2. \A d \in Actors : \A u : Holds(d, u)' <=> Holds(d, u)
    BY <1>1 DEF Holds
  <2> QED
    BY <1>1, <2>1, <2>2 DEF InSystem
<1> QED
  BY <1>1, <1>2, <1>3

-----------------------------------------------------------------------------
\* The invariant: shape, empty free slots, and, where nothing may be lost,
\* every trace being more than one that is about to go.

IInv == Whole /\ (~MayLose => TracesSafe)

LEMMA InitIInv == Init => IInv
<1> SUFFICES ASSUME Init PROVE IInv
  OBVIOUS
<1>1. FreeOK
  BY DEF Init, FreeOK, FreeSlot
<1>2. TracesSafe
  BY TokensAssumption DEF Init, TracesSafe, InSystem, Holds, FreeSlot, NoJob
<1> QED
  BY <1>1, <1>2, InitShape DEF IInv, Whole

LEMMA NextFree ==
    ASSUME Whole, [Next]_vars
    PROVE  FreeOK'
<1>1. ASSUME NEW t \in Tasks, Submits(t) PROVE FreeOK'
  BY <1>1, SubmitTraces
<1>2. ASSUME NEW m \in Msgs, RetryExpire(m) PROVE FreeOK'
  BY <1>2 DEF RetryExpire, Whole, FreeOK, Shape, TypeOK, MsgType
<1>3. ASSUME NEW c \in Actors, ActorStep(c) PROVE FreeOK'
  BY <1>3, SlotTraces
<1>4. CASE UNCHANGED vars
  BY <1>4 DEF vars, Whole, FreeOK
<1> QED
  BY <1>1, <1>2, <1>3, <1>4, NextIs

\* A submitted task is queued; other traces were there before.
LEMMA NewTraces ==
    ASSUME Whole, [Next]_vars, NEW t \in Tasks,
           InSystem(t)' \/ client'[t] = "ok"
    PROVE  InSystem(t) \/ client[t] = "ok" \/ Queued(t)'
<1>1. ASSUME NEW u \in Tasks, Submits(u) PROVE InSystem(t) \/ client[t] = "ok" \/ Queued(t)'
  <2>1. CASE t # u
    <3>1. client'[t] = client[t]
      BY <1>1, <2>1 DEF Submits, SubmitOk, SubmitError, Whole, Shape, TypeOK
    <3> QED
      BY <1>1, <2>1, <3>1, SubmitTraces
  <2>2. CASE t = u /\ UNCHANGED msg
    <3>1. ~SubmitOk(u)
      <4>1. SubmitOk(u) => Queued(u)' /\ \E m \in Msgs : msg'[m] # msg[m]
        <5> SUFFICES ASSUME SubmitOk(u)
                     PROVE  Queued(u)' /\ \E m \in Msgs : msg'[m] # msg[m]
          OBVIOUS
        <5>1. Enqueue(u, "main", 0)
          BY DEF SubmitOk
        <5>2. PICK m \in Msgs :
                 /\ msg[m].at = "free"
                 /\ msg' = [msg EXCEPT ![m] = [at |-> "main", task |-> u, att |-> 0]]
          BY <5>1, EnqueueFills DEF Whole, Shape
        <5>3. msg'[m].at = "main"
          BY <5>2 DEF Whole, Shape, TypeOK
        <5> QED
          BY <5>1, <5>2, <5>3, EnqueueQueued DEF Whole, Shape, Queues
      <4> QED
        BY <2>2, <4>1
    <3>2. SubmitError(u)
      BY <1>1, <3>1 DEF Submits
    <3>3. client'[t] # "ok"
      BY <2>2, <3>2 DEF SubmitError, Whole, Shape, TypeOK
    <3>4. InSystem(t)'
      BY <3>3
    <3>5. InSystem(t)
      BY <2>2, <3>2, <3>4 DEF SubmitError, InSystem, Holds
    <3> QED
      BY <3>5
  <2> QED
    BY <1>1, <2>1, <2>2, SubmitTraces
<1>2. ASSUME NEW m \in Msgs, RetryExpire(m) PROVE InSystem(t) \/ client[t] = "ok"
  BY <1>2 DEF RetryExpire, InSystem, Holds, Whole, Shape, TypeOK, MsgType
<1>3. ASSUME NEW c \in Actors, ActorStep(c) PROVE InSystem(t) \/ client[t] = "ok"
  <2>1. client' = client
    BY <1>3 DEF ActorStep, ConsumerStep, Consume, Deliver, HandlerOk, HandlerFails, HandlerFail,
                Step, PublishOk, PublishError, Ack, AckFails, SchedulerStep, SchedStart,
                TakeDeadLetter, SchedGet, SchedEnd, Crash, Restart, ConnLost
  <2> QED
    BY <1>3, <2>1, ActorTraces
<1>4. CASE UNCHANGED vars
  BY <1>4 DEF vars, InSystem, Holds
<1> QED
  BY <1>1, <1>2, <1>3, <1>4, NextIs

LEMMA NextIInv == IInv /\ [Next]_vars => IInv'
<1> SUFFICES ASSUME IInv, [Next]_vars PROVE IInv'
  OBVIOUS
<1>1. Whole'
  BY NextType, NextJob, NextSlot, NextOwn, NextFree DEF IInv, Whole, Shape
<1>2. ASSUME ~MayLose PROVE TracesSafe'
  <2> SUFFICES ASSUME NEW t \in Tasks, InSystem(t)' \/ client'[t] = "ok"
               PROVE  Safe(t)'
    BY DEF TracesSafe
  <2>1. Safe(t) => Safe(t)'
    BY <1>2, NextSafe DEF SafeStays, IInv, Whole
  <2>2. InSystem(t) \/ client[t] = "ok" => Safe(t)
    BY <1>2 DEF IInv, TracesSafe
  <2>3. InSystem(t) \/ client[t] = "ok" \/ Queued(t)'
    BY NewTraces DEF IInv
  <2> QED
    BY <2>1, <2>2, <2>3 DEF Safe
<1>3. MayLose' = MayLose
  BY DEF MayLose
<1> QED
  BY <1>1, <1>2, <1>3 DEF IInv

LEMMA SafeInSystem ==
    ASSUME NEW t \in Tasks, Safe(t)
    PROVE  t \in done \/ InSystem(t)
<1>1. Queued(t) => InSystem(t)
  BY DEF Queued, InSystem
<1>2. \A c \in Actors : Carries(c, t) => InSystem(t)
  BY DEF Carries, InSystem, Holds, Publishing
<1> QED
  BY <1>1, <1>2 DEF Safe

LEMMA Kept == Spec => []IInv
BY InitIInv, NextIInv, PTL DEF Spec

\* No accepted task is lost by a deployment whose publishes are not refused
\* and whose crashes hit only workers and schedulers, whatever the number of
\* processes, messages and attempts.
THEOREM NothingLost == Spec => []NoLoss
<1>1. IInv => NoLoss
  BY SafeInSystem DEF IInv, TracesSafe, NoLoss, NotVanished
<1> QED
  BY <1>1, Kept, PTL

-----------------------------------------------------------------------------
\* The refinement of TaskDelivery. Told and Life are what Promise puts for the
\* variables told and life.

Answer(t) == IF client[t] \in {"ok", "error"} THEN client[t] ELSE "none"
State(t) == IF t \in done THEN "done" ELSE IF InSystem(t) THEN "pending" ELSE "absent"
Told == [t \in Tasks |-> Answer(t)]
Life == [t \in Tasks |-> State(t)]

LEMMA MappedInit == Init => Promise!Init
<1> SUFFICES ASSUME Init PROVE Promise!Init
  OBVIOUS
<1>1. \A t \in Tasks : t \notin done /\ ~InSystem(t) /\ client[t] = "new"
  BY TokensAssumption DEF Init, InSystem, Holds, FreeSlot, NoJob
<1> QED
  BY <1>1 DEF Promise!Init

\* A step at most one of whose tasks changes its state or its answer.
LEMMA OneChange ==
    ASSUME NEW t \in Tasks,
           \A u \in Tasks \ {t} : Answer(u)' = Answer(u) /\ State(u)' = State(u)
    PROVE  /\ Told' = [Told EXCEPT ![t] = Answer(t)']
           /\ Life' = [Life EXCEPT ![t] = State(t)']
BY DEF Told, Life

LEMMA MappedSubmit ==
    ASSUME IInv, NEW t \in Tasks, Submits(t)
    PROVE  Promise!Next
<1>1. \A u \in Tasks \ {t} : Answer(u)' = Answer(u) /\ State(u)' = State(u)
  BY SubmitTraces DEF IInv, Whole, Shape, TypeOK, Submits, SubmitOk, SubmitError, Answer, State
<1>2. /\ Told' = [Told EXCEPT ![t] = Answer(t)']
      /\ Life' = [Life EXCEPT ![t] = State(t)']
  BY <1>1, OneChange
<1>3. Told[t] = "none" /\ Life[t] = State(t)
  BY DEF Told, Life, Answer, Submits, SubmitOk, SubmitError
<1>4. /\ done' = done /\ client[t] \in {"new", "again"}
      /\ InSystem(t) => InSystem(t)'
  BY SubmitTraces DEF IInv, Submits, SubmitOk, SubmitError
<1>5. CASE SubmitOk(t)
  <2>1. InSystem(t)'
    <3>1. Queued(t)'
      BY <1>5, EnqueueQueued DEF SubmitOk, IInv, Whole, Shape, Queues
    <3> QED
      BY <3>1 DEF Queued, InSystem
  <2>2. Answer(t)' = "ok"
    BY <1>5 DEF SubmitOk, Answer, IInv, Whole, Shape, TypeOK
  <2>3. State(t)' = IF State(t) = "done" THEN "done" ELSE "pending"
    BY <1>4, <2>1 DEF State
  <2>4. Told' = [Told EXCEPT ![t] = "ok"]
    BY <1>2, <2>2
  <2>5. Life' = [Life EXCEPT ![t] = IF @ = "done" THEN "done" ELSE "pending"]
    BY <1>2, <1>3, <2>3
  <2>6. Promise!Accept(t)
    BY <1>3, <2>4, <2>5 DEF Promise!Accept, Told, Life, Answer, State
  <2> QED
    BY <2>6 DEF Promise!Next
<1>6. CASE SubmitError(t)
  <2>1. Answer(t)' = "none" \/ Answer(t)' = "error"
    BY <1>4, <1>6 DEF SubmitError, Answer, IInv, Whole, Shape, TypeOK
  <2>2. Told' = Told \/ Told' = [Told EXCEPT ![t] = "error"]
    <3>1. Told = [Told EXCEPT ![t] = "none"]
      BY <1>3 DEF Told
    <3> QED
      BY <1>2, <2>1, <3>1
  <2>3. State(t)' = State(t) \/ (State(t) = "absent" /\ State(t)' = "pending")
    BY <1>4 DEF State
  <2>4. Life' = Life \/ (Life[t] = "absent" /\ Life' = [Life EXCEPT ![t] = "pending"])
    <3>1. Life = [Life EXCEPT ![t] = State(t)]
      BY DEF Life
    <3> QED
      BY <1>2, <1>3, <2>3, <3>1
  <2>5. Promise!Doubt(t)
    BY <1>3, <2>2, <2>4 DEF Promise!Doubt, Told, Life, Answer, State
  <2> QED
    BY <2>5 DEF Promise!Next
<1> QED
  BY <1>5, <1>6 DEF Submits

\* A handler's effect completes its task; the task was pending.
LEMMA MappedEffect ==
    ASSUME IInv, NEW c \in Actors, ActorStep(c), done' # done
    PROVE  Promise!Next
<1>1. /\ pc[c] = "handling" /\ done' = done \cup {job[c].task}
      /\ UNCHANGED <<client, msg>>
  BY DEF ActorStep, ConsumerStep, Consume, Deliver, HandlerOk, HandlerFails, HandlerFail, Step,
         PublishOk, PublishError, Ack, AckFails, SchedulerStep, SchedStart, TakeDeadLetter,
         SchedGet, SchedEnd, Crash, Restart, ConnLost
<1>2. PICK t \in Tasks : t = job[c].task /\ t \notin done /\ InSystem(t)
  BY <1>1 DEF IInv, Whole, Shape, JobOK, InSystem, Holds
<1>3. ASSUME NEW u \in Tasks \ {t} PROVE Answer(u)' = Answer(u) /\ State(u)' = State(u)
  <2>1. InSystem(u)' <=> InSystem(u)
    BY <1>2, ActorTraces DEF IInv
  <2> QED
    BY <1>1, <1>2, <2>1 DEF Answer, State
<1>4. /\ Told' = [Told EXCEPT ![t] = Answer(t)']
      /\ Life' = [Life EXCEPT ![t] = State(t)']
  BY <1>3, OneChange
<1>5. Told' = Told
  BY <1>1 DEF Told, Answer
<1>6. Life[t] = "pending" /\ Life' = [Life EXCEPT ![t] = "done"]
  <2>1. State(t)' = "done" /\ State(t) = "pending"
    BY <1>1, <1>2 DEF State
  <2> QED
    BY <1>4, <2>1 DEF Life
<1>7. Promise!Complete(t)
  BY <1>5, <1>6 DEF Promise!Complete, Told, Life, Answer, State
<1> QED
  BY <1>7 DEF Promise!Next

\* Any other step of an actor changes nothing, or drops the last trace of a
\* task not done, which only a losing fault allows.
LEMMA MappedActor ==
    ASSUME IInv, [Next]_vars, NEW c \in Actors, ActorStep(c), done' = done
    PROVE  [Promise!Next]_(Promise!vars)
<1>1. client' = client
  BY DEF ActorStep, ConsumerStep, Consume, Deliver, HandlerOk, HandlerFails, HandlerFail,
         Step, PublishOk, PublishError, Ack, AckFails, SchedulerStep, SchedStart,
         TakeDeadLetter, SchedGet, SchedEnd, Crash, Restart, ConnLost
<1>2. Told' = Told
  BY <1>1 DEF Told, Answer
<1>3. CASE \A u \in Tasks : State(u)' = State(u)
  <2>1. Life' = Life
    BY <1>3 DEF Life
  <2> QED
    BY <1>2, <2>1 DEF Promise!vars, Told, Life, Answer, State
<1>4. ASSUME NEW t \in Tasks, State(t)' # State(t) PROVE Promise!Next
  <2>1. /\ t \notin done /\ InSystem(t) /\ ~InSystem(t)'
        /\ t = job[c].task
    BY <1>4, ActorTraces DEF IInv, State
  <2>2. ASSUME NEW u \in Tasks \ {t} PROVE Answer(u)' = Answer(u) /\ State(u)' = State(u)
    <3>1. InSystem(u)' <=> InSystem(u)
      BY <2>1, ActorTraces DEF IInv
    <3> QED
      BY <1>1, <3>1 DEF Answer, State
  <2>3. Life[t] = "pending" /\ Life' = [Life EXCEPT ![t] = "absent"]
    <3>1. State(t)' = "absent" /\ State(t) = "pending"
      BY <2>1 DEF State
    <3> QED
      BY <2>2, <3>1, OneChange DEF Life
  <2>4. MayLose
    <3> SUFFICES ASSUME ~MayLose PROVE FALSE
      OBVIOUS
    <3>1. Safe(t)
      BY <2>1 DEF IInv, TracesSafe
    <3>2. Safe(t)'
      BY <3>1, NextSafe DEF SafeStays, IInv, Whole
    <3>3. (t \in done \/ InSystem(t))'
      <4>1. Queued(t)' => InSystem(t)'
        BY DEF Queued, InSystem
      <4>2. \A d \in Actors : Carries(d, t)' => InSystem(t)'
        BY DEF Carries, InSystem, Holds, Publishing
      <4> QED
        BY <3>2, <4>1, <4>2 DEF Safe
    <3> QED
      BY <2>1, <3>3
  <2>5. Promise!Lose(t)
    BY <1>2, <2>3, <2>4 DEF Promise!Lose, Told, Life, Answer, State
  <2> QED
    BY <2>5 DEF Promise!Next
<1> QED
  BY <1>3, <1>4

LEMMA MappedStep ==
    IInv /\ [Next]_vars => [Promise!Next]_(Promise!vars)
<1> SUFFICES ASSUME IInv, [Next]_vars PROVE [Promise!Next]_(Promise!vars)
  OBVIOUS
<1>1. ASSUME NEW t \in Tasks, Submits(t) PROVE Promise!Next
  BY <1>1, MappedSubmit
<1>2. ASSUME NEW c \in Actors, ActorStep(c) PROVE [Promise!Next]_(Promise!vars)
  BY <1>2, MappedEffect, MappedActor
<1>3. ASSUME UNCHANGED <<client, done>>, \A t \in Tasks : InSystem(t)' <=> InSystem(t)
      PROVE  UNCHANGED Promise!vars
  BY <1>3 DEF Promise!vars
<1>4. ASSUME NEW m \in Msgs, RetryExpire(m) PROVE UNCHANGED Promise!vars
  <2>1. \A n \in Msgs : msg'[n].task = msg[n].task
    BY <1>4 DEF RetryExpire, IInv, Whole, Shape, TypeOK, MsgType
  <2>2. \A t \in Tasks : InSystem(t)' <=> InSystem(t)
    BY <1>4, <2>1 DEF RetryExpire, InSystem, Holds
  <2> QED
    BY <1>3, <1>4, <2>2 DEF RetryExpire
<1>5. CASE UNCHANGED vars
  <2>1. \A t \in Tasks : InSystem(t)' <=> InSystem(t)
    BY <1>5 DEF vars, InSystem, Holds
  <2> QED
    BY <1>3, <1>5, <2>1 DEF vars
<1> QED
  BY <1>1, <1>2, <1>4, <1>5, NextIs

\* TaskQueue implements TaskDelivery: what publish_task told its caller holds,
\* and only a deployment that may lose tasks loses one, whatever the queues,
\* budgets, consumers and faults.
THEOREM PromiseKept == Spec => KeepsPromise
BY MappedInit, MappedStep, Kept, PTL DEF Spec, KeepsPromise, Promise!Spec

-----------------------------------------------------------------------------
(***************************************************************************)
(* Exactly once. Where no fault duplicates, the copy of a task that is yet *)
(* to be acted upon passes from slot to slot and, in _republish, through   *)
(* the memory of one actor, and is gone with the handler that succeeds.    *)
(* An actor keeps its delivery until it acknowledges it.                   *)
(***************************************************************************)

Spent == {"acking", "finAck", "finAckErr"}

CopyOf(m, t) == msg[m].task = t /\ \A c \in Actors : cur[c] = m => pc[c] \notin Spent
InHand(c, t) == pc[c] = "republishing" /\ job[c].task = t

\* Obligations(t), a slot told from an actor.
Duties(t) ==
    {<<"msg", m>> : m \in {n \in Msgs : CopyOf(n, t)}}
    \cup {<<"actor", c>> : c \in {d \in Actors : InHand(d, t)}}

Engaged ==
    \A c \in Actors :
        pc[c] \in {"handling", "publishing", "repubAck", "requeueing"} \cup Spent
            => cur[c] # NoMsg

OneDuty(t) ==
    /\ \A x, y \in Duties(t) : x = y
    /\ t \in done => Duties(t) = {}
    /\ client[t] \in {"new", "again"} => t \notin done /\ Duties(t) = {}

Single == Engaged /\ \A t \in Tasks : OneDuty(t)

LEMMA InitSingle == Init => Single
<1> SUFFICES ASSUME Init PROVE Single
  OBVIOUS
<1>1. Engaged
  BY DEF Init, Engaged, Spent
<1>2. ASSUME NEW t \in Tasks PROVE Duties(t) = {} /\ t \notin done
  <2>1. \A m \in Msgs : ~CopyOf(m, t)
    BY TokensAssumption DEF Init, CopyOf, FreeSlot
  <2>2. \A c \in Actors : ~InHand(c, t)
    BY DEF Init, InHand
  <2> QED
    BY <2>1, <2>2 DEF Duties, Init
<1> QED
  BY <1>1, <1>2 DEF Single, OneDuty

\* Nothing comes to be carried that was not.
LEMMA FewerDuties ==
    ASSUME NEW t, \A m \in Msgs : CopyOf(m, t)' => CopyOf(m, t),
           \A c \in Actors : InHand(c, t)' => InHand(c, t)
    PROVE  Duties(t)' \subseteq Duties(t)
BY DEF Duties

\* A new message in slot k is the only copy, if those before it are gone.
LEMMA OnlyCopy ==
    ASSUME NEW t, NEW k, \A m \in Msgs : CopyOf(m, t)' => m = k,
           \A c \in Actors : ~InHand(c, t)'
    PROVE  Duties(t)' \subseteq {<<"msg", k>>}
BY DEF Duties

\* A slot holding a copy and an actor with a payload in hand are duties, and
\* no other slot or actor has one beside them.
LEMMA DutyOfSlot ==
    ASSUME NEW t \in Tasks, Single, NEW m \in Msgs, CopyOf(m, t)
    PROVE  /\ Duties(t) # {}
           /\ \A n \in Msgs : CopyOf(n, t) => n = m
           /\ \A c \in Actors : ~InHand(c, t)
<1>1. <<"msg", m>> \in Duties(t)
  BY DEF Duties
<1>2. \A x \in Duties(t) : x = <<"msg", m>>
  BY <1>1 DEF Single, OneDuty
<1>3. \A n \in Msgs : CopyOf(n, t) => <<"msg", n>> \in Duties(t)
  BY DEF Duties
<1>4. \A c \in Actors : InHand(c, t) => <<"actor", c>> \in Duties(t)
  BY DEF Duties
<1>5. \A c \in Actors : <<"actor", c>> # <<"msg", m>>
  OBVIOUS
<1> QED
  BY <1>1, <1>2, <1>3, <1>4, <1>5

LEMMA DutyOfActor ==
    ASSUME NEW t \in Tasks, Single, NEW c \in Actors, InHand(c, t)
    PROVE  /\ Duties(t) # {}
           /\ \A m \in Msgs : ~CopyOf(m, t)
           /\ \A d \in Actors : InHand(d, t) => d = c
<1>1. <<"actor", c>> \in Duties(t)
  BY DEF Duties
<1>2. \A x \in Duties(t) : x = <<"actor", c>>
  BY <1>1 DEF Single, OneDuty
<1>3. \A n \in Msgs : CopyOf(n, t) => <<"msg", n>> \in Duties(t)
  BY DEF Duties
<1>4. \A d \in Actors : InHand(d, t) => <<"actor", d>> \in Duties(t)
  BY DEF Duties
<1>5. \A m \in Msgs : <<"actor", c>> # <<"msg", m>>
  OBVIOUS
<1> QED
  BY <1>1, <1>2, <1>3, <1>4, <1>5

LEMMA NoDuty ==
    ASSUME NEW t, Duties(t) = {}
    PROVE  (\A m \in Msgs : ~CopyOf(m, t)) /\ \A c \in Actors : ~InHand(c, t)
BY DEF Duties

\* A delivery somebody is at work on is the copy of its task.
LEMMA CopyAtWork ==
    ASSUME Shape, NEW c \in Actors, cur[c] # NoMsg, pc[c] \notin Spent
    PROVE  cur[c] \in Msgs /\ CopyOf(cur[c], job[c].task)
BY DEF Shape, OwnOK, CopyOf

Others(c) == \A d \in Actors : d # c => UNCHANGED <<pc[d], cur[d], job[d]>>

\* An actor that stores nothing, and gives up a delivery only with its
\* message, makes no new duty.
LEMMA QuietStep ==
    ASSUME NEW c \in Actors, Others(c),
           \A m \in Msgs : msg'[m].task \in {msg[m].task, NoTask},
           cur[c] # NoMsg /\ pc[c] \in Spent => msg'[cur[c]].task = NoTask,
           pc'[c] = "republishing" => pc[c] = "republishing" /\ job'[c].task = job[c].task
    PROVE  \A u \in Tasks : Duties(u)' \subseteq Duties(u)
<1> SUFFICES ASSUME NEW u \in Tasks PROVE Duties(u)' \subseteq Duties(u)
  OBVIOUS
<1>1. ASSUME NEW m \in Msgs, CopyOf(m, u)' PROVE CopyOf(m, u)
  <2>1. msg[m].task = u /\ msg'[m].task = u
    BY <1>1, TokensAssumption DEF CopyOf
  <2>2. ASSUME NEW d \in Actors, cur[d] = m PROVE pc[d] \notin Spent
    <3>1. CASE d = c
      BY <2>1, <2>2, <3>1, TokensAssumption
    <3>2. CASE d # c
      BY <1>1, <2>2, <3>2 DEF CopyOf, Others
    <3> QED
      BY <3>1, <3>2
  <2> QED
    BY <2>1, <2>2 DEF CopyOf
<1>2. ASSUME NEW d \in Actors, InHand(d, u)' PROVE InHand(d, u)
  <2>1. CASE d = c
    BY <1>2, <2>1 DEF InHand
  <2>2. CASE d # c
    BY <1>2, <2>2 DEF InHand, Others
  <2> QED
    BY <2>1, <2>2
<1> QED
  BY <1>1, <1>2, FewerDuties

LEMMA OnlyOneActs ==
    ASSUME Shape, NEW c \in Actors, ActorStep(c)
    PROVE  Others(c)
<1> USE DEF Shape, TypeOK
<1>1. UNCHANGED pc \/ \E l : Goto(c, l)
  BY DEF ActorStep, ConsumerStep, Consume, Deliver, HandlerOk, HandlerFails, HandlerFail, Step,
         PublishOk, PublishError, Ack, AckFails, SchedulerStep, SchedStart, TakeDeadLetter,
         SchedGet, SchedEnd, Crash, Restart, ConnLost
<1>2. UNCHANGED job \/ \E j : job' = [job EXCEPT ![c] = j]
  BY DEF ActorStep, ConsumerStep, Consume, Deliver, HandlerOk, HandlerFails, HandlerFail, Step,
         PublishOk, PublishError, Ack, AckFails, SchedulerStep, SchedStart, TakeDeadLetter,
         SchedGet, SchedEnd, Crash, Restart, ConnLost, Aim
<1>3. UNCHANGED cur \/ \E m : cur' = [cur EXCEPT ![c] = m]
  BY DEF ActorStep, ConsumerStep, Consume, Deliver, HandlerOk, HandlerFails, HandlerFail, Step,
         PublishOk, PublishError, Ack, Acked, AckFails, SchedulerStep, SchedStart,
         TakeDeadLetter, SchedGet, SchedEnd, Crash, Requeued, Restart, ConnLost
<1> QED
  BY <1>1, <1>2, <1>3 DEF Others, Goto

\* What an actor's step may do to the duties of a task, and to its own delivery.
Passes(c) ==
    /\ \A u \in Tasks : \/ Duties(u)' \subseteq Duties(u)
                        \/ /\ u = job[c].task /\ u \notin done'
                           /\ Duties(u) # {}
                           /\ \E y : Duties(u)' \subseteq {y}
    /\ \A u \in done' \ done : u = job[c].task /\ Duties(u) # {} /\ Duties(u)' = {}
    /\ pc'[c] \in {"handling", "publishing", "repubAck", "requeueing"} \cup Spent
          => cur'[c] # NoMsg

LEMMA TakePasses ==
    ASSUME Whole, Single, NEW c \in Actors, NEW m \in Msgs,
           \/ c \in Consumers /\ Deliver(c, m)
           \/ c \in Schedulers /\ SchedGet(c, m)
    PROVE  Passes(c)
<1>1. ActorStep(c)
  BY DEF ActorStep, ConsumerStep, Consume, SchedulerStep, TakeDeadLetter
<1>2. /\ pc[c] \in {"idle", "getting"} /\ pc'[c] \in {"handling", "requeueing"}
      /\ cur'[c] = m /\ UNCHANGED done
      /\ msg' = [msg EXCEPT ![m].at = "unacked"]
  BY DEF Deliver, SchedGet, Goto, Whole, Shape, TypeOK
<1>3. /\ pc[c] \notin Spent /\ pc'[c] # "republishing" /\ cur'[c] # NoMsg
      /\ \A n \in Msgs : msg'[n].task = msg[n].task
  BY <1>2, TokensAssumption DEF Spent, Whole, Shape, TypeOK, MsgType
<1>4. \A u \in Tasks : Duties(u)' \subseteq Duties(u)
  BY <1>1, <1>2, <1>3, OnlyOneActs, QuietStep DEF Whole
<1> QED
  BY <1>2, <1>3, <1>4 DEF Passes

LEMMA HandlerOkPasses ==
    ASSUME Whole, Single, NEW c \in Consumers, HandlerOk(c)
    PROVE  Passes(c)
<1>1. c \in Actors /\ ActorStep(c)
  BY DEF Actors, ActorStep, ConsumerStep
<1>2. /\ pc[c] = "handling" /\ pc'[c] = "acking" /\ UNCHANGED <<msg, cur, job>>
      /\ done' = done \cup {job[c].task}
  BY <1>1 DEF HandlerOk, Goto, Whole, Shape, TypeOK
<1>3. pc[c] \notin Spent /\ pc'[c] # "republishing" /\ pc'[c] \in Spent
      /\ cur[c] # NoMsg /\ job[c].task \in Tasks
  BY <1>1, <1>2 DEF Spent, Single, Engaged, Whole, Shape, JobOK
<1>4. \A u \in Tasks : Duties(u)' \subseteq Duties(u)
  BY <1>1, <1>2, <1>3, OnlyOneActs, QuietStep DEF Whole
<1>5. CopyOf(cur[c], job[c].task) /\ cur[c] \in Msgs
  BY <1>1, <1>3, CopyAtWork DEF Whole
<1>6. Duties(job[c].task) # {} /\ Duties(job[c].task)' = {}
  <2>1. /\ Duties(job[c].task) # {}
        /\ \A n \in Msgs : CopyOf(n, job[c].task) => n = cur[c]
        /\ \A d \in Actors : ~InHand(d, job[c].task)
    BY <1>3, <1>5, DutyOfSlot
  <2>2. \A x \in Duties(job[c].task) : x = <<"msg", cur[c]>>
    BY <2>1 DEF Duties
  <2>3. <<"msg", cur[c]>> \notin Duties(job[c].task)'
    BY <1>1, <1>2, <1>3 DEF Duties, CopyOf
  <2>4. job' = job /\ Duties(job[c].task)' \subseteq Duties(job[c].task)
    BY <1>2, <1>3, <1>4
  <2> QED
    BY <2>1, <2>2, <2>3, <2>4
<1> QED
  BY <1>2, <1>3, <1>4, <1>6 DEF Passes

\* A handler that fails leaves the copy with its actor.
LEMMA HandlerFailPasses ==
    ASSUME Whole, Single, ~MayDuplicate, NEW c \in Consumers, HandlerFails(c)
    PROVE  Passes(c)
<1>1. c \in Actors /\ ActorStep(c)
  BY DEF Actors, ActorStep, ConsumerStep
<1>2. /\ pc[c] = "handling" /\ pc'[c] \in {"publishing", "repubAck"}
      /\ UNCHANGED <<msg, cur, done>>
  BY <1>1 DEF HandlerFails, HandlerFail, Goto, Whole, Shape, TypeOK, MayDuplicate
<1>3. pc[c] \notin Spent /\ pc'[c] # "republishing" /\ cur[c] # NoMsg
  BY <1>1, <1>2 DEF Spent, Single, Engaged
<1>4. \A u \in Tasks : Duties(u)' \subseteq Duties(u)
  BY <1>1, <1>2, <1>3, OnlyOneActs, QuietStep DEF Whole
<1> QED
  BY <1>2, <1>3, <1>4 DEF Passes

\* An ack takes a spent message away, or hands its task to _republish.
LEMMA AckPasses ==
    ASSUME Whole, Single, NEW c \in Actors, ActorStep(c), Ack(c)
    PROVE  Passes(c)
<1>1. /\ pc[c] \in Spent \cup {"repubAck"} /\ UNCHANGED done
      /\ pc'[c] = IF pc[c] = "repubAck" THEN "republishing"
                  ELSE IF pc[c] = "finAck" THEN "getting" ELSE "idle"
  BY DEF Ack, Goto, Spent, Whole, Shape, TypeOK
<1>2. cur[c] # NoMsg
  BY <1>1 DEF Single, Engaged
<1>3. /\ cur[c] \in Msgs /\ cur'[c] = NoMsg
      /\ \A m \in Msgs : msg'[m] = IF m = cur[c] THEN FreeSlot ELSE msg[m]
  BY <1>2 DEF Ack, Acked, Whole, Shape, TypeOK, OwnOK
<1>4. msg'[cur[c]].task = NoTask /\ \A m \in Msgs : msg'[m].task \in {msg[m].task, NoTask}
  BY <1>3 DEF FreeSlot
<1>5. CASE pc[c] # "repubAck"
  <2>1. pc'[c] # "republishing" /\ pc'[c] \notin {"handling", "publishing", "repubAck",
                                                  "requeueing"} \cup Spent
    BY <1>1, <1>5 DEF Spent
  <2>2. \A u \in Tasks : Duties(u)' \subseteq Duties(u)
    BY <1>4, <2>1, OnlyOneActs, QuietStep DEF Whole
  <2> QED
    BY <1>1, <2>1, <2>2 DEF Passes
<1>6. CASE pc[c] = "repubAck"
  <2> DEFINE t == job[c].task
  <2>1. t \in Tasks /\ CopyOf(cur[c], t) /\ pc[c] \notin Spent
    BY <1>2, <1>6, CopyAtWork DEF Whole, Shape, JobOK, Spent
  <2>2. job'[c].task = t
    BY <1>6 DEF Ack, Aim, Whole, Shape, TypeOK
  <2>3. Others(c)
    BY OnlyOneActs DEF Whole
  <2>4. \A u \in Tasks : \A m \in Msgs : CopyOf(m, u)' => CopyOf(m, u) /\ m # cur[c]
    <3> SUFFICES ASSUME NEW u \in Tasks, NEW m \in Msgs, CopyOf(m, u)'
                 PROVE  CopyOf(m, u) /\ m # cur[c]
      OBVIOUS
    <3>1. m # cur[c] /\ msg[m].task = u
      BY <1>3, <1>4, TokensAssumption DEF CopyOf
    <3>2. \A d \in Actors : cur[d] = m => pc[d] \notin Spent
      BY <2>3, <3>1 DEF CopyOf, Others
    <3> QED
      BY <3>1, <3>2 DEF CopyOf
  <2>5. \A u \in Tasks : \A d \in Actors :
           InHand(d, u)' => InHand(d, u) \/ (d = c /\ u = t)
    BY <2>2, <2>3 DEF InHand, Others
  <2> HIDE DEF t
  <2>6. ASSUME NEW u \in Tasks, u # t PROVE Duties(u)' \subseteq Duties(u)
    BY <2>4, <2>5, <2>6, FewerDuties
  <2>7. /\ Duties(t) # {}
        /\ \A n \in Msgs : CopyOf(n, t) => n = cur[c]
        /\ \A d \in Actors : ~InHand(d, t)
    BY <1>3, <2>1, DutyOfSlot
  <2>8. ASSUME NEW u, u = t PROVE Duties(u)' \subseteq {<<"actor", c>>}
    <3>1. \A m \in Msgs : ~CopyOf(m, u)'
      BY <2>1, <2>4, <2>7, <2>8
    <3>2. \A d \in Actors : InHand(d, u)' => d = c
      BY <2>1, <2>5, <2>7, <2>8
    <3> QED
      BY <3>1, <3>2 DEF Duties
  <2>9. t \notin done'
    BY <1>1, <2>1, <2>7 DEF Single, OneDuty
  <2>10. pc'[c] \notin {"handling", "publishing", "repubAck", "requeueing"} \cup Spent
    BY <1>1, <1>6 DEF Spent
  <2> QED
    BY <1>1, <2>6, <2>7, <2>8, <2>9, <2>10 DEF Passes, t
<1> QED
  BY <1>5, <1>6

\* A publish that the broker stores moves the duty to the new message.
LEMMA PublishOkPasses ==
    ASSUME Whole, Single, NEW c \in Actors, ActorStep(c), PublishOk(c)
    PROVE  Passes(c)
<1> DEFINE t == job[c].task
<1>1. /\ pc[c] \in Publishing /\ UNCHANGED <<done, cur>>
      /\ pc'[c] = IF pc[c] = "publishing" THEN "acking"
                  ELSE IF pc[c] = "requeueing" THEN "finAck" ELSE "idle"
  BY DEF PublishOk, Publishing, Goto, Whole, Shape, TypeOK
<1>2. t \in Tasks
  BY <1>1 DEF Whole, Shape, JobOK
<1>3. PICK k \in Msgs : \A m \in Msgs :
         IF m = k THEN msg'[m].task = t ELSE msg'[m] = msg[m]
  <2>1. PICK k \in Msgs : msg' = [msg EXCEPT ![k] = [at |-> job[c].dest, task |-> t,
                                                      att |-> PublishedAtt(c)]]
    BY EnqueueFills DEF PublishOk, StoreCopy, Whole, Shape
  <2> QED
    BY <2>1 DEF Whole, Shape, TypeOK
<1>4. Others(c) /\ pc'[c] # "republishing" /\ pc[c] \notin Spent
  BY <1>1, OnlyOneActs DEF Whole, Publishing, Spent
<1>5. \A u \in Tasks : \A d \in Actors : InHand(d, u)' => InHand(d, u) /\ d # c
  BY <1>4 DEF InHand, Others
<1>6. \A u \in Tasks : \A m \in Msgs :
         CopyOf(m, u)' => (m = k /\ u = t) \/ (CopyOf(m, u) /\ (pc[c] # "republishing" => m # cur[c]))
  <2> SUFFICES ASSUME NEW u \in Tasks, NEW m \in Msgs, CopyOf(m, u)', ~(m = k /\ u = t)
               PROVE  CopyOf(m, u) /\ (pc[c] # "republishing" => m # cur[c])
    OBVIOUS
  <2>1. msg[m].task = u
    BY <1>3 DEF CopyOf
  <2>2. \A d \in Actors : cur[d] = m => pc[d] \notin Spent
    BY <1>1, <1>4 DEF CopyOf, Others
  <2>3. pc[c] # "republishing" => m # cur[c]
    BY <1>1 DEF CopyOf, Spent, Publishing
  <2> QED
    BY <2>1, <2>2, <2>3 DEF CopyOf
<1> HIDE DEF t
<1>7. ASSUME NEW u \in Tasks, u # t PROVE Duties(u)' \subseteq Duties(u)
  BY <1>5, <1>6, <1>7, FewerDuties
<1>8. /\ Duties(t) # {}
      /\ \A m \in Msgs : CopyOf(m, t) => pc[c] # "republishing" /\ m = cur[c]
      /\ \A d \in Actors : InHand(d, t) => d = c
  <2>1. CASE pc[c] = "republishing"
    <3>1. InHand(c, t)
      BY <2>1 DEF InHand, t
    <3> QED
      BY <1>2, <3>1, DutyOfActor
  <2>2. CASE pc[c] # "republishing"
    <3>1. cur[c] # NoMsg
      BY <1>1, <2>2 DEF Single, Engaged, Publishing
    <3>2. cur[c] \in Msgs /\ CopyOf(cur[c], t)
      BY <1>4, <3>1, CopyAtWork DEF Whole, t
    <3> QED
      BY <1>2, <2>2, <3>2, DutyOfSlot
  <2> QED
    BY <2>1, <2>2
<1>9. ASSUME NEW u, u = t PROVE Duties(u)' \subseteq {<<"msg", k>>}
  <2>1. \A m \in Msgs : CopyOf(m, u)' => m = k
    BY <1>2, <1>6, <1>8, <1>9
  <2>2. \A d \in Actors : ~InHand(d, u)'
    BY <1>2, <1>5, <1>8, <1>9
  <2> QED
    BY <2>1, <2>2, OnlyCopy
<1>10. t \notin done'
  BY <1>1, <1>2, <1>8 DEF Single, OneDuty
<1>11. pc'[c] \in {"handling", "publishing", "repubAck", "requeueing"} \cup Spent
           => cur'[c] # NoMsg
  BY <1>1 DEF Single, Engaged, Publishing, Spent
<1> QED
  BY <1>1, <1>7, <1>8, <1>9, <1>10, <1>11 DEF Passes, t

\* A publish that is refused stores nothing.
LEMMA PublishErrorPasses ==
    ASSUME Whole, Single, ~MayDuplicate, NEW c \in Actors, ActorStep(c), PublishError(c)
    PROVE  Passes(c)
<1>1. pc[c] \in Publishing /\ UNCHANGED <<msg, done, cur>>
  BY DEF PublishError, MayDuplicate
<1>2. /\ pc'[c] = "republishing" => pc[c] = "republishing" /\ job'[c].task = job[c].task
      /\ pc'[c] \in {"repubAck", "finAckErr", "idle"} \/ pc'[c] = pc[c]
      /\ pc[c] = "republishing" => pc'[c] \in {"republishing", "idle"}
  <2>1. CASE job[c].try = 1
    BY <1>1, <2>1 DEF PublishError, Whole, Shape, TypeOK, JobType, Publishing
  <2>2. CASE job[c].try = 2
    BY <1>1, <2>2 DEF PublishError, Goto, Whole, Shape, TypeOK, Publishing
  <2> QED
    BY <2>1, <2>2 DEF PublishError
<1>3. pc[c] \notin Spent /\ (pc[c] # "republishing" => cur[c] # NoMsg)
  BY <1>1 DEF Publishing, Spent, Single, Engaged
<1>4. \A u \in Tasks : Duties(u)' \subseteq Duties(u)
  BY <1>1, <1>2, <1>3, OnlyOneActs, QuietStep DEF Whole
<1>5. pc'[c] \in {"handling", "publishing", "repubAck", "requeueing"} \cup Spent
          => cur'[c] # NoMsg
  BY <1>1, <1>2, <1>3 DEF Spent
<1> QED
  BY <1>1, <1>4, <1>5 DEF Passes

\* An actor that only begins or ends a pass, or comes back, carries nothing.
LEMMA TurnPasses ==
    ASSUME Whole, Single, NEW c \in Actors, ActorStep(c),
           SchedStart(c) \/ SchedEnd(c) \/ Restart(c)
    PROVE  Passes(c)
<1>1. /\ pc[c] \in {"idle", "getting", "stopped"} /\ pc'[c] \in {"idle", "getting"}
      /\ UNCHANGED <<msg, done>>
  BY DEF SchedStart, SchedEnd, Restart, Goto, Whole, Shape, TypeOK
<1>2. pc[c] \notin Spent /\ pc'[c] # "republishing"
      /\ pc'[c] \notin {"handling", "publishing", "repubAck", "requeueing"} \cup Spent
  BY <1>1 DEF Spent
<1>3. \A u \in Tasks : Duties(u)' \subseteq Duties(u)
  BY <1>1, <1>2, OnlyOneActs, QuietStep DEF Whole
<1> QED
  BY <1>1, <1>2, <1>3 DEF Passes

LEMMA ActorPasses ==
    ASSUME Whole, Single, ~MayDuplicate, NEW c \in Actors, ActorStep(c)
    PROVE  Passes(c)
<1>1. ~Crash(c) /\ ~ConnLost(c)
  BY DEF MayDuplicate, Crash, ConnLost
<1>2. ~AckFails(c)
  BY DEF AckFails, Single, Engaged, Spent
<1>3. CASE c \in Consumers /\ ConsumerStep(c)
  BY <1>2, <1>3, TakePasses, HandlerOkPasses, HandlerFailPasses, AckPasses, PublishOkPasses,
     PublishErrorPasses DEF ConsumerStep, Consume, Step
<1>4. CASE c \in Schedulers /\ SchedulerStep(c)
  BY <1>2, <1>4, TakePasses, TurnPasses, AckPasses, PublishOkPasses, PublishErrorPasses
     DEF SchedulerStep, TakeDeadLetter, Step
<1>5. CASE Restart(c)
  BY <1>5, TurnPasses
<1> QED
  BY <1>1, <1>3, <1>4, <1>5 DEF ActorStep

\* publish_task makes the first copy of a task, when it returns.
LEMMA SubmitSingle ==
    ASSUME Whole, Single, ~MayDuplicate, NEW t \in Tasks, Submits(t)
    PROVE  Single'
<1>1. UNCHANGED <<pc, cur, job, done>> /\ client[t] \in {"new", "again"}
  BY DEF Submits, SubmitOk, SubmitError
<1>2. Engaged'
  BY <1>1 DEF Single, Engaged
<1>3. \A u : \A c \in Actors : InHand(c, u)' <=> InHand(c, u)
  BY <1>1 DEF InHand
<1>4. CASE SubmitOk(t)
  <2>1. PICK k \in Msgs : msg' = [msg EXCEPT ![k] = [at |-> "main", task |-> t, att |-> 0]]
    BY <1>4, EnqueueFills DEF SubmitOk, Whole, Shape
  <2>2. \A m \in Msgs : IF m = k THEN msg'[m].task = t ELSE msg'[m] = msg[m]
    BY <2>1 DEF Whole, Shape, TypeOK
  <2>3. \A u \in Tasks : \A m \in Msgs : CopyOf(m, u)' => CopyOf(m, u) \/ (m = k /\ u = t)
    BY <1>1, <2>2 DEF CopyOf
  <2>4. \A u \in Tasks : u # t => Duties(u)' \subseteq Duties(u)
    BY <1>3, <2>3, FewerDuties
  <2>5. Duties(t)' \subseteq {<<"msg", k>>}
    <3>1. (\A m \in Msgs : ~CopyOf(m, t)) /\ \A c \in Actors : ~InHand(c, t)
      BY <1>1, NoDuty DEF Single, OneDuty
    <3> QED
      BY <1>3, <2>3, <3>1, OnlyCopy
  <2>6. client'[t] = "ok" /\ \A u \in Tasks : u # t => client'[u] = client[u]
    BY <1>4 DEF SubmitOk, Whole, Shape, TypeOK
  <2>7. t \notin done
    BY <1>1 DEF Single, OneDuty
  <2>8. OneDuty(t)'
    BY <1>1, <2>5, <2>6, <2>7 DEF OneDuty
  <2>9. ASSUME NEW u \in Tasks, u # t PROVE OneDuty(u)'
    BY <1>1, <2>4, <2>6, <2>9 DEF Single, OneDuty
  <2> QED
    BY <1>2, <2>8, <2>9 DEF Single
<1>5. CASE SubmitError(t)
  <2>1. UNCHANGED msg
    BY <1>5 DEF SubmitError, MayDuplicate
  <2>2. \A u \in Tasks : Duties(u)' = Duties(u)
    BY <1>1, <2>1 DEF Duties, CopyOf, InHand
  <2>3. \A u \in Tasks : client'[u] \in {"new", "again"} => client[u] \in {"new", "again"}
    BY <1>5 DEF SubmitError, Whole, Shape, TypeOK
  <2> QED
    BY <1>1, <1>2, <2>2, <2>3 DEF Single, OneDuty
<1> QED
  BY <1>4, <1>5 DEF Submits

LEMMA ActorSingle ==
    ASSUME Whole, Single, ~MayDuplicate, NEW c \in Actors, ActorStep(c)
    PROVE  Single'
<1>1. Passes(c) /\ Others(c)
  BY ActorPasses, OnlyOneActs DEF Whole
<1>2. client' = client
  BY DEF ActorStep, ConsumerStep, Consume, Deliver, HandlerOk, HandlerFails, HandlerFail,
         Step, PublishOk, PublishError, Ack, AckFails, SchedulerStep, SchedStart,
         TakeDeadLetter, SchedGet, SchedEnd, Crash, Restart, ConnLost
<1>3. Engaged'
  BY <1>1 DEF Passes, Others, Single, Engaged
<1>4. ASSUME NEW u \in Tasks PROVE OneDuty(u)'
  <2>1. OneDuty(u)
    BY DEF Single
  <2>2. u \in done' => u \in done \/ (Duties(u) # {} /\ Duties(u)' = {})
    BY <1>1 DEF Passes
  <2>3. CASE Duties(u)' \subseteq Duties(u)
    BY <1>2, <2>1, <2>2, <2>3 DEF OneDuty
  <2>4. CASE u \notin done' /\ Duties(u) # {} /\ \E y : Duties(u)' \subseteq {y}
    BY <1>2, <2>1, <2>4 DEF OneDuty
  <2> QED
    BY <1>1, <2>3, <2>4 DEF Passes
<1> QED
  BY <1>3, <1>4 DEF Single

LEMMA NextSingle ==
    ASSUME Whole, Single, ~MayDuplicate, [Next]_vars
    PROVE  Single'
<1>1. ASSUME NEW m \in Msgs, RetryExpire(m) PROVE Single'
  <2>1. /\ \A n \in Msgs : msg'[n].task = msg[n].task
        /\ UNCHANGED <<client, done, pc, cur, job>>
    BY <1>1 DEF RetryExpire, Whole, Shape, TypeOK, MsgType
  <2>2. \A u \in Tasks : Duties(u)' = Duties(u)
    BY <2>1 DEF Duties, CopyOf, InHand
  <2> QED
    BY <2>1, <2>2 DEF Single, Engaged, OneDuty
<1>2. CASE UNCHANGED vars
  <2>1. UNCHANGED <<msg, client, done, pc, cur, job>>
    BY <1>2 DEF vars
  <2>2. \A u \in Tasks : Duties(u)' = Duties(u)
    BY <2>1 DEF Duties, CopyOf, InHand
  <2> QED
    BY <2>1, <2>2 DEF Single, Engaged, OneDuty
<1> QED
  BY <1>1, <1>2, SubmitSingle, ActorSingle, NextIs

LEMMA AlwaysSingle == Spec => [](~MayDuplicate => Single)
<1>1. Init => (~MayDuplicate => Single)
  BY InitSingle
<1>2. IInv /\ (~MayDuplicate => Single) /\ [Next]_vars => (~MayDuplicate => Single)'
  <2>1. MayDuplicate' = MayDuplicate
    BY DEF MayDuplicate
  <2> QED
    BY <2>1, NextSingle DEF IInv
<1> QED
  BY <1>1, <1>2, Kept, PTL DEF Spec

\* One duty is one obligation.
LEMMA OneObligation ==
    ASSUME NEW t \in Tasks, Single
    PROVE  /\ Cardinality(Obligations(t)) <= 1
           /\ t \in done => Obligations(t) = {}
<1>1. Obligations(t) = {m \in Msgs : CopyOf(m, t)} \cup {c \in Actors : InHand(c, t)}
  BY DEF Obligations, CopyOf, InHand, Spent
<1>2. CASE \E m \in Msgs : CopyOf(m, t)
  <2>1. PICK m \in Msgs : CopyOf(m, t)
    BY <1>2
  <2>2. Obligations(t) = {m} /\ Duties(t) # {}
    BY <1>1, <2>1, DutyOfSlot
  <2>3. Cardinality({m}) = 1
    BY FS_Singleton
  <2>4. Cardinality(Obligations(t)) = 1
    BY <2>2, <2>3
  <2> QED
    BY <2>2, <2>4 DEF Single, OneDuty
<1>3. CASE \E c \in Actors : InHand(c, t)
  <2>1. PICK c \in Actors : InHand(c, t)
    BY <1>3
  <2>2. Obligations(t) = {c} /\ Duties(t) # {}
    BY <1>1, <2>1, DutyOfActor
  <2>3. Cardinality({c}) = 1
    BY FS_Singleton
  <2>4. Cardinality(Obligations(t)) = 1
    BY <2>2, <2>3
  <2> QED
    BY <2>2, <2>4 DEF Single, OneDuty
<1>4. CASE Obligations(t) = {}
  BY <1>4, FS_EmptySet
<1> QED
  BY <1>1, <1>2, <1>3, <1>4

\* queue.py, worker_rmq.py, tasks.py, scheduler.py: through the retry queue,
\* the dead letters and _republish a task stays one message, and none once its
\* handler has succeeded, unless a crash, a lost connection, a lost confirm or
\* a lost reply makes two of it; for any number of consumers and schedulers.
THEOREM HandledOnce == Spec => []ExactlyOnce
<1>1. (~MayDuplicate => Single) => ExactlyOnce
  BY OneObligation DEF ExactlyOnce
<1> QED
  BY <1>1, AlwaysSingle, PTL

=============================================================================
