---------------------------- MODULE TaskDelivery ----------------------------
(***************************************************************************)
(* What the task queue promises to the code that calls publish_task,       *)
(* without queues, consumers or attempts: an accepted task is carried out  *)
(* at least once, unless the deployment may lose tasks, and a task that    *)
(* was lost never comes back from the dead.                                *)
(***************************************************************************)
CONSTANTS Tasks, CanLose

VARIABLES
    told,    \* the answer of publish_task: "none" yet, "ok" or "error"
    life     \* "absent", "pending" or "done"

vars == <<told, life>>

Init ==
    /\ told = [t \in Tasks |-> "none"]
    /\ life = [t \in Tasks |-> "absent"]

\* publish_task returns: the task will be carried out (again).
Accept(t) ==
    /\ told[t] = "none"
    /\ told' = [told EXCEPT ![t] = "ok"]
    /\ life' = [life EXCEPT ![t] = IF @ = "done" THEN "done" ELSE "pending"]

\* publish_task meets an error: it tries again or raises, and the task may
\* have been taken all the same.
Doubt(t) ==
    /\ told[t] = "none"
    /\ told' \in {told, [told EXCEPT ![t] = "error"]}
    /\ \/ UNCHANGED life
       \/ life[t] = "absent" /\ life' = [life EXCEPT ![t] = "pending"]

Complete(t) ==
    /\ life[t] = "pending"
    /\ life' = [life EXCEPT ![t] = "done"]
    /\ UNCHANGED told

Lose(t) ==
    /\ CanLose
    /\ life[t] = "pending"
    /\ life' = [life EXCEPT ![t] = "absent"]
    /\ UNCHANGED told

Next == \E t \in Tasks : Accept(t) \/ Doubt(t) \/ Complete(t) \/ Lose(t)

Spec == Init /\ [][Next]_vars
=============================================================================
