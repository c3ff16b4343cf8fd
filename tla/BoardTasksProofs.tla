-------------------------- MODULE BoardTasksProofs --------------------------
(***************************************************************************)
(* Proofs about LeadIntake and BoardTasks, for any applications and status *)
(* changes, any number of times each webhook is sent, any set of faults    *)
(* and any number of lost answers.                                         *)
(*                                                                         *)
(* What makes a lead unique is that at most one request for a webhook ever *)
(* gets past check_and_store, and that it passes create_leads once. What   *)
(* makes an invitation unique is that one request publishes it, and that   *)
(* it leaves the queue with the call that is answered.                     *)
(***************************************************************************)
EXTENDS BoardTasks, TLAPS

Creating == {"parse", "create"}
Serving == {"link", "contact", "invite", "tag"}
Following == {"find", "publish"}
Working == Creating \cup Serving \cup Following

\* Types, and what kind of webhook each step of a handler is about.
Typed ==
    /\ keys \subseteq Hooks
    /\ leads \in [Apps -> Nat]
    /\ linked \subseteq HH \cup Avito
    /\ tagged \subseteq HH \cup Avito
    /\ tasks \subseteq [kind : {"contact", "invite", "create", "follow", "autofill"},
                        of : Hooks]
    /\ at \in [Requests -> Working \cup {"new", "failed", "done"}]
    /\ \A r \in Requests :
          /\ at[r] = "parse" => r[1] \in Apps
          /\ at[r] \in Serving \cup {"create"} => r[1] \in HH \cup Avito
          /\ at[r] \in Following => r[1] \in Changes

\* At most one request for each webhook is at work, and its key is stored.
Alone ==
    /\ \A r \in Requests : at[r] \in Working => r[1] \in keys
    /\ \A r, s \in Requests :
          at[r] \in Working /\ at[s] \in Working /\ r[1] = s[1] => r = s

\* There is no lead before the key is stored and create_leads was called.
LeadsOK ==
    /\ \A a \in Apps : a \notin keys => leads[a] = 0
    /\ \A r \in Requests : at[r] \in Creating => leads[r[1]] = 0
    /\ OneLead

\* The pipeline goes on only after each of its steps had its effect.
StagesOK ==
    \A r \in Requests :
        /\ at[r] \in Serving => leads[r[1]] > 0
        /\ at[r] \in {"contact", "invite", "tag"} => r[1] \in linked
        /\ at[r] = "publish" => LeadOf[r[1]] \in linked
        /\ at[r] = "invite" /\ r[1] \in HH => Task("contact", r[1]) \in tasks
        /\ at[r] = "tag" => Task("invite", r[1]) \in tasks

\* A request is for a webhook.
LEMMA RequestHook == \A r \in Requests : r[1] \in Hooks
<1> SUFFICES ASSUME NEW r \in Requests PROVE r[1] \in Hooks
  OBVIOUS
<1>1. PICK x \in Hooks : r \in {x} \X (1..Sends[x])
  BY DEF Requests
<1>2. r[1] = x
  BY <1>1
<1> QED
  BY <1>2

\* A step changes the place of one request only.
LEMMA StepMoves ==
    ASSUME NEW r \in Requests, Step(r)
    PROVE  \E l : at' = [at EXCEPT ![r] = l]
BY DEF Step, Receive, Parse, Create, Link, Contact, Invite, Tag, Find, Follow,
       Publish, Fails, Goto

-----------------------------------------------------------------------------
\* Types

LEMMA InitTyped == Init => Typed
BY DEF Init, Typed, Working, Creating, Serving, Following

\* publish_task adds its task to the others, or fails.
LEMMA PublishAdds ==
    ASSUME NEW r, NEW task, NEW next, Publish(r, task, next)
    PROVE  /\ tasks' \subseteq tasks \cup {task}
           /\ tasks \subseteq tasks'
           /\ at' = [at EXCEPT ![r] = next] \/ at' = [at EXCEPT ![r] = "failed"]
BY DEF Publish, Fails, Goto

LEMMA NextTyped == Typed /\ [Next]_vars => Typed'
<1> SUFFICES ASSUME Typed, [Next]_vars PROVE Typed'
  OBVIOUS
<1> USE IntakeAssumption, RequestHook DEF Typed, Working, Creating, Serving, Following
<1>1. CASE Crash
  BY <1>1 DEF Crash
<1>2. ASSUME NEW r \in Requests, Step(r) PROVE Typed'
  <2>1. CASE Receive(r)
    BY <2>1 DEF Receive, Goto, Fails, Hooks
  <2>2. CASE Parse(r)
    BY <2>2 DEF Parse, Goto, Fails
  <2>3. CASE Create(r)
    <3>1. CASE Publish(r, Task("create", r[1]), "done") /\ leads' = leads
      BY <3>1, <2>3, PublishAdds DEF Create, Task
    <3>2. CASE MakeLead(r) /\ (Goto(r, "link") \/ Fails(r)) /\ UNCHANGED tasks
      BY <3>2, <2>3 DEF Create, MakeLead, Goto, Fails
    <3>3. CASE Fails(r) /\ UNCHANGED <<leads, tasks>>
      BY <3>3, <2>3 DEF Create, Goto, Fails
    <3> QED
      BY <2>3, <3>1, <3>2, <3>3 DEF Create
  <2>4. CASE Link(r)
    BY <2>4 DEF Link, Goto, Fails
  <2>5. CASE Contact(r)
    BY <2>5, PublishAdds DEF Contact, Task
  <2>6. CASE Invite(r)
    BY <2>6, PublishAdds DEF Invite, Task
  <2>7. CASE Tag(r)
    BY <2>7 DEF Tag, Goto, Fails
  <2>8. CASE Find(r)
    BY <2>8 DEF Find, Goto, Fails
  <2>9. CASE Follow(r)
    BY <2>9, PublishAdds DEF Follow, Task
  <2> QED
    BY <1>2, <2>1, <2>2, <2>3, <2>4, <2>5, <2>6, <2>7, <2>8, <2>9 DEF Step
<1>3. CASE UNCHANGED vars
  BY <1>3 DEF vars
<1> QED
  BY <1>1, <1>2, <1>3 DEF Next

-----------------------------------------------------------------------------
\* One request at work

LEMMA NextAlone == Typed /\ Alone /\ [Next]_vars => Alone'
<1> SUFFICES ASSUME Typed, Alone, [Next]_vars PROVE Alone'
  OBVIOUS
<1> USE DEF Typed, Alone, Working, Creating, Serving, Following
<1>1. CASE Crash
  BY <1>1 DEF Crash
<1>2. ASSUME NEW r \in Requests, Step(r) PROVE Alone'
  <2>1. CASE Receive(r)
    BY <2>1 DEF Receive, Goto, Fails
  <2>2. CASE ~Receive(r)
    <3>1. at[r] \in Working /\ keys' = keys
      BY <1>2, <2>2 DEF Step, Parse, Create, Link, Contact, Invite, Tag, Find, Follow
    <3>2. PICK l : at' = [at EXCEPT ![r] = l]
      BY <1>2, StepMoves
    <3> QED
      BY <3>1, <3>2
  <2> QED
    BY <2>1, <2>2
<1>3. CASE UNCHANGED vars
  BY <1>3 DEF vars
<1> QED
  BY <1>1, <1>2, <1>3 DEF Next

-----------------------------------------------------------------------------
\* One lead

LEMMA NextLeads == Typed /\ Alone /\ LeadsOK /\ [Next]_vars => LeadsOK'
<1> SUFFICES ASSUME Typed, Alone, LeadsOK, [Next]_vars PROVE LeadsOK'
  OBVIOUS
<1> USE DEF Typed, LeadsOK, OneLead, Creating
<1>1. CASE Crash
  BY <1>1 DEF Crash
<1>2. ASSUME NEW r \in Requests, Step(r) PROVE LeadsOK'
  <2>0. PICK l : at' = [at EXCEPT ![r] = l]
    BY <1>2, StepMoves
  <2>1. CASE Receive(r)
    BY <2>1, RequestHook, IntakeAssumption DEF Receive, Goto, Fails, Hooks
  <2>2. CASE Parse(r)
    BY <2>2 DEF Parse, Goto, Fails
  <2>3. CASE Create(r) /\ MakeLead(r)
    <3>1. /\ at[r] = "create" /\ r[1] \in Apps
          /\ keys' = keys
          /\ leads' = [leads EXCEPT ![r[1]] = @ + 1]
          /\ at'[r] \notin Creating
      BY <2>3, IntakeAssumption DEF Create, MakeLead, Goto, Fails, Publish, Serving
    <3>2. r[1] \in keys /\ leads[r[1]] = 0
      BY <3>1 DEF Alone, Working
    <3>3. \A s \in Requests : at'[s] \in Creating => s # r /\ at[s] \in Creating
      BY <3>1, <2>0
    <3>4. \A s \in Requests : at'[s] \in Creating => s[1] # r[1]
      BY <3>1, <3>3 DEF Alone, Working
    <3>5. \A s \in Requests : at'[s] \in Creating => leads'[s[1]] = 0
      BY <3>1, <3>3, <3>4
    <3> QED
      BY <3>1, <3>2, <3>5
  <2>4. CASE leads' = leads /\ keys' = keys /\ ~Parse(r) /\ ~Receive(r)
    <3>1. at'[r] \notin Creating
      BY <1>2, <2>4 DEF Step, Create, Link, Contact, Invite, Tag, Find, Follow,
                        Publish, Goto, Fails
    <3> QED
      BY <2>0, <2>4, <3>1
  <2> QED
    BY <1>2, <2>1, <2>2, <2>3, <2>4
       DEF Step, Create, Link, Contact, Invite, Tag, Find, Follow
<1>3. CASE UNCHANGED vars
  BY <1>3 DEF vars
<1> QED
  BY <1>1, <1>2, <1>3 DEF Next

\* What one request has made, no other undoes: leads, links and tasks are
\* only added.
LEMMA StepGrows ==
    ASSUME Typed, NEW r \in Requests, Step(r)
    PROVE  /\ \A a \in Apps : leads[a] <= leads'[a]
           /\ linked \subseteq linked'
           /\ tasks \subseteq tasks'
BY DEF Typed, Step, Receive, Parse, Create, Link, Contact, Invite, Tag, Find,
       Follow, Publish, MakeLead

\* A handler that goes on to its next step leaves the effect of the last one.
LEMMA NextStages ==
    Typed /\ Alone /\ StagesOK /\ [Next]_vars => StagesOK'
<1> SUFFICES ASSUME Typed, Alone, StagesOK, [Next]_vars PROVE StagesOK'
  OBVIOUS
<1> USE DEF StagesOK, Serving
<1>1. CASE Crash
  BY <1>1 DEF Crash, Typed
<1>2. ASSUME NEW r \in Requests, Step(r) PROVE StagesOK'
  <2> DEFINE Stage(s) ==
        /\ at[s] \in Serving => leads[s[1]] > 0
        /\ at[s] \in {"contact", "invite", "tag"} => s[1] \in linked
        /\ at[s] = "publish" => LeadOf[s[1]] \in linked
        /\ at[s] = "invite" /\ s[1] \in HH => Task("contact", s[1]) \in tasks
        /\ at[s] = "tag" => Task("invite", s[1]) \in tasks
  <2>0. PICK l : at' = [at EXCEPT ![r] = l]
    BY <1>2, StepMoves
  <2>1. ASSUME NEW s \in Requests, s # r PROVE Stage(s)'
    <3>1. at'[s] = at[s]
      BY <2>0, <2>1 DEF Typed
    <3>2. at[s] \in Serving => s[1] \in Apps /\ leads[s[1]] \in Nat /\ leads'[s[1]] \in Nat
      BY <1>2, NextTyped, IntakeAssumption DEF Typed, Next
    <3> HIDE DEF Serving
    <3>3. at[s] \in Serving => leads'[s[1]] > 0
      BY <1>2, <3>2, StepGrows
    <3> QED
      BY <1>2, <3>1, <3>3, StepGrows DEF Serving
  <2>2. Stage(r)'
    <3> USE DEF Typed
    <3>1. CASE Receive(r) \/ Parse(r) \/ Find(r)
      BY <3>1 DEF Receive, Parse, Find, Goto, Fails
    <3>2. CASE Create(r)
      <4>1. CASE at'[r] = "link" /\ MakeLead(r)
        <5>1. r[1] \in Apps /\ leads[r[1]] \in Nat
          BY <3>2, IntakeAssumption DEF Create
        <5> QED
          BY <4>1, <5>1 DEF MakeLead
      <4>2. CASE at'[r] \in {"failed", "done"}
        BY <4>2
      <4> QED
        BY <3>2, <4>1, <4>2, PublishAdds DEF Create, Goto, Fails
    <3>3. CASE Link(r)
      BY <3>3 DEF Link, Goto, Fails
    <3>4. CASE Contact(r)
      BY <3>4 DEF Contact, Publish, Goto, Fails
    <3>5. CASE Invite(r)
      BY <3>5 DEF Invite, Publish, Goto, Fails
    <3>6. CASE Tag(r)
      BY <3>6 DEF Tag, Goto, Fails
    <3>7. CASE Follow(r)
      BY <3>7 DEF Follow, Publish, Goto, Fails
    <3> QED
      BY <1>2, <3>1, <3>2, <3>3, <3>4, <3>5, <3>6, <3>7 DEF Step
  <2> QED
    BY <2>1, <2>2
<1>3. CASE UNCHANGED vars
  BY <1>3 DEF vars
<1> QED
  BY <1>1, <1>2, <1>3 DEF Next

-----------------------------------------------------------------------------
\* Links and invitations

\* The steps preserve that a link has its lead, and a task its link.
LEMMA NextLinked ==
    Typed /\ StagesOK /\ LinkedFirst /\ [Next]_vars => LinkedFirst'
<1> SUFFICES ASSUME Typed, StagesOK, LinkedFirst, [Next]_vars PROVE LinkedFirst'
  OBVIOUS
<1>1. CASE Crash \/ UNCHANGED vars
  BY <1>1 DEF Crash, vars, LinkedFirst
<1>2. ASSUME NEW r \in Requests, Step(r) PROVE LinkedFirst'
  <2>1. \A a \in Apps : leads[a] \in Nat /\ leads'[a] \in Nat /\ leads[a] <= leads'[a]
    BY <1>2, NextTyped, StepGrows DEF Typed, Next
  <2>2. \A a \in linked' : leads'[a] > 0
    <3>1. \A a \in linked' : a \in linked \/ (at[r] = "link" /\ a = r[1])
      BY <1>2 DEF Step, Receive, Parse, Create, Link, Contact, Invite, Tag, Find, Follow
    <3>2. \A a \in linked' : a \in Apps /\ leads[a] > 0
      BY <3>1, IntakeAssumption DEF Typed, StagesOK, LinkedFirst, Serving
    <3> QED
      BY <2>1, <3>2
  <2>3. linked \subseteq linked'
    BY <1>2, StepGrows
  <2>4. ASSUME NEW t \in tasks'
        PROVE  /\ t.kind \in {"contact", "invite"} => t.of \in linked
               /\ t.kind \in {"follow", "autofill"} => LeadOf[t.of] \in linked
    <3>1. CASE t \in tasks
      BY <3>1 DEF LinkedFirst
    <3>2. CASE Create(r) /\ t \notin tasks
      BY <3>2, PublishAdds DEF Create, Task
    <3>3. CASE Contact(r) /\ t \notin tasks
      <4>1. t.of = r[1] /\ t.kind = "contact"
        BY <3>3, PublishAdds DEF Contact, Task
      <4> QED
        BY <3>3, <4>1 DEF Contact, StagesOK
    <3>4. CASE Invite(r) /\ t \notin tasks
      <4>1. t.of = r[1] /\ t.kind = "invite"
        BY <3>4, PublishAdds DEF Invite, Task
      <4> QED
        BY <3>4, <4>1 DEF Invite, StagesOK
    <3>5. CASE Follow(r) /\ t \notin tasks
      <4>1. t.of = r[1] /\ t.kind \in {"follow", "autofill"}
        BY <3>5, PublishAdds DEF Follow, Task
      <4> QED
        BY <3>5, <4>1 DEF Follow, StagesOK
    <3> QED
      BY <1>2, <3>1, <3>2, <3>3, <3>4, <3>5
         DEF Step, Receive, Parse, Link, Tag, Find
  <2> QED
    BY <2>2, <2>3, <2>4 DEF LinkedFirst
<1> QED
  BY <1>1, <1>2 DEF Next

\* ... and that an HH candidate is moved before being invited, and nobody
\* tagged who was not.
LEMMA NextInOrder ==
    Typed /\ StagesOK /\ InOrder /\ [Next]_vars => InOrder'
<1> SUFFICES ASSUME Typed, StagesOK, InOrder, [Next]_vars PROVE InOrder'
  OBVIOUS
<1>1. CASE Crash \/ UNCHANGED vars
  BY <1>1 DEF Crash, vars, InOrder
<1>2. ASSUME NEW r \in Requests, Step(r) PROVE InOrder'
  <2>1. tasks \subseteq tasks'
    BY <1>2, StepGrows
  <2>2. \A a \in HH : Task("invite", a) \in tasks' => Task("contact", a) \in tasks'
    <3>1. \A a : Task("invite", a) \in tasks' =>
                    Task("invite", a) \in tasks \/ (Invite(r) /\ a = r[1])
      BY <1>2, PublishAdds DEF Step, Receive, Parse, Create, Link, Contact,
                               Invite, Tag, Find, Follow, Task
    <3> QED
      BY <2>1, <3>1 DEF InOrder, StagesOK, Invite
  <2>3. \A a \in tagged' : Task("invite", a) \in tasks'
    <3>1. \A a \in tagged' : a \in tagged \/ (at[r] = "tag" /\ a = r[1])
      BY <1>2 DEF Step, Receive, Parse, Create, Link, Contact, Invite, Tag, Find, Follow
    <3> QED
      BY <2>1, <3>1 DEF InOrder, StagesOK
  <2> QED
    BY <2>2, <2>3 DEF InOrder
<1> QED
  BY <1>1, <1>2 DEF Next

-----------------------------------------------------------------------------
\* Tasks are published once

\* Tasks are about webhooks whose key is stored, and what the request at work
\* has still to publish is not there yet.
NoneTwice ==
    /\ \A t \in tasks : t.of \in keys
    /\ \A r \in Requests :
          /\ at[r] \in Creating => \A t \in tasks : t.of # r[1]
          /\ at[r] = "link" => \A t \in tasks : t.of # r[1]
          /\ at[r] = "contact" => \A t \in tasks : t.of # r[1]
          /\ at[r] = "invite" => Task("invite", r[1]) \notin tasks
          /\ at[r] \in Following => \A t \in tasks : t.of # r[1]

\* The steps preserve that no task is published a second time.
LEMMA NextNoneTwice == Typed /\ Alone /\ NoneTwice /\ [Next]_vars => NoneTwice'
<1> SUFFICES ASSUME Typed, Alone, NoneTwice, [Next]_vars PROVE NoneTwice'
  OBVIOUS
<1> USE DEF NoneTwice, Creating, Following
<1>1. CASE Crash
  BY <1>1 DEF Crash, Typed
<1>2. ASSUME NEW r \in Requests, Step(r) PROVE NoneTwice'
  <2>0. PICK l : at' = [at EXCEPT ![r] = l]
    BY <1>2, StepMoves
  <2>1. CASE Receive(r)
    BY <2>1, <2>0 DEF Receive, Goto, Fails, Typed
  <2>2. CASE ~Receive(r)
    <3>1. at[r] \in Working /\ r[1] \in keys /\ keys' = keys
      BY <1>2, <2>2 DEF Step, Parse, Create, Link, Contact, Invite, Tag, Find, Follow,
                        Alone, Working, Serving
    <3>2. \A t \in tasks' : t \in tasks \/ t.of = r[1]
      BY <1>2, PublishAdds DEF Step, Receive, Parse, Create, Link, Contact, Invite,
                               Tag, Find, Follow, Task
    <3>3. \A t \in tasks' : t.of \in keys'
      BY <3>1, <3>2
    <3>4. ASSUME NEW s \in Requests, s # r, at[s] \in Working PROVE s[1] # r[1]
      BY <3>1, <3>4 DEF Alone
    <3>5. ASSUME NEW s \in Requests, s # r
          PROVE  /\ at'[s] \in Creating => \A t \in tasks' : t.of # s[1]
                 /\ at'[s] = "link" => \A t \in tasks' : t.of # s[1]
                 /\ at'[s] = "contact" => \A t \in tasks' : t.of # s[1]
                 /\ at'[s] = "invite" => Task("invite", s[1]) \notin tasks'
                 /\ at'[s] \in Following => \A t \in tasks' : t.of # s[1]
      BY <2>0, <3>2, <3>4, <3>5 DEF Typed, Working, Serving, Task
    <3>6. /\ at'[r] \in Creating => \A t \in tasks' : t.of # r[1]
          /\ at'[r] = "link" => \A t \in tasks' : t.of # r[1]
          /\ at'[r] = "contact" => \A t \in tasks' : t.of # r[1]
          /\ at'[r] = "invite" => Task("invite", r[1]) \notin tasks'
          /\ at'[r] \in Following => \A t \in tasks' : t.of # r[1]
      <4> USE DEF Typed, Goto, Fails
      <4>1. CASE Parse(r) \/ Find(r) \/ Tag(r)
        BY <4>1 DEF Parse, Find, Tag
      <4>2. CASE Create(r)
        BY <4>2, PublishAdds DEF Create
      <4>3. CASE Link(r)
        BY <4>3 DEF Link, Task
      <4>4. CASE Contact(r)
        BY <4>4 DEF Contact, Publish, Task
      <4>5. CASE Invite(r)
        BY <4>5, PublishAdds DEF Invite
      <4>6. CASE Follow(r)
        BY <4>6, PublishAdds DEF Follow
      <4> QED
        BY <1>2, <2>2, <4>1, <4>2, <4>3, <4>4, <4>5, <4>6 DEF Step
    <3> QED
      BY <3>3, <3>5, <3>6
  <2> QED
    BY <2>1, <2>2
<1>3. CASE UNCHANGED vars
  BY <1>3 DEF vars
<1> QED
  BY <1>1, <1>2, <1>3 DEF Next

-----------------------------------------------------------------------------
\* Theorems

IntakeInv ==
    Typed /\ Alone /\ LeadsOK /\ StagesOK /\ LinkedFirst /\ InOrder /\ NoneTwice

\* The inductive invariant: types, one request at work for each webhook, no
\* lead before its time, and every stage with the effect of the last one.
LEMMA Invariant == Spec => []IntakeInv
<1>1. Init => IntakeInv
  <2> SUFFICES ASSUME Init PROVE IntakeInv
    OBVIOUS
  <2>1. Typed
    BY InitTyped
  <2>2. \A r \in Requests : at[r] = "new"
    BY DEF Init
  <2>3. \A a \in Apps : leads[a] = 0
    BY DEF Init
  <2>4. Alone /\ StagesOK
    BY <2>2 DEF Alone, StagesOK, Working, Creating, Serving, Following
  <2>5. LeadsOK
    BY <2>2, <2>3 DEF LeadsOK, OneLead, Creating
  <2>6. LinkedFirst /\ InOrder
    BY DEF Init, LinkedFirst, InOrder
  <2>7. NoneTwice
    BY <2>2 DEF Init, NoneTwice, Creating, Following
  <2> QED
    BY <2>1, <2>4, <2>5, <2>6, <2>7 DEF IntakeInv
<1>2. IntakeInv /\ [Next]_vars => IntakeInv'
  BY NextTyped, NextAlone, NextLeads, NextStages, NextLinked, NextInOrder,
     NextNoneTwice DEF IntakeInv
<1> QED
  BY <1>1, <1>2, PTL DEF Spec

\* However often the job board sends a webhook again, and whatever fails or
\* dies on the way, an application has at most one lead.
THEOREM LeadIsUnique == Spec => []OneLead
<1>1. IntakeInv => OneLead
  BY DEF IntakeInv, LeadsOK
<1> QED
  BY Invariant, <1>1, PTL

\* Every variable has its type.
THEOREM TypeCorrect == Spec => []TypeOK
<1>1. IntakeInv => TypeOK
  <2> SUFFICES ASSUME IntakeInv PROVE TypeOK
    OBVIOUS
  <2>1. \A a \in Apps : leads[a] <= Sends[a]
    <3> TAKE a \in Apps
    <3>1. leads[a] \in Nat /\ leads[a] <= 1
      BY DEF IntakeInv, LeadsOK, OneLead, Typed
    <3>2. Sends[a] \in Nat \ {0}
      BY IntakeAssumption DEF Hooks
    <3> QED
      BY <3>1, <3>2
  <2> QED
    BY <2>1 DEF IntakeInv, Typed, TypeOK, Working, Creating, Serving, Following
<1> QED
  BY Invariant, <1>1, PTL

\* create_lead, save_link, send_invite, tag_lead: a link is saved only for a
\* lead that exists, tasks about a candidate are published only once the link is
\* saved, an HH candidate is moved before being invited, and a tagged lead had
\* its candidate invited.
THEOREM StagesInOrder == Spec => []OrderKept
<1>1. IntakeInv => OrderKept
  BY DEF IntakeInv, OrderKept
<1> QED
  BY Invariant, <1>1, PTL

\* No task is ever published a second time: what a request is about to publish
\* (publish_task in send_invite, create_lead and the two handlers of status
\* changes) is not among the tasks, so that they are a set and no bag.
THEOREM PublishedOnce == Spec => []NoneTwice
<1>1. IntakeInv => NoneTwice
  BY DEF IntakeInv
<1> QED
  BY Invariant, <1>1, PTL

-----------------------------------------------------------------------------
\* The tasks at the boards

Invitation(a) == Task("invite", a)

\* Of a negotiation that never had two set_state tasks in the queue, the one
\* there is the last that was asked for; with none there it has been done.
AskedLast ==
    \A a \in HH :
       a \notin overlaid =>
          /\ \A t \in Moves(a, queue) : t = asked[a]
          /\ Moves(a, queue) = {} => stage[a] = asked[a]

\* An invitation that is not out yet has not been sent; one still in the queue
\* was sent only by calls whose answer was lost.
SentInTurn ==
    \A a \in HH \cup Avito :
       /\ Invitation(a) \notin tasks => copies[a] = 0
       /\ copies[a] <= IF Invitation(a) \in queue THEN unheard ELSE 1 + unheard

QueueTypes ==
    /\ \A t \in tasks : t = Task(t.kind, t.of)
    /\ queue \subseteq tasks
    /\ stage \in [HH -> {Untouched} \cup tasks]
    /\ asked \in [HH -> {Untouched} \cup tasks]
    /\ copies \in [HH \cup Avito -> Nat]
    /\ unheard \in Nat

BoardInv == QueueTypes /\ AskedLast /\ SentInTurn

LEMMA InitInv == BoardInit => BoardInv
  BY DEF BoardInit, Init, BoardInv, QueueTypes, AskedLast, SentInTurn, Moves

\* The intake publishes one task at a time and takes none back.
LEMMA OneTask ==
  ASSUME NEW r \in Requests, Step(r) \/ Crash
  PROVE \E k, x : tasks' \in {tasks, tasks \cup {Task(k, x)}}
  BY DEF Step, Receive, Parse, Create, Link, Contact, Invite, Tag, Find, Follow, Publish,
         Crash

LEMMA EnqueueInv ==
  ASSUME BoardInv, Enqueue, NEW k, NEW x, tasks' \in {tasks, tasks \cup {Task(k, x)}}
  PROVE BoardInv'
<1> DEFINE t == Task(k, x)
<1> DEFINE new == tasks' \ tasks
<1>1. new \subseteq {t} /\ tasks \subseteq tasks' /\ queue' = queue \cup new
      /\ queue \subseteq tasks
  BY DEF Enqueue, BoardInv, QueueTypes
<1>2. /\ UNCHANGED <<stage, copies, unheard>>
      /\ \A a \in HH : asked'[a] = IF Moves(a, new) = {} THEN asked[a]
                                   ELSE CHOOSE u \in Moves(a, new) : TRUE
      /\ overlaid' = overlaid \cup {a \in HH : Moves(a, new) # {} /\ Moves(a, queue) # {}}
  BY DEF Enqueue, boards
<1>3. \A a \in HH : /\ Moves(a, new) \subseteq new
                    /\ Moves(a, queue') = Moves(a, queue) \cup Moves(a, new)
  BY <1>1 DEF Moves
<1>4. \A a \in HH : Moves(a, new) # {} => Moves(a, new) = {t} /\ asked'[a] = t
  <2> SUFFICES ASSUME NEW a \in HH, Moves(a, new) # {}
               PROVE Moves(a, new) = {t} /\ asked'[a] = t
    OBVIOUS
  <2>1. Moves(a, new) = {t}
    BY <1>1, <1>3
  <2>2. asked'[a] = CHOOSE u \in {t} : TRUE
    BY <1>2, <2>1
  <2>3. (CHOOSE u \in {t} : TRUE) = t
    OBVIOUS
  <2> QED BY <2>1, <2>2, <2>3
<1>5. QueueTypes'
  <2>1. \A a \in HH : asked'[a] \in {Untouched} \cup tasks'
    BY <1>1, <1>2, <1>3, <1>4 DEF BoardInv, QueueTypes
  <2>2. asked' = [a \in HH |-> asked'[a]]
    BY DEF Enqueue
  <2>3. \A u \in tasks' : u = Task(u.kind, u.of)
    BY <1>1 DEF BoardInv, QueueTypes, Task
  <2> QED BY <1>1, <1>2, <2>1, <2>2, <2>3 DEF BoardInv, QueueTypes
<1>6. AskedLast'
  <2> SUFFICES ASSUME NEW a \in HH, a \notin overlaid'
               PROVE /\ \A u \in Moves(a, queue)' : u = asked'[a]
                     /\ Moves(a, queue)' = {} => stage'[a] = asked'[a]
    BY DEF AskedLast
  <2>1. Moves(a, queue)' = Moves(a, queue')
    BY DEF Moves
  <2>2. a \notin overlaid /\ (Moves(a, new) = {} \/ Moves(a, queue) = {})
    BY <1>2
  <2>3. /\ \A u \in Moves(a, queue) : u = asked[a]
        /\ Moves(a, queue) = {} => stage[a] = asked[a]
    BY <2>2 DEF BoardInv, AskedLast
  <2>4. CASE Moves(a, new) = {}
    BY <1>2, <1>3, <2>1, <2>3, <2>4
  <2>5. CASE Moves(a, new) # {}
    BY <1>3, <1>4, <2>1, <2>2, <2>5
  <2> QED BY <2>4, <2>5
<1>7. SentInTurn'
  <2> SUFFICES ASSUME NEW a \in HH \cup Avito
               PROVE /\ Invitation(a) \notin tasks' => copies[a] = 0
                     /\ copies[a] <= IF Invitation(a) \in queue' THEN unheard ELSE 1 + unheard
    BY <1>2 DEF SentInTurn, Invitation, Task
  <2>1. /\ Invitation(a) \notin tasks => copies[a] = 0
        /\ copies[a] <= IF Invitation(a) \in queue THEN unheard ELSE 1 + unheard
        /\ copies[a] \in Nat /\ unheard \in Nat
    BY DEF BoardInv, SentInTurn, QueueTypes
  <2>2. Invitation(a) \in queue' \ queue => Invitation(a) \notin tasks
    BY <1>1
  <2> QED BY <1>1, <2>1, <2>2
<1> QED BY <1>5, <1>6, <1>7 DEF BoardInv

LEMMA EffectStage ==
  ASSUME BoardInv, NEW t \in queue, Effect(t), NEW a \in HH, a \notin overlaid
  PROVE /\ t \in Moves(a, queue) => stage'[a] = asked[a]
        /\ t \notin Moves(a, queue) => stage'[a] = stage[a]
  BY DEF Effect, SetState, SendMessage, BoardInv, AskedLast

LEMMA EffectCopies ==
  ASSUME BoardInv, NEW t \in queue, Effect(t), NEW a \in HH \cup Avito
  PROVE copies'[a] = IF t = Invitation(a) THEN copies[a] + 1 ELSE copies[a]
<1>1. t = Task(t.kind, t.of) /\ copies \in [HH \cup Avito -> Nat]
  BY DEF BoardInv, QueueTypes
<1>2. t = Invitation(a) <=> t.kind = "invite" /\ t.of = a
  BY <1>1 DEF Invitation, Task
<1> QED BY <1>1, <1>2 DEF Effect, SetState, SendMessage

LEMMA EffectTypes ==
  ASSUME BoardInv, NEW t \in queue, Effect(t)
  PROVE stage' \in [HH -> {Untouched} \cup tasks] /\ copies' \in [HH \cup Avito -> Nat]
<1>1. /\ t \in tasks /\ stage \in [HH -> {Untouched} \cup tasks]
      /\ copies \in [HH \cup Avito -> Nat]
  BY DEF BoardInv, QueueTypes
<1>2. stage' \in [HH -> {Untouched} \cup tasks]
  BY <1>1 DEF Effect, SetState, SendMessage
<1>3. copies' \in [HH \cup Avito -> Nat]
  <2>1. CASE t.kind # "invite"
    BY <1>1, <2>1 DEF Effect, SetState, SendMessage
  <2>2. CASE t.kind = "invite"
    <3>1. copies' = [copies EXCEPT ![t.of] = @ + 1]
      BY <2>2 DEF Effect, SetState, SendMessage
    <3>2. ASSUME NEW a \in HH \cup Avito
          PROVE copies'[a] = IF a = t.of THEN copies[a] + 1 ELSE copies[a]
      BY <1>1, <3>1
    <3>3. \A a \in HH \cup Avito : copies[a] \in Nat
      BY <1>1
    <3>4. \A a \in HH \cup Avito : copies'[a] \in Nat
      BY <3>2, <3>3
    <3>5. copies' = [a \in HH \cup Avito |-> copies'[a]]
      BY <1>1, <3>1
    <3> QED BY <3>4, <3>5
  <2> QED BY <2>1, <2>2
<1> QED BY <1>2, <1>3

LEMMA CarryOutInv ==
  ASSUME BoardInv, NEW t \in queue, CarryOut(t)
  PROVE BoardInv'
<1>1. /\ Effect(t) /\ queue' = queue \ {t}
      /\ UNCHANGED <<tasks, asked, overlaid, unheard>>
  BY DEF CarryOut, vars
<1>2. QueueTypes'
  BY <1>1, EffectTypes DEF BoardInv, QueueTypes
<1>3. AskedLast'
  <2> SUFFICES ASSUME NEW a \in HH, a \notin overlaid
               PROVE /\ \A u \in Moves(a, queue') : u = asked[a]
                     /\ Moves(a, queue') = {} => stage'[a] = asked[a]
    BY <1>1 DEF AskedLast, Moves
  <2>1. Moves(a, queue') = Moves(a, queue) \ {t}
    BY <1>1 DEF Moves
  <2> QED BY <1>1, <2>1, EffectStage DEF BoardInv, AskedLast
<1>4. SentInTurn'
  <2> SUFFICES ASSUME NEW a \in HH \cup Avito
               PROVE /\ Invitation(a) \notin tasks => copies'[a] = 0
                     /\ copies'[a] <= IF Invitation(a) \in queue' THEN unheard ELSE 1 + unheard
    BY <1>1 DEF SentInTurn, Invitation, Task
  <2>1. /\ Invitation(a) \notin tasks => copies[a] = 0
        /\ copies[a] <= IF Invitation(a) \in queue THEN unheard ELSE 1 + unheard
        /\ copies[a] \in Nat /\ unheard \in Nat /\ queue \subseteq tasks
    BY DEF BoardInv, SentInTurn, QueueTypes
  <2> QED BY <1>1, <2>1, EffectCopies
<1> QED BY <1>2, <1>3, <1>4 DEF BoardInv

LEMMA UnheardInv ==
  ASSUME BoardInv, NEW t \in queue, Unheard(t)
  PROVE BoardInv'
<1>1. /\ Effect(t) /\ unheard' = unheard + 1
      /\ UNCHANGED <<tasks, queue, asked, overlaid>>
  BY DEF Unheard, vars
<1>2. QueueTypes'
  BY <1>1, EffectTypes DEF BoardInv, QueueTypes
<1>3. AskedLast'
  <2> SUFFICES ASSUME NEW a \in HH, a \notin overlaid
               PROVE /\ \A u \in Moves(a, queue) : u = asked[a]
                     /\ Moves(a, queue) = {} => stage'[a] = asked[a]
    BY <1>1 DEF AskedLast, Moves
  <2> QED BY <1>1, EffectStage DEF BoardInv, AskedLast
<1>4. SentInTurn'
  <2> SUFFICES ASSUME NEW a \in HH \cup Avito
               PROVE /\ Invitation(a) \notin tasks => copies'[a] = 0
                     /\ copies'[a] <= IF Invitation(a) \in queue THEN unheard' ELSE 1 + unheard'
    BY <1>1 DEF SentInTurn, Invitation, Task
  <2>1. /\ Invitation(a) \notin tasks => copies[a] = 0
        /\ copies[a] <= IF Invitation(a) \in queue THEN unheard ELSE 1 + unheard
        /\ copies[a] \in Nat /\ unheard \in Nat /\ queue \subseteq tasks
    BY DEF BoardInv, SentInTurn, QueueTypes
  <2> QED BY <1>1, <2>1, EffectCopies
<1> QED BY <1>2, <1>3, <1>4 DEF BoardInv

LEMMA NextInv == BoardInv /\ [BoardNext]_boardVars => BoardInv'
<1> SUFFICES ASSUME BoardInv, [BoardNext]_boardVars PROVE BoardInv'
  OBVIOUS
<1>1. ASSUME NEW r \in Requests, Intake(r) PROVE BoardInv'
  BY <1>1, OneTask, EnqueueInv DEF Intake
<1>2. CASE IntakeCrash
  <2>1. tasks' = tasks /\ Enqueue
    BY <1>2 DEF IntakeCrash, Crash
  <2> QED BY <2>1, EnqueueInv
<1>3. CASE Handlers
  BY <1>3, CarryOutInv DEF Handlers
<1>4. ASSUME NEW t \in queue, Unheard(t) PROVE BoardInv'
  BY <1>4, UnheardInv
<1>5. CASE UNCHANGED boardVars
  BY <1>5 DEF boardVars, boards, vars, BoardInv, QueueTypes, AskedLast, SentInTurn, Moves,
         Invitation, Task
<1> QED BY <1>1, <1>2, <1>3, <1>4, <1>5 DEF BoardNext

\* handle_hh_event: a negotiation of which no two set_state tasks were in the
\* queue at once ends in the state asked for last, whatever is delivered twice.
THEOREM LastAskedIsKept == BoardSpec => []LastStateWins
<1>1. BoardInv => LastStateWins
  BY DEF BoardInv, AskedLast, LastStateWins
<1> QED BY InitInv, NextInv, <1>1, PTL DEF BoardSpec

\* send_invite: a candidate is invited once, however often the webhook is sent,
\* but for the calls whose answer was lost.
THEOREM OneInvitation == BoardSpec => []InvitedOnce
<1>1. BoardInv => InvitedOnce
  BY DEF BoardInv, SentInTurn, QueueTypes, InvitedOnce
<1> QED BY InitInv, NextInv, <1>1, PTL DEF BoardSpec

-----------------------------------------------------------------------------
\* The intake among the tasks

\* What happens at the boards and in the queue is nothing to the intake.
THEOREM Implements == BoardSpec => Spec
<1>1. BoardInit => Init
  BY DEF BoardInit
<1>2. [BoardNext]_boardVars => [Next]_vars
  BY DEF BoardNext, boardVars, Intake, IntakeCrash, Handlers, CarryOut, Unheard, Next
<1> QED
  BY <1>1, <1>2, PTL DEF BoardSpec, Spec

\* No more answers are lost than MaxUnheard.
LEMMA InitRest == BoardInit => overlaid \subseteq HH /\ unheard \in 0..MaxUnheard
BY UnheardAssumption DEF BoardInit

LEMMA NextRest ==
    overlaid \subseteq HH /\ unheard \in 0..MaxUnheard /\ [BoardNext]_boardVars
      => (overlaid \subseteq HH /\ unheard \in 0..MaxUnheard)'
BY UnheardAssumption
   DEF BoardNext, boardVars, Intake, IntakeCrash, Enqueue, Handlers, CarryOut, Unheard

\* Every variable has its type.
THEOREM BoardTypeCorrect == BoardSpec => []BoardTypeOK
<1> DEFINE Rest == overlaid \subseteq HH /\ unheard \in 0..MaxUnheard
<1>1. TypeOK /\ BoardInv /\ Rest => BoardTypeOK
  <2> SUFFICES ASSUME BoardInv, Rest
               PROVE  copies \in [HH \cup Avito -> 0..MaxUnheard + 1]
    BY DEF BoardTypeOK, BoardInv, QueueTypes
  <2>1. ASSUME NEW a \in HH \cup Avito PROVE copies[a] \in 0..MaxUnheard + 1
    BY UnheardAssumption DEF BoardInv, QueueTypes, SentInTurn
  <2> QED
    BY <2>1 DEF BoardInv, QueueTypes
<1>2. BoardSpec => []TypeOK
  BY Implements, TypeCorrect, PTL
<1>3. BoardSpec => []BoardInv
  BY InitInv, NextInv, PTL DEF BoardSpec
<1>4. BoardSpec => []Rest
  BY InitRest, NextRest, PTL DEF BoardSpec
<1> QED
  BY <1>1, <1>2, <1>3, <1>4, PTL

=============================================================================
