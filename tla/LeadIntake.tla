----------------------------- MODULE LeadIntake -----------------------------
(***************************************************************************)
(* Applications from the job boards become leads: the webhook with its     *)
(* deduplication (app/api/_webhook_common.py), the creation of the lead    *)
(* and of its link, the invitation and the tag                             *)
(* (app/services/lead_processor.py, app/store.py); and AmoCRM's webhooks   *)
(* about the status of a lead, which find the candidate by that link       *)
(* (app/api/amo_webhooks.py).                                              *)
(*                                                                         *)
(* A job board sends a webhook again when it gets no answer in time, also  *)
(* while the first request is still being handled. Tasks published are     *)
(* carried out by TaskQueue.                                               *)
(***************************************************************************)
EXTENDS Naturals, FiniteSets

CONSTANTS
    Apps,        \* applications, each with one webhook payload
    HH, Avito,   \* those of either board that name a master or an operator;
                 \* the others do not parse, or are ignored
    Changes,     \* webhooks about the status of a lead
    LeadOf,      \* the application whose lead a change is about
    Known,       \* changes to a status the HH mapping knows
    Sends,       \* times a board or AmoCRM sends each webhook
    Faults

FaultKinds == {"fail",        \* a call to HH or AmoCRM, or the database, fails
               "refuse",      \* publish_task raises
               "reauth",      \* AmoCRM wants a new authorization
               "lostreply",   \* create_leads took effect, its reply is lost
               "crash"}       \* the API process dies

Hooks == Apps \cup Changes
Requests == UNION {{x} \X (1..Sends[x]) : x \in Hooks}

ASSUME IntakeAssumption ==
    /\ HH \subseteq Apps /\ Avito \subseteq Apps /\ HH \cap Avito = {}
    /\ Apps \cap Changes = {}
    /\ LeadOf \in [Changes -> HH \cup Avito]
    /\ Known \subseteq Changes
    /\ Sends \in [Hooks -> Nat \ {0}]
    /\ Faults \subseteq FaultKinds

VARIABLES
    keys,     \* events_dedup
    leads,    \* leads made in AmoCRM for each application
    linked,   \* applications whose lead has a row in lead_links
    tagged,   \* ... has its tag
    tasks,    \* tasks published
    at        \* what the handler of each request does next

vars == <<keys, leads, linked, tagged, tasks, at>>

\* A task, and the application or status change it is for.
Task(kind, x) == [kind |-> kind, of |-> x]

\* Every variable has its type.
TypeOK ==
    /\ keys \subseteq Hooks
    /\ leads \in [Apps -> Nat]
    /\ \A a \in Apps : leads[a] <= Sends[a]
    /\ linked \subseteq HH \cup Avito
    /\ tagged \subseteq HH \cup Avito
    /\ tasks \subseteq [kind : {"contact", "invite", "create", "follow", "autofill"},
                        of : Hooks]
    /\ at \in [Requests -> {"new", "parse", "create", "link", "contact", "invite",
                            "tag", "find", "publish", "failed", "done"}]

Init ==
    /\ keys = {}
    /\ leads = [a \in Apps |-> 0]
    /\ linked = {}
    /\ tagged = {}
    /\ tasks = {}
    /\ at = [r \in Requests |-> "new"]

Goto(r, l) == at' = [at EXCEPT ![r] = l]

\* process_job_board_webhook logs the exception and answers 200 "ok": false;
\* amo_webhook answers 500.
Fails(r) == Goto(r, "failed")

\* publish_task
Publish(r, task, next) ==
    \/ tasks' = tasks \cup {task} /\ Goto(r, next)
    \/ "refuse" \in Faults /\ Fails(r) /\ UNCHANGED tasks

-----------------------------------------------------------------------------
\* Receiving

\* Requests for one webhook are sent in order; status changes happen to leads
\* that exist.
Sent(r) ==
    /\ r[2] > 1 => at[<<r[1], r[2] - 1>>] # "new"
    /\ r[1] \in Changes => leads[LeadOf[r[1]]] > 0

\* Faulty: the key is looked up but not stored.
ReceiveUnstored(r) ==
    /\ at[r] = "new"
    /\ Sent(r)
    /\ Goto(r, IF r[1] \in keys THEN "done"
               ELSE IF r[1] \in Apps THEN "parse" ELSE "find")
    /\ UNCHANGED <<keys, leads, linked, tagged, tasks>>

\* check_and_store: a known key is a duplicate.
Receive(r) ==
    /\ at[r] = "new"
    /\ Sent(r)
    /\ \/ /\ r[1] \in keys
          /\ Goto(r, "done")
          /\ UNCHANGED keys
       \/ /\ r[1] \notin keys
          /\ keys' = keys \cup {r[1]}
          /\ Goto(r, IF r[1] \in Apps THEN "parse" ELSE "find")
       \/ "fail" \in Faults /\ Fails(r) /\ UNCHANGED keys
    /\ UNCHANGED <<leads, linked, tagged, tasks>>

-----------------------------------------------------------------------------
\* process_job_board_webhook

\* parse_payload, enrich_applicant, AmoClient.create and the routing: a bad
\* payload is skipped and one without a kind ignored.
Parse(r) ==
    /\ at[r] = "parse"
    /\ \/ Goto(r, IF r[1] \in HH \cup Avito THEN "create" ELSE "done")
       \/ "fail" \in Faults /\ Fails(r)
    /\ UNCHANGED <<keys, leads, linked, tagged, tasks>>

MakeLead(r) == leads' = [leads EXCEPT ![r[1]] = @ + 1]

\* Faulty: the invitation is sent before the link is saved.
CreateInvites(r) ==
    /\ at[r] = "create"
    /\ \/ MakeLead(r) /\ tasks' = tasks \cup {Task("invite", r[1])} /\ Goto(r, "link")
       \/ "fail" \in Faults /\ Fails(r) /\ UNCHANGED <<leads, tasks>>
    /\ UNCHANGED <<keys, linked, tagged>>

\* create_leads. ReauthRequired becomes an amo_create_lead task, and the rest
\* of the work is not done.
Create(r) ==
    /\ at[r] = "create"
    /\ \/ MakeLead(r) /\ Goto(r, "link") /\ UNCHANGED tasks
       \/ "lostreply" \in Faults /\ MakeLead(r) /\ Fails(r) /\ UNCHANGED tasks
       \/ "fail" \in Faults /\ Fails(r) /\ UNCHANGED <<leads, tasks>>
       \/ /\ "reauth" \in Faults
          /\ Publish(r, Task("create", r[1]), "done")
          /\ UNCHANGED leads
    /\ UNCHANGED <<keys, linked, tagged>>

\* enrich_lead, whose errors are logged, and save_link.
Link(r) ==
    /\ at[r] = "link"
    /\ \/ linked' = linked \cup {r[1]} /\ Goto(r, IF r[1] \in HH THEN "contact" ELSE "invite")
       \/ "fail" \in Faults /\ Fails(r) /\ UNCHANGED linked
    /\ UNCHANGED <<keys, leads, tagged, tasks>>

\* send_invite, first for HH: set_state to phone_interview.
Contact(r) ==
    /\ at[r] = "contact"
    /\ Publish(r, Task("contact", r[1]), "invite")
    /\ UNCHANGED <<keys, leads, linked, tagged>>

\* send_invite: send_message with the link to the bot.
Invite(r) ==
    /\ at[r] = "invite"
    /\ Publish(r, Task("invite", r[1]), "tag")
    /\ UNCHANGED <<keys, leads, linked, tagged>>

\* Faulty: add_tags is left out for HH.
TagAvito(r) ==
    /\ at[r] = "tag"
    /\ tagged' = tagged \cup ({r[1]} \cap Avito)
    /\ Goto(r, "done")
    /\ UNCHANGED <<keys, leads, linked, tasks>>

Tag(r) ==
    /\ at[r] = "tag"
    /\ \/ tagged' = tagged \cup {r[1]} /\ Goto(r, "done")
       \/ "fail" \in Faults /\ Fails(r) /\ UNCHANGED tagged
    /\ UNCHANGED <<keys, leads, linked, tasks>>

-----------------------------------------------------------------------------
\* amo_webhook, with one event

\* hh_map_load and find_link: without a link the event is only logged.
Find(r) ==
    /\ at[r] = "find"
    /\ \/ Goto(r, IF LeadOf[r[1]] \in linked THEN "publish" ELSE "done")
       \/ "fail" \in Faults /\ Fails(r)
    /\ UNCHANGED <<keys, leads, linked, tagged, tasks>>

\* handle_hh_event and handle_avito_event: set_state or mark_read; for HH an
\* unknown status asks for an autofill instead.
Follow(r) ==
    /\ at[r] = "publish"
    /\ LET asks == LeadOf[r[1]] \in HH /\ r[1] \notin Known
       IN  Publish(r, Task(IF asks THEN "autofill" ELSE "follow", r[1]), "done")
    /\ UNCHANGED <<keys, leads, linked, tagged>>

-----------------------------------------------------------------------------
\* The process dies with all its requests; nothing takes them up again.
Crash ==
    /\ "crash" \in Faults
    /\ at' = [r \in Requests |-> IF at[r] \in {"new", "done"} THEN at[r] ELSE "failed"]
    /\ UNCHANGED <<keys, leads, linked, tagged, tasks>>

Step(r) ==
    \/ Receive(r) \/ Parse(r) \/ Create(r) \/ Link(r) \/ Contact(r)
    \/ Invite(r) \/ Tag(r) \/ Find(r) \/ Follow(r)

Next == Crash \/ \E r \in Requests : Step(r)

Spec == Init /\ [][Next]_vars

-----------------------------------------------------------------------------
\* Properties

\* However often a webhook is sent and whatever fails, an application makes
\* at most one lead (check_and_store before everything else).
OneLead == \A a \in Apps : leads[a] <= 1

\* A candidate who opens the bot by an invitation, and a status change that is
\* passed on, find the link of an existing lead.
LinkedFirst ==
    /\ \A a \in linked : leads[a] > 0
    /\ \A t \in tasks :
          /\ t.kind \in {"contact", "invite"} => t.of \in linked
          /\ t.kind \in {"follow", "autofill"} => LeadOf[t.of] \in linked

\* An HH application is moved to its first stage before it is invited, and a
\* lead gets its tag after its candidate was invited.
InOrder ==
    /\ \A a \in HH : Task("invite", a) \in tasks => Task("contact", a) \in tasks
    /\ \A a \in tagged : Task("invite", a) \in tasks

\* create_lead, save_link, send_invite, tag_lead keep their order for whoever
\* reads in between: other requests, the bots, the worker.
OrderKept == LinkedFirst /\ InOrder

=============================================================================
