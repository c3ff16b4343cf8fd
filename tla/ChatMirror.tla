----------------------------- MODULE ChatMirror -----------------------------
(***************************************************************************)
(* Mirroring a Telegram dialogue into the AmoCRM chat of its lead: the bot *)
(* handlers that link a user to a lead and publish what is said            *)
(* (app/tg_router.py, app/store_chat.py), and the task handlers            *)
(* tg_to_amo and bot_to_amo (app/services/worker/mirror.py) with their     *)
(* deduplication table, retries and chat creation (app/adapters/amochats). *)
(*                                                                         *)
(* One user and one bot. The task queue is seen as what it is at least:    *)
(* a copy is delivered again until a handler returns normally.             *)
(***************************************************************************)
EXTENDS Naturals, FiniteSets

CONSTANTS
    Texts,        \* messages of the dialogue, from the user or from the bot
    Leads,        \* leads whose link the user may open
    Contacts,     \* AmoCRM contacts
    ContactOf,    \* first contact of each lead, NoContact if it has none
    NoLead, NoConv, NoContact, NoText,
    Consumers,    \* queue consumers running mirror handlers
    Attempts,     \* tries of with_retry around each AmoChats call
    MaxCopies,    \* bound on copies of one task in the queue
    Faults

FaultKinds == {"refuse",       \* an AmoCRM or AmoChats call fails
               "lostreply",    \* it took effect, the caller sees a failure
               "db",           \* set_conversation fails
               "crash",        \* a consumer dies inside a handler
               "duplicate"}    \* the broker holds a second copy of a task

\* ensure_chat_created names a chat after the contact, or else the lead.
Convs == Contacts \cup Leads

ASSUME ChatAssumption ==
    /\ ContactOf \in [Leads -> Contacts \cup {NoContact}]
    /\ Contacts \cap Leads = {}
    /\ NoLead \notin Leads /\ NoConv \notin Convs
    /\ NoContact \notin Contacts /\ NoText \notin Texts
    /\ Attempts \in Nat \ {0} /\ MaxCopies \in Nat \ {0}
    /\ Faults \subseteq FaultKinds

VARIABLES
    link,     \* the user's tg_links row
    task,     \* lead and conversation written into each published task
    copies,   \* copies of each task waiting in the queue
    keys,     \* events_dedup: msg_keys stored by check_and_store
    chats,    \* chats that exist in AmoChats
    sent,     \* where in AmoChats each text appeared, and how often
    work,     \* what each consumer is doing
    ran       \* history: how often the body was run for each text

vars == <<link, task, copies, keys, chats, sent, work, ran>>

NoTask == [lead |-> NoLead, conv |-> NoConv]
Idle == [at |-> "idle", text |-> NoText, conv |-> NoConv, try |-> 1]

\* Every variable has its type.
TypeOK ==
    /\ link \in [lead : Leads \cup {NoLead}, conv : Convs \cup {NoConv}]
    /\ task \in [Texts -> [lead : Leads \cup {NoLead}, conv : Convs \cup {NoConv}]]
    /\ copies \in [Texts -> 0..MaxCopies]
    /\ keys \subseteq Texts
    /\ chats \subseteq Convs
    /\ sent \in [Texts -> [Convs -> 0..2]]
    /\ work \in [Consumers -> [at : {"idle", "contact", "create", "save", "send"},
                               text : Texts \cup {NoText},
                               conv : Convs \cup {NoConv},
                               try : 1..Attempts]]
    /\ ran \in [Texts -> 0..2]

Init ==
    /\ link = [lead |-> NoLead, conv |-> NoConv]
    /\ task = [t \in Texts |-> NoTask]
    /\ copies = [t \in Texts |-> 0]
    /\ keys = {}
    /\ chats = {}
    /\ sent = [t \in Texts |-> [v \in Convs |-> 0]]
    /\ work = [c \in Consumers |-> Idle]
    /\ ran = [t \in Texts |-> 0]

Published(t) == task[t] # NoTask

-----------------------------------------------------------------------------
\* The bot

Publish(t, l, v) ==
    /\ ~Published(t)
    /\ task' = [task EXCEPT ![t] = [lead |-> l, conv |-> v]]
    /\ copies' = [copies EXCEPT ![t] = 1]

\* upsert_tg_link replaces lead_id of the row and leaves conversation_id.
UpsertTgLink(l) == link' = [link EXCEPT !.lead = l]

\* /start with the link of lead l; the greeting is mirrored as the bot's text,
\* always with conversation_id None.
OnStart(l, t) ==
    /\ UpsertTgLink(l)
    /\ Publish(t, l, NoConv)
    /\ UNCHANGED <<keys, chats, sent, work, ran>>

\* A text of a linked user. While a survey runs on_text takes the lead from
\* it and no conversation; otherwise both come from the link.
OnText(t) ==
    /\ link.lead # NoLead
    /\ \E v \in {NoConv, link.conv} : Publish(t, link.lead, v)
    /\ UNCHANGED <<link, keys, chats, sent, work, ran>>

-----------------------------------------------------------------------------
\* The mirror handlers

Goto(c, l) == work' = [work EXCEPT ![c].at = l, ![c].try = 1]

\* The handler returns and consume acknowledges the task.
Finish(c) == work' = [work EXCEPT ![c] = Idle]

\* The handler raises: the task goes back to the queue, by way of the retry
\* queue or of the dead letters.
Raise(c) ==
    /\ work' = [work EXCEPT ![c] = Idle]
    /\ copies' = [copies EXCEPT ![work[c].text] =
                    IF @ < MaxCopies THEN @ + 1 ELSE @]

\* Faulty: one try too many.
AgainLate(c) ==
    IF work[c].try <= Attempts
    THEN work' = [work EXCEPT ![c].try = @ + 1] /\ UNCHANGED copies
    ELSE Raise(c)

\* A failed call inside with_retry: again, or raised by the last attempt.
Again(c) ==
    IF work[c].try < Attempts
    THEN work' = [work EXCEPT ![c].try = @ + 1] /\ UNCHANGED copies
    ELSE Raise(c)

Begin(c, t) ==
    work' = [work EXCEPT ![c] =
               [at |-> IF task[t].conv = NoConv THEN "contact" ELSE "send",
                text |-> t, conv |-> task[t].conv, try |-> 1]]

\* The history saturates at 2.
CountBody(t) == ran' = [ran EXCEPT ![t] = IF @ < 2 THEN @ + 1 ELSE @]

\* Faulty: the key is looked up but not stored.
TakeUnrecorded(c, t) ==
    /\ work[c].at = "idle"
    /\ copies[t] > 0
    /\ copies' = [copies EXCEPT ![t] = @ - 1]
    /\ \/ t \in keys /\ UNCHANGED <<work, ran>>
       \/ t \notin keys /\ Begin(c, t) /\ CountBody(t)
    /\ UNCHANGED <<link, task, keys, chats, sent>>

\* A delivery starts with check_and_store(msg_key), one INSERT ... ON CONFLICT
\* DO NOTHING: a known key ends the handler.
Take(c, t) ==
    /\ work[c].at = "idle"
    /\ copies[t] > 0
    /\ copies' = [copies EXCEPT ![t] = @ - 1]
    /\ \/ t \in keys /\ UNCHANGED <<keys, work, ran>>
       \/ t \notin keys /\ keys' = keys \cup {t} /\ Begin(c, t) /\ CountBody(t)
    /\ UNCHANGED <<link, task, chats, sent>>

Lead(c) == task[work[c].text].lead

\* conv_id of ensure_chat_created.
ConvId(k, l) == IF k # NoContact THEN k ELSE l

\* get_lead_with_contacts; any exception is logged and leaves contact_id None.
GetContact(c) ==
    /\ work[c].at = "contact"
    /\ \E k \in {ContactOf[Lead(c)]} \cup (IF "refuse" \in Faults THEN {NoContact} ELSE {}) :
          work' = [work EXCEPT ![c].at = "create", ![c].conv = ConvId(k, Lead(c))]
    /\ UNCHANGED <<link, task, copies, keys, chats, sent, ran>>

\* Faulty: the conversation is saved before the chat is created.
CreateChatLate(c) ==
    /\ work[c].at = "create"
    /\ Goto(c, "save")
    /\ UNCHANGED <<link, task, copies, keys, chats, sent, ran>>

\* ensure_chat_created: POST /chats, which creates or finds the chat.
CreateChat(c) ==
    /\ work[c].at = "create"
    /\ \/ chats' = chats \cup {work[c].conv} /\ Goto(c, "save") /\ UNCHANGED copies
       \/ "lostreply" \in Faults /\ chats' = chats \cup {work[c].conv} /\ Again(c)
       \/ "refuse" \in Faults /\ Again(c) /\ UNCHANGED chats
    /\ UNCHANGED <<link, task, keys, sent, ran>>

\* Faulty: the handler returns once the chat is there.
SetConversationReturns(c) ==
    /\ work[c].at = "save"
    /\ link' = [link EXCEPT !.conv = work[c].conv]
    /\ Finish(c)
    /\ UNCHANGED <<task, copies, keys, chats, sent, ran>>

\* Faulty: a handler that fails gives its key back.
SetConversationReleases(c) ==
    /\ work[c].at = "save"
    /\ \/ /\ link' = [link EXCEPT !.conv = work[c].conv] /\ Goto(c, "send")
          /\ UNCHANGED <<copies, keys>>
       \/ /\ "db" \in Faults /\ Raise(c)
          /\ keys' = keys \ {work[c].text} /\ UNCHANGED link
    /\ UNCHANGED <<task, chats, sent, ran>>

\* set_conversation: UPDATE of the user's row, whatever lead it is about now.
SetConversation(c) ==
    /\ work[c].at = "save"
    /\ \/ link' = [link EXCEPT !.conv = work[c].conv] /\ Goto(c, "send") /\ UNCHANGED copies
       \/ "db" \in Faults /\ Raise(c) /\ UNCHANGED link
    /\ UNCHANGED <<task, keys, chats, sent, ran>>

\* The text appears in the chat; each request has a msgid of its own.
Appear(c) ==
    sent' = [sent EXCEPT ![work[c].text][work[c].conv] = IF @ < 2 THEN @ + 1 ELSE @]

\* send_text_from_client or send_text_from_manager, in with_retry.
SendText(c) ==
    /\ work[c].at = "send"
    /\ \/ Appear(c) /\ Finish(c) /\ UNCHANGED copies
       \/ "lostreply" \in Faults /\ Appear(c) /\ Again(c)
       \/ "refuse" \in Faults /\ Again(c) /\ UNCHANGED sent
    /\ UNCHANGED <<link, task, keys, chats, ran>>

-----------------------------------------------------------------------------
\* The broker and the process

Crash(c) ==
    /\ "crash" \in Faults
    /\ work[c].at # "idle"
    /\ Raise(c)
    /\ UNCHANGED <<link, task, keys, chats, sent, ran>>

Duplicate(t) ==
    /\ "duplicate" \in Faults
    /\ copies[t] \in 1..(MaxCopies - 1)
    /\ copies' = [copies EXCEPT ![t] = @ + 1]
    /\ UNCHANGED <<link, task, keys, chats, sent, work, ran>>

Handle(c) == GetContact(c) \/ CreateChat(c) \/ SetConversation(c) \/ SendText(c)
TakeAny(c) == \E t \in Texts : Take(c, t)

Next ==
    \/ \E t \in Texts : OnText(t) \/ Duplicate(t) \/ \E l \in Leads : OnStart(l, t)
    \/ \E c \in Consumers : TakeAny(c) \/ Handle(c) \/ Crash(c)

Spec == Init /\ [][Next]_vars

\* Event loops run and the queue is first-in first-out; nothing obliges the
\* user to write or a call to fail.
Fairness ==
    /\ \A t \in Texts : SF_vars(\E c \in Consumers : Take(c, t))
    /\ \A c \in Consumers : WF_vars(Handle(c))

FairSpec == Spec /\ Fairness

-----------------------------------------------------------------------------
\* Properties

WorkedOn(t) == {c \in Consumers : work[c].text = t}
Appearances(t) == {v \in Convs : sent[t][v] > 0}

\* Redeliveries and duplicate copies racing on several consumers: the body of
\* a mirror handler runs at most once per message, and never again after it
\* has run, whether it returned, raised or died (mirror.py: check_and_store
\* before anything else); nor does it run without the key.
BodyRunsOnce ==
    \A t \in Texts : /\ ran[t] <= 1
                     /\ Cardinality(WorkedOn(t)) <= 1
                     /\ WorkedOn(t) # {} => t \in keys

\* As a consequence a text appears at most once, in at most one chat, as long
\* as no reply of AmoChats is lost, crashes and duplicates notwithstanding.
NoDoubleText ==
    "lostreply" \notin Faults =>
        \A t \in Texts : /\ Cardinality(Appearances(t)) <= 1
                         /\ \A v \in Convs : sent[t][v] <= 1

\* A conversation is stored, and a text sent, only for a chat that exists.
ChatExists ==
    /\ link.conv # NoConv => link.conv \in chats
    /\ \A t \in Texts : Appearances(t) \subseteq chats

\* A handler of t failed: a copy is left that the known key will skip.
Failed(t) == t \in keys /\ copies[t] > 0 /\ WorkedOn(t) = {}

\* A text that is published appears in AmoChats, unless its handler fails.
EventuallyMirrored ==
    \A t \in Texts :
        Published(t) /\ t \notin keys ~> Appearances(t) # {} \/ Failed(t)

\* mirror.py: "if msg_key was already processed the message is skipped". A
\* task that has left the queue was processed: its text appeared.
SkippedOnlyIfProcessed ==
    \A t \in Texts :
        Published(t) /\ copies[t] = 0 /\ WorkedOn(t) = {} => Appearances(t) # {}

=============================================================================
