---------------------------- MODULE ManagerReply ----------------------------
(***************************************************************************)
(* What a manager writes in AmoCRM, on its way to Telegram: the AmoChats   *)
(* webhook that looks for the Telegram users of a chat and publishes one   *)
(* task for each of them (app/api/api_amochats.py), the tg_links table it  *)
(* reads and completes (app/store_chat.py) while the bots and the mirror   *)
(* change it, and the task handler amo_to_tg (app/services/worker/mirror.py,*)
(* app/services/telegram.py).                                              *)
(*                                                                         *)
(* A chat has two names: the conversation id the bridge gave it, and the   *)
(* reference AmoChats gave it. Either may stand in a row of tg_links.      *)
(* The handlers that create chats are modelled in ChatMirror; here they    *)
(* are the two moments at which AmoChats learns of a user and the row of   *)
(* the user learns of the chat.                                            *)
(***************************************************************************)
EXTENDS Naturals, FiniteSets

CONSTANTS
    Users,        \* Telegram users
    Links,        \* the <<user, bot>> rows that may come to exist
    Leads, Contacts,
    ContactOf,    \* first contact of each lead, NoContact if it has none
    NoLead, NoConv, NoContact, NoUser,
    Msgs,         \* what managers write
    Texts,        \* the texts of these messages
    TextOf,       \* which text each message has
    Idents,       \* may a webhook name its message (TRUE), or not (FALSE)?
    Forms,        \* the sets of names a webhook may give its chat by
    Sends,        \* how often AmoChats sends each webhook
    Attempts,     \* tries of tg_send_with_retry
    MaxCopies,    \* bound on copies of one task in the queue
    MaxStarts,    \* bound on /start commands
    Faults

Bots == {"master", "operator"}
Names == {"ref", "client"}
FaultKinds == {"refuse",       \* Telegram, the database or the broker refuses a call
               "lostreply",    \* Telegram sent the text, the handler sees a failure
               "crash",        \* a process dies between two steps
               "lostconfirm"}  \* a publish is tried again after it was stored

\* ensure_chat_created names a chat after the contact, or else the lead.
Chats == Contacts \cup Leads
Convs == {NoConv} \cup (Names \X Chats)

\* The chats the mirror may create for a lead: a lookup of the contact that
\* fails counts as none.
ChatsOf(l) == {c \in Chats : \/ c = ContactOf[l]
                             \/ c = l /\ (ContactOf[l] = NoContact \/ "refuse" \in Faults)}

ASSUME LinksAssumption == Links \subseteq Users \X Bots
ASSUME ChatAssumption ==
    /\ ContactOf \in [Leads -> Contacts \cup {NoContact}]
    /\ NoContact \notin Contacts \cup Leads
    /\ Contacts \cap Leads = {}
ASSUME NoneAssumption ==
    /\ NoLead \notin Leads
    /\ NoConv \notin (Names \X Chats) \cup Chats
    /\ NoUser \notin Users
ASSUME TextAssumption ==
    /\ TextOf \in [Msgs -> Texts]
    /\ Texts \cap Msgs = {}
    /\ Idents \subseteq BOOLEAN
ASSUME BoundsAssumption ==
    /\ Forms \subseteq SUBSET Names
    /\ Sends \in [Msgs -> Nat \ {0}]
    /\ Attempts \in Nat \ {0}
    /\ MaxCopies \in Nat \ {0}
    /\ MaxStarts \in Nat
    /\ Faults \subseteq FaultKinds

VARIABLES
    row,      \* tg_links: lead and conversation of each row
    order,    \* updated_at: for each bot the pairs of users, the later one second
    ever,     \* history: which leads a user was linked to at some time
    starts,   \* number of /start commands so far
    known,    \* AmoChats: the users each chat was created for
    greet,    \* mirror tasks without a conversation, still to create a chat
    saving,   \* mirror handlers about to store the chat they created
    mail,     \* what AmoChats says of each message written so far
    seen,     \* events_dedup: webhooks
    hook,     \* each request with a webhook: its step, rows to set, to serve
    copies,   \* queue: copies of each amo_to_tg task
    keys,     \* events_dedup: tasks
    sending,  \* tasks whose handler has stored its key and has yet to send
    got,      \* how often each Telegram dialogue shows each message
    raised    \* history: tasks whose handler failed

linkVars == <<row, order, ever, starts>>
chatVars == <<known, greet, saving>>
hookVars == <<mail, seen, hook>>
taskVars == <<copies, keys, sending, got, raised>>
vars == <<linkVars, chatVars, hookVars, taskVars>>

Hooks == UNION {{m} \X (1..Sends[m]) : m \in Msgs}
Tasks == Msgs \X Links
Keys == (Chats \cup {NoConv}) \X (Msgs \cup Texts) \X Links
NoMail == [chat |-> NoConv, names |-> {}, ext |-> NoUser, named |-> FALSE]
Step(l, todo, pick) == [at |-> l, todo |-> todo, pick |-> pick]

Gives(m, n) == n \in mail[m].names

\* Faulty: the key has no bot and no user in it.
KeyOfMessage(t) == <<IF Gives(t[1], "ref") THEN mail[t[1]].chat ELSE NoConv,
                     IF mail[t[1]].named THEN t[1] ELSE TextOf[t[1]]>>

\* msg_key with the bot and the user: the reference of the chat, if the
\* webhook gives it, and the message, or its text if it is not named.
KeyOf(t) == <<IF Gives(t[1], "ref") THEN mail[t[1]].chat ELSE NoConv,
              IF mail[t[1]].named THEN t[1] ELSE TextOf[t[1]],
              t[2]>>

\* Every variable has its type; a task is sent under its key.
TypeOK ==
    /\ row \in [Links -> [lead : Leads \cup {NoLead}, conv : Convs]]
    /\ order \in [Bots -> SUBSET (Users \X Users)]
    /\ ever \subseteq Users \X Leads
    /\ starts \in 0..MaxStarts
    /\ known \in [Chats -> SUBSET Users]
    /\ greet \subseteq Links \X Leads
    /\ saving \subseteq Links \X Chats
    /\ mail \in [Msgs -> {NoMail} \cup [chat : Chats, names : Forms,
                                        ext : Users \cup {NoUser}, named : Idents]]
    /\ seen \subseteq Msgs
    /\ hook \in [Hooks -> [at : {"none", "ref", "client", "lead", "master",
                                 "operator", "set", "publish", "over"},
                           todo : SUBSET Links, pick : SUBSET Links]]
    /\ copies \in [Tasks -> 0..MaxCopies]
    /\ keys \subseteq Keys
    /\ sending \subseteq Tasks
    /\ \A t \in sending : KeyOf(t) \in keys
    /\ got \in [Tasks -> 0..2]
    /\ raised \subseteq Tasks

OthersBefore(u) == (Users \ {u}) \X {u}

\* Nobody has written to the bots yet.
NoRows ==
    /\ row = [r \in Links |-> [lead |-> NoLead, conv |-> NoConv]]
    /\ order = [b \in Bots |-> {}]
    /\ ever = {}
    /\ starts = 0
    /\ known = [c \in Chats |-> {}]

\* A dialogue has gone on for some time, the row names its chat either way.
OneRow(r, l, n, c) ==
    /\ row = [s \in Links |-> IF s = r THEN [lead |-> l, conv |-> <<n, c>>]
                              ELSE [lead |-> NoLead, conv |-> NoConv]]
    /\ order = [b \in Bots |-> IF b = r[2] THEN OthersBefore(r[1]) ELSE {}]
    /\ ever = {<<r[1], l>>}
    /\ starts = 0
    /\ known = [d \in Chats |-> IF d = c THEN {r[1]} ELSE {}]

Init ==
    /\ \/ NoRows
       \/ \E r \in Links, l \in Leads, n \in Names :
             \E c \in ChatsOf(l) : OneRow(r, l, n, c)
    /\ greet = {}
    /\ saving = {}
    /\ mail = [m \in Msgs |-> NoMail]
    /\ seen = {}
    /\ hook = [h \in Hooks |-> Step("none", {}, {})]
    /\ copies = [t \in Tasks |-> 0]
    /\ keys = {}
    /\ sending = {}
    /\ got = [t \in Tasks |-> 0]
    /\ raised = {}

Exists(r) == row[r].lead # NoLead

-----------------------------------------------------------------------------
\* tg_links

\* updated_at = now(): the user is the last of all, and no longer before any.
Touch(r) ==
    order' = [order EXCEPT ![r[2]] = {p \in @ : p[1] # r[1]} \cup OthersBefore(r[1])]

\* upsert_tg_link: nothing at all if the row has this lead already; the
\* conversation stays in any case.
UpsertTgLink(r, l) ==
    IF row[r].lead = l
    THEN UNCHANGED <<row, order>>
    ELSE row' = [row EXCEPT ![r].lead = l] /\ Touch(r)

\* Faulty: an UPDATE that forgets the user in its WHERE.
SetConversationOfBot(r, v) ==
    /\ row' = [s \in Links |-> IF s[2] = r[2] /\ Exists(s)
                               THEN [row[s] EXCEPT !.conv = v] ELSE row[s]]
    /\ Touch(r)

\* set_conversation: whatever the row says by now.
SetConversation(r, v) ==
    /\ row' = [row EXCEPT ![r].conv = v]
    /\ Touch(r)

-----------------------------------------------------------------------------
\* The bots and the mirror

\* /start with the link of lead l; the greeting is mirrored without a
\* conversation, as a text of the survey is.
OnStart(r, l) ==
    /\ starts < MaxStarts
    /\ starts' = starts + 1
    /\ UpsertTgLink(r, l)
    /\ ever' = ever \cup {<<r[1], l>>}
    /\ greet' = greet \cup {<<r, l>>}
    /\ UNCHANGED <<known, saving, hookVars, taskVars>>

\* ensure_chat_created: AmoChats has the chat and knows its user. A mirror
\* task that fails before this step, or the next, is one that never takes it.
CreateChat(r, l) ==
    /\ <<r, l>> \in greet
    /\ greet' = greet \ {<<r, l>>}
    /\ \E c \in ChatsOf(l) :
          /\ known' = [known EXCEPT ![c] = @ \cup {r[1]}]
          /\ saving' = saving \cup {<<r, c>>}
    /\ UNCHANGED <<linkVars, hookVars, taskVars>>

\* The mirror stores the conversation in the row, which may be about another
\* lead by now.
SaveChat(r, c) ==
    /\ <<r, c>> \in saving
    /\ saving' = saving \ {<<r, c>>}
    /\ SetConversation(r, <<"client", c>>)
    /\ UNCHANGED <<ever, starts, known, greet, hookVars, taskVars>>

-----------------------------------------------------------------------------
\* The webhook

\* A manager writes in chat c; the webhook may name the Telegram user, and the
\* message. Two messages have different bodies, two texts different hashes.
Write(m, c) ==
    /\ mail[m] = NoMail
    /\ known[c] # {}
    /\ \E n \in Forms, x \in known[c] \cup {NoUser}, b \in Idents :
          mail' = [mail EXCEPT ![m] = [chat |-> c, names |-> n, ext |-> x, named |-> b]]
    /\ UNCHANGED <<linkVars, chatVars, seen, hook, taskVars>>

Goto(h, l) == hook' = [hook EXCEPT ![h].at = l]

\* AmoChats sends the webhook, once or again; requests may overlap. The first
\* thing a request does is is_duplicate: check_and_store on the raw body.
Begin(h) ==
    /\ mail[h[1]] # NoMail
    /\ hook[h].at = "none"
    /\ IF h[1] \in seen THEN Goto(h, "over") ELSE Goto(h, "ref")
    /\ seen' = seen \cup {h[1]}
    /\ UNCHANGED <<linkVars, chatVars, mail, taskVars>>

\* Is r the row with the greatest updated_at of its bot among L?
Latest(r, L) ==
    \A s \in L : s[2] = r[2] /\ s # r => <<s[1], r[1]>> \in order[r[2]]

\* Faulty: every row is served, as if each bot had one user in a chat.
EveryRow(L) == L

\* publish_links serves one row for each bot of those it is handed, with the
\* updated_at they had when they were read.
Selected(L) == {r \in L : Latest(r, L)}

ByConversation(v) == {r \in Links : row[r].conv = v}
ByLead(l) == {r \in Links : row[r].lead = l}
Unset(L) == {r \in L : row[r].conv = NoConv}

\* The next query, once this one found the rows L.
Found(h, L, next, todo) ==
    hook' = [hook EXCEPT ![h] = IF L = {} THEN Step(next, {}, {})
                                ELSE Step("set", todo, Selected(L))]

\* resolve_links asks for the reference, then for the client's name, then for
\* the lead of that name, one await each.
FindByRef(h) ==
    /\ hook[h].at = "ref"
    /\ Found(h, IF Gives(h[1], "ref") THEN ByConversation(<<"ref", mail[h[1]].chat>>) ELSE {},
             "client", {})
    /\ UNCHANGED <<linkVars, chatVars, mail, seen, taskVars>>

FindByClient(h) ==
    /\ hook[h].at = "client"
    /\ Found(h, IF Gives(h[1], "client") THEN ByConversation(<<"client", mail[h[1]].chat>>) ELSE {},
             "lead", {})
    /\ UNCHANGED <<linkVars, chatVars, mail, seen, taskVars>>

FindByLead(h) ==
    /\ hook[h].at = "lead"
    /\ LET L == IF Gives(h[1], "client") /\ mail[h[1]].chat \in Leads
                THEN ByLead(mail[h[1]].chat) ELSE {}
       IN  Found(h, L, "master", Unset(L))
    /\ UNCHANGED <<linkVars, chatVars, mail, seen, taskVars>>

\* Faulty: get_by_user forgets the user.
RowOfAnybody(h, b) == {r \in Links : r[2] = b /\ Exists(r)}

\* links_from_ext_id reads the user's two rows one after the other.
UserRow(h, b) == {r \in Links : r = <<mail[h[1]].ext, b>> /\ Exists(r)}

FindMaster(h) ==
    /\ hook[h].at = "master"
    /\ LET L == UserRow(h, "master")
       IN  hook' = [hook EXCEPT ![h] = Step("operator", Unset(L), L)]
    /\ UNCHANGED <<linkVars, chatVars, mail, seen, taskVars>>

\* The rows without a conversation, or all if each has one.
FindOperator(h) ==
    /\ hook[h].at = "operator"
    /\ LET L == UserRow(h, "operator")
           none == hook[h].todo \cup Unset(L)
           names == mail[h[1]].names
       IN  hook' = [hook EXCEPT ![h] =
                      Step("set", IF names = {} THEN {} ELSE none,
                           IF none # {} THEN none ELSE hook[h].pick \cup L)]
    /\ UNCHANGED <<linkVars, chatVars, mail, seen, taskVars>>

\* conv_ref_id or client_conv_id.
TargetConv(m) == <<IF Gives(m, "ref") THEN "ref" ELSE "client", mail[m].chat>>

\* set_conv_for_links goes by what the rows said when they were read.
SetConvForLinks(h) ==
    /\ hook[h].at = "set"
    /\ \/ /\ hook[h].todo = {}
          /\ Goto(h, "publish")
          /\ UNCHANGED <<row, order>>
       \/ \E r \in hook[h].todo :
             /\ SetConversation(r, TargetConv(h[1]))
             /\ hook' = [hook EXCEPT ![h].todo = @ \ {r}]
    /\ UNCHANGED <<ever, starts, chatVars, mail, seen, taskVars>>

Enqueue(t, n) ==
    copies' = [copies EXCEPT ![t] = IF @ + n < MaxCopies THEN @ + n ELSE MaxCopies]

\* publish_task: two copies if the confirm of the first was lost.
PublishTask(t) ==
    \E n \in 1..(IF "lostconfirm" \in Faults THEN 2 ELSE 1) : Enqueue(t, n)

\* publish_links: a task for each selected row, then the answer.
PublishLinks(h) ==
    /\ hook[h].at = "publish"
    /\ \/ /\ hook[h].pick = {}
          /\ Goto(h, "over")
          /\ UNCHANGED copies
       \/ \E r \in hook[h].pick :
             /\ PublishTask(<<h[1], r>>)
             /\ hook' = [hook EXCEPT ![h].pick = @ \ {r}]
    /\ UNCHANGED <<linkVars, chatVars, mail, seen, keys, sending, got, raised>>

\* The database or the broker raises, or the process dies: no 200.
RequestFails(h) ==
    /\ Faults \cap {"refuse", "crash"} # {}
    /\ hook[h].at \notin {"none", "over"}
    /\ hook' = [hook EXCEPT ![h] = Step("over", {}, {})]
    /\ UNCHANGED <<linkVars, chatVars, mail, seen, taskVars>>

-----------------------------------------------------------------------------
\* handle_mirror_amo_to_tg

\* got saturates at 2.
Shown(t, n) == got' = [got EXCEPT ![t] = IF @ + n < 2 THEN @ + n ELSE 2]

\* Faulty: the key is looked up but not stored.
TakeUnstored(t) ==
    /\ copies[t] > 0
    /\ copies' = [copies EXCEPT ![t] = @ - 1]
    /\ sending' = IF KeyOf(t) \in keys THEN sending ELSE sending \cup {t}
    /\ UNCHANGED <<linkVars, chatVars, hookVars, keys, got, raised>>

\* A delivery starts with check_and_store; a known key ends the handler.
Take(t) ==
    /\ copies[t] > 0
    /\ copies' = [copies EXCEPT ![t] = @ - 1]
    /\ \/ KeyOf(t) \in keys /\ UNCHANGED <<keys, sending>>
       \/ /\ KeyOf(t) \notin keys
          /\ keys' = keys \cup {KeyOf(t)}
          /\ sending' = sending \cup {t}
    /\ UNCHANGED <<linkVars, chatVars, hookVars, got, raised>>

\* How often a text can be shown by tries whose replies are lost.
Unnoticed(n) == IF "lostreply" \in Faults THEN 0..n ELSE {0}

\* tg_send_with_retry returns: one try went well, the ones before it failed.
TgSend(t) ==
    /\ t \in sending
    /\ \E n \in Unnoticed(Attempts - 1) : Shown(t, n + 1)
    /\ sending' = sending \ {t}
    /\ UNCHANGED <<linkVars, chatVars, hookVars, copies, keys, raised>>

\* Its last try fails, one with an error it does not retry, or the process
\* dies: the handler is left and the queue will bring the task again.
TgSendFails(t) ==
    /\ t \in sending
    /\ Faults \cap {"refuse", "crash", "lostreply"} # {}
    /\ \E n \in Unnoticed(Attempts) : Shown(t, n)
    /\ sending' = sending \ {t}
    /\ Enqueue(t, 1)
    /\ raised' = raised \cup {t}
    /\ UNCHANGED <<linkVars, chatVars, hookVars, keys>>

-----------------------------------------------------------------------------
Serve(t) == TgSend(t) \/ TgSendFails(t)

Handle(h) ==
    \/ FindByRef(h) \/ FindByClient(h) \/ FindByLead(h)
    \/ FindMaster(h) \/ FindOperator(h)
    \/ SetConvForLinks(h) \/ PublishLinks(h)

Next ==
    \/ \E r \in Links, l \in Leads : OnStart(r, l) \/ CreateChat(r, l)
    \/ \E r \in Links, c \in Chats : SaveChat(r, c)
    \/ \E m \in Msgs, c \in Chats : Write(m, c)
    \/ \E h \in Hooks : Begin(h) \/ Handle(h) \/ RequestFails(h)
    \/ \E t \in Tasks : Take(t) \/ Serve(t)

Spec == Init /\ [][Next]_vars

-----------------------------------------------------------------------------
\* Properties

\* The user was at some time linked to a lead that chat c belongs to.
InChat(u, c) == \E l \in Leads : <<u, l>> \in ever /\ c \in ChatsOf(l)

\* Rows are read and written in separate awaits by the webhook, the bots and
\* the mirror: still the conversation in a row is always a chat of its user.
ChatOfUser ==
    \A r \in Links : row[r].conv # NoConv => InChat(r[1], row[r].conv[2])

\* Whatever changes while the webhook looks for the users, what a manager
\* writes is shown to nobody who was never linked to a lead of that chat.
NoStranger ==
    \A t \in Tasks : got[t] > 0 => InChat(t[2][1], mail[t[1]].chat)

\* Webhooks come again, tasks come again, and rows are picked by a time that
\* changes: still each bot shows a message to one user at most, and to this
\* one once if no reply of Telegram is lost.
ShownOnce ==
    \A s, t \in Tasks :
        /\ got[s] > 0 /\ got[t] > 0 /\ s[1] = t[1] /\ s[2][2] = t[2][2] => s = t
        /\ "lostreply" \notin Faults => got[t] <= 1

\* Two messages of one text, neither named by its webhook, and the chats told
\* apart by nothing the webhooks give.
Alike(m, n) ==
    /\ m # n /\ TextOf[m] = TextOf[n]
    /\ ~ mail[m].named /\ ~ mail[n].named
    /\ Gives(m, "ref") = Gives(n, "ref")
    /\ Gives(m, "ref") => mail[m].chat = mail[n].chat

TakenUp(t) == t \in sending \cup raised \/ got[t] > 0

\* mirror.py, "duplicate dropped": a delivery is taken for a duplicate only if
\* this very task was taken up before, or one like it for the same user and bot;
\* never because the user's other bot was handed the message.
NeverMistaken ==
    \A t \in Tasks :
        copies[t] > 0 /\ KeyOf(t) \in keys =>
            TakenUp(t) \/ \E m \in Msgs : Alike(m, t[1]) /\ TakenUp(<<m, t[2]>>)

=============================================================================
