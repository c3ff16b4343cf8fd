-------------------------- MODULE ChatMirrorProofs --------------------------
(***************************************************************************)
(* Proofs about ChatMirror, for any texts, leads, contacts and consumers,  *)
(* any number of tries and copies, and any set of faults.                  *)
(***************************************************************************)
EXTENDS ChatMirror, FiniteSetTheorems, TLAPS

Busy == {"contact", "create", "save", "send"}

WorkType == [at : {"idle"} \cup Busy, text : Texts \cup {NoText},
             conv : Convs \cup {NoConv}, try : 1..Attempts]

\* A consumer inside a handler has a text of its own, whose key is stored.
Alone ==
    /\ \A c \in Consumers : /\ work[c].at = "idle" <=> work[c].text = NoText
                            /\ work[c].text \in Texts => work[c].text \in keys
    /\ \A c, d \in Consumers :
          work[c].text \in Texts /\ work[c].text = work[d].text => c = d

\* Every conversation somebody may write to is a chat that exists.
ChatsOK ==
    /\ link.conv # NoConv => link.conv \in chats
    /\ \A t \in Texts : task[t].conv # NoConv => task[t].conv \in chats
    /\ \A c \in Consumers :
          /\ work[c].at \in {"save", "send"} => work[c].conv \in chats
          /\ work[c].at = "create" => work[c].conv # NoConv
    /\ \A t \in Texts : Appearances(t) \subseteq chats

\* A text has not appeared before its key is stored, nor while its handler is
\* still at work; after that it has appeared at most once.
Unsent(t) == \A v \in Convs : sent[t][v] = 0
SentOnce(t) == \E v \in Convs : /\ sent[t][v] = 1
                                /\ \A w \in Convs \ {v} : sent[t][w] = 0
SendsOK ==
    "lostreply" \notin Faults =>
        \A t \in Texts : /\ Unsent(t) \/ SentOnce(t)
                         /\ t \notin keys => Unsent(t)
                         /\ \A c \in Consumers : work[c].text = t => Unsent(t)

\* A body has run at most once, and not before the key was stored.
RanOK == \A t \in Texts : /\ ran[t] <= 1
                          /\ t \notin keys => ran[t] = 0

-----------------------------------------------------------------------------
LEMMA ConvIdType ==
    ASSUME NEW k \in Contacts \cup {NoContact}, NEW l \in Leads
    PROVE  ConvId(k, l) \in Convs
BY DEF ConvId, Convs

-----------------------------------------------------------------------------
\* Types

\* Only published tasks are in the queue and with a consumer, so every one at
\* work has a lead; and from its creation on a conversation.
Linked ==
    /\ \A t \in Texts : copies[t] > 0 => task[t].lead \in Leads
    /\ \A c \in Consumers :
          /\ work[c].text \in Texts => task[work[c].text].lead \in Leads
          /\ work[c].at \in {"create", "save", "send"} => work[c].conv \in Convs

Typed == TypeOK /\ Alone /\ Linked

\* A consumer inside a handler has a text.
LEMMA TextOf ==
    ASSUME Typed, NEW c \in Consumers
    PROVE  /\ work \in [Consumers -> WorkType]
           /\ work[c] \in WorkType
           /\ work[c].at # "idle" => work[c].text \in Texts
<1>1. work \in [Consumers -> WorkType]
  BY DEF Typed, TypeOK, WorkType, Busy
<1>2. work[c].text \in Texts \cup {NoText}
  BY <1>1 DEF WorkType
<1> QED
  BY <1>1, <1>2 DEF Typed, Alone

\* Going back to the queue leaves the consumer idle.
LEMMA RaiseType ==
    ASSUME Typed, NEW c \in Consumers, work[c].at # "idle", Raise(c)
    PROVE  /\ copies' \in [Texts -> 0..MaxCopies]
           /\ work' = [work EXCEPT ![c] = Idle]
           /\ \A t \in Texts : copies'[t] > 0 => copies[t] > 0 \/ t = work[c].text
<1>1. /\ work[c].text \in Texts
      /\ copies \in [Texts -> 0..MaxCopies]
  BY TextOf DEF Typed, TypeOK
<1>2. MaxCopies \in Nat
  BY ChatAssumption
<1> QED
  BY <1>1, <1>2 DEF Raise

\* The last failed try goes back to the queue; the others change only the count.
LEMMA AgainType ==
    ASSUME Typed, NEW c \in Consumers, work[c].at # "idle", Again(c)
    PROVE  /\ copies' \in [Texts -> 0..MaxCopies]
           /\ \/ work' = [work EXCEPT ![c] = Idle]
              \/ work' = [work EXCEPT ![c] = [work[c] EXCEPT !.try = @ + 1]]
                 /\ work[c].try < Attempts
           /\ \A t \in Texts : copies'[t] > 0 => copies[t] > 0 \/ t = work[c].text
<1>1. CASE work[c].try < Attempts
  <2>1. work' = [work EXCEPT ![c].try = @ + 1] /\ UNCHANGED copies
    BY <1>1 DEF Again
  <2> QED
    BY <1>1, <2>1, TextOf DEF Typed, TypeOK
<1>2. CASE ~(work[c].try < Attempts)
  BY <1>2, RaiseType DEF Again
<1> QED
  BY <1>1, <1>2

\* What a consumer turns to next, in any step of Handle and in a crash: it is
\* idle, tries again, or goes on with the same text and a conversation.
Turns(c) ==
    /\ work' \in [Consumers -> WorkType]
    /\ \A d \in Consumers \ {c} : work'[d] = work[d]
    /\ \/ work'[c] = Idle
       \/ /\ work'[c].text = work[c].text
          /\ \/ work'[c].at = work[c].at /\ work'[c].conv = work[c].conv
             \/ work'[c].at \in Busy /\ work'[c].conv \in Convs

LEMMA IdleTurns ==
    ASSUME Typed, NEW c \in Consumers, work' = [work EXCEPT ![c] = Idle]
    PROVE  Turns(c)
<1>1. work \in [Consumers -> WorkType]
  BY TextOf
<1>2. Idle \in WorkType
  BY ChatAssumption DEF Idle, WorkType
<1> QED
  BY <1>1, <1>2 DEF Turns

LEMMA RetryTurns ==
    ASSUME Typed, NEW c \in Consumers, work[c].at # "idle", Again(c)
    PROVE  Turns(c)
<1>1. work \in [Consumers -> WorkType] /\ work[c] \in WorkType
  BY TextOf
<1>2. CASE /\ work[c].try < Attempts
           /\ work' = [work EXCEPT ![c] = [work[c] EXCEPT !.try = @ + 1]]
  <2>1. [work[c] EXCEPT !.try = @ + 1] \in WorkType
    BY <1>1, <1>2, ChatAssumption DEF WorkType
  <2> QED
    BY <1>1, <1>2, <2>1 DEF WorkType, Turns
<1> QED
  BY <1>2, AgainType, IdleTurns

LEMMA GotoTurns ==
    ASSUME Typed, NEW c \in Consumers, NEW l \in Busy, Goto(c, l),
           work[c].conv \in Convs
    PROVE  Turns(c)
<1>1. work \in [Consumers -> WorkType] /\ work[c] \in WorkType /\ 1 \in 1..Attempts
  BY TextOf, ChatAssumption
<1>2. work' \in [Consumers -> WorkType]
  BY <1>1 DEF Goto, WorkType
<1>3. \A d \in Consumers \ {c} : work'[d] = work[d]
  BY <1>1 DEF Goto
<1>4. work'[c].at = l /\ work'[c].text = work[c].text /\ work'[c].conv = work[c].conv
  BY <1>1 DEF Goto, WorkType
<1> QED
  BY <1>2, <1>3, <1>4 DEF Turns

\* The steps of a handler, and its crash, are such turns.
LEMMA HandleTurns ==
    ASSUME Typed, NEW c \in Consumers, Handle(c) \/ Crash(c)
    PROVE  /\ work[c].at # "idle" /\ Turns(c) /\ UNCHANGED <<task, keys>>
           /\ copies' \in [Texts -> 0..MaxCopies]
           /\ \A t \in Texts : copies'[t] > 0 => copies[t] > 0 \/ t = work[c].text
<1>0. /\ work[c] \in WorkType
      /\ copies \in [Texts -> 0..MaxCopies]
      /\ work[c].at # "idle" => task[work[c].text].lead \in Leads
      /\ work[c].at \in {"create", "save"} => work[c].conv \in Convs
      /\ 1 \in 1..Attempts
  BY TextOf, ChatAssumption DEF Typed, TypeOK, Linked
<1>1. CASE GetContact(c)
  <2>1. PICK k \in {ContactOf[Lead(c)]} \cup {NoContact} :
          work' = [work EXCEPT ![c].at = "create", ![c].conv = ConvId(k, Lead(c))]
    BY <1>1 DEF GetContact
  <2>2. ConvId(k, Lead(c)) \in Convs /\ work[c].try \in 1..Attempts
    <3>1. Lead(c) \in Leads
      BY <1>0, <1>1 DEF GetContact, Lead
    <3>2. k \in Contacts \cup {NoContact}
      BY <3>1, ChatAssumption
    <3> QED
      BY <1>0, <3>1, <3>2, ConvIdType DEF WorkType
  <2>3. QED
    <3>1. work \in [Consumers -> WorkType]
      BY TextOf
    <3>2. work' \in [Consumers -> WorkType]
      <4>1. PICK v \in Convs : work' = [work EXCEPT ![c].at = "create", ![c].conv = v]
        BY <2>1, <2>2
      <4>2. [work[c] EXCEPT !.at = "create", !.conv = v] \in WorkType
        BY <1>0 DEF WorkType, Busy
      <4>3. work' = [work EXCEPT ![c] = [work[c] EXCEPT !.at = "create", !.conv = v]]
        BY <3>1, <4>1
      <4> QED
        BY <3>1, <4>2, <4>3
    <3>3. \A d \in Consumers \ {c} : work'[d] = work[d]
      BY <2>1, <3>1
    <3>4. /\ work'[c].text = work[c].text
          /\ work'[c].at = "create" /\ work'[c].conv = ConvId(k, Lead(c))
      BY <1>0, <2>1, <3>1 DEF WorkType
    <3> QED
      BY <1>0, <1>1, <2>2, <3>2, <3>3, <3>4 DEF GetContact, Turns, Busy
<1>2. CASE CreateChat(c)
  <2>1. CASE Goto(c, "save") /\ UNCHANGED copies
    <3>1. work[c].conv \in Convs /\ work[c].at # "idle"
      BY <1>0, <1>2 DEF CreateChat
    <3> QED
      BY <1>0, <1>2, <2>1, <3>1, GotoTurns DEF CreateChat, Busy
  <2>2. CASE Again(c)
    BY <1>2, <2>2, AgainType, RetryTurns DEF CreateChat
  <2> QED
    BY <1>2, <2>1, <2>2 DEF CreateChat
<1>3. CASE SetConversation(c)
  <2>1. CASE Goto(c, "send") /\ UNCHANGED copies
    <3>1. work[c].conv \in Convs /\ work[c].at # "idle"
      BY <1>0, <1>3 DEF SetConversation
    <3> QED
      BY <1>0, <1>3, <2>1, <3>1, GotoTurns DEF SetConversation, Busy
  <2>2. CASE Raise(c)
    BY <1>3, <2>2, RaiseType, IdleTurns DEF SetConversation
  <2> QED
    BY <1>3, <2>1, <2>2 DEF SetConversation
<1>4. CASE SendText(c)
  <2>1. CASE Finish(c) /\ UNCHANGED copies
    BY <1>0, <1>4, <2>1, IdleTurns DEF SendText, Finish
  <2>2. CASE Again(c)
    BY <1>4, <2>2, AgainType, RetryTurns DEF SendText
  <2> QED
    BY <1>4, <2>1, <2>2 DEF SendText
<1>5. CASE Crash(c)
  BY <1>5, RaiseType, IdleTurns DEF Crash
<1> QED
  BY <1>1, <1>2, <1>3, <1>4, <1>5 DEF Handle

\* A delivery that is not skipped occupies its consumer.
LEMMA TakeBegins ==
    ASSUME Typed, NEW c \in Consumers, NEW t \in Texts, Take(c, t)
    PROVE  /\ work[c].at = "idle" /\ copies[t] > 0
           /\ copies' \in [Texts -> 0..MaxCopies]
           /\ \A u \in Texts : copies'[u] > 0 => copies[u] > 0
           /\ UNCHANGED task
           /\ \/ t \in keys /\ UNCHANGED <<keys, work>>
              \/ /\ t \notin keys /\ keys' = keys \cup {t}
                 /\ \E l \in {"contact", "send"} :
                       work' = [work EXCEPT ![c] =
                         [at |-> l, text |-> t, conv |-> task[t].conv, try |-> 1]]
                 /\ task[t].conv = NoConv =>
                       work' = [work EXCEPT ![c] =
                         [at |-> "contact", text |-> t, conv |-> NoConv, try |-> 1]]
BY ChatAssumption DEF Typed, TypeOK, Take, Begin

\* Only Take counts a body.
LEMMA RanStays ==
    ASSUME [Next]_vars
    PROVE  \/ UNCHANGED ran
           \/ \E c \in Consumers, t \in Texts :
                /\ t \notin keys /\ keys' = keys \cup {t} /\ CountBody(t)
BY DEF Next, vars, OnText, Duplicate, OnStart, TakeAny, Take, Handle, GetContact,
       CreateChat, SetConversation, SendText, Crash

LEMMA RanType ==
    ASSUME Typed, [Next]_vars
    PROVE  ran' \in [Texts -> 0..2]
<1>1. ran \in [Texts -> 0..2]
  BY DEF Typed, TypeOK
<1>2. ASSUME NEW t \in Texts, CountBody(t) PROVE ran' \in [Texts -> 0..2]
  <2>1. ran[t] \in 0..2
    BY <1>1
  <2>2. (IF ran[t] < 2 THEN ran[t] + 1 ELSE ran[t]) \in 0..2
    BY <2>1
  <2> QED
    BY <1>1, <1>2, <2>2 DEF CountBody
<1> QED
  BY <1>1, <1>2, RanStays

LEMMA NextTyped == Typed /\ [Next]_vars => Typed'
<1> SUFFICES ASSUME Typed, [Next]_vars PROVE Typed'
  OBVIOUS
<1>0. work \in [Consumers -> WorkType]
  BY TextOf DEF Typed, TypeOK, WorkType, Busy
<1>r. ran' \in [Texts -> 0..2]
  BY RanType
<1> USE ChatAssumption
<1>1. ASSUME NEW t \in Texts, OnText(t) \/ Duplicate(t) \/ \E l \in Leads : OnStart(l, t)
      PROVE  Typed'
  <2>1. UNCHANGED <<keys, chats, sent, work>>
    BY <1>1 DEF OnText, Duplicate, OnStart
  <2>2. /\ link' \in [lead : Leads \cup {NoLead}, conv : Convs \cup {NoConv}]
        /\ task' \in [Texts -> [lead : Leads \cup {NoLead}, conv : Convs \cup {NoConv}]]
        /\ copies' \in [Texts -> 0..MaxCopies]
    <3>1. CASE Duplicate(t)
      BY <1>1, <3>1 DEF Typed, TypeOK, Duplicate
    <3>2. CASE OnText(t)
      <4>1. PICK v \in Convs \cup {NoConv} : Publish(t, link.lead, v)
        BY <3>2 DEF OnText, Typed, TypeOK
      <4>2. link.lead \in Leads
        BY <3>2 DEF OnText, Typed, TypeOK
      <4> QED
        BY <3>2, <4>1, <4>2 DEF OnText, Publish, Typed, TypeOK
    <3>3. ASSUME NEW l \in Leads, OnStart(l, t)
          PROVE  /\ link' \in [lead : Leads \cup {NoLead}, conv : Convs \cup {NoConv}]
                 /\ task' \in [Texts -> [lead : Leads \cup {NoLead}, conv : Convs \cup {NoConv}]]
                 /\ copies' \in [Texts -> 0..MaxCopies]
      <4>1. /\ link' = [link EXCEPT !.lead = l]
            /\ link \in [lead : Leads \cup {NoLead}, conv : Convs \cup {NoConv}]
        BY <3>3 DEF OnStart, UpsertTgLink, Typed, TypeOK
      <4>2. /\ task' = [task EXCEPT ![t] = [lead |-> l, conv |-> NoConv]]
            /\ task \in [Texts -> [lead : Leads \cup {NoLead}, conv : Convs \cup {NoConv}]]
        BY <3>3 DEF OnStart, Publish, Typed, TypeOK
      <4>3. copies' = [copies EXCEPT ![t] = 1] /\ copies \in [Texts -> 0..MaxCopies]
        BY <3>3 DEF OnStart, Publish, Typed, TypeOK
      <4>4. link' \in [lead : Leads \cup {NoLead}, conv : Convs \cup {NoConv}]
        BY <4>1
      <4>5. task' \in [Texts -> [lead : Leads \cup {NoLead}, conv : Convs \cup {NoConv}]]
        BY <4>2
      <4>6. copies' \in [Texts -> 0..MaxCopies]
        BY <4>3
      <4> QED
        BY <4>4, <4>5, <4>6
    <3> QED
      BY <1>1, <3>1, <3>2, <3>3
  <2>3. TypeOK'
    BY <1>r, <2>1, <2>2 DEF Typed, TypeOK
  <2>4. \A u \in Texts : task[u].lead \in Leads => task'[u].lead \in Leads
    BY <1>1 DEF Typed, TypeOK, OnText, Duplicate, OnStart, UpsertTgLink, Publish,
                Published, NoTask
  <2>5. \A u \in Texts : copies'[u] > 0 => copies[u] > 0 \/ task'[u].lead \in Leads
    <3>0. copies \in [Texts -> 0..MaxCopies] /\ link.lead \in Leads \cup {NoLead}
      BY DEF Typed, TypeOK
    <3>1. CASE Duplicate(t)
      BY <3>0, <3>1 DEF Duplicate
    <3>2. ASSUME NEW l \in Leads, NEW v, Publish(t, l, v)
          PROVE  \A u \in Texts : copies'[u] > 0 => copies[u] > 0 \/ task'[u].lead \in Leads
      BY <3>0, <3>2 DEF Publish, Typed, TypeOK
    <3>3. CASE OnText(t)
      BY <3>0, <3>2, <3>3 DEF OnText
    <3>4. CASE \E l \in Leads : OnStart(l, t)
      BY <3>2, <3>4 DEF OnStart
    <3> QED
      BY <1>1, <3>1, <3>3, <3>4
  <2> QED
    BY <2>1, <2>3, <2>4, <2>5 DEF Typed, Alone, Linked
<1>2. ASSUME NEW c \in Consumers, NEW t \in Texts, Take(c, t) PROVE Typed'
  <2>1. CASE UNCHANGED work
    BY <1>r, <1>2, <2>1, TakeBegins DEF Typed, TypeOK, Alone, Linked, Take
  <2>2. CASE ~UNCHANGED work
    <3>1. PICK l \in {"contact", "send"} :
            /\ t \notin keys /\ keys' = keys \cup {t}
            /\ work' = [work EXCEPT ![c] =
                 [at |-> l, text |-> t, conv |-> task[t].conv, try |-> 1]]
      BY <1>2, <2>2, TakeBegins
    <3>0. work'[c].at = "send" => task[t].conv \in Convs
      BY <1>0, <1>2, <2>2, TakeBegins DEF Typed, TypeOK
    <3>2. [at |-> l, text |-> t, conv |-> task[t].conv, try |-> 1] \in WorkType
      BY DEF Typed, TypeOK, WorkType, Busy
    <3>3. work' \in [Consumers -> WorkType]
      BY <1>0, <3>1, <3>2
    <3>4. TypeOK'
      BY <1>r, <1>2, <3>1, <3>3, TakeBegins DEF Typed, TypeOK, Take, WorkType, Busy
    <3>5. Alone'
      BY <1>0, <3>1 DEF Typed, Alone
    <3>6. Linked'
      <4>1. /\ copies[t] > 0 /\ task' = task
            /\ \A u \in Texts : copies'[u] > 0 => copies[u] > 0
        BY <1>2, TakeBegins
      <4>2. \A d \in Consumers \ {c} : work'[d] = work[d]
        BY <1>0, <3>1
      <4>3. /\ work'[c].text = t /\ work'[c].conv = task[t].conv
            /\ work'[c].at \in {"contact", "send"}
        BY <1>0, <3>1
      <4> QED
        BY <3>0, <4>1, <4>2, <4>3 DEF Typed, Linked
    <3> QED
      BY <3>4, <3>5, <3>6 DEF Typed
  <2> QED
    BY <2>1, <2>2
<1>3. ASSUME NEW c \in Consumers, Handle(c) \/ Crash(c) PROVE Typed'
  <2>1. /\ work[c].at # "idle" /\ work[c].text \in Texts
        /\ UNCHANGED <<task, keys>>
        /\ copies' \in [Texts -> 0..MaxCopies]
        /\ \A t \in Texts : copies'[t] > 0 => copies[t] > 0 \/ t = work[c].text
        /\ Turns(c)
    BY <1>3, HandleTurns, TextOf
  <2>2. /\ work' \in [Consumers -> WorkType]
        /\ \A d \in Consumers \ {c} : work'[d] = work[d]
        /\ \/ work'[c] = Idle
           \/ /\ work'[c].text = work[c].text
              /\ \/ work'[c].at = work[c].at /\ work'[c].conv = work[c].conv
                 \/ work'[c].at \in Busy /\ work'[c].conv \in Convs
    BY <2>1 DEF Turns
  <2>3. /\ link' \in [lead : Leads \cup {NoLead}, conv : Convs \cup {NoConv}]
        /\ chats' \subseteq Convs
        /\ sent' \in [Texts -> [Convs -> 0..2]]
    <3>1. CASE GetContact(c) \/ Crash(c)
      BY <3>1 DEF Typed, TypeOK, GetContact, Crash
    <3>2. CASE CreateChat(c)
      BY <3>2 DEF Typed, TypeOK, Linked, CreateChat
    <3>3. CASE SetConversation(c)
      BY <3>3 DEF Typed, TypeOK, Linked, SetConversation
    <3>4. CASE SendText(c)
      <4>1. /\ work[c].text \in Texts /\ work[c].conv \in Convs
            /\ sent \in [Texts -> [Convs -> 0..2]]
        BY <2>1, <3>4 DEF Typed, TypeOK, Linked, SendText
      <4>2. CASE Appear(c)
        <5> DEFINE t == work[c].text
                   v == work[c].conv
                   n == IF sent[t][v] < 2 THEN sent[t][v] + 1 ELSE sent[t][v]
        <5>1. sent' = [sent EXCEPT ![t] = [sent[t] EXCEPT ![v] = n]]
          BY <4>1, <4>2 DEF Appear
        <5>2. sent[t] \in [Convs -> 0..2] /\ sent[t][v] \in 0..2
          BY <4>1
        <5>3. n \in 0..2
          BY <5>2
        <5> HIDE DEF n
        <5>4. [sent[t] EXCEPT ![v] = n] \in [Convs -> 0..2]
          BY <5>2, <5>3
        <5> QED
          BY <3>4, <4>1, <5>1, <5>4 DEF SendText, Typed, TypeOK
      <4> QED
        BY <3>4, <4>1, <4>2 DEF SendText, Typed, TypeOK
    <3> QED
      BY <1>3, <3>1, <3>2, <3>3, <3>4 DEF Handle
  <2>4. TypeOK'
    BY <1>r, <2>1, <2>2, <2>3 DEF Typed, TypeOK, WorkType, Busy
  <2>5. Alone'
    BY <2>1, <2>2 DEF Typed, Alone, Idle, Busy
  <2>6. Linked'
    BY <2>1, <2>2 DEF Typed, Linked, Idle, Busy
  <2> QED
    BY <2>4, <2>5, <2>6 DEF Typed
<1>4. CASE UNCHANGED vars
  BY <1>r, <1>4 DEF vars, Typed, TypeOK, Alone, Linked
<1> QED
  BY <1>1, <1>2, <1>3, <1>4 DEF Next, TakeAny

-----------------------------------------------------------------------------
\* Chats

\* Chats are never deleted.
LEMMA ChatsGrow == [Next]_vars => chats \subseteq chats'
BY DEF Next, vars, OnText, Duplicate, OnStart, TakeAny, Take, Handle, GetContact,
       CreateChat, SetConversation, SendText, Crash

LEMMA NextChats == Typed /\ ChatsOK /\ [Next]_vars => ChatsOK'
<1> SUFFICES ASSUME Typed, ChatsOK, [Next]_vars PROVE ChatsOK'
  OBVIOUS
<1>0. /\ work \in [Consumers -> WorkType]
      /\ chats \subseteq chats'
      /\ NoConv \notin Convs
  BY TextOf, ChatsGrow, ChatAssumption DEF Typed, TypeOK, WorkType, Busy
<1>1. ASSUME NEW t \in Texts, OnText(t) \/ Duplicate(t) \/ \E l \in Leads : OnStart(l, t)
      PROVE  ChatsOK'
  <2>1. UNCHANGED <<chats, sent, work>> /\ link'.conv = link.conv
    BY <1>1 DEF OnText, Duplicate, OnStart, UpsertTgLink, Typed, TypeOK
  <2>2. \A u \in Texts : task'[u].conv \in {task[u].conv, NoConv, link.conv}
    BY <1>1 DEF OnText, Duplicate, OnStart, Publish, Typed, TypeOK
  <2> QED
    BY <2>1, <2>2 DEF ChatsOK, Appearances
<1>2. ASSUME NEW c \in Consumers, NEW t \in Texts, Take(c, t) PROVE ChatsOK'
  <2>1. UNCHANGED <<link, task, chats, sent>>
    BY <1>2 DEF Take
  <2>2. CASE UNCHANGED work
    BY <2>1, <2>2 DEF ChatsOK, Appearances
  <2>3. CASE ~UNCHANGED work
    <3>1. /\ work' = [work EXCEPT ![c] =
               [at |-> IF task[t].conv = NoConv THEN "contact" ELSE "send",
                text |-> t, conv |-> task[t].conv, try |-> 1]]
      BY <1>2, <2>3 DEF Take, Begin
    <3>2. /\ work'[c].at = IF task[t].conv = NoConv THEN "contact" ELSE "send"
          /\ work'[c].conv = task[t].conv
          /\ \A d \in Consumers \ {c} : work'[d] = work[d]
      BY <1>0, <3>1
    <3>3. work'[c].at \in {"save", "send"} => work'[c].conv \in chats
      BY <3>2 DEF ChatsOK
    <3>4. work'[c].at # "create"
      BY <3>2
    <3> QED
      BY <2>1, <3>2, <3>3, <3>4 DEF ChatsOK, Appearances
  <2> QED
    BY <2>2, <2>3
<1>3. ASSUME NEW c \in Consumers, Handle(c) \/ Crash(c) PROVE ChatsOK'
  <2>1. /\ work[c].at # "idle" /\ work[c].text \in Texts
        /\ UNCHANGED task
        /\ \A d \in Consumers \ {c} : work'[d] = work[d]
    BY <1>3, HandleTurns, TextOf DEF Turns
  <2>2. /\ link'.conv # NoConv => link'.conv \in chats'
        /\ work'[c].at \in {"save", "send"} => work'[c].conv \in chats'
        /\ work'[c].at = "create" => work'[c].conv # NoConv
    <3> USE <1>0, <2>1 DEF ChatsOK
    <3>0. work'[c].at = "create" => work'[c].conv # NoConv
      BY <1>3, HandleTurns DEF Turns, Idle
    <3>1. CASE GetContact(c)
      <4>1. work'[c].at = "create"
        BY <3>1 DEF GetContact, WorkType
      <4> QED
        BY <3>0, <3>1, <4>1 DEF GetContact
    <3>2. CASE CreateChat(c)
      <4>1. CASE Goto(c, "save") /\ chats' = chats \cup {work[c].conv}
        <5>1. work'[c].conv = work[c].conv /\ link' = link
          BY <3>2, <4>1 DEF CreateChat, Goto, WorkType
        <5> QED
          BY <3>0, <4>1, <5>1
      <4>2. CASE Again(c)
        <5>1. work'[c] = Idle \/ work'[c].at = "create"
          BY <3>2, <4>2, AgainType DEF CreateChat, WorkType
        <5> QED
          BY <3>0, <3>2, <5>1 DEF CreateChat, Idle
      <4> QED
        BY <3>2, <4>1, <4>2 DEF CreateChat
    <3>3. CASE SetConversation(c)
      <4>1. CASE Goto(c, "send") /\ link' = [link EXCEPT !.conv = work[c].conv]
        <5>1. work'[c].conv = work[c].conv /\ link'.conv = work[c].conv
          BY <4>1 DEF Goto, WorkType, Typed, TypeOK
        <5> QED
          BY <3>0, <3>3, <5>1 DEF SetConversation
      <4>2. CASE Raise(c) /\ UNCHANGED link
        <5>1. work'[c] = Idle
          BY <4>2, RaiseType
        <5> QED
          BY <3>0, <4>2, <5>1 DEF Idle
      <4> QED
        BY <3>3, <4>1, <4>2 DEF SetConversation
    <3>4. CASE SendText(c)
      <4>1. work'[c] = Idle \/ (work'[c].at = "send" /\ work'[c].conv = work[c].conv)
        BY <3>4, AgainType DEF SendText, Finish, WorkType
      <4> QED
        BY <3>0, <3>4, <4>1 DEF SendText, Idle
    <3>5. CASE Crash(c)
      <4>1. work'[c] = Idle
        BY <3>5, RaiseType DEF Crash
      <4> QED
        BY <3>0, <3>5, <4>1 DEF Crash, Idle
    <3> QED
      BY <1>3, <3>1, <3>2, <3>3, <3>4, <3>5 DEF Handle
  <2>3. \A u \in Texts : Appearances(u)' \subseteq chats'
    <3>1. CASE UNCHANGED sent
      BY <1>0, <3>1 DEF ChatsOK, Appearances
    <3>2. CASE SendText(c) /\ Appear(c)
      <4>1. work[c].conv \in chats /\ work[c].conv \in Convs
        BY <3>2 DEF SendText, ChatsOK, Typed, Linked
      <4>2. \A u \in Texts, v \in Convs : sent'[u][v] = sent[u][v] \/ v = work[c].conv
        BY <2>1, <3>2 DEF Appear, Typed, TypeOK
      <4> QED
        BY <1>0, <4>1, <4>2 DEF ChatsOK, Appearances
    <3> QED
      BY <1>3, <3>1, <3>2 DEF Handle, GetContact, CreateChat, SetConversation, SendText, Crash
  <2> QED
    BY <1>0, <2>1, <2>2, <2>3 DEF ChatsOK
<1>4. CASE UNCHANGED vars
  BY <1>4 DEF vars, ChatsOK, Appearances
<1> QED
  BY <1>1, <1>2, <1>3, <1>4 DEF Next, TakeAny

-----------------------------------------------------------------------------
\* Sends

\* A first appearance is the only one.
LEMMA AppearOnce ==
    ASSUME Typed, NEW c \in Consumers, NEW t \in Texts, work[c].text = t,
           work[c].at = "send", Unsent(t), Appear(c)
    PROVE  /\ SentOnce(t)'
           /\ \A u \in Texts \ {t} : sent'[u] = sent[u]
<1>1. PICK v \in Convs : v = work[c].conv
  BY DEF Typed, Linked
<1>2. sent \in [Texts -> [Convs -> 0..2]]
  BY DEF Typed, TypeOK
<1>3. sent[t][v] = 0
  BY DEF Unsent
<1>4. sent' = [sent EXCEPT ![t] = [sent[t] EXCEPT ![v] = 1]]
  BY <1>1, <1>2, <1>3 DEF Appear
<1>5. sent'[t][v] = 1 /\ \A w \in Convs \ {v} : sent'[t][w] = 0
  BY <1>2, <1>4 DEF Unsent
<1> QED
  BY <1>2, <1>4, <1>5 DEF SentOnce

\* Without lost replies a text is sent by its last step, which frees its
\* consumer, and its key is there for ever.
LEMMA NextSends == Typed /\ SendsOK /\ [Next]_vars => SendsOK'
<1> SUFFICES ASSUME Typed, SendsOK, [Next]_vars, "lostreply" \notin Faults
             PROVE  \A t \in Texts : /\ (Unsent(t) \/ SentOnce(t))'
                                     /\ t \notin keys' => Unsent(t)'
                                     /\ \A c \in Consumers : work'[c].text = t => Unsent(t)'
  BY DEF SendsOK
<1> TAKE t \in Texts
<1>0. /\ work \in [Consumers -> WorkType]
      /\ Unsent(t) \/ SentOnce(t)
      /\ t \notin keys => Unsent(t)
      /\ \A c \in Consumers : work[c].text = t => Unsent(t)
      /\ NoText \notin Texts
  BY TextOf, ChatAssumption DEF Typed, TypeOK, SendsOK, WorkType, Busy
<1>1. CASE UNCHANGED <<keys, sent, work>>
  BY <1>0, <1>1 DEF Unsent, SentOnce
<1>2. ASSUME NEW c \in Consumers, NEW u \in Texts, Take(c, u)
      PROVE  /\ (Unsent(t) \/ SentOnce(t))'
             /\ t \notin keys' => Unsent(t)'
             /\ \A d \in Consumers : work'[d].text = t => Unsent(t)'
  <2>1. CASE UNCHANGED <<keys, work>>
    BY <1>0, <1>2, <2>1 DEF Take, Unsent, SentOnce
  <2>2. CASE u \notin keys /\ keys' = keys \cup {u} /\ Begin(c, u)
    <3>1. /\ sent' = sent
          /\ work'[c].text = u
          /\ \A d \in Consumers \ {c} : work'[d] = work[d]
      BY <1>0, <1>2, <2>2 DEF Take, Begin
    <3> QED
      BY <1>0, <2>2, <3>1 DEF Unsent, SentOnce
  <2> QED
    BY <1>2, <2>1, <2>2 DEF Take
<1>3. ASSUME NEW c \in Consumers, Handle(c) \/ Crash(c)
      PROVE  /\ (Unsent(t) \/ SentOnce(t))'
             /\ t \notin keys' => Unsent(t)'
             /\ \A d \in Consumers : work'[d].text = t => Unsent(t)'
  <2>1. /\ work[c].at # "idle" /\ work[c].text \in Texts
        /\ keys' = keys
        /\ \A d \in Consumers \ {c} : work'[d] = work[d]
        /\ work'[c] = Idle \/ work'[c].text = work[c].text
    BY <1>3, HandleTurns, TextOf DEF Turns
  <2>2. CASE UNCHANGED sent
    BY <1>0, <2>1, <2>2 DEF Unsent, SentOnce, Idle
  <2>3. CASE SendText(c) /\ Appear(c) /\ Finish(c)
    <3>1. work'[c] = Idle
      BY <1>0, <2>3 DEF Finish
    <3>2. work[c].at = "send"
      BY <2>3 DEF SendText
    <3>3. CASE work[c].text = t
      <4>1. SentOnce(t)'
        BY <1>0, <2>3, <3>2, <3>3, AppearOnce
      <4>2. \A d \in Consumers : work'[d].text # t
        BY <1>0, <2>1, <3>1, <3>3 DEF Idle, Typed, Alone
      <4>3. t \in keys
        BY <3>3 DEF Typed, Alone
      <4> QED
        BY <2>1, <4>1, <4>2, <4>3
    <3>4. CASE work[c].text # t
      <4>1. sent'[t] = sent[t]
        BY <2>1, <2>3, <3>4 DEF Appear, Typed, TypeOK
      <4> QED
        BY <1>0, <2>1, <3>1, <4>1 DEF Unsent, SentOnce, Idle
    <3> QED
      BY <3>3, <3>4
  <2> QED
    BY <1>3, <2>2, <2>3 DEF Handle, GetContact, CreateChat, SetConversation, SendText, Crash
<1> QED
  BY <1>1, <1>2, <1>3
     DEF Next, TakeAny, Take, OnText, Duplicate, OnStart, vars

-----------------------------------------------------------------------------
\* Bodies

\* The body runs when the key is stored, and keys are not removed.
LEMMA NextRan == Typed /\ RanOK /\ [Next]_vars => RanOK'
<1> SUFFICES ASSUME Typed, RanOK, [Next]_vars, NEW t \in Texts
             PROVE  /\ ran'[t] <= 1
                    /\ t \notin keys' => ran'[t] = 0
  BY DEF RanOK
<1>1. /\ ran[t] <= 1 /\ (t \notin keys => ran[t] = 0)
      /\ ran \in [Texts -> 0..2]
  BY DEF RanOK, Typed, TypeOK
<1>2. keys \subseteq keys'
  BY DEF Next, vars, OnText, Duplicate, OnStart, TakeAny, Take, Handle, GetContact,
         CreateChat, SetConversation, SendText, Crash
<1>3. CASE UNCHANGED ran
  BY <1>1, <1>2, <1>3
<1>4. ASSUME NEW u \in Texts, u \notin keys, keys' = keys \cup {u}, CountBody(u)
      PROVE  ran'[t] <= 1 /\ (t \notin keys' => ran'[t] = 0)
  <2>1. ran[u] = 0
    BY <1>4 DEF RanOK
  <2>2. ran' = [ran EXCEPT ![u] = 1]
    BY <1>1, <1>4, <2>1 DEF CountBody
  <2> QED
    BY <1>1, <1>4, <2>2
<1> QED
  BY <1>3, <1>4, RanStays

-----------------------------------------------------------------------------
\* Theorems

IInv == Typed /\ ChatsOK /\ SendsOK /\ RanOK

\* The inductive invariant: every handler has a text of its own whose key is
\* stored, every conversation a chat, and what is at work has not been sent.
THEOREM Invariant == Spec => []IInv
<1>1. Init => IInv
  <2> SUFFICES ASSUME Init PROVE IInv
    OBVIOUS
  <2>1. TypeOK
    BY ChatAssumption DEF Init, TypeOK, NoTask, Idle
  <2>2. Alone /\ Linked /\ ChatsOK
    BY ChatAssumption DEF Init, Alone, Linked, ChatsOK, Appearances, Idle, NoTask
  <2>3. SendsOK /\ RanOK
    BY DEF Init, SendsOK, Unsent, RanOK
  <2> QED
    BY <2>1, <2>2, <2>3 DEF IInv, Typed
<1>2. IInv /\ [Next]_vars => IInv'
  BY NextTyped, NextChats, NextSends, NextRan DEF IInv
<1> QED
  BY <1>1, <1>2, PTL DEF Spec

\* Every variable has its type.
THEOREM TypeCorrect == Spec => []TypeOK
<1>1. IInv => TypeOK
  BY DEF IInv, Typed
<1> QED
  BY Invariant, <1>1, PTL

\* However many copies of a task the queue delivers, to however many consumers
\* at once, and however often they fail or die: the handler's body is begun at
\* most once, by one of them, and with the key stored.
THEOREM OneBody == Spec => []BodyRunsOnce
<1>1. IInv => BodyRunsOnce
  <2> SUFFICES ASSUME IInv, NEW t \in Texts
               PROVE  /\ Cardinality(WorkedOn(t)) <= 1
                      /\ WorkedOn(t) # {} => t \in keys
    BY DEF BodyRunsOnce, IInv, RanOK
  <2>1. CASE WorkedOn(t) = {}
    BY <2>1, FS_EmptySet
  <2>2. CASE WorkedOn(t) # {}
    <3>1. PICK c \in Consumers : work[c].text = t
      BY <2>2 DEF WorkedOn
    <3>2. WorkedOn(t) = {c} /\ t \in keys
      BY <3>1 DEF WorkedOn, IInv, Typed, Alone
    <3>3. Cardinality({c}) = 1
      BY FS_Singleton
    <3> QED
      BY <3>2, <3>3
  <2> QED
    BY <2>1, <2>2
<1> QED
  BY Invariant, <1>1, PTL

\* Unless a reply of AmoChats is lost, a text appears at most once, in one chat.
THEOREM SentAtMostOnce == Spec => []NoDoubleText
<1>1. IInv => NoDoubleText
  <2> SUFFICES ASSUME IInv, "lostreply" \notin Faults, NEW t \in Texts
               PROVE  /\ Cardinality(Appearances(t)) <= 1
                      /\ \A v \in Convs : sent[t][v] <= 1
    BY DEF NoDoubleText
  <2>1. CASE Unsent(t)
    <3>1. Appearances(t) = {}
      BY <2>1 DEF Unsent, Appearances
    <3> QED
      BY <2>1, <3>1, FS_EmptySet DEF Unsent
  <2>2. CASE SentOnce(t)
    <3>1. PICK v \in Convs : sent[t][v] = 1 /\ \A w \in Convs \ {v} : sent[t][w] = 0
      BY <2>2 DEF SentOnce
    <3>2. Appearances(t) = {v} /\ \A w \in Convs : sent[t][w] <= 1
      BY <3>1 DEF Appearances
    <3>3. Cardinality({v}) = 1
      BY FS_Singleton
    <3> QED
      BY <3>2, <3>3
  <2> QED
    BY <2>1, <2>2 DEF IInv, SendsOK
<1> QED
  BY Invariant, <1>1, PTL

\* Conversations are stored, and texts sent, only for chats that exist.
THEOREM ChatBeforeUse == Spec => []ChatExists
<1>1. IInv => ChatExists
  BY DEF IInv, ChatsOK, ChatExists
<1> QED
  BY Invariant, <1>1, PTL

=============================================================================
