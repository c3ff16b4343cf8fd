------------------------- MODULE ManagerReplyProofs -------------------------
(* For any number of users, leads, messages, deliveries and faults: the      *)
(* conversation in a row is a chat of its user (ChatOfUser), what a manager  *)
(* writes is shown to nobody else (NoStranger), by each bot to one user at   *)
(* most (ShownOnce), and no task is dropped but for one taken up before      *)
(* (NeverMistaken).                                                          *)
EXTENDS ManagerReply, TLAPS

Places == {"none", "ref", "client", "lead", "master", "operator", "set", "publish",
           "over"}

\* The types the first argument needs; OtherTypes has the rest.
Types ==
    /\ row \in [Links -> [lead : Leads \cup {NoLead}, conv : Convs]]
    /\ ever \subseteq Users \X Leads
    /\ known \in [Chats -> SUBSET Users]
    /\ greet \subseteq Links \X Leads
    /\ saving \subseteq Links \X Chats
    /\ mail \in [Msgs -> {NoMail} \cup [chat : Chats, names : Forms,
                                        ext : Users \cup {NoUser}, named : Idents]]
    /\ hook \in [Hooks -> [at : Places, todo : SUBSET Links, pick : SUBSET Links]]
    /\ copies \in [Tasks -> Nat]
    /\ sending \subseteq Tasks
    /\ got \in [Tasks -> Nat]

\* A row has the lead of a link that its user has followed.
LinkFollowed == \A r \in Links : Exists(r) => <<r[1], row[r].lead>> \in ever

\* AmoChats and the mirror connect a user with chats of his own only.
ChatsInTime ==
    /\ \A c \in Chats : \A u \in known[c] : InChat(u, c)
    /\ \A g \in greet : <<g[1][1], g[2]>> \in ever
    /\ \A s \in saving : InChat(s[1][1], s[2])

\* A message is written in a chat that has users, and names one of them.
MailInChat ==
    \A m \in Msgs : mail[m] # NoMail =>
        /\ \E u \in Users : InChat(u, mail[m].chat)
        /\ mail[m].ext # NoUser => InChat(mail[m].ext, mail[m].chat)

\* The rows a request has in hand are of users of its chat, whatever has been
\* written to them since they were read.
HandInChat ==
    \A h \in Hooks :
        /\ hook[h].at # "none" => mail[h[1]] # NoMail
        /\ \A r \in hook[h].todo \cup hook[h].pick :
              hook[h].at # "none" /\ InChat(r[1], mail[h[1]].chat)

\* So are the users of the tasks on their way, and of those already served.
TaskInChat ==
    \A t \in Tasks :
        copies[t] > 0 \/ t \in sending \/ got[t] > 0 =>
            mail[t[1]] # NoMail /\ InChat(t[2][1], mail[t[1]].chat)

IInv ==
    /\ Types /\ ChatOfUser /\ LinkFollowed /\ ChatsInTime
    /\ MailInChat /\ HandInChat /\ TaskInChat

USE LinksAssumption, ChatAssumption, NoneAssumption, BoundsAssumption

\* A lead that is a chat is the chat of its own dialogue.
LEMMA LeadIsItsChat ==
  ASSUME NEW l \in Leads, NEW k \in Leads, l \in ChatsOf(k)
  PROVE l = k /\ l \in ChatsOf(l)
  BY DEF ChatsOf, Chats

LEMMA LinkParts == \A r \in Links : r[1] \in Users /\ r[2] \in Bots /\ r = <<r[1], r[2]>>
  OBVIOUS

LEMMA HookParts == \A h \in Hooks : h[1] \in Msgs
  BY DEF Hooks

LEMMA InitInv == Init => IInv
<1> SUFFICES ASSUME Init PROVE IInv
  OBVIOUS
<1>1. /\ greet = {} /\ saving = {} /\ sending = {}
      /\ mail = [m \in Msgs |-> NoMail]
      /\ hook = [h \in Hooks |-> Step("none", {}, {})]
      /\ copies = [t \in Tasks |-> 0] /\ got = [t \in Tasks |-> 0]
  BY DEF Init
<1>2. MailInChat /\ HandInChat /\ TaskInChat
  BY <1>1, HookParts DEF MailInChat, HandInChat, TaskInChat, Step, Tasks
<1>5. /\ greet \subseteq Links \X Leads /\ saving \subseteq Links \X Chats
      /\ sending \subseteq Tasks
      /\ copies \in [Tasks -> Nat] /\ got \in [Tasks -> Nat]
  BY <1>1
<1>6. hook \in [Hooks -> [at : Places, todo : SUBSET Links, pick : SUBSET Links]]
  BY <1>1 DEF Step, Places
<1>7. mail \in [Msgs -> {NoMail} \cup [chat : Chats, names : Forms,
                                        ext : Users \cup {NoUser}, named : Idents]]
  BY <1>1
<1>3. CASE NoRows
  <2>1. ChatOfUser /\ LinkFollowed /\ ChatsInTime
    BY <1>1, <1>3 DEF NoRows, ChatOfUser, LinkFollowed, ChatsInTime, Exists
  <2>2. Types
    BY <1>5, <1>6, <1>7, <1>3 DEF NoRows, Types, Convs
  <2> QED BY <1>2, <2>1, <2>2 DEF IInv
<1>4. ASSUME NEW r \in Links, NEW l \in Leads, NEW n \in Names, NEW c \in ChatsOf(l),
             OneRow(r, l, n, c)
      PROVE IInv
  <2>1. c \in Chats /\ r[1] \in Users /\ <<n, c>> \in Convs /\ InChat(r[1], c)
    BY <1>4, LinkParts DEF ChatsOf, Convs, OneRow, InChat
  <2>2. ChatOfUser /\ LinkFollowed /\ ChatsInTime
    BY <1>1, <1>4, <2>1 DEF OneRow, ChatOfUser, LinkFollowed, ChatsInTime, Exists
  <2>3. Types
    BY <1>5, <1>6, <1>7, <1>4, <2>1 DEF OneRow, Types, Convs
  <2> QED BY <1>2, <2>2, <2>3 DEF IInv
<1> QED BY <1>3, <1>4 DEF Init

-----------------------------------------------------------------------------
\* The rows

\* A handler that stores a conversation stores one of the user's own chats.
LEMMA SetConversationInv ==
  ASSUME IInv, NEW r \in Links, NEW v \in Names \X Chats, SetConversation(r, v),
         InChat(r[1], v[2]), UNCHANGED ever
  PROVE /\ row' \in [Links -> [lead : Leads \cup {NoLead}, conv : Convs]]
        /\ ChatOfUser' /\ LinkFollowed'
<1>1. /\ row' = [row EXCEPT ![r].conv = v]
      /\ row \in [Links -> [lead : Leads \cup {NoLead}, conv : Convs]]
      /\ ever' = ever /\ v \in Convs
  BY DEF SetConversation, IInv, Types, Convs
<1>2. \A s \in Links : /\ row'[s].lead = row[s].lead
                       /\ row'[s].conv = IF s = r THEN v ELSE row[s].conv
  BY <1>1
<1>3. ChatOfUser'
  BY <1>1, <1>2 DEF IInv, ChatOfUser, InChat
<1>4. LinkFollowed'
  BY <1>1, <1>2 DEF IInv, LinkFollowed, Exists
<1> QED BY <1>1, <1>3, <1>4

LEMMA OnStartInv ==
  ASSUME IInv, NEW r \in Links, NEW l \in Leads, OnStart(r, l)
  PROVE IInv'
<1>1. /\ ever' = ever \cup {<<r[1], l>>} /\ greet' = greet \cup {<<r, l>>}
      /\ UNCHANGED <<known, saving, mail, hook, copies, sending, got>>
      /\ UpsertTgLink(r, l)
      /\ Types
  BY DEF OnStart, hookVars, taskVars, IInv
<1>2. \A u, c : InChat(u, c) => InChat(u, c)'
  BY <1>1 DEF InChat
<1>3. /\ row' \in [Links -> [lead : Leads \cup {NoLead}, conv : Convs]]
      /\ \A s \in Links : /\ row'[s].conv = row[s].conv
                          /\ row'[s].lead = IF s = r THEN l ELSE row[s].lead
  <2>1. CASE row[r].lead = l
    BY <1>1, <2>1 DEF UpsertTgLink, Types
  <2>2. CASE row[r].lead # l
    <3>1. row' = [row EXCEPT ![r].lead = l]
      BY <1>1, <2>2 DEF UpsertTgLink
    <3> QED BY <1>1, <3>1 DEF Types
  <2> QED BY <2>1, <2>2
<1>4. Types'
  BY <1>1, <1>3, LinkParts DEF Types
<1>5. ChatOfUser'
  BY <1>1, <1>3 DEF IInv, ChatOfUser, InChat
<1>6. LinkFollowed'
  BY <1>1, <1>3 DEF IInv, LinkFollowed, Exists
<1>7. ChatsInTime'
  <2>1. \A c \in Chats : \A u \in known'[c] : InChat(u, c)'
    BY <1>1, <1>2 DEF IInv, ChatsInTime
  <2>2. \A g \in greet' : <<g[1][1], g[2]>> \in ever'
    <3>1. \A g \in greet : <<g[1][1], g[2]>> \in ever'
      BY <1>1 DEF IInv, ChatsInTime
    <3>2. \A g : g = <<r, l>> => g[1] = r /\ g[2] = l
      OBVIOUS
    <3>3. <<r[1], l>> \in ever'
      BY <1>1
    <3> QED BY <1>1, <3>1, <3>2, <3>3
  <2>3. \A s \in saving' : InChat(s[1][1], s[2])'
    BY <1>1, <1>2 DEF IInv, ChatsInTime
  <2> QED BY <2>1, <2>2, <2>3 DEF ChatsInTime
<1>8. MailInChat'
  BY <1>1 DEF IInv, MailInChat, InChat
<1>9. HandInChat'
  BY <1>1 DEF IInv, HandInChat, InChat
<1>10. TaskInChat'
  BY <1>1 DEF IInv, TaskInChat, InChat
<1> QED BY <1>4, <1>5, <1>6, <1>7, <1>8, <1>9, <1>10 DEF IInv

LEMMA CreateChatInv ==
  ASSUME IInv, NEW r \in Links, NEW l \in Leads, CreateChat(r, l)
  PROVE IInv'
<1>1. PICK c \in ChatsOf(l) : /\ known' = [known EXCEPT ![c] = @ \cup {r[1]}]
                              /\ saving' = saving \cup {<<r, c>>}
  BY DEF CreateChat
<1>2. /\ <<r, l>> \in greet /\ greet' \subseteq greet
      /\ UNCHANGED <<row, ever, mail, hook, copies, sending, got>>
      /\ Types
  BY DEF CreateChat, linkVars, hookVars, taskVars, IInv
<1>3. c \in Chats /\ InChat(r[1], c)
  BY <1>2 DEF ChatsOf, IInv, ChatsInTime, InChat
<1>4. Types'
  BY <1>1, <1>2, <1>3, LinkParts DEF Types
<1>5. ChatsInTime'
  <2>1. \A u, d : InChat(u, d)' <=> InChat(u, d)
    BY <1>2 DEF InChat
  <2>2. \A d \in Chats : \A u \in known'[d] : InChat(u, d)
    BY <1>1, <1>2, <1>3 DEF IInv, ChatsInTime, Types
  <2>3. \A s \in saving' : InChat(s[1][1], s[2])
    BY <1>1, <1>3 DEF IInv, ChatsInTime
  <2>4. \A g \in greet' : <<g[1][1], g[2]>> \in ever'
    BY <1>2 DEF IInv, ChatsInTime
  <2> QED BY <2>1, <2>2, <2>3, <2>4 DEF ChatsInTime
<1>6. ChatOfUser' /\ LinkFollowed' /\ MailInChat' /\ HandInChat' /\ TaskInChat'
  BY <1>2 DEF IInv, ChatOfUser, LinkFollowed, Exists, MailInChat, HandInChat, TaskInChat,
              InChat
<1> QED BY <1>4, <1>5, <1>6 DEF IInv

LEMMA SaveChatInv ==
  ASSUME IInv, NEW r \in Links, NEW c \in Chats, SaveChat(r, c)
  PROVE IInv'
<1>1. /\ <<r, c>> \in saving /\ saving' \subseteq saving
      /\ SetConversation(r, <<"client", c>>)
      /\ UNCHANGED <<ever, known, greet, mail, hook, copies, sending, got>>
      /\ Types
  BY DEF SaveChat, hookVars, taskVars, IInv
<1>2. InChat(r[1], c) /\ <<"client", c>> \in Names \X Chats
  BY <1>1 DEF IInv, ChatsInTime, Names
<1>3. /\ row' \in [Links -> [lead : Leads \cup {NoLead}, conv : Convs]]
      /\ ChatOfUser' /\ LinkFollowed'
  BY <1>1, <1>2, SetConversationInv
<1>4. Types'
  BY <1>1, <1>3 DEF Types
<1>5. ChatsInTime' /\ MailInChat' /\ HandInChat' /\ TaskInChat'
  BY <1>1 DEF IInv, ChatsInTime, MailInChat, HandInChat, TaskInChat, InChat
<1> QED BY <1>3, <1>4, <1>5 DEF IInv

-----------------------------------------------------------------------------
\* The webhook

LEMMA WriteInv ==
  ASSUME IInv, NEW m \in Msgs, NEW c \in Chats, Write(m, c)
  PROVE IInv'
<1>1. PICK n \in Forms, x \in known[c] \cup {NoUser}, b \in Idents :
         mail' = [mail EXCEPT ![m] = [chat |-> c, names |-> n, ext |-> x, named |-> b]]
  BY DEF Write
<1>2. /\ mail[m] = NoMail /\ known[c] # {}
      /\ UNCHANGED <<row, ever, known, greet, saving, hook, copies, sending, got>>
      /\ Types
  BY DEF Write, linkVars, chatVars, taskVars, IInv
<1>3. \A k \in Msgs : mail[k] # NoMail => mail'[k] = mail[k]
  BY <1>1, <1>2 DEF Types
<1>4. known[c] \subseteq Users /\ \A u \in known[c] : InChat(u, c)
  BY <1>2 DEF Types, IInv, ChatsInTime
<1>5. Types'
  BY <1>1, <1>2, <1>4 DEF Types
<1>6. MailInChat'
  BY <1>1, <1>2, <1>4 DEF IInv, MailInChat, Types, InChat
<1>7. HandInChat'
  BY <1>2, <1>3, HookParts DEF IInv, HandInChat, InChat, NoMail
<1>8. TaskInChat'
  BY <1>2, <1>3 DEF IInv, TaskInChat, InChat, Tasks, NoMail
<1>9. ChatOfUser' /\ LinkFollowed' /\ ChatsInTime'
  BY <1>2 DEF IInv, ChatOfUser, LinkFollowed, Exists, ChatsInTime, InChat
<1> QED BY <1>5, <1>6, <1>7, <1>8, <1>9 DEF IInv

\* A request that goes on with rows of users of its chat.
LEMMA RequestGoesOn ==
  ASSUME IInv, NEW h \in Hooks, mail[h[1]] # NoMail,
         NEW l \in Places \ {"none"}, NEW todo \in SUBSET Links, NEW pick \in SUBSET Links,
         hook' = [hook EXCEPT ![h] = Step(l, todo, pick)],
         \A r \in todo \cup pick : InChat(r[1], mail[h[1]].chat),
         UNCHANGED <<row, ever, known, greet, saving, mail, copies, sending, got>>
  PROVE IInv'
<1>1. Step(l, todo, pick) \in [at : Places, todo : SUBSET Links, pick : SUBSET Links]
  BY DEF Step
<1>2. hook'[h] = Step(l, todo, pick) /\ \A g \in Hooks : g # h => hook'[g] = hook[g]
  BY DEF IInv, Types
<1>3. Types'
  BY <1>1 DEF IInv, Types
<1>4. HandInChat'
  <2>1. /\ hook'[h].todo \cup hook'[h].pick = todo \cup pick /\ hook'[h].at = l
        /\ mail' = mail
    BY <1>2 DEF Step
  <2>2. \A u, d : InChat(u, d)' <=> InChat(u, d)
    BY DEF InChat
  <2>3. /\ mail[h[1]] # NoMail
        /\ \A r \in todo \cup pick : l # "none" /\ InChat(r[1], mail[h[1]].chat)
    OBVIOUS
  <2>4. \A g \in Hooks : g # h =>
          /\ hook'[g].at # "none" => mail[g[1]] # NoMail
          /\ \A r \in hook'[g].todo \cup hook'[g].pick :
                hook'[g].at # "none" /\ InChat(r[1], mail[g[1]].chat)
    BY <1>2 DEF IInv, HandInChat
  <2>5. \A g \in Hooks :
          /\ hook'[g].at # "none" => mail'[g[1]] # NoMail
          /\ \A r \in hook'[g].todo \cup hook'[g].pick :
                hook'[g].at # "none" /\ InChat(r[1], mail'[g[1]].chat)
    BY <2>1, <2>3, <2>4
  <2> QED BY <2>2, <2>5 DEF HandInChat, NoMail
<1>5. /\ ChatOfUser' /\ LinkFollowed' /\ ChatsInTime' /\ MailInChat' /\ TaskInChat'
  BY DEF IInv, ChatOfUser, LinkFollowed, Exists, ChatsInTime, MailInChat, TaskInChat,
         InChat
<1> QED BY <1>3, <1>4, <1>5 DEF IInv

LEMMA BeginInv ==
  ASSUME IInv, NEW h \in Hooks, Begin(h)
  PROVE IInv'
<1>1. /\ mail[h[1]] # NoMail /\ hook[h].at = "none"
      /\ UNCHANGED <<row, ever, known, greet, saving, mail, copies, sending, got>>
      /\ Types
  BY DEF Begin, linkVars, chatVars, taskVars, IInv
<1>2. \/ hook' = [hook EXCEPT ![h].at = "over"]
      \/ hook' = [hook EXCEPT ![h].at = "ref"]
  BY DEF Begin, Goto
<1>3. /\ hook' \in [Hooks -> [at : Places, todo : SUBSET Links, pick : SUBSET Links]]
      /\ \A g \in Hooks : /\ hook'[g].todo = hook[g].todo
                          /\ hook'[g].pick = hook[g].pick
                          /\ g # h => hook'[g].at = hook[g].at
  <2>1. "over" \in Places /\ "ref" \in Places
    BY DEF Places
  <2>2. CASE hook' = [hook EXCEPT ![h].at = "over"]
    BY <1>1, <2>1, <2>2 DEF Types
  <2>3. CASE hook' = [hook EXCEPT ![h].at = "ref"]
    BY <1>1, <2>1, <2>3 DEF Types
  <2> QED BY <1>2, <2>2, <2>3
<1>4. Types'
  BY <1>1, <1>3 DEF Types
<1>5. HandInChat'
  BY <1>1, <1>3 DEF IInv, HandInChat, InChat, NoMail
<1>6. ChatOfUser' /\ LinkFollowed' /\ ChatsInTime' /\ MailInChat' /\ TaskInChat'
  BY <1>1 DEF IInv, ChatOfUser, LinkFollowed, Exists, ChatsInTime, MailInChat, TaskInChat,
              InChat
<1> QED BY <1>4, <1>5, <1>6 DEF IInv

\* What a request reads, and all it has in hand, is of users of its chat.
LEMMA RowsReadInChat ==
  ASSUME IInv, NEW h \in Hooks, mail[h[1]] # NoMail
  PROVE /\ \A n \in Names : \A r \in ByConversation(<<n, mail[h[1]].chat>>) :
              InChat(r[1], mail[h[1]].chat)
        /\ mail[h[1]].chat \in Leads =>
             \A r \in ByLead(mail[h[1]].chat) : InChat(r[1], mail[h[1]].chat)
        /\ \A b \in Bots : \A r \in UserRow(h, b) : InChat(r[1], mail[h[1]].chat)
<1> DEFINE c == mail[h[1]].chat
<1>1. /\ h[1] \in Msgs /\ c \in Chats /\ mail[h[1]].ext \in Users \cup {NoUser}
      /\ Types
  BY HookParts DEF IInv, Types
<1>2. \A n \in Names : \A r \in ByConversation(<<n, c>>) : InChat(r[1], c)
  <2> SUFFICES ASSUME NEW n \in Names, NEW r \in Links, row[r].conv = <<n, c>>
               PROVE InChat(r[1], c)
    BY DEF ByConversation
  <2>1. <<n, c>> # NoConv /\ <<n, c>>[2] = c
    BY <1>1
  <2> QED BY <2>1 DEF IInv, ChatOfUser
<1>3. ASSUME c \in Leads, NEW r \in ByLead(c) PROVE InChat(r[1], c)
  <2>1. PICK u \in Users : InChat(u, c)
    BY <1>1 DEF IInv, MailInChat
  <2>2. PICK k \in Leads : c \in ChatsOf(k)
    BY <2>1 DEF InChat
  <2>3. c \in ChatsOf(c)
    BY <1>3, <2>2, LeadIsItsChat
  <2>4. <<r[1], c>> \in ever
    BY <1>3 DEF ByLead, IInv, LinkFollowed, Exists
  <2> QED BY <1>3, <2>3, <2>4 DEF InChat
<1>4. ASSUME NEW b \in Bots, NEW r \in UserRow(h, b) PROVE InChat(r[1], c)
  <2>1. r[1] = mail[h[1]].ext /\ r[1] \in Users
    BY <1>4, LinkParts DEF UserRow
  <2> QED BY <1>1, <2>1 DEF IInv, MailInChat
<1> QED BY <1>2, <1>3, <1>4

\* A query of resolve_links.
LEMMA FoundInv ==
  ASSUME IInv, NEW h \in Hooks, hook[h].at # "none",
         NEW next \in Places \ {"none"}, NEW L \in SUBSET Links, NEW todo \in SUBSET L,
         Found(h, L, next, todo),
         \A r \in L : InChat(r[1], mail[h[1]].chat),
         UNCHANGED <<row, ever, known, greet, saving, mail, copies, sending, got>>
  PROVE IInv'
<1>1. mail[h[1]] # NoMail
  BY DEF IInv, HandInChat
<1>2. CASE L = {}
  <2>1. hook' = [hook EXCEPT ![h] = Step(next, {}, {})]
    BY <1>2 DEF Found
  <2> QED BY <1>1, <2>1, RequestGoesOn
<1>3. CASE L # {}
  <2>1. hook' = [hook EXCEPT ![h] = Step("set", todo, Selected(L))]
    BY <1>3 DEF Found
  <2>2. Selected(L) \subseteq L /\ "set" \in Places \ {"none"}
    BY DEF Selected, Places
  <2>3. todo \in SUBSET Links /\ Selected(L) \in SUBSET Links
        /\ \A r \in todo \cup Selected(L) : InChat(r[1], mail[h[1]].chat)
    BY <2>2
  <2> QED BY <1>1, <2>1, <2>2, <2>3, RequestGoesOn
<1> QED BY <1>2, <1>3

LEMMA FindByRefInv ==
  ASSUME IInv, NEW h \in Hooks, FindByRef(h)
  PROVE IInv'
<1> DEFINE L == IF Gives(h[1], "ref") THEN ByConversation(<<"ref", mail[h[1]].chat>>) ELSE {}
<1>1. /\ hook[h].at = "ref" /\ Found(h, L, "client", {})
      /\ UNCHANGED <<row, ever, known, greet, saving, mail, copies, sending, got>>
  BY DEF FindByRef, linkVars, chatVars, taskVars
<1>2. mail[h[1]] # NoMail
  BY <1>1 DEF IInv, HandInChat
<1>3. /\ L \in SUBSET Links /\ "client" \in Places \ {"none"} /\ {} \in SUBSET L
      /\ \A r \in L : InChat(r[1], mail[h[1]].chat)
  BY <1>2, RowsReadInChat DEF ByConversation, Places, Names
<1> HIDE DEF L
<1> QED BY <1>1, <1>3, FoundInv

LEMMA FindByClientInv ==
  ASSUME IInv, NEW h \in Hooks, FindByClient(h)
  PROVE IInv'
<1> DEFINE L == IF Gives(h[1], "client") THEN ByConversation(<<"client", mail[h[1]].chat>>)
                ELSE {}
<1>1. /\ hook[h].at = "client" /\ Found(h, L, "lead", {})
      /\ UNCHANGED <<row, ever, known, greet, saving, mail, copies, sending, got>>
  BY DEF FindByClient, linkVars, chatVars, taskVars
<1>2. mail[h[1]] # NoMail
  BY <1>1 DEF IInv, HandInChat
<1>3. /\ L \in SUBSET Links /\ "lead" \in Places \ {"none"} /\ {} \in SUBSET L
      /\ \A r \in L : InChat(r[1], mail[h[1]].chat)
  BY <1>2, RowsReadInChat DEF ByConversation, Places, Names
<1> HIDE DEF L
<1> QED BY <1>1, <1>3, FoundInv

LEMMA FindByLeadInv ==
  ASSUME IInv, NEW h \in Hooks, FindByLead(h)
  PROVE IInv'
<1> DEFINE L == IF Gives(h[1], "client") /\ mail[h[1]].chat \in Leads
                THEN ByLead(mail[h[1]].chat) ELSE {}
<1>1. /\ hook[h].at = "lead" /\ Found(h, L, "master", Unset(L))
      /\ UNCHANGED <<row, ever, known, greet, saving, mail, copies, sending, got>>
  BY DEF FindByLead, linkVars, chatVars, taskVars
<1>2. mail[h[1]] # NoMail
  BY <1>1 DEF IInv, HandInChat
<1>3. /\ L \in SUBSET Links /\ "master" \in Places \ {"none"}
      /\ \A r \in L : InChat(r[1], mail[h[1]].chat)
  BY <1>2, RowsReadInChat DEF ByLead, Places
<1>4. Unset(L) \in SUBSET L
  BY DEF Unset
<1> HIDE DEF L
<1> QED BY <1>1, <1>3, <1>4, FoundInv

LEMMA FindMasterInv ==
  ASSUME IInv, NEW h \in Hooks, FindMaster(h)
  PROVE IInv'
<1> DEFINE L == UserRow(h, "master")
<1>1. /\ hook[h].at = "master" /\ hook' = [hook EXCEPT ![h] = Step("operator", Unset(L), L)]
      /\ UNCHANGED <<row, ever, known, greet, saving, mail, copies, sending, got>>
  BY DEF FindMaster, linkVars, chatVars, taskVars
<1>2. mail[h[1]] # NoMail
  BY <1>1 DEF IInv, HandInChat
<1>3. /\ L \in SUBSET Links /\ \A r \in L : InChat(r[1], mail[h[1]].chat)
  BY <1>2, RowsReadInChat DEF UserRow, Bots
<1>4. Unset(L) \in SUBSET L /\ "operator" \in Places \ {"none"}
  BY DEF Unset, Places
<1>5. /\ Unset(L) \in SUBSET Links
      /\ \A r \in Unset(L) \cup L : InChat(r[1], mail[h[1]].chat)
  BY <1>3, <1>4
<1> HIDE DEF L
<1> QED BY <1>1, <1>2, <1>3, <1>4, <1>5, RequestGoesOn

LEMMA FindOperatorInv ==
  ASSUME IInv, NEW h \in Hooks, FindOperator(h)
  PROVE IInv'
<1> DEFINE L == UserRow(h, "operator")
           none == hook[h].todo \cup Unset(L)
           todo == IF mail[h[1]].names = {} THEN {} ELSE none
           pick == IF none # {} THEN none ELSE hook[h].pick \cup L
<1>1. /\ hook[h].at = "operator" /\ hook' = [hook EXCEPT ![h] = Step("set", todo, pick)]
      /\ UNCHANGED <<row, ever, known, greet, saving, mail, copies, sending, got>>
  BY DEF FindOperator, linkVars, chatVars, taskVars
<1>2. /\ mail[h[1]] # NoMail
      /\ \A r \in hook[h].todo \cup hook[h].pick : InChat(r[1], mail[h[1]].chat)
      /\ hook[h].todo \subseteq Links /\ hook[h].pick \subseteq Links
  BY <1>1 DEF IInv, HandInChat, Types
<1>3. /\ L \in SUBSET Links /\ \A r \in L : InChat(r[1], mail[h[1]].chat)
  BY <1>2, RowsReadInChat DEF UserRow, Bots
<1>4. Unset(L) \in SUBSET L /\ "set" \in Places \ {"none"}
  BY DEF Unset, Places
<1>5. none \subseteq Links /\ \A r \in none : InChat(r[1], mail[h[1]].chat)
  BY <1>2, <1>3, <1>4
<1>6. /\ todo \in SUBSET Links /\ pick \in SUBSET Links
      /\ \A r \in todo \cup pick : InChat(r[1], mail[h[1]].chat)
  BY <1>2, <1>3, <1>5
<1> HIDE DEF todo, pick
<1> QED BY <1>1, <1>2, <1>4, <1>6, RequestGoesOn

\* The request and the rows change in one step.
LEMMA SetConvForLinksInv ==
  ASSUME IInv, NEW h \in Hooks, SetConvForLinks(h)
  PROVE IInv'
<1>1. /\ hook[h].at = "set"
      /\ UNCHANGED <<ever, known, greet, saving, mail, copies, sending, got>>
      /\ Types
  BY DEF SetConvForLinks, chatVars, taskVars, IInv
<1>2. /\ mail[h[1]] # NoMail /\ h[1] \in Msgs /\ mail[h[1]].chat \in Chats
      /\ \A r \in hook[h].todo \cup hook[h].pick : InChat(r[1], mail[h[1]].chat)
      /\ hook[h].todo \subseteq Links
  BY <1>1, HookParts DEF IInv, HandInChat, Types
<1>3. /\ hook' \in [Hooks -> [at : Places, todo : SUBSET Links, pick : SUBSET Links]]
      /\ \A g \in Hooks : /\ hook'[g].at # "none" <=> hook[g].at # "none"
                          /\ hook'[g].todo \subseteq hook[g].todo
                          /\ hook'[g].pick = hook[g].pick
  <2>1. CASE Goto(h, "publish")
    <3>1. hook' = [hook EXCEPT ![h].at = "publish"] /\ "publish" \in Places
      BY <2>1 DEF Goto, Places
    <3> QED BY <1>1, <3>1 DEF Types
  <2>2. ASSUME NEW r \in hook[h].todo, hook' = [hook EXCEPT ![h].todo = @ \ {r}]
        PROVE <1>3
    BY <1>1, <2>2 DEF Types
  <2> QED BY <2>1, <2>2 DEF SetConvForLinks
<1>4. /\ row' \in [Links -> [lead : Leads \cup {NoLead}, conv : Convs]]
      /\ ChatOfUser' /\ LinkFollowed'
  <2>1. CASE UNCHANGED row
    BY <1>1, <2>1 DEF IInv, Types, ChatOfUser, LinkFollowed, Exists, InChat
  <2>2. ASSUME NEW r \in hook[h].todo, SetConversation(r, TargetConv(h[1]))
        PROVE <1>4
    <3>1. /\ TargetConv(h[1]) \in Names \X Chats
          /\ TargetConv(h[1])[2] = mail[h[1]].chat
      BY <1>2 DEF TargetConv, Names
    <3>2. r \in Links /\ InChat(r[1], TargetConv(h[1])[2])
      BY <1>2, <3>1
    <3> QED BY <1>1, <2>2, <3>1, <3>2, SetConversationInv
  <2> QED BY <2>1, <2>2 DEF SetConvForLinks
<1>5. Types'
  BY <1>1, <1>3, <1>4 DEF Types
<1>6. HandInChat'
  BY <1>1, <1>3 DEF IInv, HandInChat, InChat, NoMail
<1>7. ChatsInTime' /\ MailInChat' /\ TaskInChat'
  BY <1>1 DEF IInv, ChatsInTime, MailInChat, TaskInChat, InChat
<1> QED BY <1>4, <1>5, <1>6, <1>7 DEF IInv

\* More copies of a task that exists.
LEMMA EnqueueInChat ==
  ASSUME copies \in [Tasks -> Nat], NEW t \in Tasks, NEW n \in Nat, Enqueue(t, n)
  PROVE /\ copies' \in [Tasks -> Nat]
        /\ \A s \in Tasks : copies'[s] > 0 => s = t \/ copies[s] > 0
  BY DEF Enqueue

LEMMA PublishLinksInv ==
  ASSUME IInv, NEW h \in Hooks, PublishLinks(h)
  PROVE IInv'
<1>1. /\ hook[h].at = "publish"
      /\ UNCHANGED <<row, ever, known, greet, saving, mail, sending, got>>
      /\ Types
  BY DEF PublishLinks, linkVars, chatVars, IInv
<1>2. /\ mail[h[1]] # NoMail /\ h[1] \in Msgs
      /\ \A r \in hook[h].pick : InChat(r[1], mail[h[1]].chat)
      /\ hook[h].pick \subseteq Links
  BY <1>1, HookParts DEF IInv, HandInChat, Types
<1>3. /\ hook' \in [Hooks -> [at : Places, todo : SUBSET Links, pick : SUBSET Links]]
      /\ \A g \in Hooks : /\ hook'[g].at # "none" <=> hook[g].at # "none"
                          /\ hook'[g].todo = hook[g].todo
                          /\ hook'[g].pick \subseteq hook[g].pick
  <2>1. CASE Goto(h, "over")
    <3>1. hook' = [hook EXCEPT ![h].at = "over"] /\ "over" \in Places
      BY <2>1 DEF Goto, Places
    <3> QED BY <1>1, <3>1 DEF Types
  <2>2. ASSUME NEW r \in hook[h].pick, hook' = [hook EXCEPT ![h].pick = @ \ {r}]
        PROVE <1>3
    BY <1>1, <2>2 DEF Types
  <2> QED BY <2>1, <2>2 DEF PublishLinks
<1>4. /\ copies' \in [Tasks -> Nat]
      /\ \A s \in Tasks : copies'[s] > 0 =>
            \/ copies[s] > 0
            \/ s[1] = h[1] /\ s[2] \in hook[h].pick
  <2>1. CASE UNCHANGED copies
    BY <1>1, <2>1 DEF Types
  <2>2. ASSUME NEW r \in hook[h].pick, PublishTask(<<h[1], r>>)
        PROVE <1>4
    <3>1. <<h[1], r>> \in Tasks
      BY <1>2 DEF Tasks
    <3>2. PICK n \in Nat : Enqueue(<<h[1], r>>, n)
      BY <2>2 DEF PublishTask
    <3> QED BY <1>1, <3>1, <3>2, EnqueueInChat DEF Types
  <2> QED BY <2>1, <2>2 DEF PublishLinks
<1>5. Types'
  BY <1>1, <1>3, <1>4 DEF Types
<1>6. HandInChat'
  BY <1>1, <1>3 DEF IInv, HandInChat, InChat, NoMail
<1>7. TaskInChat'
  BY <1>1, <1>2, <1>4 DEF IInv, TaskInChat, InChat, NoMail
<1>8. ChatOfUser' /\ LinkFollowed' /\ ChatsInTime' /\ MailInChat'
  BY <1>1 DEF IInv, ChatOfUser, LinkFollowed, Exists, ChatsInTime, MailInChat, InChat
<1> QED BY <1>5, <1>6, <1>7, <1>8 DEF IInv

LEMMA RequestFailsInv ==
  ASSUME IInv, NEW h \in Hooks, RequestFails(h)
  PROVE IInv'
<1>1. /\ hook[h].at # "none" /\ hook' = [hook EXCEPT ![h] = Step("over", {}, {})]
      /\ UNCHANGED <<row, ever, known, greet, saving, mail, copies, sending, got>>
  BY DEF RequestFails, linkVars, chatVars, taskVars
<1>2. mail[h[1]] # NoMail /\ "over" \in Places \ {"none"}
  BY <1>1 DEF IInv, HandInChat, Places
<1> QED BY <1>1, <1>2, RequestGoesOn

-----------------------------------------------------------------------------
\* The task handler serves no task but those published.

LEMMA TaskStep ==
  ASSUME IInv, NEW t \in Tasks, copies[t] > 0 \/ t \in sending,
         copies' \in [Tasks -> Nat], got' \in [Tasks -> Nat],
         sending' \subseteq sending \cup {t},
         \A s \in Tasks : s # t => (copies'[s] > 0 => copies[s] > 0)
                                   /\ (got'[s] > 0 => got[s] > 0),
         UNCHANGED <<row, ever, known, greet, saving, mail, hook>>
  PROVE IInv'
<1>1. Types'
  BY DEF IInv, Types
<1>2. TaskInChat'
  BY DEF IInv, TaskInChat, InChat, NoMail
<1>3. ChatOfUser' /\ LinkFollowed' /\ ChatsInTime' /\ MailInChat' /\ HandInChat'
  BY DEF IInv, ChatOfUser, LinkFollowed, Exists, ChatsInTime, MailInChat, HandInChat, InChat
<1> QED BY <1>1, <1>2, <1>3 DEF IInv

LEMMA TakeInv ==
  ASSUME IInv, NEW t \in Tasks, Take(t)
  PROVE IInv'
<1>1. /\ copies[t] > 0 /\ copies' = [copies EXCEPT ![t] = @ - 1]
      /\ sending' \subseteq sending \cup {t}
      /\ UNCHANGED <<row, ever, known, greet, saving, mail, hook, got>>
      /\ copies \in [Tasks -> Nat] /\ got \in [Tasks -> Nat]
  BY DEF Take, linkVars, chatVars, hookVars, IInv, Types
<1>2. /\ copies' \in [Tasks -> Nat]
      /\ \A s \in Tasks : s # t => copies'[s] = copies[s]
  BY <1>1
<1> QED BY <1>1, <1>2, TaskStep

LEMMA ServeInv ==
  ASSUME IInv, NEW t \in Tasks, Serve(t)
  PROVE IInv'
<1>1. /\ t \in sending /\ sending' = sending \ {t}
      /\ UNCHANGED <<row, ever, known, greet, saving, mail, hook>>
      /\ copies \in [Tasks -> Nat] /\ got \in [Tasks -> Nat]
  BY DEF Serve, TgSend, TgSendFails, linkVars, chatVars, hookVars, IInv, Types
<1>2. PICK n \in Nat : Shown(t, n)
  BY DEF Serve, TgSend, TgSendFails, Unnoticed
<1>3. /\ got' \in [Tasks -> Nat]
      /\ \A s \in Tasks : s # t => got'[s] = got[s]
  BY <1>1, <1>2 DEF Shown
<1>4. UNCHANGED copies \/ Enqueue(t, 1)
  BY DEF Serve, TgSend, TgSendFails
<1>5. /\ copies' \in [Tasks -> Nat]
      /\ \A s \in Tasks : s # t => (copies'[s] > 0 => copies[s] > 0)
  BY <1>1, <1>4, EnqueueInChat
<1> QED BY <1>1, <1>3, <1>5, TaskStep

-----------------------------------------------------------------------------
LEMMA StepInv == IInv /\ [Next]_vars => IInv'
<1> SUFFICES ASSUME IInv, [Next]_vars PROVE IInv'
  OBVIOUS
<1>1. ASSUME NEW r \in Links, NEW l \in Leads, OnStart(r, l) \/ CreateChat(r, l)
      PROVE IInv'
  BY <1>1, OnStartInv, CreateChatInv
<1>2. ASSUME NEW r \in Links, NEW c \in Chats, SaveChat(r, c) PROVE IInv'
  BY <1>2, SaveChatInv
<1>3. ASSUME NEW m \in Msgs, NEW c \in Chats, Write(m, c) PROVE IInv'
  BY <1>3, WriteInv
<1>4. ASSUME NEW h \in Hooks, Begin(h) \/ Handle(h) \/ RequestFails(h) PROVE IInv'
  BY <1>4, BeginInv, FindByRefInv, FindByClientInv, FindByLeadInv, FindMasterInv,
     FindOperatorInv, SetConvForLinksInv, PublishLinksInv, RequestFailsInv DEF Handle
<1>5. ASSUME NEW t \in Tasks, Take(t) \/ Serve(t) PROVE IInv'
  BY <1>5, TakeInv, ServeInv
<1>6. CASE UNCHANGED vars
  <2>1. UNCHANGED <<row, ever, known, greet, saving, mail, hook, copies, sending, got>>
    BY <1>6 DEF vars, linkVars, chatVars, hookVars, taskVars
  <2>2. Types' /\ ChatOfUser' /\ LinkFollowed' /\ ChatsInTime'
    BY <2>1 DEF IInv, Types, ChatOfUser, LinkFollowed, Exists, ChatsInTime, InChat
  <2>3. MailInChat' /\ HandInChat' /\ TaskInChat'
    BY <2>1 DEF IInv, MailInChat, HandInChat, TaskInChat, InChat, NoMail
  <2> QED BY <2>2, <2>3 DEF IInv
<1> QED BY <1>1, <1>2, <1>3, <1>4, <1>5, <1>6 DEF Next

LEMMA Inductive == Spec => []IInv
<1>1. Init => IInv
  BY InitInv
<1>2. IInv /\ [Next]_vars => IInv'
  BY StepInv
<1> QED BY <1>1, <1>2, PTL DEF Spec

\* store_chat.py, api_amochats.py: whatever the bots, the mirror and
\* set_conv_for_links write one after the other, a row's conversation is a chat
\* of a lead its user was linked to.
THEOREM OwnChat == Spec => []ChatOfUser
<1>1. IInv => ChatOfUser
  BY DEF IInv
<1> QED BY <1>1, Inductive, PTL

\* resolve_links, links_from_ext_id, publish_links, amo_to_tg: a manager's
\* message is shown only to users who were linked to a lead of its chat, though
\* rows change between the queries and the send.
THEOREM OnlyTheChat == Spec => []NoStranger
<1>1. IInv => NoStranger
  BY DEF IInv, TaskInChat, NoStranger
<1> QED BY <1>1, Inductive, PTL

-----------------------------------------------------------------------------
\* Each bot shows a message once. What follows goes step by step over the same
\* actions, with IInv known before each and what concerns requests, tasks and
\* the order of the rows to be shown after it.

Working(h) ==
    hook[h].at \in {"ref", "client", "lead", "master", "operator", "set", "publish"}

\* The task is on its way, or its user has seen it.
Out(t) == copies[t] > 0 \/ t \in sending \/ got[t] > 0

\* Types leaves these out.
OtherTypes ==
    /\ order \in [Bots -> SUBSET (Users \X Users)]
    /\ starts \in 0..MaxStarts
    /\ seen \subseteq Msgs
    /\ copies \in [Tasks -> 0..MaxCopies]
    /\ keys \subseteq Keys
    /\ got \in [Tasks -> 0..2]
    /\ raised \subseteq Tasks

\* Of two rows of a bot one at most is the later one.
NoTies == \A b \in Bots : \A p \in order[b] : <<p[2], p[1]>> \notin order[b]

\* However often a webhook comes, one request goes on with it.
OneRequest ==
    /\ \A h \in Hooks : Working(h) => h[1] \in seen
    /\ \A g, h \in Hooks : Working(g) /\ Working(h) /\ g[1] = h[1] => g = h

\* It serves one row of a bot at most.
OneRowEach ==
    \A h \in Hooks :
        /\ hook[h].pick # {} => Working(h)
        /\ hook[h].at = "operator" =>
              \A r \in hook[h].todo \cup hook[h].pick : r = <<mail[h[1]].ext, "master">>
        /\ \A r, s \in hook[h].pick : r[2] = s[2] => r = s

\* A message has one task for a bot at most, and the request has none left to
\* publish for that bot.
OneTaskEach ==
    /\ \A t \in Tasks : Out(t) => t[1] \in seen
    /\ \A s, t \in Tasks : Out(s) /\ Out(t) /\ s[1] = t[1] /\ s[2][2] = t[2][2] => s = t
    /\ \A h \in Hooks, t \in Tasks :
          Working(h) /\ Out(t) /\ t[1] = h[1] =>
              hook[h].at = "publish" /\ \A r \in hook[h].pick : r[2] # t[2][2]

\* A task is sent under its key, and not after it was shown.
SentOnce ==
    /\ \A t \in Tasks : t \in sending \/ got[t] > 0 => KeyOf(t) \in keys
    /\ "lostreply" \notin Faults =>
          \A t \in Tasks : got[t] <= 1 /\ (t \in sending => got[t] = 0)

Once == OtherTypes /\ NoTies /\ OneRequest /\ OneRowEach /\ OneTaskEach /\ SentOnce

LEMMA InitOnce == Init => Once
<1> SUFFICES ASSUME Init PROVE Once
  OBVIOUS
<1>1. /\ sending = {} /\ keys = {} /\ seen = {} /\ raised = {}
      /\ hook = [h \in Hooks |-> Step("none", {}, {})]
      /\ copies = [t \in Tasks |-> 0] /\ got = [t \in Tasks |-> 0]
  BY DEF Init
<1>2. OneRequest /\ OneRowEach /\ OneTaskEach /\ SentOnce
  BY <1>1 DEF OneRequest, OneRowEach, OneTaskEach, SentOnce, Working, Out, Step
<1>3. /\ seen \subseteq Msgs /\ keys \subseteq Keys /\ raised \subseteq Tasks
      /\ copies \in [Tasks -> 0..MaxCopies] /\ got \in [Tasks -> 0..2]
  BY <1>1
<1>4. CASE NoRows
  <2>1. OtherTypes /\ NoTies
    BY <1>3, <1>4 DEF NoRows, OtherTypes, NoTies
  <2> QED BY <1>2, <2>1 DEF Once
<1>5. ASSUME NEW r \in Links, NEW l \in Leads, NEW n \in Names, NEW c \in ChatsOf(l),
             OneRow(r, l, n, c)
      PROVE Once
  <2>1. /\ order = [b \in Bots |-> IF b = r[2] THEN OthersBefore(r[1]) ELSE {}]
        /\ starts \in 0..MaxStarts
    BY <1>5 DEF OneRow
  <2>2. /\ OthersBefore(r[1]) \in SUBSET (Users \X Users)
        /\ \A p \in OthersBefore(r[1]) : <<p[2], p[1]>> \notin OthersBefore(r[1])
    BY LinkParts DEF OthersBefore
  <2>3. OtherTypes /\ NoTies
    BY <1>3, <2>1, <2>2 DEF OtherTypes, NoTies
  <2> QED BY <1>2, <2>3 DEF Once
<1> QED BY <1>4, <1>5 DEF Init

-----------------------------------------------------------------------------
\* The order of the rows

LEMMA TouchInOrder ==
  ASSUME order \in [Bots -> SUBSET (Users \X Users)], NoTies, NEW r \in Links, Touch(r)
  PROVE order' \in [Bots -> SUBSET (Users \X Users)] /\ NoTies'
<1> DEFINE new == {p \in order[r[2]] : p[1] # r[1]} \cup OthersBefore(r[1])
<1>1. /\ order' = [order EXCEPT ![r[2]] = new] /\ r[2] \in Bots /\ r[1] \in Users
  BY LinkParts DEF Touch
<1>2. new \in SUBSET (Users \X Users)
  BY <1>1 DEF OthersBefore
<1>3. \A p \in new : <<p[2], p[1]>> \notin new
  BY <1>1 DEF OthersBefore, NoTies
<1> HIDE DEF new
<1> QED BY <1>1, <1>2, <1>3 DEF NoTies

\* publish_links takes one row of each bot.
LEMMA SelectedOneEach ==
  ASSUME NoTies, NEW L \in SUBSET Links,
         NEW r \in Selected(L), NEW s \in Selected(L), r[2] = s[2]
  PROVE r = s
<1> SUFFICES ASSUME r # s PROVE FALSE
  OBVIOUS
<1>1. <<s[1], r[1]>> \in order[r[2]] /\ <<r[1], s[1]>> \in order[r[2]]
  BY DEF Selected, Latest
<1>2. r[2] \in Bots
  BY LinkParts DEF Selected
<1> QED BY <1>1, <1>2 DEF NoTies

\* The key of a message written stays the same.
LEMMA KeyStays ==
  ASSUME NEW t \in Tasks, mail'[t[1]] = mail[t[1]]
  PROVE KeyOf(t)' = KeyOf(t)
  BY DEF KeyOf, Gives

LEMMA KeyTyped ==
  ASSUME Types, NEW t \in Tasks
  PROVE KeyOf(t) \in Keys
<1>1. t[1] \in Msgs /\ t[2] \in Links
  BY DEF Tasks
<1>2. mail[t[1]].chat \in Chats \cup {NoConv}
  BY <1>1 DEF Types, NoMail
<1>3. TextOf[t[1]] \in Texts
  BY <1>1, TextAssumption
<1> QED BY <1>1, <1>2, <1>3 DEF KeyOf, Keys

\* Tasks stay as they are, and so do the keys they are sent under.
LEMMA SentStays ==
  ASSUME SentOnce, UNCHANGED <<keys, sending, got>>,
         \A t \in Tasks : t \in sending \/ got[t] > 0 => mail'[t[1]] = mail[t[1]]
  PROVE SentOnce'
<1>1. \A t \in Tasks : t \in sending' \/ got'[t] > 0 => KeyOf(t)' \in keys'
  BY KeyStays DEF SentOnce
<1> QED BY <1>1 DEF SentOnce

\* The bots, the mirror and a manager disturb no request and no task.
LEMMA OthersOnce ==
  ASSUME IInv, Once, UNCHANGED <<seen, hook, taskVars>>,
         \A m \in Msgs : mail[m] # NoMail => mail'[m] = mail[m],
         starts' \in 0..MaxStarts,
         order' \in [Bots -> SUBSET (Users \X Users)], NoTies'
  PROVE Once'
<1>1. UNCHANGED <<seen, hook, copies, keys, sending, got, raised>>
  BY DEF taskVars
<1>2. \A h \in Hooks : hook[h].at = "operator" => mail'[h[1]] = mail[h[1]]
  BY HookParts DEF IInv, HandInChat
<1>3. OtherTypes'
  BY <1>1 DEF Once, OtherTypes
<1>4. OneRequest' /\ OneTaskEach'
  BY <1>1 DEF Once, OneRequest, OneTaskEach, Working, Out
<1>5. SentOnce'
  <2>1. \A t \in Tasks : t \in sending \/ got[t] > 0 => mail'[t[1]] = mail[t[1]]
    BY DEF IInv, TaskInChat, Tasks
  <2> QED BY <1>1, <2>1, SentStays DEF Once
<1>6. OneRowEach'
  BY <1>1, <1>2 DEF Once, OneRowEach, Working
<1> QED BY <1>3, <1>4, <1>5, <1>6 DEF Once

LEMMA RowStepOnce ==
  ASSUME IInv, Once, NEW r \in Links,
         \/ \E l \in Leads : OnStart(r, l) \/ CreateChat(r, l)
         \/ \E c \in Chats : SaveChat(r, c)
  PROVE Once'
<1>1. UNCHANGED <<seen, hook, taskVars>> /\ mail' = mail
  BY DEF OnStart, CreateChat, SaveChat, hookVars
<1>2. starts' \in 0..MaxStarts
  <2>1. UNCHANGED starts \/ (starts < MaxStarts /\ starts' = starts + 1)
    BY DEF OnStart, CreateChat, SaveChat, linkVars
  <2>2. starts \in 0..MaxStarts
    BY DEF Once, OtherTypes
  <2> QED BY <2>1, <2>2
<1>3. UNCHANGED order \/ Touch(r)
  BY DEF OnStart, UpsertTgLink, CreateChat, SaveChat, SetConversation, linkVars
<1>4. order' \in [Bots -> SUBSET (Users \X Users)] /\ NoTies'
  BY <1>3, TouchInOrder DEF Once, OtherTypes, NoTies
<1> QED BY <1>1, <1>2, <1>4, OthersOnce

LEMMA WriteOnce ==
  ASSUME IInv, Once, NEW m \in Msgs, NEW c \in Chats, Write(m, c)
  PROVE Once'
<1>1. /\ UNCHANGED <<seen, hook, taskVars, order, starts>>
      /\ mail[m] = NoMail
      /\ \A k \in Msgs : k # m => mail'[k] = mail[k]
  BY DEF Write, linkVars, IInv, Types
<1>2. order' \in [Bots -> SUBSET (Users \X Users)] /\ NoTies' /\ starts' \in 0..MaxStarts
  BY <1>1 DEF Once, OtherTypes, NoTies
<1> QED BY <1>1, <1>2, OthersOnce

-----------------------------------------------------------------------------
\* The webhook

\* A request goes from one step to the next. What it is about to serve is
\* settled before it starts to publish.
LEMMA RequestStepOnce ==
  ASSUME IInv, Once, NEW h \in Hooks, Working(h),
         NEW l \in Places, NEW todo \in SUBSET Links, NEW pick \in SUBSET Links,
         hook'[h].at = l, hook'[h].todo = todo, hook'[h].pick = pick,
         \A g \in Hooks : g # h => hook'[g] = hook[g],
         hook[h].at # "publish" \/ l = "over",
         pick # {} => l \in {"operator", "set", "publish"},
         l = "operator" => \A r \in todo \cup pick : r = <<mail[h[1]].ext, "master">>,
         \A r, s \in pick : r[2] = s[2] => r = s,
         UNCHANGED <<mail, seen, copies, keys, sending, got, raised, starts>>,
         order' \in [Bots -> SUBSET (Users \X Users)], NoTies'
  PROVE Once'
<1>1. OtherTypes'
  BY DEF Once, OtherTypes
<1>2. \A g \in Hooks : Working(g)' => Working(g)
  BY DEF Working
<1>3. OneRequest'
  BY <1>2 DEF Once, OneRequest
<1>4. OneRowEach'
  <2>1. /\ hook'[h].pick # {} => Working(h)'
        /\ hook'[h].at = "operator" =>
              \A r \in hook'[h].todo \cup hook'[h].pick : r = <<mail'[h[1]].ext, "master">>
        /\ \A r, s \in hook'[h].pick : r[2] = s[2] => r = s
    BY DEF Working
  <2>2. ASSUME NEW g \in Hooks, g # h
        PROVE /\ hook'[g].pick # {} => Working(g)'
              /\ hook'[g].at = "operator" =>
                    \A r \in hook'[g].todo \cup hook'[g].pick :
                       r = <<mail'[g[1]].ext, "master">>
              /\ \A r, s \in hook'[g].pick : r[2] = s[2] => r = s
    <3>1. hook'[g] = hook[g] /\ mail' = mail
      BY <2>2
    <3> QED BY <3>1 DEF Once, OneRowEach, Working
  <2> QED BY <2>1, <2>2 DEF OneRowEach
<1>5. OneTaskEach'
  <2>1. \A t : Out(t)' <=> Out(t)
    BY DEF Out
  <2>2. ASSUME NEW g \in Hooks, NEW t \in Tasks, Working(g)', Out(t), t[1] = g[1]
        PROVE hook'[g].at = "publish" /\ \A r \in hook'[g].pick : r[2] # t[2][2]
    <3>1. hook[g].at = "publish" /\ \A r \in hook[g].pick : r[2] # t[2][2]
      BY <1>2, <2>2 DEF Once, OneTaskEach
    <3>2. g # h
      BY <2>2, <3>1 DEF Working
    <3> QED BY <3>1, <3>2
  <2> QED BY <2>1, <2>2 DEF Once, OneTaskEach
<1>6. SentOnce'
  BY SentStays DEF Once
<1> QED BY <1>1, <1>3, <1>4, <1>5, <1>6 DEF Once

\* Only the request that stores the key of the body goes on with it.
LEMMA BeginOnce ==
  ASSUME IInv, Once, NEW h \in Hooks, Begin(h)
  PROVE Once'
<1>1. /\ hook[h].at = "none" /\ seen' = seen \cup {h[1]} /\ h[1] \in Msgs
      /\ UNCHANGED <<order, starts, mail, copies, keys, sending, got, raised>>
  BY HookParts DEF Begin, linkVars, taskVars
<1>2. /\ hook'[h].at = IF h[1] \in seen THEN "over" ELSE "ref"
      /\ hook'[h].pick = hook[h].pick
      /\ \A g \in Hooks : g # h => hook'[g] = hook[g]
  BY DEF Begin, Goto, IInv, Types
<1>3. hook[h].pick = {}
  BY <1>1 DEF Once, OneRowEach, Working
<1>4. \A g \in Hooks : Working(g)' => Working(g) \/ (g = h /\ h[1] \notin seen)
  BY <1>2 DEF Working
<1>5. OtherTypes' /\ NoTies' /\ SentOnce'
  BY <1>1, SentStays DEF Once, OtherTypes, NoTies
<1>6. OneRequest'
  BY <1>1, <1>4 DEF Once, OneRequest
<1>7. OneRowEach'
  <2>1. \A g \in Hooks : g # h => (Working(g)' <=> Working(g))
    BY <1>2 DEF Working
  <2> QED BY <1>1, <1>2, <1>3, <2>1 DEF Once, OneRowEach
<1>8. OneTaskEach'
  <2>1. \A t : Out(t)' <=> Out(t)
    BY <1>1 DEF Out
  <2>2. ASSUME NEW g \in Hooks, NEW t \in Tasks, Working(g)', Out(t), t[1] = g[1]
        PROVE hook'[g].at = "publish" /\ \A r \in hook'[g].pick : r[2] # t[2][2]
    <3>1. t[1] \in seen
      BY <2>2 DEF Once, OneTaskEach
    <3>2. Working(g) /\ g # h
      BY <1>1, <1>4, <2>2, <3>1 DEF Working
    <3> QED BY <1>2, <2>2, <3>2 DEF Once, OneTaskEach
  <2> QED BY <1>1, <2>1, <2>2 DEF Once, OneTaskEach
<1> QED BY <1>5, <1>6, <1>7, <1>8 DEF Once

\* What a query leaves, if nothing but the request changes.
LEMMA FoundOnce ==
  ASSUME IInv, Once, NEW h \in Hooks, Working(h), hook[h].at # "publish",
         NEW L \in SUBSET Links, NEW next \in {"client", "lead", "master"},
         NEW todo \in SUBSET L, Found(h, L, next, todo),
         UNCHANGED <<linkVars, mail, seen, taskVars>>
  PROVE Once'
<1>1. /\ UNCHANGED <<order, starts, mail, seen, copies, keys, sending, got, raised>>
      /\ order' \in [Bots -> SUBSET (Users \X Users)] /\ NoTies'
  BY DEF linkVars, taskVars, Once, OtherTypes, NoTies
<1>2. CASE L = {}
  <2>1. hook' = [hook EXCEPT ![h] = Step(next, {}, {})]
    BY <1>2 DEF Found
  <2>2. /\ hook'[h].at = next /\ hook'[h].todo = {} /\ hook'[h].pick = {}
        /\ \A g \in Hooks : g # h => hook'[g] = hook[g]
    BY <2>1 DEF IInv, Types, Step
  <2>3. next \in Places /\ next # "operator"
    BY DEF Places
  <2> QED BY <1>1, <2>2, <2>3, RequestStepOnce
<1>3. CASE L # {}
  <2>1. hook' = [hook EXCEPT ![h] = Step("set", todo, Selected(L))]
    BY <1>3 DEF Found
  <2>2. /\ hook'[h].at = "set" /\ hook'[h].todo = todo /\ hook'[h].pick = Selected(L)
        /\ \A g \in Hooks : g # h => hook'[g] = hook[g]
    BY <2>1 DEF IInv, Types, Step
  <2>3. "set" \in Places /\ Selected(L) \in SUBSET Links /\ todo \in SUBSET Links
    BY DEF Places, Selected
  <2>4. \A r, s \in Selected(L) : r[2] = s[2] => r = s
    BY SelectedOneEach DEF Once
  <2> QED BY <1>1, <2>2, <2>3, <2>4, RequestStepOnce
<1> QED BY <1>2, <1>3

LEMMA FindOnce ==
  ASSUME IInv, Once, NEW h \in Hooks, FindByRef(h) \/ FindByClient(h) \/ FindByLead(h)
  PROVE Once'
<1>1. UNCHANGED <<linkVars, mail, seen, taskVars>>
  BY DEF FindByRef, FindByClient, FindByLead
<1>2. Working(h) /\ hook[h].at # "publish"
  BY DEF FindByRef, FindByClient, FindByLead, Working
<1>3. \A v, l : ByConversation(v) \in SUBSET Links /\ ByLead(l) \in SUBSET Links
  BY DEF ByConversation, ByLead
<1>4. \A S : Unset(S) \in SUBSET S
  BY DEF Unset
<1>5. CASE FindByRef(h)
  <2> DEFINE L == IF Gives(h[1], "ref") THEN ByConversation(<<"ref", mail[h[1]].chat>>) ELSE {}
  <2>1. Found(h, L, "client", {}) /\ L \in SUBSET Links
    BY <1>3, <1>5 DEF FindByRef
  <2> HIDE DEF L
  <2> QED BY <1>1, <1>2, <2>1, FoundOnce
<1>6. CASE FindByClient(h)
  <2> DEFINE L == IF Gives(h[1], "client") THEN ByConversation(<<"client", mail[h[1]].chat>>)
                  ELSE {}
  <2>1. Found(h, L, "lead", {}) /\ L \in SUBSET Links
    BY <1>3, <1>6 DEF FindByClient
  <2> HIDE DEF L
  <2> QED BY <1>1, <1>2, <2>1, FoundOnce
<1>7. CASE FindByLead(h)
  <2> DEFINE L == IF Gives(h[1], "client") /\ mail[h[1]].chat \in Leads
                  THEN ByLead(mail[h[1]].chat) ELSE {}
  <2>1. Found(h, L, "master", Unset(L)) /\ L \in SUBSET Links
    BY <1>3, <1>7 DEF FindByLead
  <2> HIDE DEF L
  <2>2. Unset(L) \in SUBSET L
    BY <1>4
  <2> QED BY <1>1, <1>2, <2>1, <2>2, FoundOnce
<1> QED BY <1>5, <1>6, <1>7

\* links_from_ext_id: the user has one row with each bot.
LEMMA FindUserOnce ==
  ASSUME IInv, Once, NEW h \in Hooks, FindMaster(h) \/ FindOperator(h)
  PROVE Once'
<1>1. /\ UNCHANGED <<order, starts, mail, seen, copies, keys, sending, got, raised>>
      /\ order' \in [Bots -> SUBSET (Users \X Users)] /\ NoTies'
  BY DEF FindMaster, FindOperator, linkVars, taskVars, Once, OtherTypes, NoTies
<1>2. Working(h) /\ hook[h].at # "publish"
  BY DEF FindMaster, FindOperator, Working
<1>3. \A b : UserRow(h, b) \in SUBSET Links /\ \A r \in UserRow(h, b) : r = <<mail[h[1]].ext, b>>
  BY DEF UserRow
<1>4. \A S : Unset(S) \in SUBSET S
  BY DEF Unset
<1>5. CASE FindMaster(h)
  <2> DEFINE L == UserRow(h, "master")
  <2>1. /\ hook'[h].at = "operator" /\ hook'[h].todo = Unset(L) /\ hook'[h].pick = L
        /\ \A g \in Hooks : g # h => hook'[g] = hook[g]
    BY <1>5 DEF FindMaster, IInv, Types, Step
  <2>2. /\ Unset(L) \in SUBSET Links /\ L \in SUBSET Links /\ "operator" \in Places
        /\ \A r \in Unset(L) \cup L : r = <<mail[h[1]].ext, "master">>
    BY <1>3, <1>4 DEF Places
  <2>3. \A r, s \in L : r[2] = s[2] => r = s
    BY <2>2
  <2> HIDE DEF L
  <2> QED BY <1>1, <1>2, <2>1, <2>2, <2>3, RequestStepOnce
<1>6. CASE FindOperator(h)
  <2> DEFINE L == UserRow(h, "operator")
             none == hook[h].todo \cup Unset(L)
             todo == IF mail[h[1]].names = {} THEN {} ELSE none
             pick == IF none # {} THEN none ELSE hook[h].pick \cup L
  <2>1. /\ hook'[h].at = "set" /\ hook'[h].todo = todo /\ hook'[h].pick = pick
        /\ \A g \in Hooks : g # h => hook'[g] = hook[g]
    BY <1>6 DEF FindOperator, IInv, Types, Step
  <2>2. /\ hook[h].todo \subseteq Links /\ hook[h].pick \subseteq Links
        /\ \A r \in hook[h].todo \cup hook[h].pick : r = <<mail[h[1]].ext, "master">>
    BY <1>6 DEF FindOperator, IInv, Types, Once, OneRowEach
  <2>3. /\ L \in SUBSET Links /\ Unset(L) \in SUBSET L
        /\ \A r \in L : r = <<mail[h[1]].ext, "operator">>
    BY <1>3, <1>4
  <2>4. \A r \in pick : r = <<mail[h[1]].ext, "master">> \/ r = <<mail[h[1]].ext, "operator">>
    BY <2>2, <2>3
  <2>5. todo \in SUBSET Links /\ pick \in SUBSET Links /\ "set" \in Places
    BY <2>2, <2>3 DEF Places
  <2> HIDE DEF L, none, todo, pick
  <2>6. \A r, s \in pick : r[2] = s[2] => r = s
    BY <2>4
  <2> QED BY <1>1, <1>2, <2>1, <2>5, <2>6, RequestStepOnce
<1> QED BY <1>5, <1>6

LEMMA SetConvForLinksOnce ==
  ASSUME IInv, Once, NEW h \in Hooks, SetConvForLinks(h)
  PROVE Once'
<1>1. /\ hook[h].at = "set"
      /\ UNCHANGED <<starts, mail, seen, copies, keys, sending, got, raised>>
  BY DEF SetConvForLinks, taskVars
<1>2. /\ hook[h].todo \in SUBSET Links /\ hook[h].pick \in SUBSET Links
      /\ \A r, s \in hook[h].pick : r[2] = s[2] => r = s
      /\ Working(h)
  BY <1>1 DEF IInv, Types, Once, OneRowEach, Working
<1>3. order' \in [Bots -> SUBSET (Users \X Users)] /\ NoTies'
  <2>1. UNCHANGED order \/ \E r \in Links : Touch(r)
    BY <1>2 DEF SetConvForLinks, SetConversation
  <2> QED BY <2>1, TouchInOrder DEF Once, OtherTypes, NoTies
<1>4. CASE Goto(h, "publish")
  <2>1. /\ hook'[h].at = "publish" /\ hook'[h].todo = hook[h].todo
        /\ hook'[h].pick = hook[h].pick
        /\ \A g \in Hooks : g # h => hook'[g] = hook[g]
    BY <1>4 DEF Goto, IInv, Types
  <2>2. "publish" \in Places
    BY DEF Places
  <2> QED BY <1>1, <1>2, <1>3, <2>1, <2>2, RequestStepOnce
<1>5. ASSUME NEW r \in hook[h].todo, hook' = [hook EXCEPT ![h].todo = @ \ {r}]
      PROVE Once'
  <2>1. /\ hook'[h].at = "set" /\ hook'[h].todo = hook[h].todo \ {r}
        /\ hook'[h].pick = hook[h].pick
        /\ \A g \in Hooks : g # h => hook'[g] = hook[g]
    BY <1>1, <1>5 DEF IInv, Types
  <2>2. "set" \in Places /\ hook[h].todo \ {r} \in SUBSET Links
    BY <1>2 DEF Places
  <2> QED BY <1>1, <1>2, <1>3, <2>1, <2>2, RequestStepOnce
<1> QED BY <1>4, <1>5 DEF SetConvForLinks

LEMMA RequestFailsOnce ==
  ASSUME IInv, Once, NEW h \in Hooks, RequestFails(h)
  PROVE Once'
<1>1. /\ UNCHANGED <<order, starts, mail, seen, copies, keys, sending, got, raised>>
      /\ order' \in [Bots -> SUBSET (Users \X Users)] /\ NoTies'
  BY DEF RequestFails, linkVars, taskVars, Once, OtherTypes, NoTies
<1>2. /\ hook'[h].at = "over" /\ hook'[h].todo = {} /\ hook'[h].pick = {}
      /\ \A g \in Hooks : g # h => hook'[g] = hook[g]
  BY DEF RequestFails, IInv, Types, Step
<1>3. Working(h) /\ "over" \in Places
  BY DEF RequestFails, IInv, Types, Places, Working
<1> QED BY <1>1, <1>2, <1>3, RequestStepOnce

LEMMA EnqueueBounded ==
  ASSUME copies \in [Tasks -> 0..MaxCopies], NEW t \in Tasks, NEW n \in Nat, Enqueue(t, n)
  PROVE /\ copies' \in [Tasks -> 0..MaxCopies]
        /\ \A s \in Tasks : s # t => copies'[s] = copies[s]
  BY DEF Enqueue

\* A task published is the first of its message for this bot, and the last.
LEMMA PublishTaskOnce ==
  ASSUME IInv, Once, NEW h \in Hooks, hook[h].at = "publish",
         NEW r \in hook[h].pick, PublishTask(<<h[1], r>>),
         hook' = [hook EXCEPT ![h].pick = @ \ {r}],
         UNCHANGED <<order, starts, mail, seen, keys, sending, got, raised>>
  PROVE Once'
<1> DEFINE new == <<h[1], r>>
<1>1. new \in Tasks /\ r \in Links /\ h[1] \in Msgs /\ Working(h)
  BY HookParts DEF IInv, Types, Tasks, Working
<1>2. /\ hook'[h].at = "publish" /\ hook'[h].pick = hook[h].pick \ {r}
      /\ \A g \in Hooks : g # h => hook'[g] = hook[g]
  BY DEF IInv, Types
<1>3. /\ copies' \in [Tasks -> 0..MaxCopies]
      /\ \A s \in Tasks : s # new => copies'[s] = copies[s]
  <2>1. PICK n \in Nat : Enqueue(new, n)
    BY DEF PublishTask
  <2> QED BY <1>1, <2>1, EnqueueBounded DEF Once, OtherTypes
<1>4. \A s \in Tasks : Out(s)' => Out(s) \/ s = new
  BY <1>3 DEF Out
<1>5. \A g \in Hooks : Working(g)' <=> Working(g)
  BY <1>2 DEF Working
<1>6. OtherTypes' /\ NoTies' /\ SentOnce'
  BY <1>3, SentStays DEF Once, OtherTypes, NoTies
<1>7. OneRequest'
  BY <1>5 DEF Once, OneRequest
<1>8. OneRowEach'
  BY <1>1, <1>2, <1>5 DEF Once, OneRowEach
<1>9. OneTaskEach'
  <2>1. new[1] = h[1] /\ new[2] = r /\ h[1] \in seen
    BY <1>1 DEF Once, OneRequest
  <2> HIDE DEF new
  <2>2. \A t \in Tasks : Out(t) /\ t[1] = h[1] => \A q \in hook[h].pick : q[2] # t[2][2]
    BY <1>1 DEF Once, OneTaskEach
  <2>3. \A t \in Tasks : Out(t)' => t[1] \in seen'
    BY <1>4, <2>1 DEF Once, OneTaskEach
  <2>4. \A s, t \in Tasks : Out(s)' /\ Out(t)' /\ s[1] = t[1] /\ s[2][2] = t[2][2] => s = t
    <3>1. \A s, t \in Tasks : Out(s) /\ Out(t) /\ s[1] = t[1] /\ s[2][2] = t[2][2] => s = t
      BY DEF Once, OneTaskEach
    <3>2. \A t \in Tasks : ~(Out(t) /\ t[1] = new[1] /\ t[2][2] = new[2][2])
      BY <2>1, <2>2
    <3> QED BY <1>4, <3>1, <3>2
  <2>5. ASSUME NEW g \in Hooks, NEW t \in Tasks, Working(g)', Out(t)', t[1] = g[1]
        PROVE hook'[g].at = "publish" /\ \A q \in hook'[g].pick : q[2] # t[2][2]
    <3>1. CASE Out(t)
      <4>1. hook[g].at = "publish" /\ \A q \in hook[g].pick : q[2] # t[2][2]
        BY <1>5, <2>5, <3>1 DEF Once, OneTaskEach
      <4> QED BY <1>2, <4>1
    <3>2. CASE t = new
      <4>1. g = h
        BY <1>1, <1>5, <2>1, <2>5, <3>2 DEF Once, OneRequest
      <4>2. \A q \in hook[h].pick : q[2] = r[2] => q = r
        BY DEF Once, OneRowEach
      <4> QED BY <1>2, <2>1, <3>2, <4>1, <4>2
    <3> QED BY <1>4, <2>5, <3>1, <3>2
  <2> QED BY <2>3, <2>4, <2>5 DEF OneTaskEach
<1> QED BY <1>6, <1>7, <1>8, <1>9 DEF Once

LEMMA PublishLinksOnce ==
  ASSUME IInv, Once, NEW h \in Hooks, PublishLinks(h)
  PROVE Once'
<1>1. /\ hook[h].at = "publish"
      /\ UNCHANGED <<order, starts, mail, seen, keys, sending, got, raised>>
  BY DEF PublishLinks, linkVars
<1>2. CASE hook[h].pick = {} /\ Goto(h, "over") /\ UNCHANGED copies
  <2>1. /\ hook'[h].at = "over" /\ hook'[h].todo = hook[h].todo
        /\ hook'[h].pick = hook[h].pick
        /\ \A g \in Hooks : g # h => hook'[g] = hook[g]
    BY <1>2 DEF Goto, IInv, Types
  <2>2. /\ hook[h].todo \in SUBSET Links /\ hook[h].pick \in SUBSET Links
        /\ "over" \in Places /\ Working(h)
    BY <1>1 DEF IInv, Types, Places, Working
  <2>3. order' \in [Bots -> SUBSET (Users \X Users)] /\ NoTies'
    BY <1>1 DEF Once, OtherTypes, NoTies
  <2> QED BY <1>1, <1>2, <2>1, <2>2, <2>3, RequestStepOnce
<1>3. CASE \E r \in hook[h].pick : /\ PublishTask(<<h[1], r>>)
                                   /\ hook' = [hook EXCEPT ![h].pick = @ \ {r}]
  BY <1>1, <1>3, PublishTaskOnce
<1> QED BY <1>2, <1>3 DEF PublishLinks

-----------------------------------------------------------------------------
\* The task handler publishes nothing new.

LEMMA TaskStepOnce ==
  ASSUME IInv, Once, UNCHANGED <<order, starts, mail, seen, hook>>,
         copies' \in [Tasks -> 0..MaxCopies], keys' \subseteq Keys,
         got' \in [Tasks -> 0..2], raised' \subseteq Tasks,
         \A t \in Tasks : Out(t)' => Out(t), SentOnce'
  PROVE Once'
<1>1. OtherTypes' /\ NoTies'
  BY DEF Once, OtherTypes, NoTies
<1>2. OneRequest' /\ OneRowEach'
  BY DEF Once, OneRequest, OneRowEach, Working
<1>3. OneTaskEach'
  <2>1. \A h \in Hooks : Working(h)' <=> Working(h)
    BY DEF Working
  <2> QED BY <2>1 DEF Once, OneTaskEach
<1> QED BY <1>1, <1>2, <1>3 DEF Once

LEMMA TakeOnce ==
  ASSUME IInv, Once, NEW t \in Tasks, Take(t)
  PROVE Once'
<1>1. /\ copies[t] > 0 /\ copies' = [copies EXCEPT ![t] = @ - 1]
      /\ UNCHANGED <<order, starts, mail, seen, hook, got, raised>>
  BY DEF Take, linkVars, hookVars
<1>2. \/ KeyOf(t) \in keys /\ UNCHANGED <<keys, sending>>
      \/ /\ KeyOf(t) \notin keys
         /\ keys' = keys \cup {KeyOf(t)} /\ sending' = sending \cup {t}
  BY DEF Take
<1>3. /\ copies \in [Tasks -> 0..MaxCopies] /\ keys \subseteq Keys
      /\ got \in [Tasks -> 0..2] /\ raised \subseteq Tasks
  BY DEF Once, OtherTypes
<1>4. /\ copies' \in [Tasks -> 0..MaxCopies]
      /\ \A s \in Tasks : s # t => copies'[s] = copies[s]
  BY <1>1, <1>3
<1>5. keys' \subseteq Keys /\ got' \in [Tasks -> 0..2] /\ raised' \subseteq Tasks
  BY <1>1, <1>2, <1>3, KeyTyped DEF IInv
<1>6. \A s \in Tasks : Out(s)' => Out(s)
  BY <1>1, <1>2, <1>4 DEF Out
<1>7. SentOnce'
  <2>1. \A s \in Tasks : KeyOf(s)' = KeyOf(s)
    BY <1>1, KeyStays
  <2>2. \A s \in Tasks : s \in sending \/ got[s] > 0 => KeyOf(s) \in keys
    BY DEF Once, SentOnce
  <2>3. \A s \in Tasks : s \in sending' \/ got'[s] > 0 => KeyOf(s)' \in keys'
    BY <1>1, <1>2, <2>1, <2>2
  <2>4. sending' # sending => t \notin sending /\ got[t] = 0
    BY <1>2, <1>3, <2>2
  <2>5. "lostreply" \notin Faults =>
          \A s \in Tasks : got'[s] <= 1 /\ (s \in sending' => got'[s] = 0)
    BY <1>1, <1>2, <2>4 DEF Once, SentOnce
  <2> QED BY <2>3, <2>5 DEF SentOnce
<1> QED BY <1>1, <1>4, <1>5, <1>6, <1>7, TaskStepOnce

LEMMA ServeOnce ==
  ASSUME IInv, Once, NEW t \in Tasks, Serve(t)
  PROVE Once'
<1>1. /\ t \in sending /\ sending' = sending \ {t}
      /\ UNCHANGED <<order, starts, mail, seen, hook, keys>>
  BY DEF Serve, TgSend, TgSendFails, linkVars, hookVars
<1>2. PICK n \in Nat : Shown(t, n) /\ ("lostreply" \notin Faults => n <= 1)
  BY DEF Serve, TgSend, TgSendFails, Unnoticed
<1>3. /\ copies \in [Tasks -> 0..MaxCopies] /\ keys \subseteq Keys
      /\ got \in [Tasks -> 0..2] /\ raised \subseteq Tasks
  BY DEF Once, OtherTypes
<1>4. /\ got' \in [Tasks -> 0..2]
      /\ \A s \in Tasks : s # t => got'[s] = got[s]
      /\ "lostreply" \notin Faults /\ got[t] = 0 => got'[t] <= 1
  BY <1>2, <1>3 DEF Shown
<1>5. /\ copies' \in [Tasks -> 0..MaxCopies]
      /\ \A s \in Tasks : s # t => copies'[s] = copies[s]
  <2>1. UNCHANGED copies \/ Enqueue(t, 1)
    BY DEF Serve, TgSend, TgSendFails
  <2> QED BY <1>3, <2>1, EnqueueBounded
<1>6. raised' \subseteq Tasks
  BY <1>3 DEF Serve, TgSend, TgSendFails
<1>7. \A s \in Tasks : Out(s)' => Out(s)
  BY <1>1, <1>4, <1>5 DEF Out
<1>8. SentOnce'
  <2>1. \A s \in Tasks : KeyOf(s)' = KeyOf(s)
    BY <1>1, KeyStays
  <2>2. \A s \in Tasks : s \in sending' \/ got'[s] > 0 => KeyOf(s)' \in keys'
    BY <1>1, <1>4, <2>1 DEF Once, SentOnce
  <2>3. "lostreply" \notin Faults =>
          \A s \in Tasks : got'[s] <= 1 /\ (s \in sending' => got'[s] = 0)
    BY <1>1, <1>4 DEF Once, SentOnce
  <2> QED BY <2>2, <2>3 DEF SentOnce
<1> QED BY <1>1, <1>3, <1>4, <1>5, <1>6, <1>7, <1>8, TaskStepOnce

-----------------------------------------------------------------------------
LEMMA OnceStep == IInv /\ Once /\ [Next]_vars => Once'
<1> SUFFICES ASSUME IInv, Once, [Next]_vars PROVE Once'
  OBVIOUS
<1>1. ASSUME NEW r \in Links, NEW l \in Leads, OnStart(r, l) \/ CreateChat(r, l)
      PROVE Once'
  BY <1>1, RowStepOnce
<1>2. ASSUME NEW r \in Links, NEW c \in Chats, SaveChat(r, c) PROVE Once'
  BY <1>2, RowStepOnce
<1>3. ASSUME NEW m \in Msgs, NEW c \in Chats, Write(m, c) PROVE Once'
  BY <1>3, WriteOnce
<1>4. ASSUME NEW h \in Hooks, Begin(h) \/ Handle(h) \/ RequestFails(h) PROVE Once'
  BY <1>4, BeginOnce, FindOnce, FindUserOnce, SetConvForLinksOnce, PublishLinksOnce,
     RequestFailsOnce DEF Handle
<1>5. ASSUME NEW t \in Tasks, Take(t) \/ Serve(t) PROVE Once'
  BY <1>5, TakeOnce, ServeOnce
<1>6. CASE UNCHANGED vars
  <2>1. UNCHANGED <<order, starts, mail, seen, hook, copies, keys, sending, got, raised>>
    BY <1>6 DEF vars, linkVars, hookVars, taskVars
  <2>2. OtherTypes' /\ NoTies' /\ OneRequest' /\ OneRowEach'
    BY <2>1 DEF Once, OtherTypes, NoTies, OneRequest, OneRowEach, Working
  <2>3. OneTaskEach' /\ SentOnce'
    BY <2>1, SentStays DEF Once, OneTaskEach, Working, Out
  <2> QED BY <2>2, <2>3 DEF Once
<1> QED BY <1>1, <1>2, <1>3, <1>4, <1>5, <1>6 DEF Next

LEMMA OnceInductive == Spec => []Once
<1>1. Init => Once
  BY InitOnce
<1>2. IInv /\ Once /\ [Next]_vars => Once'
  BY OnceStep
<1> QED BY <1>1, <1>2, Inductive, PTL DEF Spec

\* api_amochats.py, mirror.py: webhooks and tasks come again, requests overlap
\* and rows are picked by a time that changes; still each bot shows a message to
\* one user, and to this one once if Telegram's replies arrive.
THEOREM ShownToOne == Spec => []ShownOnce
<1>1. Once => ShownOnce
  <2> SUFFICES ASSUME Once PROVE ShownOnce
    OBVIOUS
  <2>1. \A t \in Tasks : got[t] > 0 => Out(t)
    BY DEF Out
  <2> QED BY <2>1 DEF Once, OneTaskEach, SentOnce, ShownOnce
<1> QED BY <1>1, OnceInductive, PTL

-----------------------------------------------------------------------------
\* A task is taken for a duplicate only of what was taken up before.

\* A key is stored by a delivery that went on with its task.
KeyTaken ==
    \A k \in keys : \E t \in Tasks : mail[t[1]] # NoMail /\ KeyOf(t) = k /\ TakenUp(t)

LEMMA MailStays ==
  ASSUME IInv, [Next]_vars
  PROVE \A m \in Msgs : mail[m] # NoMail => mail'[m] = mail[m]
<1>1. ASSUME NEW m \in Msgs, NEW c \in Chats, Write(m, c)
      PROVE \A n \in Msgs : mail[n] # NoMail => mail'[n] = mail[n]
  BY <1>1 DEF Write, IInv, Types
<1>2. CASE \E m \in Msgs, c \in Chats : Write(m, c)
  BY <1>1, <1>2
<1>3. CASE ~ \E m \in Msgs, c \in Chats : Write(m, c)
  <2>1. mail' = mail
    BY <1>3 DEF Next, OnStart, CreateChat, SaveChat, Begin, Handle, FindByRef, FindByClient,
                FindByLead, FindMaster, FindOperator, SetConvForLinks, PublishLinks,
                RequestFails, Take, Serve, TgSend, TgSendFails, vars, hookVars
  <2> QED BY <2>1
<1> QED BY <1>2, <1>3

\* Nothing but a delivery stores a key, and it takes its task up; a task taken
\* up is then sent, or its handler fails.
LEMMA KeysStep ==
  ASSUME IInv, Once, [Next]_vars
  PROVE /\ \A t \in Tasks : TakenUp(t) => TakenUp(t)'
        /\ \A k \in keys' \ keys :
              \E t \in Tasks : mail[t[1]] # NoMail /\ KeyOf(t) = k /\ TakenUp(t)'
<1>1. CASE UNCHANGED <<keys, sending, got, raised>>
  BY <1>1 DEF TakenUp
<1>2. ASSUME NEW t \in Tasks, Take(t)
      PROVE /\ \A s \in Tasks : TakenUp(s) => TakenUp(s)'
            /\ \A k \in keys' \ keys :
                  \E s \in Tasks : mail[s[1]] # NoMail /\ KeyOf(s) = k /\ TakenUp(s)'
  <2>1. mail[t[1]] # NoMail /\ UNCHANGED <<got, raised>>
    BY <1>2 DEF Take, IInv, TaskInChat
  <2>2. \/ UNCHANGED <<keys, sending>>
        \/ keys' = keys \cup {KeyOf(t)} /\ sending' = sending \cup {t}
    BY <1>2 DEF Take
  <2> QED BY <2>1, <2>2 DEF TakenUp
<1>3. ASSUME NEW t \in Tasks, Serve(t)
      PROVE keys' = keys /\ \A s \in Tasks : TakenUp(s) => TakenUp(s)'
  <2>1. keys' = keys /\ sending' = sending \ {t} /\ raised \subseteq raised'
    BY <1>3 DEF Serve, TgSend, TgSendFails
  <2>2. got \in [Tasks -> 0..2]
    BY DEF Once, OtherTypes
  <2>3. CASE TgSend(t)
    <3>1. PICK n \in Nat : Shown(t, n + 1)
      BY <2>3 DEF TgSend, Unnoticed
    <3>2. got'[t] > 0 /\ \A s \in Tasks : s # t => got'[s] = got[s]
      BY <2>2, <3>1 DEF Shown
    <3> QED BY <2>1, <3>2 DEF TakenUp
  <2>4. CASE TgSendFails(t)
    <3>1. PICK n \in Nat : Shown(t, n)
      BY <2>4 DEF TgSendFails, Unnoticed
    <3>2. t \in raised' /\ \A s \in Tasks : s # t => got'[s] = got[s]
      BY <2>2, <2>4, <3>1 DEF Shown, TgSendFails
    <3> QED BY <2>1, <3>2 DEF TakenUp
  <2> QED BY <1>3, <2>1, <2>3, <2>4 DEF Serve
<1>4. CASE ~ \E t \in Tasks : Take(t) \/ Serve(t)
  <2>1. UNCHANGED <<keys, sending, got, raised>>
    BY <1>4 DEF Next, OnStart, CreateChat, SaveChat, Write, Begin, Handle, FindByRef,
                FindByClient, FindByLead, FindMaster, FindOperator, SetConvForLinks,
                PublishLinks, RequestFails, vars, taskVars
  <2> QED BY <1>1, <2>1
<1> QED BY <1>2, <1>3, <1>4

LEMMA KeyTakenStep == IInv /\ Once /\ KeyTaken /\ [Next]_vars => KeyTaken'
<1> SUFFICES ASSUME IInv, Once, KeyTaken, [Next]_vars, NEW k \in keys'
             PROVE \E t \in Tasks : mail'[t[1]] # NoMail /\ KeyOf(t)' = k /\ TakenUp(t)'
  BY DEF KeyTaken, NoMail
<1>1. PICK t \in Tasks : mail[t[1]] # NoMail /\ KeyOf(t) = k /\ TakenUp(t)'
  BY KeysStep DEF KeyTaken
<1>2. mail'[t[1]] = mail[t[1]]
  BY <1>1, MailStays DEF Tasks
<1> QED BY <1>1, <1>2, KeyStays

\* Two tasks have one key only if they are for the same row, and of one
\* message or of two alike.
LEMMA SameKey ==
  ASSUME IInv, NEW s \in Tasks, NEW t \in Tasks, KeyOf(s) = KeyOf(t),
         mail[s[1]] # NoMail, mail[t[1]] # NoMail
  PROVE s = t \/ (s = <<s[1], t[2]>> /\ Alike(s[1], t[1]))
<1>1. /\ s[1] \in Msgs /\ t[1] \in Msgs /\ s = <<s[1], s[2]>> /\ t = <<t[1], t[2]>>
  BY DEF Tasks
<1>2. s[2] = t[2]
  BY DEF KeyOf
<1>3. mail[s[1]].chat \in Chats /\ mail[t[1]].chat \in Chats
  BY <1>1 DEF IInv, Types
<1>4. /\ Gives(s[1], "ref") = Gives(t[1], "ref")
      /\ Gives(s[1], "ref") => mail[s[1]].chat = mail[t[1]].chat
  BY <1>3 DEF KeyOf, Gives
<1>5. TextOf[s[1]] \in Texts /\ TextOf[t[1]] \in Texts
  BY <1>1, TextAssumption
<1>6. (IF mail[s[1]].named THEN s[1] ELSE TextOf[s[1]])
        = (IF mail[t[1]].named THEN t[1] ELSE TextOf[t[1]])
  BY DEF KeyOf
<1>7. \/ s[1] = t[1]
      \/ ~ mail[s[1]].named /\ ~ mail[t[1]].named /\ TextOf[s[1]] = TextOf[t[1]]
  BY <1>1, <1>5, <1>6, TextAssumption
<1> QED BY <1>1, <1>2, <1>4, <1>7 DEF Alike

\* mirror.py:55-63: the key drops a delivery only if its task, or one alike for
\* the same row, was taken up before, whatever failed and came again since.
THEOREM DroppedIfTakenUp == Spec => []NeverMistaken
<1>1. Init => KeyTaken
  BY DEF Init, KeyTaken
<1>2. IInv /\ KeyTaken => NeverMistaken
  <2> SUFFICES ASSUME IInv, KeyTaken, NEW t \in Tasks, copies[t] > 0, KeyOf(t) \in keys
               PROVE TakenUp(t) \/ \E m \in Msgs : Alike(m, t[1]) /\ TakenUp(<<m, t[2]>>)
    BY DEF NeverMistaken
  <2>1. mail[t[1]] # NoMail
    BY DEF IInv, TaskInChat
  <2>2. PICK s \in Tasks : mail[s[1]] # NoMail /\ KeyOf(s) = KeyOf(t) /\ TakenUp(s)
    BY DEF KeyTaken
  <2>3. s[1] \in Msgs
    BY DEF Tasks
  <2> QED BY <2>1, <2>2, <2>3, SameKey
<1> QED BY <1>1, <1>2, KeyTakenStep, Inductive, OnceInductive, PTL DEF Spec

\* Every variable keeps its type; a handler that has yet to send holds the key.
THEOREM TypeCorrect == Spec => []TypeOK
<1>1. IInv /\ Once => TypeOK
  <2> SUFFICES ASSUME IInv, Once PROVE TypeOK
    OBVIOUS
  <2>1. sending \subseteq Tasks /\ \A t \in sending : KeyOf(t) \in keys
    BY DEF IInv, Types, Once, SentOnce
  <2>2. hook \in [Hooks -> [at : {"none", "ref", "client", "lead", "master",
                                  "operator", "set", "publish", "over"},
                            todo : SUBSET Links, pick : SUBSET Links]]
    BY DEF IInv, Types, Places
  <2> QED BY <2>1, <2>2 DEF IInv, Types, Once, OtherTypes, TypeOK
<1> QED BY <1>1, Inductive, OnceInductive, PTL
=============================================================================
