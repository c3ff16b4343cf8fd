------------------------------ MODULE Startup ------------------------------
(***************************************************************************)
(* The start of the API process (main.py: on_startup) and what it leaves   *)
(* behind at the providers: the consumer, one HeadHunter subscription      *)
(* (app/api/hh_webhooks.py), two Avito webhooks for each account           *)
(* (app/api/avito_webhooks.py), the webhooks of the two bots, the AmoChats *)
(* channel. Several API processes may start at once (gunicorn, a rolling   *)
(* deployment), a start that raises is repeated from the beginning, and    *)
(* the OAuth callbacks (app/api/oauth.py) add accounts while an API is up. *)
(* Each registration may be switched off by the settings.                  *)
(*                                                                         *)
(* HeadHunter keeps at most one subscription of the application for an     *)
(* account. It is one of ours, one of ours with other actions, or one with *)
(* another url; a new one gets a new id. A PUT that names a url it takes or *)
(* refuses, whatever the subscription's url is.                            *)
(*                                                                         *)
(* The tokens of an account are modelled in TokenRefresh; here they are    *)
(* stale, when the access token is about to expire, and dead, when the     *)
(* provider refuses the stored refresh token because a pair it has issued  *)
(* was never saved.                                                        *)
(***************************************************************************)
EXTENDS Naturals, FiniteSets

CONSTANTS
    Apis,         \* API processes
    HhOwners,     \* HeadHunter employers
    AvitoOwners,  \* Avito accounts
    Nobody,       \* no owner
    Configs,      \* what the settings may ask for
    Retries,      \* TELEGRAM_WEBHOOK_RETRIES
    MaxId,        \* bound on the subscriptions an account sees
    MaxTroubles   \* bound on calls that fail and processes that die

\* "hh": HH_WEBHOOK_URL and a valid event; "avito": AVITO_WEBHOOK_URL;
\* "operator": TELEGRAM_WEBHOOK_BASE and the token of the operator's bot.
ASSUME ConfigAssumption == Configs \subseteq SUBSET {"hh", "avito", "operator"}
ASSUME ApisAssumption == Apis # {}
ASSUME BoundsAssumption ==
    /\ Retries \in Nat \ {0}
    /\ MaxId \in Nat \ {0}
    /\ MaxTroubles \in Nat
ASSUME OwnersAssumption ==
    HhOwners \cap AvitoOwners = {} /\ Nobody \notin HhOwners \cup AvitoOwners

HooksOf(o) == {o} \X {"messenger", "applications"}
Hooks == UNION {HooksOf(o) : o \in AvitoOwners}
NoId == 0

VARIABLES
    config,    \* what the settings ask for; it does not change
    accounts,  \* owners whose tokens are stored
    stale,     \* owners whose access token has to be refreshed
    dead,      \* owners whose stored refresh token the provider refuses
    sub,       \* HeadHunter: the subscription of each account
    lastId,    \* HeadHunter: ids given out so far
    avito,     \* Avito: webhooks that are set as we want them
    operator,  \* is the webhook of the operator's bot set?
    pc,        \* what each API process does next
    rest,      \* owners its present loop has yet to come to
    owner,     \* the owner it is busy with
    id,        \* the id of the subscription it has read
    beaten,    \* processes that hold a refresh token spent since they read it
    try,       \* its attempts at the operator's webhook
    missed,    \* history: what the running start could not set
    troubles   \* failures so far

settings == <<config, accounts>>
tokens == <<stale, dead, beaten>>
remote == <<sub, lastId, avito, operator>>
vars == <<settings, tokens, remote, pc, rest, owner, id, try, missed, troubles>>

\* The steps of on_startup in the HeadHunter loop, in the Avito loop and after.
HhCalls == {"hhFind", "hhPut", "hhPost", "hhList", "hhPutUrl", "hhDelete", "hhRepost"}
HhSteps == {"hhAccess", "hhRefresh"} \cup HhCalls
AvitoSteps == {"avOwners", "avAccess", "avRefresh", "messenger", "applications"}
Late == {"operator", "connect", "up"}

\* Every variable has its type.
TypeOK ==
    /\ config \in Configs
    /\ accounts \subseteq HhOwners \cup AvitoOwners
    /\ stale \subseteq accounts /\ dead \subseteq accounts
    /\ beaten \subseteq Apis
    /\ sub \in [HhOwners -> [kind : {"none", "other", "old", "ours"}, id : 0..MaxId]]
    /\ \A o \in HhOwners : sub[o].kind = "none" <=> sub[o].id = NoId
    /\ lastId \in [HhOwners -> 0..MaxId]
    /\ avito \subseteq Hooks
    /\ operator \in BOOLEAN
    /\ pc \in [Apis -> {"down"} \cup HhSteps \cup AvitoSteps \cup Late]
    /\ rest \in [Apis -> SUBSET accounts]
    /\ owner \in [Apis -> accounts \cup {Nobody}]
    /\ id \in [Apis -> 0..MaxId]
    /\ try \in [Apis -> 0..Retries - 1]
    /\ missed \in [Apis -> SUBSET (HhOwners \cup Hooks \cup {Nobody})]
    /\ troubles \in 0..MaxTroubles

\* The providers may remember an earlier deployment.
Init ==
    /\ config \in Configs
    /\ accounts \in SUBSET (HhOwners \cup AvitoOwners)
    /\ stale = {}
    /\ dead \in SUBSET accounts
    /\ beaten = {}
    /\ \E k \in [HhOwners -> {"none", "other", "old", "ours"}] :
          sub = [o \in HhOwners |-> [kind |-> k[o], id |-> IF k[o] = "none" THEN 0 ELSE 1]]
    /\ lastId = [o \in HhOwners |-> sub[o].id]
    /\ avito = {}
    /\ operator = FALSE
    /\ pc = [p \in Apis |-> "down"]
    /\ rest = [p \in Apis |-> {}]
    /\ owner = [p \in Apis |-> Nobody]
    /\ id = [p \in Apis |-> NoId]
    /\ try = [p \in Apis |-> 0]
    /\ missed = [p \in Apis |-> {}]
    /\ troubles = 0

-----------------------------------------------------------------------------
\* Steps of one process

Goto(p, l) == pc' = [pc EXCEPT ![p] = l] /\ UNCHANGED <<rest, owner, id, try>>

\* On to the next owner of the loop.
Skip(p, l) ==
    /\ pc' = [pc EXCEPT ![p] = l]
    /\ owner' = [owner EXCEPT ![p] = Nobody]
    /\ id' = [id EXCEPT ![p] = NoId]
    /\ UNCHANGED <<rest, try>>

\* The loop is left, or has come to its end.
Leave(p, l) ==
    /\ pc' = [pc EXCEPT ![p] = l]
    /\ rest' = [rest EXCEPT ![p] = {}]
    /\ owner' = [owner EXCEPT ![p] = Nobody]
    /\ id' = [id EXCEPT ![p] = NoId]
    /\ UNCHANGED try

Miss(p, x) == missed' = [missed EXCEPT ![p] = @ \cup {x}]

\* A call to a provider fails, or a process dies.
Trouble == troubles < MaxTroubles /\ troubles' = troubles + 1

\* The start raises, or the process dies: nothing of it is left.
Down(p) ==
    /\ pc' = [pc EXCEPT ![p] = "down"]
    /\ rest' = [rest EXCEPT ![p] = {}]
    /\ owner' = [owner EXCEPT ![p] = Nobody]
    /\ id' = [id EXCEPT ![p] = NoId]
    /\ try' = [try EXCEPT ![p] = 0]
    /\ missed' = [missed EXCEPT ![p] = {}]

\* The supervisor starts the process, once or again: init_db, ensure_tokens,
\* rabbitmq.connect, a task for the mapping, the consumer. Then
\* ensure_hh_webhook, unless the settings name no url or no event, and its
\* list_owners; there may be no employer yet, or no answer.
Start(p) ==
    /\ pc[p] = "down"
    /\ \/ /\ "hh" \notin config
          /\ pc' = [pc EXCEPT ![p] = "avOwners"]
          /\ UNCHANGED <<rest, missed, troubles>>
       \/ /\ "hh" \in config
          /\ pc' = [pc EXCEPT ![p] = "hhAccess"]
          /\ \/ rest' = [rest EXCEPT ![p] = accounts \cap HhOwners] /\ UNCHANGED troubles
             \/ UNCHANGED rest /\ Trouble
          /\ IF rest'[p] = {} THEN Miss(p, Nobody) ELSE UNCHANGED missed
    /\ UNCHANGED <<settings, tokens, remote, owner, id, try>>

-----------------------------------------------------------------------------
\* ensure_fresh_access: a stale account's tokens are refreshed with the refresh
\* token that was read, which another process may have used since.

Holders(o) == {p \in Apis : pc[p] \in {"hhRefresh", "avRefresh"} /\ owner[p] = o}
Usable(p) == owner[p] \notin dead /\ p \notin beaten

\* The new pair is saved; who has read the old one cannot use it any more.
Refreshed(p) ==
    /\ Usable(p)
    /\ stale' = stale \ {owner[p]}
    /\ beaten' = beaten \cup (Holders(owner[p]) \ {p})
    /\ UNCHANGED dead

\* A new pair is issued and not saved: its answer is lost, the save fails or
\* the process dies.
Unsaved(p) ==
    /\ Usable(p)
    /\ dead' = dead \cup {owner[p]}
    /\ UNCHANGED <<stale, beaten>>

\* No pair is issued; the one that was read is forgotten.
Untouched(p) == beaten' = beaten \ {p} /\ UNCHANGED <<stale, dead>>

\* The same elsewhere, in a worker.
RefreshElsewhere(o) ==
    /\ o \in stale \ dead
    /\ Trouble
    /\ \/ /\ stale' = stale \ {o}
          /\ beaten' = beaten \cup Holders(o)
          /\ UNCHANGED dead
       \/ dead' = dead \cup {o} /\ UNCHANGED <<stale, beaten>>
    /\ UNCHANGED <<settings, remote, pc, rest, owner, id, try, missed>>

\* Time passes.
Expire(o) ==
    /\ o \in accounts \ stale
    /\ stale' = stale \cup {o}
    /\ UNCHANGED <<settings, dead, beaten, remote, pc, rest, owner, id, try, missed, troubles>>

-----------------------------------------------------------------------------
\* ensure_hh_webhook

Hh(p, l) == pc[p] = l /\ owner[p] \in HhOwners

\* The next owner, and the load of ensure_fresh_access for it. A row that
\* cannot be read is skipped.
HhAccess(p) ==
    /\ pc[p] = "hhAccess"
    /\ \/ /\ rest[p] = {}
          /\ Leave(p, "avOwners")
          /\ UNCHANGED <<missed, troubles>>
       \/ \E o \in rest[p] :
             /\ rest' = [rest EXCEPT ![p] = @ \ {o}]
             /\ \/ /\ pc' = [pc EXCEPT ![p] = IF o \in stale THEN "hhRefresh" ELSE "hhFind"]
                   /\ owner' = [owner EXCEPT ![p] = o]
                   /\ UNCHANGED <<missed, troubles>>
                \/ Trouble /\ Miss(p, o) /\ UNCHANGED <<pc, owner>>
             /\ UNCHANGED <<id, try>>
    /\ UNCHANGED <<settings, tokens, remote>>

\* Faulty: the refresh token that was refused is kept and tried again by the
\* next start.
HhRefreshKept(p) ==
    /\ Hh(p, "hhRefresh")
    /\ \/ Refreshed(p) /\ Goto(p, "hhFind")
       \/ ~Usable(p) /\ Down(p) /\ UNCHANGED tokens
    /\ UNCHANGED <<settings, remote, missed, troubles>>

\* A refused refresh raises OAuth2RefreshError, which is no RuntimeError, out of
\* on_startup, as an error of the network does (Crash); an error of the save is
\* caught.
HhRefresh(p) ==
    /\ Hh(p, "hhRefresh")
    /\ \/ Refreshed(p) /\ Goto(p, "hhFind") /\ UNCHANGED <<missed, troubles>>
       \/ ~Usable(p) /\ Untouched(p) /\ Down(p) /\ UNCHANGED troubles
       \/ Trouble /\ Unsaved(p) /\ Skip(p, "hhAccess") /\ Miss(p, owner[p])
    /\ UNCHANGED <<settings, remote>>

\* _find_sub_by_url.
HhFind(p) ==
    /\ Hh(p, "hhFind")
    /\ LET s == sub[owner[p]]
       IN  \/ s.kind = "ours" /\ Leave(p, "avOwners")
           \/ /\ s.kind = "old"
              /\ pc' = [pc EXCEPT ![p] = "hhPut"]
              /\ id' = [id EXCEPT ![p] = s.id]
              /\ UNCHANGED <<rest, owner, try>>
           \/ s.kind \in {"none", "other"} /\ Goto(p, "hhPost")
    /\ UNCHANGED <<settings, tokens, remote, missed, troubles>>

\* PUT of the subscription with this id; 404 if it is gone.
Put(p, x) ==
    IF sub[owner[p]].id = x
    THEN /\ sub' = [sub EXCEPT ![owner[p]].kind = "ours"]
         /\ Leave(p, "avOwners")
         /\ UNCHANGED missed
    ELSE Skip(p, "hhAccess") /\ Miss(p, owner[p]) /\ UNCHANGED sub

HhPut(p) ==
    /\ Hh(p, "hhPut")
    /\ Put(p, id[p])
    /\ UNCHANGED <<settings, tokens, lastId, avito, operator, troubles>>

\* POST: a new subscription if the account has none.
Create(o) ==
    /\ lastId[o] < MaxId
    /\ sub' = [sub EXCEPT ![o] = [kind |-> "ours", id |-> lastId[o] + 1]]
    /\ lastId' = [lastId EXCEPT ![o] = @ + 1]

\* Faulty: an answer already_exist is an HTTP error like others.
HhPostOnce(p) ==
    /\ Hh(p, "hhPost")
    /\ \/ sub[owner[p]].kind = "none" /\ Create(owner[p]) /\ Leave(p, "avOwners")
       \/ sub[owner[p]].kind # "none" /\ Skip(p, "hhAccess") /\ UNCHANGED <<sub, lastId>>
    /\ UNCHANGED <<settings, tokens, avito, operator, missed, troubles>>

\* 400 with already_exist leads to the list of all subscriptions.
HhPost(p) ==
    /\ Hh(p, "hhPost")
    /\ \/ sub[owner[p]].kind = "none" /\ Create(owner[p]) /\ Leave(p, "avOwners")
       \/ sub[owner[p]].kind # "none" /\ Goto(p, "hhList") /\ UNCHANGED <<sub, lastId>>
    /\ UNCHANGED <<settings, tokens, avito, operator, missed, troubles>>

\* The victim is all_subs[0]; with none there the owner is passed over.
HhList(p) ==
    /\ Hh(p, "hhList")
    /\ IF sub[owner[p]].kind = "none"
       THEN Skip(p, "hhAccess") /\ Miss(p, owner[p])
       ELSE /\ pc' = [pc EXCEPT ![p] = "hhPutUrl"]
            /\ id' = [id EXCEPT ![p] = sub[owner[p]].id]
            /\ UNCHANGED <<rest, owner, try, missed>>
    /\ UNCHANGED <<settings, tokens, remote, troubles>>

\* PUT with url and actions. Refused with 400 or 422, the victim is deleted,
\* whoever has made it what it now is.
HhPutUrl(p) ==
    /\ Hh(p, "hhPutUrl")
    /\ \/ Put(p, id[p])
       \/ sub[owner[p]].id = id[p] /\ Goto(p, "hhDelete") /\ UNCHANGED <<sub, missed>>
    /\ UNCHANGED <<settings, tokens, lastId, avito, operator, troubles>>

Deleted(p) ==
    sub' = [sub EXCEPT ![owner[p]] = IF @.id = id[p] THEN [kind |-> "none", id |-> NoId] ELSE @]

\* DELETE of the victim; the answer is not looked at, it may be a refusal.
HhDelete(p) ==
    /\ Hh(p, "hhDelete")
    /\ \/ Deleted(p) /\ UNCHANGED troubles
       \/ Trouble /\ UNCHANGED sub
    /\ Goto(p, "hhRepost")
    /\ UNCHANGED <<settings, tokens, lastId, avito, operator, missed>>

HhRepost(p) ==
    /\ Hh(p, "hhRepost")
    /\ IF sub[owner[p]].kind = "none"
       THEN Create(owner[p]) /\ Leave(p, "avOwners") /\ UNCHANGED missed
       ELSE Skip(p, "hhAccess") /\ Miss(p, owner[p]) /\ UNCHANGED <<sub, lastId>>
    /\ UNCHANGED <<settings, tokens, avito, operator, troubles>>

\* An HTTP error is logged: on to the next owner. A call may have had its
\* effect although its answer is lost.
HhFails(p) ==
    /\ pc[p] \in HhCalls
    /\ Trouble
    /\ Skip(p, "hhAccess")
    /\ Miss(p, owner[p])
    /\ \/ UNCHANGED <<sub, lastId>>
       \/ /\ pc[p] \in {"hhPut", "hhPutUrl"}
          /\ sub[owner[p]].id = id[p]
          /\ sub' = [sub EXCEPT ![owner[p]].kind = "ours"]
          /\ UNCHANGED lastId
       \/ pc[p] = "hhDelete" /\ Deleted(p) /\ UNCHANGED lastId
       \/ /\ pc[p] \in {"hhPost", "hhRepost"}
          /\ sub[owner[p]].kind = "none"
          /\ Create(owner[p])
    /\ UNCHANGED <<settings, tokens, avito, operator>>

-----------------------------------------------------------------------------
\* ensure_avito_webhooks

\* Nothing is done without AVITO_WEBHOOK_URL.
ListAvitoOwners(p) ==
    /\ pc[p] = "avOwners"
    /\ \/ /\ "avito" \notin config
          /\ pc' = [pc EXCEPT ![p] = "operator"]
          /\ UNCHANGED <<rest, missed, troubles>>
       \/ /\ "avito" \in config
          /\ rest' = [rest EXCEPT ![p] = accounts \cap AvitoOwners]
          /\ pc' = [pc EXCEPT ![p] = "avAccess"]
          /\ UNCHANGED <<missed, troubles>>
       \/ /\ "avito" \in config
          /\ Trouble
          /\ pc' = [pc EXCEPT ![p] = "operator"]
          /\ missed' = [missed EXCEPT ![p] = @ \cup Hooks]
          /\ UNCHANGED rest
    /\ UNCHANGED <<settings, tokens, remote, owner, id, try>>

\* _auth_headers, the load: whatever it raises, the owner is passed over.
AvitoAccess(p) ==
    /\ pc[p] = "avAccess"
    /\ \/ rest[p] = {} /\ Leave(p, "operator") /\ UNCHANGED <<missed, troubles>>
       \/ \E o \in rest[p] :
             /\ rest' = [rest EXCEPT ![p] = @ \ {o}]
             /\ \/ /\ pc' = [pc EXCEPT ![p] = IF o \in stale THEN "avRefresh" ELSE "messenger"]
                   /\ owner' = [owner EXCEPT ![p] = o]
                   /\ UNCHANGED <<missed, troubles>>
                \/ /\ Trouble
                   /\ missed' = [missed EXCEPT ![p] = @ \cup HooksOf(o)]
                   /\ UNCHANGED <<pc, owner>>
             /\ UNCHANGED <<id, try>>
    /\ UNCHANGED <<settings, tokens, remote>>

\* _auth_headers, the refresh: so it is here. An employer's refused refresh
\* ends the start, an Avito account's does not.
AvitoRefresh(p) ==
    /\ pc[p] = "avRefresh"
    /\ \/ Refreshed(p) /\ Goto(p, "messenger") /\ UNCHANGED <<missed, troubles>>
       \/ /\ Skip(p, "avAccess")
          /\ missed' = [missed EXCEPT ![p] = @ \cup HooksOf(owner[p])]
          /\ \/ ~Usable(p) /\ Untouched(p) /\ UNCHANGED troubles
             \/ Trouble /\ (Unsaved(p) \/ Untouched(p))
    /\ UNCHANGED <<settings, remote>>

\* Faulty: an error of the first webhook ends the owner's turn.
AfterErrorNext(hook) == "avAccess"

\* Each webhook has its own try: after the first comes the second.
AfterError(hook) == IF hook = "messenger" THEN "applications" ELSE "avAccess"

Onward(p, l) == IF l = "avAccess" THEN Skip(p, l) ELSE Goto(p, l)

\* One of the two webhooks: GET, and POST unless it is as it should be. A GET
\* answered with an error counts as a webhook that is not set.
SetHook(p, hook) ==
    /\ pc[p] = hook
    /\ avito' = avito \cup {<<owner[p], hook>>}
    /\ Onward(p, IF hook = "messenger" THEN "applications" ELSE "avAccess")
    /\ UNCHANGED <<settings, tokens, sub, lastId, operator, missed, troubles>>

\* An HTTP error of the POST, or no answer from either, is logged. A body that
\* is not JSON raises ValueError, which is no httpx.HTTPError: the start ends.
HookFails(p, hook) ==
    /\ pc[p] = hook
    /\ Trouble
    /\ avito' \in {avito, avito \cup {<<owner[p], hook>>}}
    /\ \/ Onward(p, AfterError(hook)) /\ Miss(p, <<owner[p], hook>>)
       \/ Down(p)
    /\ UNCHANGED <<settings, tokens, sub, lastId, operator>>

-----------------------------------------------------------------------------
\* auto_register_telegram_webhooks, ensure_amo_chats_connected

\* The operator's webhook, after the master's, whose errors are logged. Without
\* TELEGRAM_WEBHOOK_BASE or the bot's token nothing is done.
SetOperator(p) ==
    /\ pc[p] = "operator"
    /\ operator' = (operator \/ "operator" \in config)
    /\ pc' = [pc EXCEPT ![p] = "connect"]
    /\ try' = [try EXCEPT ![p] = 0]
    /\ UNCHANGED <<settings, tokens, sub, lastId, avito, rest, owner, id, missed, troubles>>

\* Faulty: one attempt more than there are retries.
OperatorOnceMore(p) ==
    /\ pc[p] = "operator"
    /\ "operator" \in config
    /\ operator' \in {operator, TRUE}
    /\ \/ /\ try[p] < Retries
          /\ try' = [try EXCEPT ![p] = @ + 1]
          /\ UNCHANGED <<pc, rest, owner, id, missed, troubles>>
       \/ try[p] = Retries /\ Trouble /\ Down(p)
    /\ UNCHANGED <<settings, tokens, sub, lastId, avito>>

\* A network error, of set_webhook or of get_webhook_info after it; that of the
\* last attempt is raised.
OperatorFails(p) ==
    /\ pc[p] = "operator"
    /\ "operator" \in config
    /\ operator' \in {operator, TRUE}
    /\ \/ /\ try[p] + 1 < Retries
          /\ try' = [try EXCEPT ![p] = @ + 1]
          /\ UNCHANGED <<pc, rest, owner, id, missed, troubles>>
       \/ try[p] + 1 = Retries /\ Trouble /\ Down(p)
    /\ UNCHANGED <<settings, tokens, sub, lastId, avito>>

\* connect_channel: a refusal is logged, an error of the network raised (Crash).
Connect(p) ==
    /\ pc[p] = "connect"
    /\ Goto(p, "up")
    /\ UNCHANGED <<settings, tokens, remote, missed, troubles>>

\* The process dies, or one of the unprotected calls of on_startup raises.
Crash(p) ==
    /\ pc[p] # "down"
    /\ Trouble
    /\ Down(p)
    /\ Untouched(p) \/ (pc[p] \in {"hhRefresh", "avRefresh"} /\ Unsaved(p))
    /\ UNCHANGED <<settings, remote>>

\* hh_callback and avito_callback, on an API that is up: code, account, save;
\* nothing if one of them fails. A start that has listed the accounts does not
\* learn of a new one, one that has read a refused refresh token holds it still.
Authorize(o) ==
    /\ \E p \in Apis : pc[p] = "up"
    /\ accounts' = accounts \cup {o}
    /\ stale' = stale \ {o}
    /\ dead' = dead \ {o}
    /\ beaten' = IF o \in dead THEN beaten \cup Holders(o) ELSE beaten
    /\ missed' =
          [p \in Apis |->
              IF o \in AvitoOwners \ accounts /\ pc[p] \in (AvitoSteps \ {"avOwners"}) \cup Late
              THEN missed[p] \cup HooksOf(o) ELSE missed[p]]
    /\ UNCHANGED <<config, remote, pc, rest, owner, id, try, troubles>>

-----------------------------------------------------------------------------
HhStep(p) ==
    \/ HhAccess(p) \/ HhRefresh(p) \/ HhFind(p) \/ HhPut(p) \/ HhPost(p)
    \/ HhList(p) \/ HhPutUrl(p) \/ HhDelete(p) \/ HhRepost(p)

AvitoStep(p) ==
    \/ ListAvitoOwners(p) \/ AvitoAccess(p) \/ AvitoRefresh(p)
    \/ SetHook(p, "messenger") \/ SetHook(p, "applications")

OnStartup(p) ==
    \/ Start(p) \/ HhStep(p) \/ AvitoStep(p) \/ SetOperator(p) \/ Connect(p)

Fails(p) ==
    \/ HhFails(p)
    \/ HookFails(p, "messenger") \/ HookFails(p, "applications")
    \/ OperatorFails(p) \/ Crash(p)

Next ==
    \/ \E p \in Apis : OnStartup(p) \/ Fails(p)
    \/ \E o \in HhOwners \cup AvitoOwners : Authorize(o) \/ RefreshElsewhere(o) \/ Expire(o)

Spec == Init /\ [][Next]_vars

\* Event loops run and the supervisor starts a process that ended; failures
\* are bounded, so they end.
FairSpec == Spec /\ \A p \in Apis : WF_vars(OnStartup(p))

-----------------------------------------------------------------------------
\* Properties

PastHh(p) == pc[p] \in AvitoSteps \cup Late

\* on_startup: what a start could not set is all that is missing when it is
\* done, as far as the settings ask for it. When all starts are past HeadHunter
\* some employer has our subscription, whatever they deleted of each other's,
\* unless one of them failed for an employer; every webhook of an Avito account
\* it knew is set unless that very call failed, whatever happened to the
\* account's other webhook; and the API comes up only with the webhook of the
\* operator's bot.
StartLeavesHooks ==
    /\ "hh" \in config /\ (\A p \in Apis : PastHh(p)) =>
          \/ \E o \in HhOwners : sub[o].kind = "ours"
          \/ \E p \in Apis : missed[p] \cap (HhOwners \cup {Nobody}) # {}
    /\ "avito" \in config =>
          \A p \in Apis : pc[p] \in Late =>
              \A o \in accounts \cap AvitoOwners : HooksOf(o) \subseteq avito \cup missed[p]
    /\ "operator" \in config =>
          \A p \in Apis : pc[p] \in {"connect", "up"} => operator

\* Once failures end every process comes up and stays up, unless an employer's
\* access token has to be refreshed and the provider refuses to: then a start
\* may never come to its end.
EventuallyUp ==
    \/ <>[](\A p \in Apis : pc[p] = "up")
    \/ <>[](\E o \in HhOwners : o \in stale \cap dead)

=============================================================================
