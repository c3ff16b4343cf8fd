# hr-bridge: specification, model checking and proofs

hr-bridge receives applications from HeadHunter (HH) and Avito, creates leads in
AmoCRM, invites the candidate into a Telegram bot, and mirrors the dialogue
between Telegram and the AmoCRM chat (AmoChats). This directory holds TLA+
modules of the parts whose correctness depends on concurrency, failures and
ordering, the TLC configurations that check them on small instances, and TLAPS
proofs for all values of the constants. `PROJECT.json` is the machine-readable
index: components, runs, mutants, the map from definitions to source lines,
findings, hazards, theorems.

## 1. Inventory of the system

Three processes share one Postgres database and one RabbitMQ broker
(docker-compose.yml, README.md of the repository): the API (`main.py`, FastAPI,
which also runs a queue consumer), the worker (`app/services/worker_rmq.py`) and
the scheduler (`app/services/scheduler.py`). Each is one asyncio event loop, so
inside a process code is atomic between two awaits; between processes nothing
is.

| component | state it keeps | operations | interacts with |
|---|---|---|---|
| task queue (`services/queue.py`, `services/worker_rmq.py`, `api/tasks.py`) | main, retry and dead-letter queues; unacknowledged deliveries; `attempts` in each message | `publish_task`, `publish_retry`, `publish_dlq`, `_republish`, `consume`, `handle`, `handle_task` | every publisher; all task handlers |
| scheduler (`services/scheduler.py`) | none of its own | `retry_overdue_tasks`, `refresh_service_tokens`, `cleanup_dedup_tables` | queue, tokens, dedup table |
| chat mirror (`services/worker/mirror.py`, `store_chat.py`, `tg_router.py`) | `tg_links` (user, bot, lead, conversation) | `on_start`, `on_text`, `tg_to_amo`, `bot_to_amo`, `amo_to_tg` | queue, dedup, AmoChats, Telegram |
| AmoChats adapter (`adapters/amochats.py`) | chats and messages at AmoCRM | create chat, send as client, send as manager, connect channel | mirror, startup |
| AmoChats webhook (`api/api_amochats.py`) | none | `amochats_in`: drop duplicates, resolve links, store the conversation, publish `amo_to_tg` | `tg_links`, queue |
| deduplication (`services/dedup.py`) | `events_dedup` keys | `check_and_store`, `cleanup_older_than` | webhooks, mirror |
| survey (`store_survey.py`, `services/survey*.py`) | `tg_surveys` (step and answers) | start or reset, store and advance, finish, delete | bot handlers, queue |
| tokens (`db/token_store.py`, `api/oauth2.py`, `adapters/amo_client.py`, `bootstrap.py`, `api/oauth.py`) | one row per (service, owner); copies in memory of every `AmoClient` | load, save, refresh, OAuth callbacks, bootstrap | every API call |
| job board intake (`api/_webhook_common.py`, `hh_incoming`, `avito_incoming`) | dedup keys | dedup, parse, enrich, create lead, invite, tag | lead pipeline |
| lead pipeline (`services/lead_processor.py`, `amo_lead_enrichment.py`, `store.py`) | `lead_links` | `create_lead`, `save_link`, `send_invite`, `tag_lead` | AmoCRM, queue |
| AmoCRM status webhook (`api/amo_webhooks.py`) | none | per event: link, mapping, refusal reason, publish `set_state` or `mark_read` | mapping, links, queue |
| HH mapping (`services/hh_mapping.py`, `hh_autofill.py`) | `hh_mapping` table, one cache with a 60 s life per process | `load`, `get`, `set_all`, autofill, admin PUT | status webhook |
| webhook registration (`api/hh_webhooks.py`, `api/avito_webhooks.py`) | subscriptions at the providers | list, change, delete, post; at every start | HH, Avito |
| process lifecycle (`main.py`) | none | `on_startup` in its order, cancellation at shutdown | every provider, queue, tokens |
| board adapters (`adapters/hh.py`, `adapters/avito.py`, `adapters/_requests.py`, `services/worker/hh.py`, `avito.py`) | states of negotiations and messages at the boards | `set_state`, `send_message`, `mark_read` | queue, HH, Avito |
| database task queue (`services/db_task_queue.py`) | `tasks` table | add, fetch, mark | nobody yet |

What is hard: a delivery is handled in several awaits between which the process
may die, its connection drop or another consumer take a second copy; publishing
and acknowledging are separate; replies of remote services get lost after their
effect; rows read before an await are written after it; Telegram, HH and AmoCRM
deliver webhooks again and concurrently. `PROJECT.json` lists each hazard at its
line with the properties that cover it.

## 2. Modules

| module | models | composes |
|---|---|---|
| `TaskDelivery` | abstract: what `publish_task` promises its callers | – |
| `TaskQueue` | RabbitMQ client, worker, API consumer, scheduler's dead-letter job | implements `TaskDelivery` |
| `ChatMirror` | bot handlers, `tg_to_amo`, `bot_to_amo`, dedup keys, AmoChats chats | sees the queue as at-least-once delivery |
| `TokenRefresh` | token row, `AmoClient`, `ensure_fresh_access`, scheduler, first saves | – |
| `Survey` | survey row, `/start` and text handlers, finishing | – |
| `HhMapping` | mapping table, caches, PUT, autofill, lookups | – |
| `LeadIntake` | job board webhooks, lead pipeline, status webhooks | – |
| `BoardTasks` | the handlers and adapters that carry out what the intake asks for | extends `LeadIntake` by the queue of `TaskDelivery` and the boards |
| `ManagerReply` | AmoChats webhook, `tg_links` of both bots, `amo_to_tg`, Telegram sender | the webhook with the bots, the mirror and the queue |
| `Startup` | `on_startup`, registration of webhooks, restarts, authorizations | several API processes with the providers |

`TaskQueueProofs`, `ChatMirrorProofs`, `TokenRefreshProofs`, `SurveyProofs`,
`HhMappingProofs`, `BoardTasksProofs` (also about `LeadIntake`),
`ManagerReplyProofs` and `StartupProofs` extend their module with theorems and
TLAPS proofs.

`MC<module>` gives a module's constants small values. A definition called
`...Late`, `...Unchecked`, `...Forgotten` and so on, under a comment that begins
with *Faulty*, is a plausible bug in the definition after it. Nothing uses it;
`PROJECT.json` pairs each with the property that tells it from the code.

### TaskQueue

A broker message is a slot of `msg`: free, in one of the three queues, or
unacknowledged. The content of a task is opaque; a slot holds the task and its
`attempts`. An actor is a consumer or a scheduler process; `pc` says at which
await of its handler it stands, `cur` which delivery the broker still considers
its own, `job` the payload in its memory. The last two differ as soon as the
connection drops under a running handler.

| action | code |
|---|---|
| `SubmitOk`, `SubmitError` | `publish_task`: two tries, then the error is raised |
| `Deliver`, `HandlerOk`, `HandlerFail` | `consume` with `worker_rmq.handle` (publishes itself) or `tasks.handle_task` (raises to `_republish`) |
| `PublishOk`, `PublishError` | `publish_retry`, `publish_dlq`, each with its second try, and where its second error goes |
| `Ack`, `AckFails` | `message.ack()` after the handler, at the top of `_republish`, in the scheduler's `finally`; on a closed channel it raises |
| `RetryExpire` | the TTL of the retry queue, a dead-letter exchange back to `tasks` |
| `SchedStart`, `SchedGet`, `SchedEnd` | `retry_overdue_tasks` |
| `Crash`, `Restart`, `ConnLost` | process death or cancellation at shutdown, `restart: unless-stopped`, a lost connection |

`TaskDelivery` has no queues, attempts or processes. A task is absent, pending or
done; the caller is told "ok", "error" or nothing yet. `Promise` in `TaskQueue`
is the refinement mapping: pending means some trace is left in the broker or in
a live actor's memory. `KeepsPromise` says that a task told "ok" exists from
then on, an error answer may hide a task that runs, and only a deployment in
which `MayLose` is true ever loses one.

### ChatMirror

One user and one bot. `link` is the `tg_links` row; `task` holds, for each text,
the lead and conversation written into its payload; `copies` counts its
deliveries to come; `keys` is `events_dedup`. `Take` is a delivery with
`check_and_store`; the body goes on through `GetContact`, `CreateChat`,
`SetConversation` and `SendText`, in that order, or straight to `SendText` if the
task names a conversation. `Again` is `with_retry`. The history `ran` counts how
often the body was begun for each text. The queue is seen as the
weakest thing `TaskQueue` provides: a copy comes again until a handler returns,
and there may be further copies.

### TokenRefresh

Pairs of access and refresh token are numbered as the provider issues them; a
refresh token can be spent once. `row` is the stored pair, `rows` the number of
rows with the key (more than one is possible: the unique constraint does not
apply to rows whose `owner_id` is NULL). Every process has the pair it loaded in
`mem`. `Find` and `Write` are the two halves of `DbTokenStore.save`. Clients may
make several requests with one copy, and refresh again after a 401.

First saves come from two sides. `Authorize` is an OAuth callback with a pair of its
own. `EnsureTokens` is the start of an API process: it looks for a token, and
when there is none saves, some awaits later, the pair of the environment (`env`),
which is the same for every start and may be spent already, before the first of
them or by the time of a later one. `unique` says whether the key has an owner;
`ensure_tokens` saves under keys without one. The history `spentEnv` is true while
what was saved last is the environment's pair when it was spent.

### Survey

One row for a user and a bot. Each update has a handler in `h`; up to `MaxOpen`
run at once, and a handler that raises is delivered again, up to `MaxRuns` times.
`Reset` writes only the columns that differed when the row was read, as
SQLAlchemy does. `Store` is `SELECT ... FOR UPDATE`, `UPDATE` and `COMMIT` in one
step, because the lock is held throughout. `mine` is the object the session
keeps: after the commit it is not refreshed (`expire_on_commit=False`), so
`Reread` decides by the handler's own step, not by the current row.

### HhMapping

`set_all` is a transaction under READ COMMITTED and has three steps: `Delete`
takes the rows it sees, `Lock` waits for the other transactions that delete
them, `Insert` or `Conflict` ends it. An insert waits for a transaction that has
deleted the key, and fails on a key that is committed. `Read` and `Load` are the
SELECT and the assignment to the cache that follows it; between them another
`set_all` of the same process may have come and gone.

An autofill task looks at the AmoCRM token first (`CheckToken`); `token` says
whether there is one that is good for thirty seconds more, and turns both ways at
any time. Without it the task raises, as it does when its `set_all` meets a
duplicate key (`Conflict`): it goes to the dead letters and comes back (`Fail`).
The history `put` holds every mapping the table was given.

### LeadIntake and BoardTasks

Each webhook is sent `Sends` times, one request after another, the next one
possibly while the last is handled. `at` is the step of each request: dedup,
parse, create, link, contact, invite, tag for an application; dedup, find,
publish for a status change. A payload is one of HH or Avito with a kind (master
or operator), or one without, which ends in `Parse`.

`BoardTasks` lets every step of the intake put the tasks it publishes into
`queue` and carries them out in any order (`CarryOut`), possibly with the answer
of the board lost (`Unheard`), after which the task is still there. A call that
fails without effect is no step at all: the task stays where it was.
`stage` is the task that moved a negotiation last, `copies` the
invitations a candidate was sent. Two histories say what was asked: `asked` is
the `set_state` task published last, `overlaid` holds the negotiations that had
two in the queue at once.

### ManagerReply

A row of `tg_links` belongs to a user and a bot. `order` holds, for each bot, the
pairs of users of which the second has the later `updated_at`; every update of a
row makes its user the latest. A chat is called by the
conversation id the bridge made or by the reference AmoChats made; a row may hold
either. `ever` is the history of all `/start` links; it says whose chats a row
may name, now or later.

`KeyOf` is the `msg_key` of a task: the chat's reference if the webhook gives it, the
message if the webhook names it (`named`) or else its text, the bot and the user.
Two messages may have one text (`TextOf`). The bodies of two webhooks are taken
to differ, and so are the hashes of two texts. AmoChats sends the webhook of
message `m` up to `Sends[m]` times.

| action | code |
|---|---|
| `OnStart`, `CreateChat`, `SaveChat` | `/start` with `upsert_tg_link`; the mirror creates the chat and stores its conversation (the rest of it is in `ChatMirror`) |
| `Write`, `Begin` | AmoChats sends a manager's message; `is_duplicate` |
| `FindByRef`, `FindByClient`, `FindByLead` | the three queries of `resolve_links`, one await each |
| `FindMaster`, `FindOperator` | `links_from_ext_id` |
| `SetConvForLinks`, `PublishLinks` | one `set_conversation` or `publish_task` per step, decided by what the rows said when they were read |
| `Take`, `TgSend`, `TgSendFails` | `handle_mirror_amo_to_tg`: its key, then `tg_send_with_retry` |
| `RequestFails` | the database or the broker raises, or the process dies |

### Startup

`config` says what the settings ask for: `HH_WEBHOOK_URL` with a valid event, an
`AVITO_WEBHOOK_URL`, and `TELEGRAM_WEBHOOK_BASE` with the operator's token; what is not
asked for is skipped. `sub` is the one HeadHunter subscription an account has:
none, one of ours with the right or with old actions, or one with another url.
`avito` and `operator` are the webhooks set at Avito and for the operator's bot.
`pc` is the call `on_startup` makes next, `rest` the owners its loop has yet to
come to, `missed` the history of what this start could not set. The webhook of
the master's bot and the AmoChats channel, whose refusals are only logged, have
no state.

Of the tokens, which `TokenRefresh` has in detail, three facts about each account are
kept. An access token gets `stale`; then `ensure_fresh_access` refreshes it with the
refresh token it has read. An account is `dead` when the provider refuses its
stored refresh token: a pair was issued and never saved, because the answer was
lost, the save failed or the process died. A process is `beaten` when another
one has spent the refresh token it has read.

| action | code |
|---|---|
| `Start` | `init_db`, `ensure_tokens`, the connection, the consumer, `list_owners` |
| `HhAccess`, `HhRefresh` | the loop of `ensure_hh_webhook` with `ensure_fresh_access`; a refused refresh ends the start |
| `HhFind`, `HhPut`, `HhPost`, `HhList`, `HhPutUrl`, `HhDelete`, `HhRepost` | its calls, one request to HeadHunter each; a PUT of the victim may be refused whatever its url is, and then it is deleted |
| `HhFails` | an error in one of them, with or without the effect of the call |
| `ListAvitoOwners`, `AvitoAccess`, `AvitoRefresh`, `SetHook`, `HookFails` | `ensure_avito_webhooks`, two webhooks per account; any error passes the account over, a body that is not JSON ends the start |
| `SetOperator`, `OperatorFails` | `auto_register_telegram_webhooks` with its retries |
| `Connect` | `ensure_amo_chats_connected` |
| `Crash` | a death, or an error `on_startup` does not catch |
| `Authorize` | `hh_callback`, `avito_callback`: the account and its tokens, and no registration |
| `Expire`, `RefreshElsewhere` | an access token ages; a worker refreshes it, and may lose the pair |

## 3. Runs

All bounds are those of the `.cfg` files; each run explores every state of its
instance.

| run | instance | shows |
|---|---|---|
| `queue_worker` | 1 task, 3 slots, worker and scheduler; crash, lost connection, confirm, reply | no accepted task is lost |
| `queue_settle` | 1 task, 3 slots, two workers, API consumer, scheduler; handlers fail at will, publishes are refused | the queue implements `TaskDelivery`; a refused publish may lose a task but never duplicates it; what is not lost is done or dead-lettered, and done in the end if the services recover |
| `queue_vanish` | 1 task; refused publishes | violated: see section 6 |
| `mirror_safe` | 2 texts, 2 leads, 2 consumers; refused calls, database errors, crashes, second copies | the body runs once, no text appears twice or in a chat that does not exist, each appears unless its handler fails |
| `mirror_skipped` | the same with one consumer | violated: see section 6 |
| `token_safe` | a client, the scheduler, an authorization, 2 starts with or without a pair in the environment, 3 pairs; crashes, refused and lost responses | nobody but a start stores a spent pair, the chain of refresh tokens breaks only by that or where a successor was swallowed, an expired token is replaced |
| `survey_safe` | 1 start, 3 texts each up to twice, 2 at once; refused publishes, failing replies | answers follow the questions, none is overwritten, summaries are complete, the row goes after they were published |
| `survey_deleted` | 2 starts, 3 texts, 2 at once | violated: see section 6 |
| `mapping_safe` | 3 statuses, 2 pipelines, a PUT, a webhook, 2 autofills, 2 processes; the table empty, filled by autofill, or with the administrator's row; the AmoCRM token there or not | mappings with a status in common do not mix and others stay whole, no cache holds the middle of a replacement, an autofill asked for gets done once the token stays and the pipelines can be fetched |
| `intake_safe` | an HH application sent twice, an Avito one, a status change of each; all faults, one lost answer of a board | one lead per application, linked before anything refers to it, one invitation, the negotiation ends in the state asked for last |
| `reply_safe` | 2 users, 3 rows, 2 leads, one with a contact, 2 messages of one text, not named, the first sent twice; crashes | no stranger sees a message, no bot shows it to two users or twice, a task is dropped only for itself or a message just like its own |
| `startup_safe` | 2 API processes, an employer, an Avito account, each known, refused or unknown; all settings or none; one failure | what a start could not set is all that is missing when all are done, whatever they deleted of each other's; all come up unless the provider refuses to refresh the employer's token |

Why the bounds are enough to see the interesting cases:

- `TaskQueue`: budgets 2 and 3 in place of 6 and 10 keep the order worker <
  API and allow each at least one retry; attempts saturate where no comparison
  tells values apart. Three slots hold a delivery, its copy and a duplicate; a
  publish that finds no slot free is not possible, which cuts off only longer
  piles of duplicates.
- `ChatMirror`: two texts over two leads reach a task of the old lead still
  running after `/start` for the new one; two tries of `with_retry` instead of
  three have a first and a last one.
- `TokenRefresh`: three pairs allow two refreshes in a row; the last pair does not
  expire, so the bound never forces a failure. Two starts are what it takes to put
the environment's pair back after it was spent. Callers of `ensure_fresh_access`,
which do less than a client, and keys that two callbacks save at once are left
to the theorems.
- `Survey`: three questions as in the code; three texts with two deliveries each
  can fill the survey and meet it again at step 3.
- `HhMapping`: two pipelines with a status each, and a third status only the
  administrator maps; one PUT racing two autofills covers a waiting DELETE, a
  waiting INSERT and a duplicate key. The tables at the start are the fresh one, one
  filled by autofill alone, and one with a row of the administrator's that autofill
  does not map.
- `LeadIntake`, `BoardTasks`: an application of each board; requests for
  different applications share no state, so more add nothing. The second
  sending of one application meets the first at every step. A change and the
  application's own contact put two `set_state` tasks into the queue.
- `ManagerReply`: one user with a row in both bots and one with a row in one; a
  `/start` command changes a lead under the webhook. The first message is sent
  twice, the second once and shares its text. A task that failed comes again; a
  second copy beside the first (`MaxCopies` 2, lost confirms) is left to the
  theorems. So are refused calls: a failing request or send is in the run as a
  crash, and the only other effect of a refusal, the contact lookup that gives a
  lead a second chat, multiplies the states.
- `Startup`: two processes can each list the same subscription and go on to
  delete it, each what the other has made of it. `MaxId` 4 is never in the way:
  an id is given out in the first state, and then once by each process and once
  more for each failure. `Retries` 2 has a first and a last try.

`queue_settle`, `queue_vanish` and `startup_safe` check for deadlock. The others
do not (`CHECK_DEADLOCK FALSE`), because they can rightly stop: all messages of the
instance are handled, all updates delivered.

## 4. Fairness

Liveness properties assume what the deployment provides and nothing of remote
services, unless named in the property itself.

- Weak fairness of each actor's next step: an asyncio event loop runs a task that
  can go on; crashed containers are restarted (`docker-compose.yml`). The API
  consumer is not restarted: nobody supervises it (`main.py:144`).
- Weak fairness of `RetryExpire`: the TTL is a timer of the broker.
- Strong fairness of the delivery of each message: RabbitMQ queues are first in,
  first out and a message is not overtaken for ever. A consumer that is busy
  again and again disables the delivery in between, hence strong.
- `TokenRefresh` has strong fairness of a successful refresh: a provider that is
  asked again and again answers one day. `EventuallyFresh` assumes in its
  statement that crashes stop.
- `Startup` has weak fairness of each process: an ended one is started again.
  Failures stop after `MaxTroubles`, so `EventuallyUp` says what happens once they
  have. Nobody is obliged to authorize an account.
- `HhMapping` has weak fairness of each task's next step and of the consumers of
  autofill tasks. `AutofillDone` assumes in its statement that the token comes to
  stay; nothing is assumed of the pipelines.
- `BoardTasks` has weak fairness of all requests together and of all handlers
  together. That suffices for each: no request and no task can go on for ever.
- `EventuallyDone` has the assumption `Recovery` in its statement: a task that is
  handled again and again succeeds one day. Without it only `EventuallySettled`
  holds.
- The user, Telegram, AmoCRM and the job boards are under no obligation to do
  anything, except that a webhook once taken into an instance of `Survey` or
  `BoardTasks` is delivered.

## 5. Proofs

Every theorem holds for all values of the constants that the module's named
assumptions admit: any numbers of actors, messages, texts, statuses or webhooks,
any budgets, any set of faults. The assumptions are in the modules themselves
(`...Assumption`): disjoint roles, values outside the sets they must differ from,
positive bounds, at least one API process and settings of the three kinds
(`Startup`), messages that are no texts (`ManagerReply`), finitely many savers
(`TokenRefresh`) and status webhooks (`HhMapping`) where the types bound a count
of them, and for `TaskQueue` `WorkerMax <= RepubMax <= AttBound`. `tlapm` checks all
proofs to the last leaf.

| module | theorem | states |
|---|---|---|
| `TaskQueueProofs` | `TypeCorrect`, `NothingLost`, `HandledOnce`, `PromiseKept` | `[]TypeOK`, `[]NoLoss`, `[]ExactlyOnce`, `KeepsPromise` (the refinement) |
| `ChatMirrorProofs` | `TypeCorrect`, `OneBody`, `SentAtMostOnce`, `ChatBeforeUse` | `[]TypeOK`, `[]BodyRunsOnce`, `[]NoDoubleText`, `[]ChatExists` |
| `TokenRefreshProofs` | `TypeCorrect`, `SaveIsFresh`, `ChainOfTokens` | `[]TypeOK`, `NoStaleSave`, `[]ChainUnbroken` |
| `SurveyProofs` | `TypeCorrect`, `InOrder`, `Complete`, `KeptAnswers`, `Published` | `[]TypeOK`, `[]AnswersInOrder`, `[]SummaryComplete`, `AnswersKept`, `NothingDiscarded` |
| `HhMappingProofs` | `TypeCorrect`, `ReplacementIsWhole`, `EmptyIsNeverSeen` | `[]TypeOK`, `ReplacesWhole`, `[]NeverSeenEmpty` |
| `BoardTasksProofs` | `TypeCorrect`, `LeadIsUnique`, `StagesInOrder`, `PublishedOnce` | of `LeadIntake`: `[]TypeOK`, `[]OneLead`, `[]OrderKept`, `[]NoneTwice` |
| `BoardTasksProofs` | `Implements`, `BoardTypeCorrect`, `LastAskedIsKept`, `OneInvitation` | `BoardSpec => Spec` of `LeadIntake`, `[]BoardTypeOK`, `[]LastStateWins`, `[]InvitedOnce` |
| `ManagerReplyProofs` | `TypeCorrect`, `OwnChat`, `OnlyTheChat`, `ShownToOne`, `DroppedIfTakenUp` | `[]TypeOK`, `[]ChatOfUser`, `[]NoStranger`, `[]ShownOnce`, `[]NeverMistaken` |
| `StartupProofs` | `TypeCorrect`, `NothingForgotten` | `[]TypeOK`, `[]StartLeavesHooks` |

The arguments, and why the properties are not inductive as they stand:

- **`NoLoss`** counts any trace of a task, also that of an actor that is about to
  acknowledge; such an actor may drop its trace at any time. `TracesSafe` says
  that wherever there is a trace, or an accepted task, there is one that is
  `Safe`: its effect, a copy in a queue, an owned delivery that is still being
  worked on, or (where nothing crashes) a payload on its way through
  `_republish`. It needs `Shape`: an owned delivery is unacknowledged, belongs to
  one actor, and holds the payload that actor has in memory, so that a requeue
  puts back the right task.
- **`ExactlyOnce`** follows the one copy of a task that is yet to be acted upon, its
  duty: in a slot, or in the memory of an actor between the ack and the publish of
  `_republish`. A step leaves the duties of each task as they are, takes one away,
  or replaces the only one of the task in its hands by another (`Passes`). That
  needs that an actor at work still owns its delivery (`Engaged`), true as long as
  no connection is lost, so that its message and not a second one is the duty.
- **`KeepsPromise`** maps each step to one of `TaskDelivery`, or to none. A trace
  comes into being only by a submission, or from another trace of the same
  task, so nothing absent reappears. An actor can remove the last trace of
  the task in its hands and of no other; where `MayLose` is false `TracesSafe`
  says that what it drops was not the last.
- **`BodyRunsOnce`** needs that a consumer at work has its key in the table and
  shares its text with nobody (`Alone`), and that a body that has run has left its
  key (`RanOK`), so that none runs again later. **`NoDoubleText`** adds that a text being
  worked on has not appeared (`SendsOK`): without lost replies the step that
  makes it appear is the handler's last. **`ChatExists`** needs that
  conversations in published tasks and in handlers past the creation are chats
  (`ChatsOK`), because either may be written to the link at any time.
- **`ReplacesWhole`** asks for no row that all mappings share. Every row in the table
  came with a mapping that is still there whole, and each DELETE under way has
  found all rows of that mapping or none (`WholeInv`). The commit of a
  transaction therefore removes stored mappings as a whole, and what it did not
  find stays as a whole; a mapping that stays and has a status in common with
  the new one makes the INSERT fail on the primary key.
- **`NeverSeenEmpty`** needs that whoever holds no mapping, in its cache or in its hands,
  does so because none was stored (`SeenInv`): the table changes only in the step
  that commits, from one stored state to another.
- The **answers of a survey** depend on what a handler read before the last
  commits. After one `/start` rows only grow until they are deleted, so what a
  handler once read stays a part of the row (`PartOfRow`), and a handler past
  its commit decides by a row that is in order (`TextOK`). Before the reset there
  is no row and no text has found one (`BeforeReset`): no handler carries
  an answer of an older survey. A handler that is about to change the status or to
  delete the row has published its summary. The types alone hold with any number of
  resets and need that a row has a lead (`LeadsKnown`).
- **`OneLead`** needs that one request at most is past `check_and_store` for each
  webhook (`Alone`) and that there is no lead before its `create_leads`
  (`LeadsOK`). The order properties need the effect each stage presupposes
  (`StagesOK`). **`NoneTwice`** says that what a request still has to publish is not
  among the tasks, which is why the model may keep them as a set.
- **`BoardSpec => Spec`**: every step of the composition is one of the intake or
  leaves the intake alone. The invariants of `LeadIntake` hold in `BoardTasks` by
  this theorem; there they are not proved again.
- **`NoStaleSave`** and **`ChainUnbroken`** need that a process about to save has a
  pair the provider still takes and that no other process has
  (`OwnPair`): it was issued to this process, and nobody can spend what nobody
  else has read. The pair of the environment is the exception: starts alone save
  it, and several may. If the stored token is spent, its newest successor is on
  its way or was swallowed, or a start has stored the spent pair (`ChainKept`).
- **`LastStateWins`** needs that of a negotiation with one `set_state` task in the
  queue this is the one asked for last (`AskedLast`). **`InvitedOnce`** counts an
  invitation that is still in the queue as one to come (`SentInTurn`).
- **`ChatOfUser`** and **`NoStranger`** are about values that stay in memory while
  rows change. `InChat` never becomes false again, so it is enough that it holds
  where a value is read: for the users AmoChats knows, the chats about to be
  stored, the rows a request has in hand, the tasks in the queue. A row found by
  its lead is a row of the chat because a lead that is a chat is its own.
- **`ShownOnce`** needs that one request at most goes on with a webhook
  (`OneRequest`), that it has one row of each bot at most to serve (`OneRowEach`,
  as no two rows of a bot are each later than the other, `NoTies`), and that what
  it has yet to publish is for another bot than every task already out
  (`OneTaskEach`). A task shown has its key stored and is not being sent
  (`SentOnce`), unless a reply of Telegram was lost.
- **`NeverMistaken`** needs that every key in the table is that of a task that was taken
  up and whose message was written (`KeyTaken`). Two written messages have one key
  only in the way `Alike` describes, and then for the same row (`SameKey`): a named
  message is no text, and a chat is never without a conversation.
- **`StartLeavesHooks`** keeps accounts while the start is under way: every Avito webhook
  is set, noted as missed, or still ahead of the process (`Accounted`), and no
  step takes one back. At HeadHunter a step of another process may take back what
  was set. There the last process counts: each leaves the loop with an employer
  missed or with a subscription of ours, and when all have left it nobody is left
  to delete the subscription of the last (`HhSettled`).
- The **types** of two modules bound a count. The table of tokens has at most as many
  rows as processes that found it empty, since whoever looks later finds one
  (`RowsInv`). In `HhMapping` the autofills asked for, the webhooks that may yet ask
  and the autofills at work are together no more than the events and one
  (`CountInv`).
Every safety invariant and action property the runs check is proved. Only
model-checked: the liveness properties (`EventuallySettled`, `EventuallyDone`,
`EventuallyMirrored`, `EventuallyFresh`, `EventuallyFinished`, `AutofillDone`,
`EventuallyInvited`, `EventuallyUp`), which rest on fairness
and `ENABLED` and are out of the prover's reach; and the three runs of section 6,
whose counterexamples need no proof.

## 6. What the code does that its documentation does not say

Three runs end in a violation; each checks what a docstring says.

- `queue_vanish`: `_republish` acknowledges first (`services/queue.py:175`) and only
  logs a publish that fails twice. The docstring of `consume` says that failed
  messages are republished to the retry queue or the DLQ.
- `mirror_skipped`: `check_and_store` stores `msg_key` before anything is sent
  (`services/worker/mirror.py:83`). A retry after a failed send is skipped as
  already processed. The docstring says duplicates are ignored *if processed*.
- `survey_deleted`: `finish` deletes whatever survey the user has
  (`services/survey_service.py:93`), also one that `/start` has just begun.

The models also contain the following behaviours. No run is devoted to them: the
properties exclude them by a stated condition, or say nothing of them.

- Tokens: `ensure_tokens` loads, and saves the pair of the environment in another
  transaction (`bootstrap.py:45`): a start that found nothing saves it also when
  another start has, and a worker has rotated it since. A spent refresh token
  then replaces the good one, though the comment at line 30 says that nothing is done
  when there is one in the database. Two first saves with `owner_id` NULL leave two rows,
  after which every load raises (`rows > 1`); a lost refresh response or a crash
  before the save ends the chain until a new authorization; a client with an old
  copy raises `ReauthRequired` although the stored pair is good.
- Mirror: `conversation_id` survives a change of lead, so texts go to the chat of
  the former lead; a failed lookup of the contact gives one lead two chats, and
  the answers in both reach the same user.
- Manager's replies: `set_conv_for_links` (`api/api_amochats.py:113`) writes over
  whatever the row says by then; a late save by the mirror moves `updated_at`, by
  which the webhook chooses whom to serve. A message that its webhook does not name is
  known by its text (`api/api_amochats.py:197`), so the second of two with one
  text is dropped as a duplicate (`services/worker/mirror.py:61`) and its user never
  sees it.
- Survey: `/start` resets only the columns that differed when it read the row, so
  a concurrent `/start` or answer shows through (the docstring of
  `start_or_reset_survey` says the survey is reset); completing twice publishes
  twice.
- Mapping: two replacements that have no status in common both commit and the table
  holds both (`hh_mapping.py:56`, whose docstring says the mapping is replaced); a
  PUT during an autofill is overwritten by it; a cache may be older than its
  process's last write until the TTL ends; an autofill without an AmoCRM token
  goes round by the dead letters until there is one.
- Intake: `amo_create_lead` is published under the platform of the board, while
  the handlers know it under `amo`, so it ends in the dead letters; a status
  change before `save_link` is dropped with its key stored; a request that fails
  after its key was stored is not taken up again.
- Boards: two `set_state` tasks queued at once are carried out in either order; a
  lost answer to a message makes a second invitation.
- Start: two processes may list the same foreign subscription; one makes it ours,
  the other's PUT of it is refused, and it deletes what is ours by then
  (`api/hh_webhooks.py:186`), though the docstring calls the registration
  idempotent. A refused refresh of an employer's token is an `OAuth2RefreshError`, which
  `api/hh_webhooks.py:143` does not catch (it is no `RuntimeError`), so every start fails,
  and with no API up the callback that would renew the token cannot be reached.
  The first employer that works ends the loop (`return`), while the repository's
  README.md:136 speaks of webhooks per owner. The operator's webhook failing for good
  ends the start, the master's does not. Without the settings a registration is
  skipped and the API comes up without the webhook (`main.py:61` and 84,
  `api/hh_webhooks.py:119` and 132, `api/avito_webhooks.py:149`).

Seen in passing and outside the models: a provider whose answer has no new refresh
token leaves the old one in use (`api/oauth2.py:71`), so that nothing of the chain
can break there; `with_retry` waits
a second each time and never doubles, because `True` is an integer to
`isinstance`; `HHError` and `AvitoError` hide the status from `_is_transient`, so
after the tries of `request_with_retry` a 5xx of a board goes to the dead letters
and not into the retry queue; the bots' webhooks are set with
`drop_pending_updates=True`, so updates sent while the API was down are dropped.

## 7. Not modelled

- The database task queue: nothing in the program calls it.
- The clean-up of dedup keys after 72 hours: it needs a clock, and redeliveries
  that late are not bounded by anything in the code.
- The message numbers of the two bots, which may overlap in `msg_key`.
- The handlers of platform `amo` and the calls of the adapters that only fetch:
  to the queue they are handlers that succeed or fail, and `amo_create_lead`
  never reaches its handler from the intake (section 6).
- The optional enrichment of a lead (contact, custom fields, refusal reason):
  its errors are logged, and it is HTTP calls whose results only AmoCRM keeps.
- Parsers of payloads, the settings `Startup` does not name, logging, signatures, table definitions and
  migrations: no state that changes.

Abstractions inside the models: task payloads, texts, codes and tokens are opaque;
waiting times are steps without duration; the broker keeps messages across its
own restarts (durable queues, persistent messages) and is not itself modelled as
failing; a consumer handles one message at a time, and what RabbitMQ has
prefetched to it beyond that counts as still in the queue, where a lost
connection puts it anyway.

## 8. Plan

Done, most important behaviour first: `TaskDelivery` and `TaskQueue` with the
refinement proved; `ChatMirror`; `TokenRefresh`; `Survey`; `HhMapping`;
`LeadIntake` and `BoardTasks`; `ManagerReply`; `Startup`.

Left, in this order:

1. A second bot in `ChatMirror`, whose message numbers overlap with the first's.
2. `check_and_store` with the clean-up against late redeliveries, and an abstract
   once-only specification that the mirror, the intake and the webhooks
   implement.
3. A run for the lead that is never made after `amo_create_lead`; `DbTaskQueue` once
   something calls it.
