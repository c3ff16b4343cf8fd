------------------------------ MODULE HhMapping ------------------------------
(***************************************************************************)
(* The table that maps AmoCRM statuses to HH codes, and the copy every     *)
(* process keeps of it for a minute (app/services/hh_mapping.py). Requests *)
(* of the administrator replace it, autofill tasks rebuild it from the     *)
(* pipelines of AmoCRM (app/services/hh_autofill.py), and status webhooks  *)
(* look codes up and ask for an autofill when there is none                *)
(* (app/api/amo_webhooks.py). An autofill task fails while the AmoCRM      *)
(* token is missing or about to expire (app/services/worker/system.py).    *)
(*                                                                         *)
(* Transactions are READ COMMITTED: a DELETE sees the rows committed when  *)
(* it starts and waits for the locks of other transactions on them.        *)
(***************************************************************************)
EXTENDS Naturals, FiniteSets

CONSTANTS
    Statuses, Codes, NoCode,
    Pipelines,    \* sets of statuses: the two pipelines of AmoCRM
    StageCode,    \* the HH code of a status, by the name of its stage
    Stored,       \* the mappings the table may hold at the start
    Procs,        \* processes, each with its cache
    Puts, PutMap, \* PUT /admin/hh-mapping requests, and what they put
    Events, StatusOf,   \* status webhooks, and the status each reports
    Fills,        \* consumers of hh_autofill tasks
    On            \* the process of each of these

Maps == [Statuses -> Codes \cup {NoCode}]
Rows(m) == {s \in Statuses : m[s] # NoCode}
Empty == [s \in Statuses |-> NoCode]
Tasks == Puts \cup Events \cup Fills
Piped == UNION Pipelines

ASSUME MapAssumption ==
    /\ NoCode \notin Codes
    /\ Piped \subseteq Statuses
    /\ StageCode \in Maps
    /\ Stored \subseteq Maps
    /\ PutMap \in [Puts -> Maps]
    /\ StatusOf \in [Events -> Statuses]
    /\ On \in [Tasks -> Procs]
ASSUME TaskAssumption ==
    /\ Puts \cap Events = {} /\ Puts \cap Fills = {} /\ Events \cap Fills = {}
    /\ IsFiniteSet(Events)

VARIABLES
    table,    \* committed rows of hh_mapping
    put,      \* history: the mappings the table held or was given
    token,    \* the AmoCRM token is there and good for 30 seconds more
    cache,    \* _cache of each process
    fresh,    \* time.time() < _cache_expire
    asked,    \* hh_autofill tasks in the queue
    h         \* what each request or task is doing

vars == <<table, put, token, cache, fresh, asked, h>>

\* Every variable has its type; a webhook asks for at most one autofill.
TypeOK ==
    /\ table \in Maps
    /\ put \subseteq Maps
    /\ token \in BOOLEAN
    /\ cache \in [Procs -> Maps]
    /\ fresh \in [Procs -> BOOLEAN]
    /\ asked \in 0..Cardinality(Events) + 1
    /\ h \in [Tasks ->
         [at : {"new", "token", "read", "cache", "get", "reread", "recache", "use",
                "fetch", "compare", "delete", "lock", "insert", "written", "done"},
          map : Maps,               \* what it has read, or is to write
          dels : SUBSET Statuses,   \* rows its DELETE has found
          got : SUBSET Pipelines]]  \* pipelines whose statuses it fetched

\* An autofill may be in the queue from the start, the interval or an OAuth
\* callback of the API.
Init ==
    /\ table \in Stored
    /\ put = {table}
    /\ token \in BOOLEAN
    /\ cache = [p \in Procs |-> Empty]
    /\ fresh = [p \in Procs |-> FALSE]
    /\ asked \in 0..1
    /\ h = [t \in Tasks |-> [at |-> "new", map |-> Empty, dels |-> {}, got |-> {}]]

Goto(t, l) == h' = [h EXCEPT ![t].at = l]
GotoWith(t, l, m) == h' = [h EXCEPT ![t].at = l, ![t].map = m]

\* A fill leaves its consumer free for the next task.
Leave(t) ==
    h' = [h EXCEPT ![t] = [at |-> IF t \in Fills THEN "new" ELSE "done",
                           map |-> Empty, dels |-> {}, got |-> {}]]

\* A webhook starts with load, a PUT with set_all, an autofill task with a look
\* at the token.
First(t) ==
    IF t \in Puts THEN GotoWith(t, "delete", PutMap[t])
    ELSE Goto(t, IF t \in Fills THEN "token" ELSE "read")

\* Faulty: the task is not acknowledged.
BeginUnacked(t) ==
    /\ h[t].at = "new"
    /\ t \in Fills => asked > 0
    /\ First(t)
    /\ UNCHANGED <<table, put, token, cache, fresh, asked>>

Begin(t) ==
    /\ h[t].at = "new"
    /\ t \in Fills => asked > 0
    /\ asked' = IF t \in Fills THEN asked - 1 ELSE asked
    /\ First(t)
    /\ UNCHANGED <<table, put, token, cache, fresh>>

\* A task that fails goes to the dead letters and comes back; a webhook or a
\* request that fails is answered with an error.
Fail(t) ==
    /\ Leave(t)
    /\ asked' = IF t \in Fills THEN asked + 1 ELSE asked
    /\ UNCHANGED <<table, put, token, cache, fresh>>

\* handle_system_hh_autofill: no token, no autofill.
CheckToken(t) ==
    /\ h[t].at = "token"
    /\ \/ token /\ Goto(t, "read") /\ UNCHANGED <<table, put, token, cache, fresh, asked>>
       \/ ~token /\ Fail(t)

\* The token expires, or is refreshed.
TokenTurns ==
    /\ token' = ~token
    /\ UNCHANGED <<table, put, cache, fresh, asked, h>>

-----------------------------------------------------------------------------
\* load

\* The SELECT.
Read(t) ==
    /\ h[t].at \in {"read", "reread"}
    /\ GotoWith(t, IF h[t].at = "read" THEN "cache" ELSE "recache", table)
    /\ UNCHANGED <<table, put, token, cache, fresh, asked>>

\* The assignment to the cache, under the lock of the process.
SetCache(t) ==
    /\ cache' = [cache EXCEPT ![On[t]] = h[t].map]
    /\ fresh' = [fresh EXCEPT ![On[t]] = TRUE]

\* ... at the end of load, called by the webhook, by get and by autofill.
Load(t) ==
    /\ h[t].at \in {"cache", "recache"}
    /\ SetCache(t)
    /\ Goto(t, IF t \in Fills THEN "fetch"
               ELSE IF h[t].at = "cache" THEN "get" ELSE "use")
    /\ UNCHANGED <<table, put, token, asked>>

\* _CACHE_TTL goes by.
Expire(p) ==
    /\ fresh[p]
    /\ fresh' = [fresh EXCEPT ![p] = FALSE]
    /\ UNCHANGED <<table, put, token, cache, asked, h>>

-----------------------------------------------------------------------------
\* A status webhook: get, then a task for HH or for an autofill

Usable(p) == fresh[p] /\ cache[p] # Empty

Get(t) ==
    /\ h[t].at = "get"
    /\ IF Usable(On[t]) THEN GotoWith(t, "use", cache[On[t]]) ELSE Goto(t, "reread")
    /\ UNCHANGED <<table, put, token, cache, fresh, asked>>

\* With a code, set_state is published; without, hh_autofill.
Use(t) ==
    /\ h[t].at = "use"
    /\ asked' = IF h[t].map[StatusOf[t]] = NoCode THEN asked + 1 ELSE asked
    /\ Leave(t)
    /\ UNCHANGED <<table, put, token, cache, fresh>>

-----------------------------------------------------------------------------
\* autofill_hh_mapping

\* A pipeline that cannot be fetched is passed over.
Fetch(t) ==
    /\ h[t].at = "fetch"
    /\ \E got \in SUBSET Pipelines :
          h' = [h EXCEPT ![t].at = "compare", ![t].got = got]
    /\ UNCHANGED <<table, put, token, cache, fresh, asked>>

\* Statuses of the fetched pipelines by their stage names, others as they are.
Filled(m, got) == [s \in Statuses |-> IF s \in UNION got THEN StageCode[s] ELSE m[s]]

Compare(t) ==
    /\ h[t].at = "compare"
    /\ LET result == Filled(h[t].map, h[t].got)
       IN  IF result # h[t].map THEN GotoWith(t, "delete", result) ELSE Leave(t)
    /\ UNCHANGED <<table, put, token, cache, fresh, asked>>

-----------------------------------------------------------------------------
\* set_all

\* The DELETE starts with the rows that are committed ...
Delete(t) ==
    /\ h[t].at = "delete"
    /\ h' = [h EXCEPT ![t].at = "lock", ![t].dels = Rows(table)]
    /\ UNCHANGED <<table, put, token, cache, fresh, asked>>

\* Faulty: the DELETE is a transaction of its own.
LockCommits(t) ==
    /\ h[t].at = "lock"
    /\ table' = [s \in Statuses |-> IF s \in h[t].dels THEN NoCode ELSE table[s]]
    /\ h' = [h EXCEPT ![t].at = "insert", ![t].dels = {}]
    /\ UNCHANGED <<put, token, cache, fresh, asked>>

\* ... and locks them one and all; a row another DELETE has taken is waited
\* for, and gone when that transaction commits.
Lock(t) ==
    /\ h[t].at = "lock"
    /\ \A u \in Tasks : h[u].at = "insert" => h[u].dels \cap h[t].dels = {}
    /\ Goto(t, "insert")
    /\ UNCHANGED <<table, put, token, cache, fresh, asked>>

\* The rows the transaction sees after its DELETE.
Rest(t) == [s \in Statuses |-> IF s \in h[t].dels THEN NoCode ELSE table[s]]
Collides(t) == Rows(Rest(t)) \cap Rows(h[t].map) # {}
\* A key whose row another transaction has deleted has to wait for its end.
Waits(t) ==
    \E u \in Tasks \ {t} :
        h[u].at = "insert" /\ h[u].dels \cap Rows(Rest(t)) \cap Rows(h[t].map) # {}
Union(t) == [s \in Statuses |-> IF h[t].map[s] # NoCode THEN h[t].map[s] ELSE Rest(t)[s]]

\* Faulty: INSERT ... ON CONFLICT DO UPDATE.
InsertUpserts(t) ==
    /\ h[t].at = "insert"
    /\ table' = Union(t)
    /\ put' = put \cup {h[t].map}
    /\ h' = [u \in Tasks |->
               IF u = t THEN [h[t] EXCEPT !.at = "written", !.dels = {}]
               ELSE [h[u] EXCEPT !.dels = @ \ h[t].dels]]
    /\ UNCHANGED <<token, cache, fresh, asked>>

\* INSERT and COMMIT.
Insert(t) ==
    /\ h[t].at = "insert"
    /\ ~Waits(t) /\ ~Collides(t)
    /\ table' = Union(t)
    /\ put' = put \cup {h[t].map}
    /\ h' = [u \in Tasks |->
               IF u = t THEN [h[t] EXCEPT !.at = "written", !.dels = {}]
               ELSE [h[u] EXCEPT !.dels = @ \ h[t].dels]]
    /\ UNCHANGED <<token, cache, fresh, asked>>

\* Faulty: the failed autofill is forgotten.
ConflictForgotten(t) ==
    /\ h[t].at = "insert"
    /\ ~Waits(t) /\ Collides(t)
    /\ Leave(t)
    /\ UNCHANGED <<table, put, token, cache, fresh, asked>>

\* A duplicate key: the transaction is rolled back and nothing is cached.
Conflict(t) ==
    /\ h[t].at = "insert"
    /\ ~Waits(t) /\ Collides(t)
    /\ Fail(t)

\* The cache is replaced only after the commit.
Written(t) ==
    /\ h[t].at = "written"
    /\ SetCache(t)
    /\ Leave(t)
    /\ UNCHANGED <<table, put, token, asked>>

-----------------------------------------------------------------------------
SetAll(t) == Delete(t) \/ Lock(t) \/ Insert(t) \/ Conflict(t) \/ Written(t)
Step(t) ==
    \/ CheckToken(t) \/ Read(t) \/ Load(t) \/ Get(t) \/ Use(t)
    \/ Fetch(t) \/ Compare(t) \/ SetAll(t)

Next ==
    \/ \E t \in Tasks : Begin(t) \/ Step(t)
    \/ \E p \in Procs : Expire(p)
    \/ TokenTurns

Spec == Init /\ [][Next]_vars

\* Event loops and the database go on, consumers take what is in the queue.
Fairness ==
    /\ \A t \in Tasks : WF_vars(Step(t))
    /\ \A t \in Fills : WF_vars(Begin(t))

FairSpec == Spec /\ Fairness

-----------------------------------------------------------------------------
\* Properties

Commits(t) == h[t].at # "written" /\ h'[t].at = "written"

\* The mapping b is in the table m with all its rows.
WhollyIn(b, m) == \A s \in Rows(b) : m[s] = b[s]

\* hh_mapping.py, set_all: the mapping is replaced. Whatever runs at once, what
\* a set_all leaves when it commits is its own mapping, and, of the mappings that
\* were stored meanwhile, those that have no status in common with it, whole:
\* two mappings with a status in common never mix, as the primary key makes one
\* of the two fail as a whole.
ReplacesWhole ==
    [][\A t \in Tasks : Commits(t) =>
          /\ WhollyIn(h[t].map, table')
          /\ \A s \in Rows(table') \ Rows(h[t].map) : \E b \in put :
                s \in Rows(b) /\ WhollyIn(b, table') /\ Rows(b) \cap Rows(h[t].map) = {}]_vars

\* Nobody loads, and then goes by for a minute, the empty table in the middle
\* of a replacement: who sees no mapping does so because none was stored.
NeverSeenEmpty == \A p \in Procs : fresh[p] /\ cache[p] = Empty => Empty \in put

\* Once the AmoCRM token stays good, an autofill that was asked for is carried
\* out, whatever PUT gets in its way, unless a pipeline could not be fetched.
AutofillDone ==
    <>[]token =>
        (asked > 0 ~> \/ \A s \in Piped : table[s] = StageCode[s]
                      \/ \E t \in Fills : h[t].at = "compare" /\ h[t].got # Pipelines)

=============================================================================
