---------------------------- MODULE TokenRefresh ----------------------------
(***************************************************************************)
(* The OAuth token of one (service, owner): its row in the tokens table    *)
(* (app/db/token_store.py), the AmoCRM clients that keep a copy of it in   *)
(* memory (app/adapters/amo_client.py), the callers of ensure_fresh_access *)
(* (app/api/oauth2.py), the scheduler's refresh (app/services/scheduler.py)*)
(* and the first saves by the OAuth callbacks (app/api/oauth.py) and by    *)
(* ensure_tokens, which at an API start saves the pair of the environment  *)
(* when it has found none (app/bootstrap.py).                              *)
(*                                                                         *)
(* Token pairs are numbered in the order in which the provider issues them.*)
(* A refresh token is good for one refresh, which is why every caller saves*)
(* the one it gets back. (A provider whose answer has no refresh token,    *)
(* whose old one then stays, oauth2.py:71, has no chain to break.)         *)
(***************************************************************************)
EXTENDS Naturals, FiniteSets

CONSTANTS
    Clients,      \* uses of AmoClient: create, then requests
    Callers,      \* uses of ensure_fresh_access
    Schedulers,   \* processes running refresh_service_tokens
    Callbacks,    \* OAuth callbacks
    Starts,       \* API starts, which call ensure_tokens
    MaxPair,      \* bound on the token pairs the provider issues
    Faults

FaultKinds == {"crash",       \* a process dies between two steps
               "refuse",      \* the provider is unreachable or answers 5xx
               "lostreply"}   \* it issued a pair, the response is lost

Savers == Callbacks \cup Starts
Procs == Clients \cup Callers \cup Schedulers \cup Savers
NoPair == 0

ASSUME PairAssumption == MaxPair \in Nat \ {0}
ASSUME FaultAssumption == Faults \subseteq FaultKinds
ASSUME RolesAssumption ==
    /\ Clients \cap (Callers \cup Schedulers \cup Savers) = {}
    /\ Callers \cap (Schedulers \cup Savers) = {}
    /\ Schedulers \cap Savers = {}
    /\ Callbacks \cap Starts = {}
ASSUME SaversAssumption == IsFiniteSet(Savers)

VARIABLES
    unique,    \* the key has an owner: the database admits one row
    env,       \* the pair in the environment of the processes that start
    issued,    \* number of pairs issued by the provider
    good,      \* pairs whose refresh token the provider still takes
    expired,   \* pairs whose access token has expired or is about to
    row,       \* the pair stored for this (service, owner)
    rows,      \* number of rows with this key
    pc,        \* what each process does next
    mem,       \* the pair in its memory
    found,     \* save: whether its SELECT found a row
    lost,      \* history: pairs a crash or a lost reply swallowed as they
               \* were to follow the one they were issued for
    spentEnv   \* history: what was saved last is the pair of the environment,
               \* which the provider refused by then

vars == <<unique, env, issued, good, expired, row, rows, pc, mem, found, lost,
          spentEnv>>
deployed == <<unique, env>>
provider == <<issued, good, expired>>
table == <<row, rows, spentEnv>>

\* Every variable has its type; pairs that are stored or in use were issued, and
\* rows with the same key are as many as the unique constraint and those who save
\* a first pair allow.
TypeOK ==
    /\ unique \in BOOLEAN
    /\ env \in {NoPair, 1}
    /\ issued \in 0..MaxPair
    /\ good \subseteq 1..issued
    /\ expired \subseteq 1..issued
    /\ row \in 0..issued
    /\ rows \in 0..(IF Savers = {} THEN 1 ELSE Cardinality(Savers))
    /\ unique => rows <= 1
    /\ pc \in [Procs -> {"idle", "check", "refresh", "find", "write", "use",
                         "refresh401", "find401", "write401", "use401",
                         "reauth", "failed"}]
    /\ mem \in [Procs -> 0..issued]
    /\ found \in [Procs -> BOOLEAN]
    /\ lost \subseteq 1..issued
    /\ spentEnv \in BOOLEAN

\* Before the first authorization, with a token stored long ago, or with a pair
\* in the environment, used or not. ensure_tokens' keys have no owner.
Init ==
    /\ unique \in BOOLEAN
    /\ \/ /\ issued = 0 /\ good = {} /\ row = NoPair /\ rows = 0
          /\ env = NoPair
       \/ /\ issued = 1 /\ good = {1} /\ row = 1 /\ rows = 1
          /\ env = NoPair
       \/ /\ issued = 1 /\ good \in {{1}, {}} /\ row = NoPair /\ rows = 0
          /\ env = 1 /\ ~unique
    /\ expired = {}
    /\ pc = [p \in Procs |-> "idle"]
    /\ mem = [p \in Procs |-> NoPair]
    /\ found = [p \in Procs |-> FALSE]
    /\ lost = {}
    /\ spentEnv = FALSE

Goto(p, l) == pc' = [pc EXCEPT ![p] = l] /\ UNCHANGED <<mem, found>>

\* The call is over, its local variables are gone.
Leave(p, l) ==
    /\ pc' = [pc EXCEPT ![p] = l]
    /\ mem' = [mem EXCEPT ![p] = NoPair]
    /\ found' = [found EXCEPT ![p] = FALSE]

\* It goes on with a pair it has got.
Proceed(p, l, g) ==
    /\ pc' = [pc EXCEPT ![p] = l]
    /\ mem' = [mem EXCEPT ![p] = g]
    /\ UNCHANGED found

-----------------------------------------------------------------------------
\* The provider

\* It issues a pair for a refresh token, or for an authorization code.
Issue(spent) ==
    /\ issued < MaxPair
    /\ issued' = issued + 1
    /\ good' = (good \ spent) \cup {issued + 1}

\* Time passes; the last pair of the bound does not expire.
Expire(g) ==
    /\ g \in 1..issued \ expired
    /\ g < MaxPair
    /\ expired' = expired \cup {g}
    /\ UNCHANGED <<deployed, issued, good, table, pc, mem, found, lost>>

-----------------------------------------------------------------------------
\* DbTokenStore.load and save

\* scalar_one_or_none raises when a key has several rows, load when none.
Loads(p, l) == rows = 1 /\ Proceed(p, l, row)
CannotLoad == rows # 1

\* The second request of _request, after a 401, has steps of its own.
After401(p) == pc[p] \in {"refresh401", "find401", "write401", "use401"}
Finding(p) == pc[p] \in {"find", "find401"}

\* Faulty: save inserts whatever its SELECT has found.
ToWriteNew(p, b) ==
    /\ pc' = [pc EXCEPT ![p] = IF After401(p) THEN "write401" ELSE "write"]
    /\ found' = [found EXCEPT ![p] = FALSE]
    /\ UNCHANGED mem

ToWrite(p, b) ==
    /\ pc' = [pc EXCEPT ![p] = IF After401(p) THEN "write401" ELSE "write"]
    /\ found' = [found EXCEPT ![p] = b]
    /\ UNCHANGED mem

\* Once saved, AmoClient and ensure_fresh_access use the access token.
Saved(p) ==
    IF p \in Clients \cup Callers
    THEN Goto(p, IF After401(p) THEN "use401" ELSE "use")
    ELSE Leave(p, "idle")

\* save, first half: is there a row? One that holds the pair is left alone.
Find(p) ==
    /\ Finding(p)
    /\ \/ rows = 0 /\ ToWrite(p, FALSE)
       \/ rows = 1 /\ row # mem[p] /\ ToWrite(p, TRUE)
       \/ rows = 1 /\ row = mem[p] /\ Saved(p)
       \/ rows > 1 /\ Leave(p, "failed")
    /\ UNCHANGED <<deployed, provider, table, lost>>

\* The unique constraint does not hold between rows whose owner_id is NULL.
Duplicate(p) == ~found[p] /\ unique /\ rows > 0

\* save, second half: UPDATE the rows of the key, or INSERT one.
Write(p) ==
    /\ pc[p] \in {"write", "write401"}
    /\ \/ /\ ~Duplicate(p)
          /\ row' = mem[p]
          /\ rows' = IF found[p] THEN rows ELSE rows + 1
          /\ spentEnv' = (p \in Starts /\ mem[p] \notin good)
          /\ Saved(p)
       \/ Duplicate(p) /\ Leave(p, "failed") /\ UNCHANGED table
    /\ UNCHANGED <<deployed, provider, lost>>

-----------------------------------------------------------------------------
\* Refreshing: AmoClient._refresh_token and oauth2.refresh_tokens

Refreshing(p) == pc[p] \in {"refresh", "refresh401"}
ToFind(p, g) == Proceed(p, IF After401(p) THEN "find401" ELSE "find", g)

\* What an invalid_grant becomes: ReauthRequired in AmoClient,
\* OAuth2RefreshError in refresh_tokens, which the scheduler only logs.
Refused(p) ==
    Leave(p, IF p \in Clients THEN "reauth"
             ELSE IF p \in Schedulers THEN "idle" ELSE "failed")
Fails(p) == Leave(p, IF p \in Schedulers THEN "idle" ELSE "failed")

\* Faulty: the status of the response is not looked at, the old pair is saved.
RefreshUnchecked(p) ==
    /\ Refreshing(p)
    /\ \/ mem[p] \in good /\ Issue({mem[p]}) /\ ToFind(p, issued + 1)
       \/ mem[p] \notin good /\ ToFind(p, mem[p]) /\ UNCHANGED <<issued, good>>
    /\ UNCHANGED <<deployed, expired, table, lost>>

\* Faulty: only the access token of the response is kept.
RefreshKeepsOld(p) ==
    /\ Refreshing(p)
    /\ \/ mem[p] \in good /\ Issue({mem[p]}) /\ ToFind(p, mem[p])
       \/ mem[p] \notin good /\ Refused(p) /\ UNCHANGED <<issued, good>>
    /\ UNCHANGED <<deployed, expired, table, lost>>

Refresh(p) ==
    /\ Refreshing(p)
    /\ \/ /\ mem[p] \in good
          /\ Issue({mem[p]})
          /\ \/ ToFind(p, issued + 1) /\ UNCHANGED lost
             \/ /\ "lostreply" \in Faults
                /\ Fails(p)
                /\ lost' = lost \cup {issued + 1}
       \/ mem[p] \notin good /\ Refused(p) /\ UNCHANGED <<issued, good, lost>>
       \/ "refuse" \in Faults /\ Fails(p) /\ UNCHANGED <<issued, good, lost>>
    /\ UNCHANGED <<deployed, expired, table>>

-----------------------------------------------------------------------------
\* AmoClient and ensure_fresh_access

\* AmoClient.create, or the load of ensure_fresh_access.
Open(p) ==
    /\ p \in Clients \cup Callers
    /\ pc[p] = "idle"
    /\ Loads(p, "check") \/ (CannotLoad /\ Leave(p, "failed"))
    /\ UNCHANGED <<deployed, provider, table, lost>>

\* _ensure_token and the test of ensure_fresh_access, on the copy in memory.
Check(p) ==
    /\ p \in Clients \cup Callers
    /\ pc[p] = "check"
    /\ Goto(p, IF mem[p] \in expired THEN "refresh" ELSE "use")
    /\ UNCHANGED <<deployed, provider, table, lost>>

\* The request. A 401 makes AmoClient refresh and ask once more, and fails
\* other callers; after a success the same client may make its next request.
Use(p) ==
    /\ pc[p] \in {"use", "use401"}
    /\ \/ /\ mem[p] \in expired
          /\ IF p \in Clients /\ ~After401(p)
             THEN Goto(p, "refresh401")
             ELSE Leave(p, "failed")
       \/ mem[p] \notin expired /\ Leave(p, "idle")
       \/ mem[p] \notin expired /\ p \in Clients /\ Goto(p, "check")
    /\ UNCHANGED <<deployed, provider, table, lost>>

\* The error reaches the caller; later the work is tried again from scratch.
GiveUp(p) ==
    /\ pc[p] \in {"failed", "reauth"}
    /\ Leave(p, "idle")
    /\ UNCHANGED <<deployed, provider, table, lost>>

-----------------------------------------------------------------------------
\* refresh_service_tokens

\* will_expire_soon: TRUE as well when nothing can be loaded.
SchedCheck(p) ==
    /\ p \in Schedulers
    /\ pc[p] = "idle"
    /\ rows = 1 => row \in expired
    /\ Goto(p, "check")
    /\ UNCHANGED <<deployed, provider, table, lost>>

\* The second load; an exception ends the pass.
SchedLoad(p) ==
    /\ p \in Schedulers
    /\ pc[p] = "check"
    /\ Loads(p, "refresh") \/ (CannotLoad /\ Leave(p, "idle"))
    /\ UNCHANGED <<deployed, provider, table, lost>>

-----------------------------------------------------------------------------
\* First saves

\* The callback exchanged its code for a pair.
Authorize(p) ==
    /\ p \in Callbacks
    /\ pc[p] = "idle"
    /\ Issue({})
    /\ Proceed(p, "find", issued + 1)
    /\ UNCHANGED <<deployed, expired, table, lost>>

\* ensure_tokens: when nothing can be loaded it saves the environment's pair;
\* several rows make the load, and with it the start, fail.
EnsureTokens(p) ==
    /\ p \in Starts
    /\ pc[p] = "idle"
    /\ \/ rows = 0 /\ env # NoPair /\ Proceed(p, "find", env)
       \/ rows > 1 /\ Leave(p, "failed")
    /\ UNCHANGED <<deployed, provider, table, lost>>

\* A pair p got for the one before it and has yet to save.
Unsaved(p) ==
    /\ p \notin Savers
    /\ pc[p] \in {"find", "find401", "write", "write401"}
    /\ mem[p] \in good

\* The process dies.
Crash(p) ==
    /\ "crash" \in Faults
    /\ pc[p] # "idle"
    /\ Leave(p, "idle")
    /\ lost' = IF Unsaved(p) THEN lost \cup {mem[p]} ELSE lost
    /\ UNCHANGED <<deployed, provider, table>>

Act(p) ==
    \/ Open(p) \/ Check(p) \/ Use(p) \/ GiveUp(p)
    \/ SchedCheck(p) \/ SchedLoad(p)
    \/ Refresh(p) \/ Find(p) \/ Write(p)

Next ==
    \/ \E g \in 1..MaxPair : Expire(g)
    \/ \E p \in Procs : Act(p) \/ Authorize(p) \/ EnsureTokens(p) \/ Crash(p)

Spec == Init /\ [][Next]_vars

\* Event loops run, and a provider that is asked again and again answers;
\* nothing obliges anybody to authorize.
Fairness ==
    \A p \in Procs : /\ WF_vars(Act(p))
                     /\ SF_vars(Refresh(p) /\ issued' > issued)

FairSpec == Spec /\ Fairness

-----------------------------------------------------------------------------
\* Properties

\* The stored refresh token is dead and its successor will never be stored.
Broken == row \notin good /\ \E g \in lost : g > row

\* However many processes refresh at once without a lock, they do not break
\* the chain of refresh tokens: the stored one is good, or its successor is on
\* its way into the table. What breaks it is a crash or a lost reply that
\* swallowed the successor, and a start that stored the pair of the environment
\* when that was spent.
ChainUnbroken ==
    rows = 1 => row \in good \/ Broken \/ spentEnv \/ \E p \in Procs : Unsaved(p)

\* Whatever fails, and whoever else saves, refreshes and callbacks never store a
\* pair whose refresh token is spent: only ensure_tokens does, the environment's.
NoStaleSave ==
    [][row' # row =>
           row' \in good' \/ (row' = env /\ \E p \in Starts : Write(p))]_vars

\* An expired token gets replaced, by whoever wins the race to refresh it,
\* unless the chain is broken or a second row made the key unreadable.
EventuallyFresh ==
    <>[][\A p \in Procs : ~Crash(p)]_vars =>
        (row \in expired /\ rows = 1
            ~> row \notin expired \/ Broken \/ spentEnv \/ rows > 1)

=============================================================================
