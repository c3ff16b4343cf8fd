--------------------------- MODULE HhMappingProofs ---------------------------
(***************************************************************************)
(* Proofs about HhMapping, for any statuses, pipelines and codes, any      *)
(* numbers of PUT requests, webhooks, autofills and processes.             *)
(*                                                                         *)
(* A mapping that is stored lies in the table as a whole, and a DELETE has *)
(* found all of its rows or none: a transaction that has missed it either  *)
(* shares no status with it or fails on the primary key.                   *)
(***************************************************************************)
EXTENDS HhMapping, FiniteSetTheorems, TLAPS

Begun == {"cache", "recache", "fetch", "compare"}
Writing == {"delete", "lock", "insert", "written"}
Looking == {"new", "token", "read", "get", "reread", "use", "done"}

Stages == Begun \cup Writing \cup Looking

HType == [at : Stages, map : Maps, dels : SUBSET Statuses, got : SUBSET Pipelines]

\* Types.
Typed ==
    /\ table \in Maps
    /\ put \subseteq Maps
    /\ token \in BOOLEAN
    /\ cache \in [Procs -> Maps]
    /\ fresh \in [Procs -> BOOLEAN]
    /\ h \in [Tasks -> HType]

\* The row of s came with a mapping that is still there, and goes with it.
Sound(s) ==
    \E b \in put :
        /\ s \in Rows(b)
        /\ WhollyIn(b, table)
        /\ \A t \in Tasks : Rows(b) \subseteq h[t].dels \/ Rows(b) \cap h[t].dels = {}

WholeInv ==
    /\ \A t \in Tasks : h[t].dels \subseteq Rows(table)
    /\ \A s \in Rows(table) : Sound(s)

\* No mapping is read or cached unless one such was stored.
SeenInv ==
    /\ table = Empty => Empty \in put
    /\ \A t \in Tasks :
          h[t].at \in {"cache", "recache", "written"} /\ h[t].map = Empty => Empty \in put
    /\ \A p \in Procs : fresh[p] /\ cache[p] = Empty => Empty \in put

MapInv == Typed /\ WholeInv /\ SeenInv

\* The mappings built from other mappings are mappings.
LEMMA BuiltMaps ==
    ASSUME Typed, NEW t \in Tasks
    PROVE  /\ Union(t) \in Maps
           /\ \A got : Filled(h[t].map, got) \in Maps
BY MapAssumption DEF Typed, HType, Maps, Union, Rest, Filled

-----------------------------------------------------------------------------
\* What the helpers of the steps do to h

Others(t) == \A u \in Tasks \ {t} : h'[u] = h[u]

LEMMA GotoChanges ==
    ASSUME Typed, NEW t \in Tasks, NEW l \in Stages, Goto(t, l)
    PROVE  /\ h' \in [Tasks -> HType] /\ Others(t)
           /\ h'[t].at = l /\ h'[t].map = h[t].map /\ h'[t].dels = h[t].dels
<1>1. h \in [Tasks -> HType] /\ h' = [h EXCEPT ![t] = [h[t] EXCEPT !.at = l]]
  BY DEF Typed, Goto
<1>2. [h[t] EXCEPT !.at = l] \in HType
  BY <1>1 DEF HType
<1> QED
  BY <1>1, <1>2 DEF HType, Others

LEMMA GotoWithChanges ==
    ASSUME Typed, NEW t \in Tasks, NEW l \in Stages, NEW m \in Maps, GotoWith(t, l, m)
    PROVE  /\ h' \in [Tasks -> HType] /\ Others(t)
           /\ h'[t].at = l /\ h'[t].map = m /\ h'[t].dels = h[t].dels
<1>1. /\ h \in [Tasks -> HType]
      /\ h' = [h EXCEPT ![t] = [h[t] EXCEPT !.at = l, !.map = m]]
  BY DEF Typed, GotoWith
<1>2. [h[t] EXCEPT !.at = l, !.map = m] \in HType
  BY <1>1 DEF HType
<1> QED
  BY <1>1, <1>2 DEF HType, Others

LEMMA LeaveChanges ==
    ASSUME Typed, NEW t \in Tasks, Leave(t)
    PROVE  /\ h' \in [Tasks -> HType] /\ Others(t)
           /\ h'[t].at \in {"new", "done"} /\ h'[t].dels = {}
<1>1. PICK l \in {"new", "done"} :
        h' = [h EXCEPT ![t] = [at |-> l, map |-> Empty, dels |-> {}, got |-> {}]]
  BY DEF Leave
<1>2. [at |-> l, map |-> Empty, dels |-> {}, got |-> {}] \in HType
  BY DEF HType, Stages, Looking, Empty, Maps
<1>3. h \in [Tasks -> HType]
  BY DEF Typed
<1> QED
  BY <1>1, <1>2, <1>3 DEF Others

\* The names of the stages.
LEMMA StageNames ==
    /\ {"cache", "recache", "fetch", "compare", "delete", "lock", "insert", "written",
        "new", "token", "read", "get", "reread", "use", "done"} \subseteq Stages
    /\ Stages = Begun \cup Writing \cup Looking
BY DEF Stages, Begun, Writing, Looking

-----------------------------------------------------------------------------
\* Types

LEMMA NextTyped == Typed /\ [Next]_vars => Typed'
<1> SUFFICES ASSUME Typed, [Next]_vars PROVE Typed'
  OBVIOUS
<1>0. /\ table \in Maps /\ cache \in [Procs -> Maps] /\ fresh \in [Procs -> BOOLEAN]
      /\ put \subseteq Maps /\ token \in BOOLEAN
  BY DEF Typed
<1>1. ASSUME NEW t \in Tasks, Begin(t) PROVE Typed'
  <2>1. UNCHANGED <<table, put, token, cache, fresh>>
    BY <1>1 DEF Begin
  <2>2. CASE t \in Puts
    <3>1. PutMap[t] \in Maps
      BY <2>2, MapAssumption
    <3>2. GotoWith(t, "delete", PutMap[t])
      BY <1>1, <2>2 DEF Begin, First
    <3> QED
      BY <1>0, <2>1, <3>1, <3>2, GotoWithChanges, StageNames DEF Typed
  <2>3. CASE t \notin Puts
    <3>1. Goto(t, "read") \/ Goto(t, "token")
      BY <1>1, <2>3 DEF Begin, First
    <3> QED
      BY <1>0, <2>1, <3>1, GotoChanges, StageNames DEF Typed
  <2> QED
    BY <2>2, <2>3
<1>2. ASSUME NEW p \in Procs, Expire(p) PROVE Typed'
  BY <1>2 DEF Typed, Expire
<1>3. ASSUME NEW t \in Tasks, Step(t) PROVE Typed'
  <2>0. /\ h \in [Tasks -> HType]
        /\ h[t].map \in Maps /\ On[t] \in Procs
    BY MapAssumption DEF Typed, HType
  <2>1. CASE Read(t)
    <3>1. PICK l \in Stages : GotoWith(t, l, table)
      BY <2>1, StageNames DEF Read
    <3> QED
      BY <1>0, <2>1, <3>1, GotoWithChanges DEF Typed, Read
  <2>2. CASE Load(t)
    <3>1. PICK l \in Stages : Goto(t, l)
      BY <2>2, StageNames DEF Load
    <3>2. h' \in [Tasks -> HType] /\ table' = table
      BY <2>2, <3>1, GotoChanges DEF Load
    <3> QED
      BY <1>0, <2>0, <2>2, <3>2 DEF Typed, Load, SetCache
  <2>3. CASE Get(t)
    <3>1. \/ Goto(t, "reread")
          \/ \E m \in Maps : GotoWith(t, "use", m)
      BY <1>0, <2>0, <2>3 DEF Get
    <3> QED
      BY <1>0, <2>3, <3>1, GotoChanges, GotoWithChanges, StageNames DEF Typed, Get
  <2>11. CASE CheckToken(t)
    <3>1. UNCHANGED <<table, put, token, cache, fresh>> /\ (Goto(t, "read") \/ Leave(t))
      BY <2>11 DEF CheckToken, Fail
    <3> QED
      BY <1>0, <3>1, GotoChanges, LeaveChanges, StageNames DEF Typed
  <2>4. CASE Use(t) \/ Conflict(t)
    BY <1>0, <2>4, LeaveChanges DEF Typed, Use, Conflict, Fail
  <2>5. CASE Written(t)
    <3>1. h' \in [Tasks -> HType] /\ table' = table
      BY <2>5, LeaveChanges DEF Written
    <3> QED
      BY <1>0, <2>0, <2>5, <3>1 DEF Typed, Written, SetCache
  <2>6. CASE Fetch(t)
    <3>1. PICK got \in SUBSET Pipelines :
             h' = [h EXCEPT ![t].at = "compare", ![t].got = got]
      BY <2>6 DEF Fetch
    <3>2. [h[t] EXCEPT !.at = "compare", !.got = got] \in HType
      BY <2>0, StageNames DEF HType
    <3>3. h' = [h EXCEPT ![t] = [h[t] EXCEPT !.at = "compare", !.got = got]]
      BY <2>0, <3>1
    <3>4. h' \in [Tasks -> HType]
      BY <2>0, <3>2, <3>3
    <3> QED
      BY <2>6, <3>4 DEF Typed, Fetch
  <2>7. CASE Compare(t)
    <3>1. Leave(t) \/ \E m \in Maps : GotoWith(t, "delete", m)
      BY <2>7, BuiltMaps DEF Compare
    <3> QED
      BY <1>0, <2>7, <3>1, LeaveChanges, GotoWithChanges, StageNames DEF Typed, Compare
  <2>8. CASE Delete(t)
    <3>1. h' = [h EXCEPT ![t] = [h[t] EXCEPT !.at = "lock", !.dels = Rows(table)]]
      BY <2>0, <2>8 DEF Delete
    <3>2. [h[t] EXCEPT !.at = "lock", !.dels = Rows(table)] \in HType
      BY <2>0, StageNames DEF HType, Rows
    <3>3. h' \in [Tasks -> HType]
      BY <2>0, <3>1, <3>2
    <3> QED
      BY <2>8, <3>3 DEF Typed, Delete
  <2>9. CASE Lock(t)
    BY <1>0, <2>9, GotoChanges, StageNames DEF Typed, Lock
  <2>10. CASE Insert(t)
    <3>1. table' \in Maps /\ put' \subseteq Maps /\ UNCHANGED <<token, cache, fresh>>
      BY <1>0, <2>0, <2>10, BuiltMaps DEF Insert
    <3>2. \A u \in Tasks : h[u] \in HType
      BY <2>0
    <3>3. [h[t] EXCEPT !.at = "written", !.dels = {}] \in HType
      BY <3>2, StageNames DEF HType
    <3>4. \A u \in Tasks : [h[u] EXCEPT !.dels = @ \ h[t].dels] \in HType
      BY <3>2 DEF HType
    <3>5. h' \in [Tasks -> HType]
      BY <2>10, <3>3, <3>4 DEF Insert
    <3> QED
      BY <1>0, <3>1, <3>5 DEF Typed
  <2> QED
    BY <1>3, <2>1, <2>2, <2>3, <2>4, <2>5, <2>6, <2>7, <2>8, <2>9, <2>10, <2>11
       DEF Step, SetAll
<1>4. CASE UNCHANGED vars
  BY <1>4 DEF vars, Typed
<1>5. CASE TokenTurns
  BY <1>5 DEF TokenTurns, Typed
<1> QED
  BY <1>1, <1>2, <1>3, <1>4, <1>5 DEF Next

-----------------------------------------------------------------------------
\* Mappings stay whole

\* But for the one that commits, a task changes only what its own DELETE found.
LEMMA DelsStep ==
    ASSUME Typed, NEW t \in Tasks, Begin(t) \/ Step(t), ~Insert(t)
    PROVE  /\ UNCHANGED <<table, put>>
           /\ Others(t)
           /\ h'[t].dels \in {h[t].dels, {}, Rows(table)}
<1>1. CASE Begin(t)
  <2>1. \E l \in Stages : Goto(t, l) \/ \E m \in Maps : GotoWith(t, l, m)
    BY <1>1, MapAssumption, StageNames DEF Begin, First
  <2> QED
    BY <1>1, <2>1, GotoChanges, GotoWithChanges DEF Begin
<1>2. CASE CheckToken(t) \/ Use(t) \/ Conflict(t) \/ Written(t)
  <2>1. /\ UNCHANGED <<table, put>>
        /\ \/ \E l \in Stages : Goto(t, l)
           \/ Leave(t)
    BY <1>2, StageNames DEF CheckToken, Use, Conflict, Written, Fail
  <2> QED
    BY <2>1, GotoChanges, LeaveChanges
<1>3. CASE Read(t) \/ Load(t) \/ Lock(t)
  <2>1. /\ UNCHANGED <<table, put>>
        /\ \E l \in Stages : Goto(t, l) \/ GotoWith(t, l, table)
    BY <1>3, StageNames DEF Read, Load, Lock
  <2>2. table \in Maps
    BY DEF Typed
  <2> QED
    BY <2>1, <2>2, GotoChanges, GotoWithChanges
<1>4. CASE Get(t)
  <2>1. \/ Goto(t, "reread")
        \/ \E m \in Maps : GotoWith(t, "use", m)
    BY <1>4, MapAssumption DEF Get, Typed
  <2> QED
    BY <1>4, <2>1, GotoChanges, GotoWithChanges, StageNames DEF Get
<1>5. CASE Compare(t)
  <2>1. Leave(t) \/ \E m \in Maps : GotoWith(t, "delete", m)
    BY <1>5, BuiltMaps DEF Compare
  <2> QED
    BY <1>5, <2>1, LeaveChanges, GotoWithChanges, StageNames DEF Compare
<1>6. CASE Fetch(t)
  BY <1>6 DEF Fetch, Typed, HType, Others
<1>7. CASE Delete(t)
  BY <1>7 DEF Delete, Typed, HType, Others
<1> QED
  BY <1>1, <1>2, <1>3, <1>4, <1>5, <1>6, <1>7 DEF Step, SetAll

\* A stored mapping whose rows another DELETE is after is one that it found.
LEMMA KeepsWhole ==
    ASSUME WholeInv, UNCHANGED <<table, put>>,
           \A u \in Tasks : h'[u].dels \in {h[u].dels, {}, Rows(table)}
    PROVE  WholeInv'
<1>1. \A t \in Tasks : h'[t].dels \subseteq Rows(table)
  BY DEF WholeInv
<1>2. ASSUME NEW s \in Rows(table) PROVE Sound(s)'
  <2>1. PICK b \in put :
          /\ s \in Rows(b)
          /\ WhollyIn(b, table)
          /\ \A t \in Tasks : Rows(b) \subseteq h[t].dels \/ Rows(b) \cap h[t].dels = {}
    BY DEF WholeInv, Sound
  <2>2. Rows(b) \subseteq Rows(table)
    BY <2>1 DEF WhollyIn, Rows
  <2>3. \A t \in Tasks : Rows(b) \subseteq h'[t].dels \/ Rows(b) \cap h'[t].dels = {}
    BY <2>1, <2>2
  <2> QED
    BY <2>1, <2>3 DEF Sound
<1> QED
  BY <1>1, <1>2 DEF WholeInv

\* The transaction that commits leaves its own mapping and, whole, those that its
\* DELETE did not find, which have no status in common with it.
LEMMA InsertWhole ==
    ASSUME Typed, WholeInv, NEW t \in Tasks, Insert(t)
    PROVE  /\ WhollyIn(h[t].map, table')
           /\ \A s \in Rows(table') \ Rows(h[t].map) : \E b \in put :
                 /\ s \in Rows(b) /\ WhollyIn(b, table')
                 /\ Rows(b) \cap Rows(h[t].map) = {} /\ Rows(b) \cap h[t].dels = {}
                 /\ \A u \in Tasks : Rows(b) \subseteq h[u].dels \/ Rows(b) \cap h[u].dels = {}
<1>1. /\ table' = [s \in Statuses |-> IF h[t].map[s] # NoCode THEN h[t].map[s]
                                     ELSE IF s \in h[t].dels THEN NoCode ELSE table[s]]
      /\ \A s \in Statuses : s \notin h[t].dels /\ table[s] # NoCode => h[t].map[s] = NoCode
  BY DEF Insert, Union, Rest, Collides, Rows
<1>2. WhollyIn(h[t].map, table')
  BY <1>1 DEF WhollyIn, Rows
<1>3. ASSUME NEW s \in Rows(table') \ Rows(h[t].map)
      PROVE  \E b \in put :
                 /\ s \in Rows(b) /\ WhollyIn(b, table')
                 /\ Rows(b) \cap Rows(h[t].map) = {} /\ Rows(b) \cap h[t].dels = {}
                 /\ \A u \in Tasks : Rows(b) \subseteq h[u].dels \/ Rows(b) \cap h[u].dels = {}
  <2>1. s \in Rows(table) /\ s \notin h[t].dels
    BY <1>1, <1>3 DEF Rows
  <2>2. PICK b \in put :
          /\ s \in Rows(b)
          /\ WhollyIn(b, table)
          /\ \A u \in Tasks : Rows(b) \subseteq h[u].dels \/ Rows(b) \cap h[u].dels = {}
    BY <2>1 DEF WholeInv, Sound
  <2>3. Rows(b) \cap h[t].dels = {}
    BY <2>1, <2>2
  <2>4. \A x \in Rows(b) : table[x] = b[x] /\ b[x] # NoCode /\ x \notin h[t].dels
    BY <2>2, <2>3 DEF WhollyIn, Rows
  <2>5. \A x \in Rows(b) : h[t].map[x] = NoCode
    BY <1>1, <2>4 DEF Rows
  <2>6. WhollyIn(b, table')
    BY <1>1, <2>4, <2>5 DEF WhollyIn, Rows
  <2>7. Rows(b) \cap Rows(h[t].map) = {}
    BY <2>5 DEF Rows
  <2> QED
    BY <2>2, <2>3, <2>6, <2>7
<1> QED
  BY <1>2, <1>3

LEMMA InsertKeepsWhole ==
    ASSUME Typed, WholeInv, NEW t \in Tasks, Insert(t)
    PROVE  WholeInv'
<1>1. /\ table' = [s \in Statuses |-> IF h[t].map[s] # NoCode THEN h[t].map[s]
                                     ELSE IF s \in h[t].dels THEN NoCode ELSE table[s]]
      /\ \A s \in Statuses : s \notin h[t].dels /\ table[s] # NoCode => h[t].map[s] = NoCode
      /\ put' = put \cup {h[t].map}
      /\ h \in [Tasks -> HType]
  BY DEF Insert, Union, Rest, Collides, Rows, Typed
<1>2. /\ h'[t].dels = {}
      /\ \A u \in Tasks \ {t} : h'[u].dels = h[u].dels \ h[t].dels
      /\ \A u \in Tasks : h'[u].dels \subseteq h[u].dels \ h[t].dels
  <2>1. h'[t].dels = {}
    BY <1>1 DEF Insert, HType
  <2>2. \A u \in Tasks \ {t} : h'[u].dels = h[u].dels \ h[t].dels
    BY <1>1 DEF Insert, HType
  <2> QED
    BY <2>1, <2>2
<1>3. \A u \in Tasks : h[u].dels \subseteq Rows(table)
  BY DEF WholeInv
<1>4. Rows(table) \ h[t].dels \subseteq Rows(table')
  BY <1>1 DEF Rows
<1>5. \A u \in Tasks : h'[u].dels \subseteq Rows(table')
  BY <1>2, <1>3, <1>4
<1>6. ASSUME NEW s \in Rows(table') PROVE Sound(s)'
  <2>1. CASE s \in Rows(h[t].map)
    <3>1. ASSUME NEW u \in Tasks PROVE Rows(h[t].map) \cap h'[u].dels = {}
      BY <1>1, <1>2, <1>3, <3>1 DEF Rows
    <3>2. WhollyIn(h[t].map, table') /\ h[t].map \in put'
      BY <1>1, InsertWhole
    <3> QED
      BY <2>1, <3>1, <3>2 DEF Sound
  <2>2. CASE s \notin Rows(h[t].map)
    <3>1. PICK b \in put :
            /\ s \in Rows(b) /\ WhollyIn(b, table') /\ Rows(b) \cap h[t].dels = {}
            /\ \A u \in Tasks : Rows(b) \subseteq h[u].dels \/ Rows(b) \cap h[u].dels = {}
      BY <2>2, InsertWhole
    <3>2. \A u \in Tasks : Rows(b) \subseteq h'[u].dels \/ Rows(b) \cap h'[u].dels = {}
      BY <1>2, <3>1
    <3> QED
      BY <1>1, <3>1, <3>2 DEF Sound
  <2> QED
    BY <2>1, <2>2
<1> QED
  BY <1>5, <1>6 DEF WholeInv

LEMMA NextWhole == Typed /\ WholeInv /\ [Next]_vars => WholeInv'
<1> SUFFICES ASSUME Typed, WholeInv, [Next]_vars PROVE WholeInv'
  OBVIOUS
<1>1. ASSUME NEW t \in Tasks, Begin(t) \/ Step(t) PROVE WholeInv'
  <2>1. CASE Insert(t)
    BY <2>1, InsertKeepsWhole
  <2>2. CASE ~Insert(t)
    <3>1. /\ UNCHANGED <<table, put>>
          /\ \A u \in Tasks : h'[u].dels \in {h[u].dels, {}, Rows(table)}
      BY <1>1, <2>2, DelsStep DEF Others
    <3> QED
      BY <3>1, KeepsWhole
  <2> QED
    BY <2>1, <2>2
<1>2. ASSUME UNCHANGED <<table, put, h>> PROVE WholeInv'
  BY <1>2, KeepsWhole
<1> QED
  BY <1>1, <1>2 DEF Next, Expire, TokenTurns, vars

-----------------------------------------------------------------------------
\* Nobody sees the middle of a replacement

LEMMA NextSeen == Typed /\ SeenInv /\ [Next]_vars => SeenInv'
<1> SUFFICES ASSUME Typed, SeenInv, [Next]_vars PROVE SeenInv'
  OBVIOUS
<1> USE MapAssumption DEF Typed, SeenInv
<1>1. ASSUME NEW t \in Tasks, Begin(t) PROVE SeenInv'
  <2>1. UNCHANGED <<table, put, cache, fresh>>
    BY <1>1 DEF Begin
  <2>2. \A u \in Tasks : \/ h'[u] = h[u]
                         \/ h'[u].at \notin {"cache", "recache", "written"}
    BY <1>1 DEF Begin, First, Goto, GotoWith, HType
  <2> QED
    BY <2>1, <2>2
<1>2. ASSUME NEW t \in Tasks, Step(t) PROVE SeenInv'
  <2>0. h \in [Tasks -> HType] /\ On[t] \in Procs
    OBVIOUS
  <2>1. CASE CheckToken(t) \/ Get(t) \/ Use(t) \/ Fetch(t) \/ Compare(t) \/ Delete(t)
             \/ Lock(t) \/ Conflict(t)
    <3>1. UNCHANGED <<table, put, cache, fresh>>
      BY <2>1 DEF CheckToken, Get, Use, Fetch, Compare, Delete, Lock, Conflict, Fail
    <3>2. \A u \in Tasks \ {t} : h'[u] = h[u]
      BY <2>0, <2>1 DEF CheckToken, Get, Use, Fetch, Compare, Delete, Lock, Conflict, Fail,
                        Leave, Goto, GotoWith
    <3>3. h'[t].at \notin {"cache", "recache", "written"}
      BY <2>0, <2>1 DEF CheckToken, Get, Use, Fetch, Compare, Delete, Lock, Conflict, Fail,
                        Leave, Goto, GotoWith, HType
    <3> QED
      BY <3>1, <3>2, <3>3
  <2>2. CASE Read(t)
    <3>1. UNCHANGED <<table, put, cache, fresh>>
      BY <2>2 DEF Read
    <3>2. \A u \in Tasks : h'[u] = h[u] \/ h'[u].map = table
      BY <2>0, <2>2 DEF Read, GotoWith, HType
    <3> QED
      BY <3>1, <3>2
  <2>3. CASE Load(t)
    <3>1. UNCHANGED <<table, put>> /\ h[t].at \in {"cache", "recache"}
      BY <2>3 DEF Load
    <3>2. \A u \in Tasks : \/ h'[u] = h[u]
                           \/ h'[u].at \notin {"cache", "recache", "written"}
      BY <2>0, <2>3 DEF Load, Goto, HType
    <3>3. \A p \in Procs : cache'[p] = h[t].map \/ (cache'[p] = cache[p] /\ fresh'[p] = fresh[p])
      BY <2>0, <2>3 DEF Load, SetCache
    <3> QED
      BY <3>1, <3>2, <3>3
  <2>4. CASE Insert(t)
    <3>1. UNCHANGED <<cache, fresh>> /\ put' = put \cup {h[t].map}
      BY <2>4 DEF Insert
    <3>2. table' = Empty => h[t].map = Empty
      <4>1. table' = Empty => \A s \in Statuses : h[t].map[s] = NoCode
        BY <2>4 DEF Insert, Union, Empty
      <4>2. h[t].map \in [Statuses -> Codes \cup {NoCode}]
        BY <2>0 DEF HType, Maps
      <4> QED
        BY <4>1, <4>2 DEF Empty
    <3>3. \A u \in Tasks \ {t} : h'[u].at = h[u].at /\ h'[u].map = h[u].map
      BY <2>0, <2>4 DEF Insert, HType
    <3>4. h'[t].map = h[t].map
      BY <2>0, <2>4 DEF Insert, HType
    <3> QED
      BY <3>1, <3>2, <3>3, <3>4
  <2>5. CASE Written(t)
    <3>1. UNCHANGED <<table, put>> /\ h[t].at = "written"
      BY <2>5 DEF Written
    <3>2. \A u \in Tasks : \/ h'[u] = h[u]
                           \/ h'[u].at \notin {"cache", "recache", "written"}
      BY <2>0, <2>5 DEF Written, Leave
    <3>3. \A p \in Procs : cache'[p] = h[t].map \/ (cache'[p] = cache[p] /\ fresh'[p] = fresh[p])
      BY <2>0, <2>5 DEF Written, SetCache
    <3> QED
      BY <3>1, <3>2, <3>3
  <2> QED
    BY <1>2, <2>1, <2>2, <2>3, <2>4, <2>5 DEF Step, SetAll
<1>3. ASSUME NEW p \in Procs, Expire(p) PROVE SeenInv'
  <2>1. UNCHANGED <<table, put, cache, h>> /\ \A q \in Procs : fresh'[q] => fresh[q]
    BY <1>3 DEF Expire
  <2> QED
    BY <2>1
<1>4. ASSUME UNCHANGED <<table, put, cache, fresh, h>> PROVE SeenInv'
  BY <1>4
<1> QED
  BY <1>1, <1>2, <1>3, <1>4 DEF Next, TokenTurns, vars

-----------------------------------------------------------------------------
\* Theorems

\* The inductive invariant: types, mappings stored are whole, and whoever sees
\* none does so because none was stored.
THEOREM Invariant == Spec => []MapInv
<1>1. Init => MapInv
  <2> SUFFICES ASSUME Init PROVE MapInv
    OBVIOUS
  <2>0. /\ table \in Stored /\ put = {table} /\ token \in BOOLEAN
        /\ fresh = [p \in Procs |-> FALSE]
        /\ \A t \in Tasks : h[t] = [at |-> "new", map |-> Empty, dels |-> {}, got |-> {}]
    BY DEF Init
  <2>1. Typed
    BY MapAssumption DEF Init, Typed, HType, Stages, Empty, Maps, Begun, Writing, Looking
  <2>2. WholeInv
    BY <2>0 DEF WholeInv, Sound, WhollyIn
  <2>3. SeenInv
    BY <2>0 DEF SeenInv
  <2> QED
    BY <2>1, <2>2, <2>3 DEF MapInv
<1>2. MapInv /\ [Next]_vars => MapInv'
  BY NextTyped, NextWhole, NextSeen DEF MapInv
<1> QED
  BY <1>1, <1>2, PTL DEF Spec

\* No process caches the table in the middle of a replacement: who sees no
\* mapping does so because none was stored.
THEOREM EmptyIsNeverSeen == Spec => []NeverSeenEmpty
<1>1. MapInv => NeverSeenEmpty
  BY DEF MapInv, SeenInv, NeverSeenEmpty
<1> QED
  BY Invariant, <1>1, PTL

\* However many replacements run at once, one that commits leaves its own mapping
\* and none that has a status in common with it.
THEOREM ReplacementIsWhole == Spec => ReplacesWhole
<1> DEFINE Leaves(t) ==
      /\ WhollyIn(h[t].map, table')
      /\ \A s \in Rows(table') \ Rows(h[t].map) : \E b \in put :
            s \in Rows(b) /\ WhollyIn(b, table') /\ Rows(b) \cap Rows(h[t].map) = {}
<1>1. MapInv /\ [Next]_vars => [\A t \in Tasks : Commits(t) => Leaves(t)]_vars
  <2> SUFFICES ASSUME MapInv, Next, NEW t \in Tasks, Commits(t)
               PROVE  Leaves(t)
    OBVIOUS
  <2>1. Typed /\ WholeInv
    BY DEF MapInv
  <2>2. Insert(t)
    <3> USE <2>1 DEF Typed, HType, Commits
    <3>1. PICK u \in Tasks : Begin(u) \/ Step(u)
      BY DEF Next, Expire, TokenTurns
    <3>2. CASE Begin(u)
      BY <3>2 DEF Begin, First, Goto, GotoWith
    <3>3. CASE CheckToken(u) \/ Read(u) \/ Load(u) \/ Get(u)
      BY <3>3 DEF CheckToken, Fail, Leave, Read, Load, Get, Goto, GotoWith
    <3>4. CASE Fetch(u)
      BY <3>4 DEF Fetch
    <3>5. CASE Delete(u) \/ Lock(u)
      BY <3>5 DEF Delete, Lock, Goto
    <3>6. CASE Use(u) \/ Conflict(u) \/ Written(u) \/ Compare(u)
      BY <3>6 DEF Use, Conflict, Fail, Written, Compare, Leave, GotoWith
    <3>7. CASE Insert(u)
      BY <3>7 DEF Insert
    <3> QED
      BY <3>1, <3>2, <3>3, <3>4, <3>5, <3>6, <3>7 DEF Step, SetAll
  <2> QED
    BY <2>1, <2>2, InsertWhole
<1> HIDE DEF Leaves
<1>2. Spec => [][\A t \in Tasks : Commits(t) => Leaves(t)]_vars
  BY Invariant, <1>1, PTL DEF Spec
<1> QED
  BY <1>2 DEF ReplacesWhole, Leaves

-----------------------------------------------------------------------------
\* Autofills asked for

Waiting == {t \in Events : h[t].at # "done"}
Busy == {t \in Fills : h[t].at # "new"}

\* A PUT runs set_all and nothing else.
PutKnown(t) == h[t].at \in {"new", "delete", "lock", "insert", "written", "done"}

\* Every webhook asks at most once, and an autofill that fails puts back the
\* request it took from the queue.
CountInv ==
    /\ asked \in Nat
    /\ \A t \in Puts : PutKnown(t)
    /\ IsFiniteSet(Busy)
    /\ asked + Cardinality(Waiting) + Cardinality(Busy) <= Cardinality(Events) + 1

LEMMA Counts ==
  /\ IsFiniteSet(Waiting) /\ Cardinality(Waiting) \in Nat
  /\ Cardinality(Events) \in Nat
<1>1. Waiting \in SUBSET Events
  BY DEF Waiting
<1> QED BY <1>1, TaskAssumption, FS_Subset, FS_CardinalityType

\* Where a step takes its own task; the others stay.
LEMMA AtStep ==
    ASSUME Typed, NEW t \in Tasks, Begin(t) \/ Step(t)
    PROVE  /\ \A u \in Tasks \ {t} : h'[u].at = h[u].at
           /\ PutKnown(t) /\ t \in Puts => PutKnown(t)'
           /\ h'[t].at # "new" \/ Leave(t)
           /\ h[t].at # "done"
<1> USE TaskAssumption DEF Typed, HType, PutKnown
<1>1. CASE Begin(t)
  BY <1>1 DEF Begin, First, Goto, GotoWith
<1>2. CASE Read(t) \/ Load(t) \/ Get(t)
  BY <1>2 DEF Read, Load, Get, Goto, GotoWith
<1>3. CASE Fetch(t)
  BY <1>3 DEF Fetch
<1>4. CASE Delete(t) \/ Lock(t)
  BY <1>4 DEF Delete, Lock, Goto
<1>5. CASE CheckToken(t) \/ Use(t) \/ Conflict(t) \/ Written(t)
  BY <1>5 DEF CheckToken, Use, Conflict, Fail, Written, Leave, Goto
<1>6. CASE Compare(t)
  BY <1>6 DEF Compare, Leave, GotoWith
<1>7. CASE Insert(t)
  BY <1>7 DEF Insert
<1> QED BY <1>1, <1>2, <1>3, <1>4, <1>5, <1>6, <1>7 DEF Step, SetAll

\* A request is taken from the queue by a fill that begins, and added by a task
\* that leaves.
LEMMA AskedStep ==
    ASSUME Typed, CountInv, NEW t \in Tasks, Begin(t) \/ Step(t)
    PROVE  \/ asked' = asked /\ Waiting' \subseteq Waiting /\ Busy' \subseteq Busy
           \/ /\ asked > 0 /\ asked' = asked - 1
              /\ Waiting' = Waiting /\ t \notin Busy /\ Busy' = Busy \cup {t}
           \/ /\ asked' = asked + 1
              /\ \/ t \in Waiting /\ Waiting' = Waiting \ {t} /\ Busy' = Busy
                 \/ t \in Busy /\ Waiting' = Waiting /\ Busy' = Busy \ {t}
<1> USE TaskAssumption
<1>1. /\ \A u \in Tasks \ {t} : h'[u].at = h[u].at
      /\ h'[t].at # "new" \/ Leave(t)
      /\ h[t].at # "done"
  BY AtStep
<1>2. /\ \A u \in Events \ {t} : u \in Waiting' <=> u \in Waiting
      /\ \A u \in Fills \ {t} : u \in Busy' <=> u \in Busy
  BY <1>1 DEF Waiting, Busy, Tasks
<1>3. /\ Waiting \subseteq Events /\ Waiting' \subseteq Events
      /\ Busy \subseteq Fills /\ Busy' \subseteq Fills
  BY DEF Waiting, Busy
<1>4. t \in Events => t \in Waiting
  BY <1>1 DEF Waiting
<1>5. Leave(t) => h'[t].at = IF t \in Fills THEN "new" ELSE "done"
  BY DEF Leave, Typed
<1>6. CASE Begin(t) /\ t \in Fills
  <2>1. asked > 0 /\ asked' = asked - 1 /\ t \notin Busy
    BY <1>6 DEF Begin, Busy
  <2>2. h'[t].at = "token"
    BY <1>6 DEF Begin, First, Goto, Typed, HType
  <2>3. t \in Busy'
    BY <1>6, <2>2 DEF Busy
  <2> QED BY <1>2, <1>3, <1>6, <2>1, <2>3
<1>7. CASE asked' = asked /\ ~(Begin(t) /\ t \in Fills)
  <2>1. t \in Fills => t \in Busy
    BY <1>7 DEF Busy, Step, CheckToken, Read, Load, Get, Use, Fetch, Compare, SetAll, Delete, Lock,
                Insert, Conflict, Written
  <2> QED BY <1>2, <1>3, <1>4, <1>7, <2>1
<1>8. CASE asked' = asked + 1 /\ (Use(t) \/ Conflict(t) \/ CheckToken(t)) /\ asked' # asked
  <2>1. Leave(t) /\ t \notin Puts /\ h[t].at # "new"
    BY <1>8 DEF Use, Conflict, CheckToken, Fail, CountInv, PutKnown
  <2>2. CASE t \in Events
    <3>1. t \notin Waiting' /\ t \notin Fills
      BY <1>5, <2>1, <2>2 DEF Waiting
    <3> QED BY <1>2, <1>3, <1>4, <1>8, <2>2, <3>1
  <2>3. CASE t \in Fills
    <3>1. t \in Busy /\ t \notin Busy' /\ t \notin Events
      BY <1>5, <2>1, <2>3 DEF Busy
    <3> QED BY <1>2, <1>3, <1>8, <2>3, <3>1
  <2> QED BY <2>1, <2>2, <2>3 DEF Tasks
<1> QED
  BY <1>6, <1>7, <1>8
     DEF Begin, Step, CheckToken, Fail, Read, Load, Get, Use, Fetch, Compare, SetAll, Delete,
         Lock, Insert, Conflict, Written

LEMMA NextCount == Typed /\ CountInv /\ [Next]_vars => CountInv'
<1> SUFFICES ASSUME Typed, CountInv, [Next]_vars PROVE CountInv'
  OBVIOUS
<1>0. /\ asked \in Nat /\ IsFiniteSet(Busy) /\ Cardinality(Busy) \in Nat
      /\ asked + Cardinality(Waiting) + Cardinality(Busy) <= Cardinality(Events) + 1
  BY FS_CardinalityType DEF CountInv
<1>1. ASSUME NEW t \in Tasks, Begin(t) \/ Step(t) PROVE CountInv'
  <2>1. \A u \in Puts : PutKnown(u)'
    <3> TAKE u \in Puts
    <3>1. u \in Tasks /\ PutKnown(u)
      BY DEF Tasks, CountInv
    <3> QED BY <1>1, <3>1, AtStep DEF PutKnown
  <2>2. CASE asked' = asked /\ Waiting' \subseteq Waiting /\ Busy' \subseteq Busy
    <3>1. Cardinality(Waiting') <= Cardinality(Waiting) /\ Cardinality(Waiting') \in Nat
      BY <2>2, Counts, FS_Subset, FS_CardinalityType
    <3>2. /\ IsFiniteSet(Busy') /\ Cardinality(Busy') <= Cardinality(Busy)
          /\ Cardinality(Busy') \in Nat
      BY <1>0, <2>2, FS_Subset, FS_CardinalityType
    <3> QED BY <1>0, <2>1, <2>2, <3>1, <3>2, Counts DEF CountInv
  <2>3. CASE /\ asked > 0 /\ asked' = asked - 1
             /\ Waiting' = Waiting /\ t \notin Busy /\ Busy' = Busy \cup {t}
    <3>1. IsFiniteSet(Busy') /\ Cardinality(Busy') = Cardinality(Busy) + 1
      BY <1>0, <2>3, FS_AddElement
    <3> QED BY <1>0, <2>1, <2>3, <3>1, Counts DEF CountInv
  <2>4. CASE /\ asked' = asked + 1
             /\ t \in Waiting /\ Waiting' = Waiting \ {t} /\ Busy' = Busy
    <3>1. Cardinality(Waiting') = Cardinality(Waiting) - 1
      BY <2>4, Counts, FS_RemoveElement
    <3> QED BY <1>0, <2>1, <2>4, <3>1, Counts DEF CountInv
  <2>5. CASE /\ asked' = asked + 1
             /\ t \in Busy /\ Waiting' = Waiting /\ Busy' = Busy \ {t}
    <3>1. IsFiniteSet(Busy') /\ Cardinality(Busy') = Cardinality(Busy) - 1
      BY <1>0, <2>5, FS_RemoveElement
    <3> QED BY <1>0, <2>1, <2>5, <3>1, Counts DEF CountInv
  <2> QED BY <1>1, <2>2, <2>3, <2>4, <2>5, AskedStep
<1>2. CASE UNCHANGED <<asked, h>>
  BY <1>2 DEF CountInv, PutKnown, Waiting, Busy
<1> QED BY <1>1, <1>2 DEF Next, Expire, TokenTurns, vars

\* Every variable has its type; in particular the queue never holds more
\* autofills than webhooks asked for, besides the one there from the start.
THEOREM TypeCorrect == Spec => []TypeOK
<1>1. Init => Typed /\ CountInv
  <2> SUFFICES ASSUME Init PROVE Typed /\ CountInv
    OBVIOUS
  <2>1. Typed
    BY MapAssumption DEF Init, Typed, HType, Stages, Empty, Maps, Begun, Writing, Looking
  <2>2. \A t \in Tasks : h[t].at = "new"
    BY DEF Init
  <2>3. Waiting = Events /\ Busy = {}
    BY <2>2 DEF Waiting, Busy, Tasks
  <2>4. asked \in Nat /\ asked <= 1
    BY DEF Init
  <2>5. IsFiniteSet(Busy) /\ Cardinality(Busy) = 0
    BY <2>3, FS_EmptySet
  <2>6. \A t \in Puts : PutKnown(t)
    BY <2>2 DEF PutKnown, Tasks
  <2> QED BY <2>1, <2>3, <2>4, <2>5, <2>6, Counts DEF CountInv
<1>2. Typed /\ CountInv => TypeOK
  <2> SUFFICES ASSUME Typed, CountInv PROVE TypeOK
    OBVIOUS
  <2>1. asked \in 0..Cardinality(Events) + 1
    BY Counts, FS_CardinalityType DEF CountInv
  <2> QED
    BY <2>1 DEF TypeOK, Typed, HType, Stages, Begun, Writing, Looking
<1> QED BY <1>1, <1>2, NextTyped, NextCount, PTL DEF Spec

=============================================================================
