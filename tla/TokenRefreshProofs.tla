------------------------- MODULE TokenRefreshProofs -------------------------
(* For any number of processes, authorizations, starts and pairs and any     *)
(* faults: what a save stores is a pair the provider takes or the pair of    *)
(* the environment (NoStaleSave), the chain of refresh tokens stays whole    *)
(* unless a crash or a lost reply swallows the next one or a start stores    *)
(* the pair of the environment too late (ChainUnbroken), and no more rows    *)
(* appear than there are savers that found none (TypeOK).                    *)
EXTENDS TokenRefresh, FiniteSetTheorems, TLAPS

USE PairAssumption

Places == {"idle", "check", "refresh", "find", "write", "use", "refresh401", "find401",
           "write401", "use401", "reauth", "failed"}
Saving(p) == pc[p] \in {"find", "find401", "write", "write401"}

\* TypeOK without the number of rows, which is bounded by a count of savers.
Types ==
    /\ unique \in BOOLEAN /\ spentEnv \in BOOLEAN
    /\ env \in {0, 1}
    /\ issued \in Nat /\ env <= issued
    /\ good \subseteq 1..issued
    /\ row \in 0..issued
    /\ rows \in Nat
    /\ pc \in [Procs -> Places]
    /\ mem \in [Procs -> 0..issued]
    /\ lost \subseteq 1..issued

\* A pair on its way into the table is good, and nobody else has it: it cannot
\* be spent before it is stored. A start has the pair of the environment, which
\* nobody else saves.
Own(p) ==
    IF p \in Starts
    THEN mem[p] = env
    ELSE /\ mem[p] \in good
         /\ mem[p] # row /\ mem[p] # env
         /\ \A q \in Procs \ {p} : mem[q] # mem[p]
OwnPair == \A p \in Procs : Saving(p) => Own(p)

\* Where a process other than a saver has loaded the token.
Loaded == {"refresh", "find", "write", "use", "refresh401", "find401", "write401", "use401"}

SaverKnown(p) == pc[p] \in {"idle", "find", "write", "failed"}
ReaderKnown(p) ==
    /\ pc[p] \in Loaded \/ (pc[p] = "check" /\ p \notin Schedulers) => rows > 0
    /\ pc[p] \in {"write", "write401"} => found[p]

\* First saves that found no row and will INSERT one.
Pending == {p \in Savers : pc[p] = "write" /\ ~found[p]}
MaxRows == IF Savers = {} THEN 1 ELSE Cardinality(Savers)

\* Only savers insert, each of those that looked before the first row was there
\* at most once: whoever looks later finds a row, and whoever refreshes has
\* loaded one.
RowsInv ==
    /\ issued <= MaxPair
    /\ expired \subseteq 1..issued
    /\ found \in [Procs -> BOOLEAN]
    /\ \A p \in Savers : SaverKnown(p)
    /\ \A p \in Procs \ Savers : ReaderKnown(p)
    /\ rows > 0 => rows + Cardinality(Pending) <= MaxRows
    /\ unique => rows <= 1

\* The pair g comes after the stored one, and is on its way or swallowed.
Successor(g) ==
    g > row /\ (g \in lost \/ \E p \in Procs \ Savers : Saving(p) /\ mem[p] = g)

ChainKept ==
    rows = 1 /\ row \notin good /\ ~spentEnv => \E g \in 1..issued : Successor(g)

IInv == Types /\ OwnPair /\ ChainKept

LEMMA InitInv == Init => IInv
<1> SUFFICES ASSUME Init PROVE IInv
  OBVIOUS
<1>1. Types
  <2>1. /\ issued \in {0, 1} /\ env \in {0, 1} /\ env <= issued /\ good \subseteq 1..issued
        /\ row \in 0..issued /\ rows \in {0, 1} /\ lost = {}
        /\ unique \in BOOLEAN /\ spentEnv \in BOOLEAN
    <3>0. lost = {} /\ unique \in BOOLEAN /\ spentEnv \in BOOLEAN
      <4>1. spentEnv = FALSE /\ lost = {} /\ unique \in BOOLEAN
        BY DEF Init
      <4> QED BY <4>1
    <3>1. CASE issued = 0 /\ good = {} /\ row = NoPair /\ rows = 0 /\ env = NoPair
      BY <3>0, <3>1 DEF NoPair
    <3>2. CASE issued = 1 /\ good = {1} /\ row = 1 /\ rows = 1 /\ env = NoPair
      BY <3>0, <3>2 DEF NoPair
    <3>3. CASE /\ issued = 1 /\ good \in {{1}, {}} /\ row = NoPair /\ rows = 0
               /\ env = 1
      BY <3>0, <3>3 DEF NoPair
    <3> QED BY <3>1, <3>2, <3>3 DEF Init
  <2>2. pc \in [Procs -> Places] /\ mem \in [Procs -> 0..issued]
    BY <2>1 DEF Init, Places, NoPair
  <2> QED BY <2>1, <2>2 DEF Types
<1>2. OwnPair /\ ChainKept
  BY DEF Init, OwnPair, ChainKept, Saving, NoPair
<1> QED BY <1>1, <1>2 DEF IInv

\* A step that leaves the provider and the table alone: what p does with its
\* memory is to keep its pair, to drop it, or to load the stored one.
LEMMA LocalStep ==
  ASSUME IInv, NEW p \in Procs, NEW l \in Places, NEW g \in {0, row, mem[p]},
         UNCHANGED <<deployed, issued, good, table, lost>>,
         pc' = [pc EXCEPT ![p] = l],
         mem' = [mem EXCEPT ![p] = g],
         l \in {"find", "find401", "write", "write401"} => Saving(p) /\ g = mem[p],
         Saving(p) => \/ l \in {"find", "find401", "write", "write401"}
                      \/ rows # 1 \/ p \in Savers
  PROVE IInv'
<1>1. Types /\ OwnPair /\ ChainKept
  BY DEF IInv
<1>2. UNCHANGED <<unique, env, issued, good, row, rows, spentEnv, lost>>
  BY DEF deployed, table
<1> USE <1>2
<1>6. Types'
  BY <1>1 DEF Types
<1>3. /\ \A q \in Procs : q # p => (Saving(q)' <=> Saving(q)) /\ mem'[q] = mem[q]
      /\ Saving(p)' => Saving(p) /\ mem'[p] = mem[p]
      /\ mem'[p] = g
      /\ Saving(p) => Saving(p)' \/ rows # 1 \/ p \in Savers
  BY <1>1 DEF Types, Saving
<1>4. OwnPair'
  <2> SUFFICES ASSUME NEW q \in Procs, Saving(q)' PROVE Own(q)'
    BY DEF OwnPair
  <2>1. Saving(q) /\ mem'[q] = mem[q] /\ Own(q)
    BY <1>1, <1>3 DEF OwnPair
  <2>2. CASE q \in Starts
    BY <2>1, <2>2 DEF Own
  <2>3. CASE q \notin Starts
    <3>1. mem[q] # row /\ mem[q] # 0 /\ \A r \in Procs \ {q} : mem[r] # mem[q]
      BY <1>1, <2>1, <2>3 DEF Own, Types
    <3>2. ASSUME NEW r \in Procs \ {q} PROVE mem'[r] # mem'[q]
      BY <1>3, <2>1, <3>1
    <3> QED BY <2>1, <2>3, <3>2 DEF Own
  <2> QED BY <2>2, <2>3
<1>5. ChainKept'
  <2> SUFFICES ASSUME rows = 1, row \notin good, ~spentEnv PROVE \E d \in 1..issued : Successor(d)'
    BY DEF ChainKept
  <2>1. PICK d \in 1..issued : Successor(d)
    BY <1>1 DEF ChainKept
  <2>2. CASE d \in lost
    BY <2>1, <2>2 DEF Successor
  <2>3. ASSUME NEW q \in Procs \ Savers, Saving(q), mem[q] = d PROVE Successor(d)'
    <3>1. Saving(q)' /\ mem'[q] = d
      BY <1>3, <2>3
    <3> QED BY <2>1, <3>1 DEF Successor
  <2> QED BY <2>1, <2>2, <2>3 DEF Successor
<1> QED BY <1>4, <1>5, <1>6 DEF IInv

\* The provider's numbers grow, and those issued stay.
LEMMA OneMore ==
  ASSUME NEW n \in Nat
  PROVE /\ n + 1 \in Nat /\ n + 1 \in 1..(n + 1)
        /\ 0..n \subseteq 0..(n + 1) /\ 1..n \subseteq 1..(n + 1)
  OBVIOUS

\* The provider issues a pair to p, for an authorization or for the pair p has.
LEMMA IssueStep ==
  ASSUME IInv, NEW p \in Procs \ Starts, NEW spent, NEW l \in {"find", "find401"},
         Issue(spent), spent = {} \/ (spent = {mem[p]} /\ p \notin Savers), ~Saving(p),
         pc' = [pc EXCEPT ![p] = l],
         mem' = [mem EXCEPT ![p] = issued + 1],
         UNCHANGED <<deployed, table, lost>>
  PROVE IInv'
<1>1. /\ Types /\ OwnPair /\ ChainKept
      /\ UNCHANGED <<unique, env, row, rows, spentEnv, lost>>
  BY DEF IInv, deployed, table
<1>2. /\ issued' = issued + 1 /\ good' = (good \ spent) \cup {issued + 1}
      /\ issued \in Nat /\ issued + 1 \notin good /\ row < issued + 1 /\ env < issued + 1
      /\ \A q \in Procs : mem[q] < issued + 1
  BY <1>1 DEF Issue, Types
<1>3. Types'
  <2>1. /\ issued' \in Nat /\ row' \in 0..issued' /\ rows' \in Nat /\ env' <= issued'
        /\ good' \subseteq 1..issued' /\ lost' \subseteq 1..issued'
    <3>1. 1..issued \subseteq 1..issued' /\ issued + 1 \in 1..issued' /\ issued' \in Nat
      BY <1>2, OneMore
    <3>2. good' \subseteq 1..issued' /\ lost' \subseteq 1..issued'
      BY <1>1, <1>2, <3>1 DEF Types
    <3> QED BY <1>1, <1>2, <3>1, <3>2 DEF Types
  <2>2. pc' \in [Procs -> Places]
    BY <1>1 DEF Types, Places
  <2>3. mem' \in [Procs -> 0..issued']
    BY <1>1, <1>2 DEF Types
  <2> QED BY <1>1, <2>1, <2>2, <2>3 DEF Types
<1>4. /\ \A q \in Procs : q # p => (Saving(q)' <=> Saving(q)) /\ mem'[q] = mem[q]
      /\ Saving(p)' /\ mem'[p] = issued + 1
  BY <1>1 DEF Types, Saving
<1>5. OwnPair'
  <2> SUFFICES ASSUME NEW q \in Procs, Saving(q)' PROVE Own(q)'
    BY DEF OwnPair
  <2>1. CASE q = p
    <3>1. \A r \in Procs \ {q} : mem'[r] < mem'[q]
      BY <1>2, <1>4, <2>1
    <3>2. \A r \in Procs : mem[r] \in Nat
      BY <1>1 DEF Types
    <3>3. \A r \in Procs \ {q} : mem'[r] # mem'[q]
      BY <1>2, <1>4, <2>1, <3>1, <3>2
    <3>4. row # issued + 1 /\ env # issued + 1
      BY <1>1, <1>2 DEF Types
    <3> QED BY <1>1, <1>2, <1>4, <2>1, <3>3, <3>4 DEF Own
  <2>2. CASE q # p /\ q \in Starts
    BY <1>1, <1>4, <2>2 DEF OwnPair, Own
  <2>3. CASE q # p /\ q \notin Starts
    <3>1. /\ mem[q] \in good /\ mem[q] # row /\ mem[q] # env /\ mem[q] # mem[p]
          /\ \A r \in Procs \ {q} : mem[r] # mem[q]
      BY <1>1, <1>4, <2>3 DEF OwnPair, Own
    <3>2. mem[q] \in good' /\ mem[q] # issued + 1
      BY <1>2, <3>1
    <3>3. \A r \in Procs \ {q} : mem'[r] # mem'[q]
      BY <1>4, <2>3, <3>1, <3>2
    <3> QED BY <1>1, <1>4, <2>3, <3>1, <3>2, <3>3 DEF Own
  <2> QED BY <2>1, <2>2, <2>3
<1>6. ChainKept'
  <2> SUFFICES ASSUME rows = 1, row \notin good', ~spentEnv
               PROVE \E d \in 1..issued' : Successor(d)'
    BY <1>1 DEF ChainKept
  <2>1. CASE p \notin Savers
    <3>1. PICK d \in 1..issued' : d = issued + 1 /\ d > row
      BY <1>1, <1>2 DEF Types
    <3>2. Successor(d)'
      BY <1>1, <1>4, <2>1, <3>1 DEF Successor
    <3> QED BY <3>1, <3>2
  <2>2. CASE spent = {}
    <3>1. PICK d \in 1..issued : Successor(d)
      BY <1>1, <1>2, <2>2 DEF ChainKept
    <3>2. d \in 1..issued'
      BY <1>2, <3>1
    <3>3. CASE d \in lost
      BY <1>1, <3>1, <3>2, <3>3 DEF Successor
    <3>4. ASSUME NEW q \in Procs \ Savers, Saving(q), mem[q] = d PROVE Successor(d)'
      <4>1. Saving(q)' /\ mem'[q] = d
        BY <1>4, <3>4
      <4> QED BY <1>1, <3>1, <4>1 DEF Successor
    <3> QED BY <3>1, <3>2, <3>3, <3>4 DEF Successor
  <2> QED BY <2>1, <2>2
<1> QED BY <1>3, <1>5, <1>6 DEF IInv

LEMMA RefreshInv ==
  ASSUME IInv, RowsInv, NEW p \in Procs, Refresh(p)
  PROVE IInv'
<1>1. /\ Refreshing(p) /\ ~Saving(p) /\ Types
      /\ UNCHANGED <<deployed, table>> /\ UNCHANGED <<unique, env, row, rows, spentEnv>>
  BY DEF Refresh, Refreshing, Saving, deployed, table, IInv
<1>2. p \notin Savers /\ p \notin Starts
  BY <1>1 DEF RowsInv, SaverKnown, Refreshing, Savers
<1>3. ASSUME Issue({mem[p]}), ToFind(p, issued + 1), UNCHANGED lost PROVE IInv'
  <2>1. PICK l \in {"find", "find401"} : /\ pc' = [pc EXCEPT ![p] = l]
                                         /\ mem' = [mem EXCEPT ![p] = issued + 1]
    BY <1>3 DEF ToFind, Proceed
  <2> QED BY <1>1, <1>2, <1>3, <2>1, IssueStep
<1>4. ASSUME Issue({mem[p]}), Fails(p), lost' = lost \cup {issued + 1} PROVE IInv'
  <2>1. PICK l \in {"idle", "failed"} : /\ pc' = [pc EXCEPT ![p] = l]
                                        /\ mem' = [mem EXCEPT ![p] = 0]
    BY <1>4 DEF Fails, Leave, NoPair
  <2>2. /\ issued' = issued + 1 /\ good' = (good \ {mem[p]}) \cup {issued + 1}
        /\ issued \in Nat /\ row < issued + 1
    BY <1>1, <1>4 DEF Issue, Types
  <2>3. Types'
    <3>1. /\ issued' \in Nat /\ row' \in 0..issued' /\ rows' \in Nat /\ env' <= issued'
          /\ good' \subseteq 1..issued' /\ lost' \subseteq 1..issued'
      <4>1. 1..issued \subseteq 1..issued' /\ issued + 1 \in 1..issued' /\ issued' \in Nat
        BY <2>2, OneMore
      <4>2. good' \subseteq 1..issued' /\ lost' \subseteq 1..issued'
        BY <1>1, <1>4, <2>2, <4>1 DEF Types
      <4> QED BY <1>1, <2>2, <4>1, <4>2 DEF Types
    <3>2. pc' \in [Procs -> Places]
      BY <1>1, <2>1 DEF Types, Places
    <3>3. mem' \in [Procs -> 0..issued']
      BY <1>1, <2>1, <2>2 DEF Types
    <3> QED BY <1>1, <3>1, <3>2, <3>3 DEF Types
  <2>4. \A q \in Procs : /\ mem'[q] = IF q = p THEN 0 ELSE mem[q]
                         /\ Saving(q)' => Saving(q) /\ q # p
    BY <1>1, <2>1 DEF Types, Saving
  <2>5. OwnPair'
    <3> SUFFICES ASSUME NEW q \in Procs, Saving(q)' PROVE Own(q)'
      BY DEF OwnPair
    <3>1. Saving(q) /\ q # p /\ mem'[q] = mem[q] /\ Own(q)
      BY <2>4 DEF IInv, OwnPair
    <3>2. CASE q \in Starts
      BY <1>1, <3>1, <3>2 DEF Own
    <3>3. CASE q \notin Starts
      <4>1. /\ mem[q] \in good /\ mem[q] # row /\ mem[q] # env /\ mem[q] # 0
            /\ mem[q] # mem[p] /\ \A r \in Procs \ {q} : mem[r] # mem[q]
        BY <1>1, <3>1, <3>3 DEF Own, Types
      <4>2. \A r \in Procs \ {q} : mem'[r] # mem'[q]
        BY <2>4, <3>1, <4>1
      <4> QED BY <1>1, <2>2, <3>1, <3>3, <4>1, <4>2 DEF Own
    <3> QED BY <3>2, <3>3
  <2>6. PICK d \in 1..issued' : d = issued + 1 /\ d > row
    BY <1>1, <2>2 DEF Types
  <2>7. ChainKept'
    <3>1. Successor(d)'
      BY <1>1, <1>4, <2>6 DEF Successor
    <3> QED BY <2>6, <3>1 DEF ChainKept
  <2> QED BY <2>3, <2>5, <2>7 DEF IInv
<1>5. ASSUME Refused(p) \/ Fails(p), UNCHANGED <<issued, good, lost>> PROVE IInv'
  <2>1. PICK l \in {"reauth", "idle", "failed"} : /\ pc' = [pc EXCEPT ![p] = l]
                                                  /\ mem' = [mem EXCEPT ![p] = 0]
    BY <1>5 DEF Refused, Fails, Leave, NoPair
  <2>2. l \in Places
    BY DEF Places
  <2> QED BY <1>1, <1>5, <2>1, <2>2, LocalStep
<1> QED BY <1>3, <1>4, <1>5 DEF Refresh

\* Once a save is over its process keeps the pair or forgets it.
LEMMA SavedStep ==
  ASSUME Types, NEW p \in Procs, Saved(p)
  PROVE  \E l \in {"idle", "use", "use401"}, g \in {0, mem[p]} :
            pc' = [pc EXCEPT ![p] = l] /\ mem' = [mem EXCEPT ![p] = g]
<1>1. CASE p \in Clients \cup Callers
  <2>1. PICK l \in {"use", "use401"} : pc' = [pc EXCEPT ![p] = l] /\ UNCHANGED mem
    BY <1>1 DEF Saved, Goto
  <2>2. mem' = [mem EXCEPT ![p] = mem[p]]
    BY <2>1 DEF Types
  <2> QED BY <2>1, <2>2
<1>2. CASE p \notin Clients \cup Callers
  BY <1>2 DEF Saved, Leave, NoPair
<1> QED BY <1>1, <1>2

LEMMA WriteInv ==
  ASSUME IInv, RowsInv, NEW p \in Procs, Write(p)
  PROVE IInv' /\ (row' # row => row' \in good' \/ (row' = env /\ p \in Starts))
<1>1. /\ Saving(p) /\ UNCHANGED <<unique, env, issued, good, lost>> /\ UNCHANGED deployed
      /\ Types /\ OwnPair /\ Own(p)
  BY DEF Write, Saving, provider, deployed, IInv, OwnPair
<1>2. CASE Duplicate(p) /\ Leave(p, "failed") /\ UNCHANGED table
  <2>1. p \in Savers
    BY <1>2 DEF RowsInv, ReaderKnown, Write, Duplicate
  <2>2. /\ pc' = [pc EXCEPT ![p] = "failed"] /\ mem' = [mem EXCEPT ![p] = 0]
        /\ "failed" \in Places
    BY <1>2 DEF Leave, NoPair, Places
  <2>3. IInv'
    BY <1>1, <1>2, <2>1, <2>2, LocalStep
  <2> QED BY <1>2, <2>3 DEF table
<1>3. CASE /\ row' = mem[p] /\ rows' = IF found[p] THEN rows ELSE rows + 1
           /\ spentEnv' = (p \in Starts /\ mem[p] \notin good)
           /\ Saved(p)
  <2>1. PICK l \in {"idle", "use", "use401"}, g \in {0, mem[p]} :
           pc' = [pc EXCEPT ![p] = l] /\ mem' = [mem EXCEPT ![p] = g]
    BY <1>1, <1>3, SavedStep
  <2>2. /\ p \notin Starts => mem[p] \in good
        /\ p \in Starts => mem[p] = env
    BY <1>1 DEF Own
  <2>3. Types'
    <3>1. /\ issued' \in Nat /\ rows' \in Nat /\ row' \in 0..issued' /\ env' <= issued'
          /\ spentEnv' \in BOOLEAN /\ good' \subseteq 1..issued' /\ lost' \subseteq 1..issued'
      BY <1>1, <1>3 DEF Types
    <3>2. pc' \in [Procs -> Places]
      BY <1>1, <2>1 DEF Types, Places
    <3>3. mem' \in [Procs -> 0..issued']
      BY <1>1, <2>1 DEF Types
    <3> QED BY <1>1, <3>1, <3>2, <3>3 DEF Types
  <2>4. \A q \in Procs : /\ q # p => mem'[q] = mem[q]
                         /\ mem'[p] \in {0, mem[p]}
                         /\ Saving(q)' => Saving(q) /\ q # p
    BY <1>1, <2>1 DEF Types, Saving
  <2>5. OwnPair'
    <3> SUFFICES ASSUME NEW q \in Procs, Saving(q)' PROVE Own(q)'
      BY DEF OwnPair
    <3>1. Saving(q) /\ q # p /\ mem'[q] = mem[q] /\ Own(q)
      BY <1>1, <2>4 DEF OwnPair
    <3>2. CASE q \in Starts
      BY <1>1, <3>1, <3>2 DEF Own
    <3>3. CASE q \notin Starts
      <4>1. /\ mem[q] \in good /\ mem[q] # 0 /\ mem[q] # mem[p] /\ mem[q] # env
            /\ \A r \in Procs \ {q} : mem[r] # mem[q]
        BY <1>1, <3>1, <3>3 DEF Own, Types
      <4>2. \A r \in Procs \ {q} : mem'[r] # mem'[q]
        BY <2>4, <3>1, <4>1
      <4> QED BY <1>1, <1>3, <3>1, <3>3, <4>1, <4>2 DEF Own
    <3> QED BY <3>2, <3>3
  <2>6. ChainKept'
    BY <1>1, <1>3, <2>2 DEF ChainKept
  <2>7. row' \in good' \/ (row' = env /\ p \in Starts)
    BY <1>1, <1>3, <2>2
  <2> QED BY <2>3, <2>5, <2>6, <2>7 DEF IInv
<1> QED BY <1>2, <1>3 DEF Write

LEMMA FindInv ==
  ASSUME IInv, NEW p \in Procs, Find(p)
  PROVE IInv'
<1>1. /\ Finding(p) /\ Saving(p) /\ UNCHANGED <<deployed, issued, good, table, lost>>
      /\ Types /\ Own(p)
  BY DEF Find, Finding, Saving, provider, IInv, OwnPair
<1>2. CASE rows > 1 /\ Leave(p, "failed")
  <2>1. /\ pc' = [pc EXCEPT ![p] = "failed"] /\ mem' = [mem EXCEPT ![p] = 0]
        /\ rows # 1 /\ "failed" \in Places
    BY <1>2 DEF Leave, NoPair, Places
  <2> QED BY <1>1, <2>1, LocalStep
<1>3. ASSUME NEW b \in BOOLEAN, ToWrite(p, b) PROVE IInv'
  <2>1. PICK l \in {"write", "write401"} : pc' = [pc EXCEPT ![p] = l] /\ UNCHANGED mem
    BY <1>3 DEF ToWrite
  <2>2. mem' = [mem EXCEPT ![p] = mem[p]] /\ l \in Places
    BY <1>1, <2>1 DEF Types, Places
  <2> QED BY <1>1, <2>1, <2>2, LocalStep
<1>4. CASE row = mem[p] /\ Saved(p)
  <2>1. p \in Savers
    BY <1>1, <1>4 DEF Own, Savers
  <2>2. PICK l \in {"idle", "use", "use401"}, g \in {0, mem[p]} :
           pc' = [pc EXCEPT ![p] = l] /\ mem' = [mem EXCEPT ![p] = g]
    BY <1>1, <1>4, SavedStep
  <2>3. l \in Places
    BY DEF Places
  <2> QED BY <1>1, <2>1, <2>2, <2>3, LocalStep
<1> QED BY <1>2, <1>3, <1>4 DEF Find

LEMMA CrashInv ==
  ASSUME IInv, NEW p \in Procs, Crash(p)
  PROVE IInv'
<1>1. /\ pc' = [pc EXCEPT ![p] = "idle"] /\ mem' = [mem EXCEPT ![p] = 0]
      /\ lost' = IF Unsaved(p) THEN lost \cup {mem[p]} ELSE lost
      /\ UNCHANGED <<unique, env, issued, good, row, rows, spentEnv>>
      /\ Types /\ OwnPair /\ ChainKept
  BY DEF Crash, Leave, NoPair, deployed, provider, table, IInv
<1>2. /\ Saving(p) /\ p \notin Savers => lost' = lost \cup {mem[p]}
      /\ lost \subseteq lost' /\ lost' \subseteq lost \cup good
  BY <1>1 DEF Unsaved, Saving, OwnPair, Own, Savers
<1>3. Types'
  <2>1. lost' \subseteq 1..issued'
    BY <1>1, <1>2 DEF Types
  <2>2. pc' \in [Procs -> Places]
    BY <1>1 DEF Types, Places
  <2>3. mem' \in [Procs -> 0..issued']
    BY <1>1 DEF Types
  <2> QED BY <1>1, <2>1, <2>2, <2>3 DEF Types
<1>4. \A q \in Procs : /\ mem'[q] = IF q = p THEN 0 ELSE mem[q]
                       /\ Saving(q)' <=> Saving(q) /\ q # p
  BY <1>1 DEF Types, Saving
<1>5. OwnPair'
  <2> SUFFICES ASSUME NEW q \in Procs, Saving(q)' PROVE Own(q)'
    BY DEF OwnPair
  <2>1. Saving(q) /\ q # p /\ mem'[q] = mem[q] /\ Own(q)
    BY <1>1, <1>4 DEF OwnPair
  <2>2. CASE q \in Starts
    BY <1>1, <2>1, <2>2 DEF Own
  <2>3. CASE q \notin Starts
    <3>1. mem[q] # 0 /\ \A r \in Procs \ {q} : mem[r] # mem[q]
      BY <1>1, <2>1, <2>3 DEF Own, Types
    <3>2. \A r \in Procs \ {q} : mem'[r] # mem'[q]
      BY <1>4, <2>1, <3>1
    <3> QED BY <1>1, <2>1, <2>3, <3>2 DEF Own
  <2> QED BY <2>2, <2>3
<1>6. ChainKept'
  <2> SUFFICES ASSUME rows = 1, row \notin good, ~spentEnv
               PROVE \E d \in 1..issued : Successor(d)'
    BY <1>1 DEF ChainKept
  <2>1. PICK d \in 1..issued : Successor(d)
    BY <1>1 DEF ChainKept
  <2>2. CASE d \in lost
    BY <1>1, <1>2, <2>1, <2>2 DEF Successor
  <2>3. ASSUME NEW q \in Procs \ Savers, Saving(q), mem[q] = d PROVE Successor(d)'
    BY <1>1, <1>2, <1>4, <2>1, <2>3 DEF Successor
  <2> QED BY <2>1, <2>2, <2>3 DEF Successor
<1> QED BY <1>3, <1>5, <1>6 DEF IInv

LEMMA AuthorizeInv ==
  ASSUME IInv, NEW p \in Procs, Authorize(p)
  PROVE IInv'
<1>1. /\ ~Saving(p) /\ Issue({}) /\ UNCHANGED <<deployed, table, lost>>
      /\ pc' = [pc EXCEPT ![p] = "find"] /\ mem' = [mem EXCEPT ![p] = issued + 1]
  BY DEF Authorize, Saving, Proceed
<1>2. p \notin Starts
  BY RolesAssumption DEF Authorize
<1> QED BY <1>1, <1>2, IssueStep

\* What a start is about to save is the environment's pair, which nobody who
\* refreshes or authorizes has to save.
LEMMA EnsureInv ==
  ASSUME IInv, NEW p \in Procs, EnsureTokens(p)
  PROVE IInv'
<1>1. /\ ~Saving(p) /\ p \in Starts /\ p \in Savers
      /\ UNCHANGED <<deployed, issued, good, table, lost>>
      /\ UNCHANGED <<unique, env, row, rows, spentEnv>>
      /\ Types /\ OwnPair /\ ChainKept
  BY DEF EnsureTokens, Saving, Savers, deployed, provider, table, IInv
<1>2. CASE Leave(p, "failed")
  <2>1. /\ pc' = [pc EXCEPT ![p] = "failed"] /\ mem' = [mem EXCEPT ![p] = 0]
        /\ "failed" \in Places
    BY <1>2 DEF Leave, NoPair, Places
  <2> QED BY <1>1, <2>1, LocalStep
<1>3. CASE Proceed(p, "find", env)
  <2>1. pc' = [pc EXCEPT ![p] = "find"] /\ mem' = [mem EXCEPT ![p] = env]
    BY <1>3 DEF Proceed
  <2>2. /\ \A q \in Procs : q # p => (Saving(q)' <=> Saving(q)) /\ mem'[q] = mem[q]
        /\ mem'[p] = env
    BY <1>1, <2>1 DEF Types, Saving
  <2>3. Types'
    <3>1. env \in 0..issued
      BY <1>1 DEF Types
    <3>2. mem' \in [Procs -> 0..issued'] /\ pc' \in [Procs -> Places]
      BY <1>1, <2>1, <3>1 DEF Types, Places
    <3> QED BY <1>1, <3>2 DEF Types
  <2>4. OwnPair'
    <3> SUFFICES ASSUME NEW q \in Procs, Saving(q)' PROVE Own(q)'
      BY DEF OwnPair
    <3>1. CASE q \in Starts
      BY <1>1, <2>2, <3>1 DEF OwnPair, Own
    <3>2. CASE q \notin Starts
      <4>1. q # p /\ mem'[q] = mem[q] /\ Own(q)
        BY <1>1, <2>2, <3>2 DEF OwnPair
      <4>2. mem[q] # env /\ \A r \in Procs \ {q} : mem[r] # mem[q]
        BY <3>2, <4>1 DEF Own
      <4>3. \A r \in Procs \ {q} : mem'[r] # mem'[q]
        BY <2>2, <4>1, <4>2
      <4> QED BY <1>1, <3>2, <4>1, <4>3 DEF Own
    <3> QED BY <3>1, <3>2
  <2>5. ChainKept'
    <3> SUFFICES ASSUME rows = 1, row \notin good, ~spentEnv
                 PROVE \E d \in 1..issued : Successor(d)'
      BY <1>1 DEF ChainKept
    <3>1. PICK d \in 1..issued : Successor(d)
      BY <1>1 DEF ChainKept
    <3>2. CASE d \in lost
      BY <1>1, <3>1, <3>2 DEF Successor
    <3>3. ASSUME NEW q \in Procs \ Savers, Saving(q), mem[q] = d PROVE Successor(d)'
      BY <1>1, <2>2, <3>1, <3>3 DEF Successor
    <3> QED BY <3>1, <3>2, <3>3 DEF Successor
  <2> QED BY <2>3, <2>4, <2>5 DEF IInv
<1> QED BY <1>2, <1>3 DEF EnsureTokens

LEMMA OtherInv ==
  ASSUME IInv, NEW p \in Procs,
         \/ Open(p) \/ Check(p) \/ Use(p) \/ GiveUp(p) \/ SchedCheck(p) \/ SchedLoad(p)
  PROVE IInv'
<1>1. /\ ~Saving(p) /\ UNCHANGED <<deployed, issued, good, table, lost>> /\ Types
  BY DEF Open, Check, Use, GiveUp, SchedCheck, SchedLoad, Saving, provider, IInv
<1>2. \E l \in Places : \/ Proceed(p, l, row) /\ l \in {"check", "refresh"}
                        \/ Leave(p, l) /\ l \in {"failed", "idle"}
                        \/ Goto(p, l) /\ l \in {"refresh", "use", "refresh401", "check"}
  BY DEF Open, Check, Use, GiveUp, SchedCheck, SchedLoad, Loads, CannotLoad, Places
<1>3. PICK l \in Places \ {"find", "find401", "write", "write401"} :
         Proceed(p, l, row) \/ Leave(p, l) \/ Goto(p, l)
  BY <1>2
<1>4. \E g \in {0, row, mem[p]} : mem' = [mem EXCEPT ![p] = g]
  BY <1>1, <1>3 DEF Proceed, Leave, Goto, NoPair, Types
<1>5. pc' = [pc EXCEPT ![p] = l]
  BY <1>3 DEF Proceed, Leave, Goto
<1>6. PICK g \in {0, row, mem[p]} : mem' = [mem EXCEPT ![p] = g]
  BY <1>4
<1> QED BY <1>1, <1>5, <1>6, LocalStep

-----------------------------------------------------------------------------
LEMMA StillInv ==
  ASSUME IInv, UNCHANGED <<deployed, issued, good, table, pc, mem, lost>>
  PROVE IInv'
<1>1. /\ UNCHANGED <<unique, env, issued, good, row, rows, spentEnv, pc, mem, lost>>
      /\ Types /\ OwnPair /\ ChainKept
  BY DEF IInv, deployed, table
<1>2. Types'
  BY <1>1 DEF Types
<1>3. OwnPair'
  BY <1>1 DEF OwnPair, Own, Saving
<1>4. ChainKept'
  BY <1>1 DEF ChainKept, Successor, Saving
<1> QED BY <1>2, <1>3, <1>4 DEF IInv

LEMMA StepInv ==
  IInv /\ RowsInv /\ [Next]_vars =>
    /\ IInv'
    /\ row' # row => row' \in good' \/ (row' = env /\ \E p \in Starts : Write(p))
<1> SUFFICES ASSUME IInv, RowsInv, [Next]_vars
             PROVE  /\ IInv'
                    /\ row' # row =>
                         row' \in good' \/ (row' = env /\ \E p \in Starts : Write(p))
  OBVIOUS
<1>1. ASSUME NEW p \in Procs, Write(p)
      PROVE  IInv' /\ (row' # row => row' \in good' \/ (row' = env /\ p \in Starts))
  BY <1>1, WriteInv
<1>2. ASSUME NEW p \in Procs, Act(p), ~Write(p) PROVE IInv' /\ row' = row
  <2>1. IInv'
    BY <1>2, RefreshInv, FindInv, OtherInv DEF Act
  <2>2. row' = row
    BY <1>2 DEF Act, Open, Check, Use, GiveUp, SchedCheck, SchedLoad, Refresh, Find, table
  <2> QED BY <2>1, <2>2
<1>3. ASSUME NEW p \in Procs, Authorize(p) \/ EnsureTokens(p) PROVE IInv' /\ row' = row
  BY <1>3, AuthorizeInv, EnsureInv DEF EnsureTokens, Authorize, table
<1>4. ASSUME NEW p \in Procs, Crash(p) PROVE IInv' /\ row' = row
  BY <1>4, CrashInv DEF Crash, table
<1>5. ASSUME NEW g \in 1..MaxPair, Expire(g) PROVE IInv' /\ row' = row
  BY <1>5, StillInv DEF Expire, table
<1>6. ASSUME UNCHANGED vars PROVE IInv' /\ row' = row
  BY <1>6, StillInv DEF vars, deployed, table
<1>7. CASE \E p \in Procs : Write(p)
  BY <1>1, <1>7
<1>8. CASE ~ \E p \in Procs : Write(p)
  <2>1. IInv' /\ row' = row
    <3>1. ASSUME NEW p \in Procs, Act(p) PROVE IInv' /\ row' = row
      BY <1>2, <1>8, <3>1
    <3>2. CASE Next
      BY <1>3, <1>4, <1>5, <3>1, <3>2 DEF Next
    <3>3. Next \/ UNCHANGED vars
      BY DEF vars
    <3> QED BY <1>6, <3>2, <3>3
  <2> QED BY <2>1
<1> QED BY <1>7, <1>8

-----------------------------------------------------------------------------
\* The number of rows

LEMMA Counts ==
  /\ IsFiniteSet(Pending) /\ Cardinality(Pending) \in Nat
  /\ Cardinality(Pending) <= Cardinality(Savers)
  /\ MaxRows \in Nat /\ MaxRows > 0 /\ (Savers # {} => MaxRows = Cardinality(Savers))
<1>1. Pending \in SUBSET Savers
  BY DEF Pending
<1>2. IsFiniteSet(Pending) /\ Cardinality(Pending) <= Cardinality(Savers)
  BY <1>1, SaversAssumption, FS_Subset
<1>3. Cardinality(Pending) \in Nat /\ Cardinality(Savers) \in Nat
  BY <1>2, SaversAssumption, FS_CardinalityType
<1>4. Savers # {} => Cardinality(Savers) > 0
  BY <1>3, SaversAssumption, FS_EmptySet
<1> QED BY <1>2, <1>3, <1>4 DEF MaxRows

LEMMA InitRows == Init => RowsInv
<1> SUFFICES ASSUME Init PROVE RowsInv
  OBVIOUS
<1>1. /\ issued <= MaxPair /\ expired \subseteq 1..issued /\ found \in [Procs -> BOOLEAN]
      /\ \A p \in Procs : pc[p] = "idle"
  BY DEF Init
<1>2. Pending = {}
  BY <1>1 DEF Pending, Procs
<1>3. rows > 0 => rows + Cardinality(Pending) <= MaxRows
  BY <1>2, Counts, FS_EmptySet DEF Init
<1>4. unique => rows <= 1
  BY DEF Init
<1> QED BY <1>1, <1>3, <1>4 DEF RowsInv, SaverKnown, ReaderKnown, Loaded, Procs

\* What a step of process p does to the others, and to the rows.
LEMMA OneAtATime ==
  ASSUME IInv, RowsInv, NEW p \in Procs,
         Act(p) \/ Authorize(p) \/ EnsureTokens(p) \/ Crash(p)
  PROVE  /\ \A q \in Procs \ {p} : pc'[q] = pc[q] /\ found'[q] = found[q]
         /\ rows' = rows \/ (Write(p) /\ rows' = rows + 1)
         /\ found' \in [Procs -> BOOLEAN]
         /\ rows \in Nat
         /\ issued' \in {issued, issued + 1} /\ issued' <= MaxPair /\ UNCHANGED expired
<1> USE DEF IInv, Types, RowsInv
<1>1. CASE Write(p)
  BY <1>1 DEF Write, Saved, Goto, Leave, provider, table
<1>2. CASE Find(p)
  BY <1>2 DEF Find, ToWrite, Saved, Goto, Leave, provider, table
<1>3. CASE Refresh(p)
  <2>1. UNCHANGED <<row, rows, expired>>
    BY <1>3 DEF Refresh, table
  <2>2. issued' \in {issued, issued + 1} /\ issued' <= MaxPair
    BY <1>3 DEF Refresh, Issue
  <2>3. \E l, g : Proceed(p, l, g) \/ Leave(p, l)
    BY <1>3 DEF Refresh, ToFind, Fails, Refused
  <2> QED BY <2>1, <2>2, <2>3 DEF Proceed, Leave
<1>4. CASE Authorize(p)
  BY <1>4 DEF Authorize, Issue, Proceed, table
<1>5. CASE Crash(p) \/ EnsureTokens(p)
  BY <1>5 DEF Crash, EnsureTokens, Proceed, Leave, provider, table
<1>6. CASE Open(p) \/ Check(p) \/ Use(p) \/ GiveUp(p) \/ SchedCheck(p) \/ SchedLoad(p)
  <2>1. \E l : Proceed(p, l, row) \/ Leave(p, l) \/ Goto(p, l)
    BY <1>6 DEF Open, Check, Use, GiveUp, SchedCheck, SchedLoad, Loads
  <2>2. UNCHANGED <<provider, table>>
    BY <1>6 DEF Open, Check, Use, GiveUp, SchedCheck, SchedLoad
  <2> QED BY <2>1, <2>2 DEF Proceed, Leave, Goto, provider, table
<1> QED BY <1>1, <1>2, <1>3, <1>4, <1>5, <1>6 DEF Act

\* A saver does nothing but look, write and give up.
LEMMA SaverStep ==
  ASSUME IInv, RowsInv, NEW p \in Savers, Act(p) \/ Authorize(p) \/ EnsureTokens(p) \/ Crash(p)
  PROVE  SaverKnown(p)'
<1>1. /\ SaverKnown(p) /\ pc \in [Procs -> Places] /\ p \in Procs
      /\ p \notin Clients \cup Callers \cup Schedulers
  BY RolesAssumption DEF IInv, Types, RowsInv, Procs
<1> QED
  BY <1>1 DEF SaverKnown, Act, Authorize, EnsureTokens, Saved, Crash, Open, Check, Use,
         GiveUp, SchedCheck, SchedLoad, Refresh, Refreshing, Find, Finding, ToWrite,
         After401, Write, Leave, Goto, Proceed

\* Whoever is no saver saves only what it got for a token it had loaded, and
\* finds the row again.
LEMMA ReaderStep ==
  ASSUME IInv, RowsInv, NEW p \in Procs \ Savers, Act(p) \/ Crash(p)
  PROVE  ReaderKnown(p)'
<1>1. /\ ReaderKnown(p) /\ pc \in [Procs -> Places] /\ rows \in Nat
      /\ found \in [Procs -> BOOLEAN]
  BY DEF IInv, Types, RowsInv
<1> USE DEF ReaderKnown, Loaded
<1>2. CASE Open(p)
  BY <1>1, <1>2 DEF Open, Loads, Proceed, Leave, table
<1>3. CASE Check(p) \/ Use(p)
  <2>1. rows > 0 /\ UNCHANGED rows
    BY <1>1, <1>3, RolesAssumption DEF Check, Use, table
  <2> QED BY <1>1, <1>3, <2>1 DEF Check, Use, Goto, Leave
<1>4. CASE GiveUp(p) \/ Crash(p)
  BY <1>1, <1>4 DEF GiveUp, Crash, Leave
<1>5. CASE SchedCheck(p) \/ SchedLoad(p)
  BY <1>1, <1>5 DEF SchedCheck, SchedLoad, Loads, Proceed, Leave, Goto, table
<1>6. CASE Refresh(p)
  <2>1. rows > 0 /\ UNCHANGED rows
    BY <1>1, <1>6 DEF Refresh, Refreshing, table
  <2>2. PICK l : pc' = [pc EXCEPT ![p] = l] /\ l \notin {"write", "write401"}
    BY <1>6 DEF Refresh, ToFind, Fails, Refused, Proceed, Leave
  <2> QED BY <1>1, <2>1, <2>2
<1>7. CASE Find(p)
  <2>1. rows > 0 /\ UNCHANGED rows
    BY <1>1, <1>7 DEF Find, Finding, table
  <2>2. CASE ToWrite(p, TRUE)
    BY <1>1, <2>1, <2>2 DEF ToWrite
  <2>3. CASE Leave(p, "failed") \/ Saved(p)
    BY <1>1, <2>1, <2>3 DEF Leave, Saved, Goto
  <2>4. rows # 0
    BY <2>1
  <2> QED BY <1>7, <2>2, <2>3, <2>4, Zenon DEF Find
<1>8. CASE Write(p)
  <2>1. rows > 0 /\ rows' = rows /\ pc'[p] \notin {"write", "write401"}
    BY <1>1, <1>8 DEF Write, Saved, Duplicate, Goto, Leave, table
  <2> QED BY <1>1, <2>1
<1> QED BY <1>2, <1>3, <1>4, <1>5, <1>6, <1>7, <1>8 DEF Act

\* Only an INSERT makes a row, and with it one saver less is pending; once there
\* is a row nobody becomes pending any more.
LEMMA PendingStep ==
  ASSUME IInv, RowsInv, NEW p \in Procs,
         Act(p) \/ Authorize(p) \/ EnsureTokens(p) \/ Crash(p)
  PROVE  \/ rows' = rows /\ (rows = 0 \/ Pending' \subseteq Pending)
         \/ rows' = rows + 1 /\ p \in Pending /\ Pending' = Pending \ {p}
<1>1. /\ \A q \in Procs \ {p} : pc'[q] = pc[q] /\ found'[q] = found[q]
      /\ rows \in Nat
  BY OneAtATime
<1>2. /\ pc \in [Procs -> Places] /\ found \in [Procs -> BOOLEAN]
      /\ p \in Savers => SaverKnown(p)
      /\ p \notin Savers => ReaderKnown(p)
  BY DEF IInv, Types, RowsInv
<1>3. \A q \in Savers : q \in Procs
  BY DEF Procs
<1>4. p \notin Pending' => Pending' \subseteq Pending
  BY <1>1, <1>3 DEF Pending
<1>5. CASE Write(p)
  <2>1. p \notin Pending'
    BY <1>2, <1>5 DEF Write, Saved, Goto, Leave, Pending
  <2>2. CASE found[p] \/ Duplicate(p)
    BY <1>4, <1>5, <2>1, <2>2 DEF Write, table
  <2>3. CASE ~found[p] /\ ~Duplicate(p)
    <3>1. p \in Pending
      BY <1>2, <1>5, <2>3 DEF Write, SaverKnown, ReaderKnown, Pending
    <3>2. \A q \in Pending \ {p} : q \in Pending'
      BY <1>1, <1>3 DEF Pending
    <3> QED BY <1>4, <1>5, <2>1, <2>3, <3>1, <3>2 DEF Write
  <2> QED BY <2>2, <2>3
<1>6. CASE Find(p)
  <2>1. rows' = rows
    BY <1>6 DEF Find, table
  <2>2. rows > 0 => p \notin Pending'
    <3>1. CASE ToWrite(p, TRUE)
      <4>1. found'[p] = TRUE
        BY <1>2, <3>1 DEF ToWrite
      <4> QED BY <4>1 DEF Pending
    <3>2. CASE Leave(p, "failed") \/ Saved(p)
      BY <1>2, <3>2 DEF Pending, Leave, Saved, Goto
    <3>3. rows > 0 => rows # 0
      OBVIOUS
    <3> QED BY <1>6, <3>1, <3>2, <3>3, Zenon DEF Find
  <2> QED BY <1>1, <1>4, <2>1, <2>2
<1>7. CASE ~Write(p) /\ ~Find(p)
  <2>1. rows' = rows
    BY <1>7, OneAtATime
  <2>2. PICK l : pc' = [pc EXCEPT ![p] = l] /\ l \notin {"write", "write401"}
    <3>1. CASE Refresh(p)
      BY <3>1 DEF Refresh, ToFind, Fails, Refused, Leave, Proceed
    <3>2. CASE Authorize(p) \/ EnsureTokens(p) \/ Crash(p)
      BY <3>2 DEF Authorize, EnsureTokens, Crash, Leave, Proceed
    <3>3. CASE Open(p) \/ Check(p) \/ Use(p) \/ GiveUp(p)
      BY <3>3 DEF Open, Check, Use, GiveUp, Loads, Leave, Goto, Proceed
    <3>4. CASE SchedCheck(p) \/ SchedLoad(p)
      BY <3>4 DEF SchedCheck, SchedLoad, Loads, Leave, Goto, Proceed
    <3> QED BY <1>7, <3>1, <3>2, <3>3, <3>4 DEF Act
  <2>3. p \notin Pending'
    BY <1>2, <2>2 DEF Pending
  <2> QED BY <1>4, <2>1, <2>3
<1> QED BY <1>5, <1>6, <1>7

LEMMA CountStep ==
  ASSUME IInv, RowsInv, NEW p \in Procs,
         Act(p) \/ Authorize(p) \/ EnsureTokens(p) \/ Crash(p)
  PROVE  (rows > 0 => rows + Cardinality(Pending) <= MaxRows)'
<1>1. rows \in Nat /\ (rows > 0 => rows + Cardinality(Pending) <= MaxRows)
  BY DEF IInv, Types, RowsInv
<1>2. /\ Cardinality(Pending') \in Nat /\ Cardinality(Pending') <= Cardinality(Savers)
      /\ MaxRows' = MaxRows
  <2>1. Pending' \in SUBSET Savers
    BY DEF Pending
  <2>2. IsFiniteSet(Pending') /\ Cardinality(Pending') <= Cardinality(Savers)
    BY <2>1, SaversAssumption, FS_Subset
  <2> QED BY <2>2, FS_CardinalityType DEF MaxRows
<1>3. CASE rows' = rows /\ (rows = 0 \/ Pending' \subseteq Pending)
  <2>1. Pending' \subseteq Pending => Cardinality(Pending') <= Cardinality(Pending)
    BY Counts, FS_Subset
  <2> HIDE DEF MaxRows
  <2> QED BY <1>1, <1>2, <1>3, <2>1, Counts
<1>4. CASE rows' = rows + 1 /\ p \in Pending /\ Pending' = Pending \ {p}
  <2>1. Cardinality(Pending') = Cardinality(Pending) - 1
    BY <1>4, Counts, FS_RemoveElement
  <2>2. Savers # {}
    BY <1>4 DEF Pending
  <2> QED BY <1>1, <1>2, <1>4, <2>1, <2>2, Counts
<1> QED BY <1>3, <1>4, PendingStep

\* The unique constraint turns the second INSERT away.
LEMMA OneRowStep ==
  ASSUME IInv, RowsInv, NEW p \in Procs,
         Act(p) \/ Authorize(p) \/ EnsureTokens(p) \/ Crash(p)
  PROVE  unique' => rows' <= 1
<1>1. unique' = unique
  BY DEF Act, Open, Check, Use, GiveUp, SchedCheck, SchedLoad, Refresh, Find, Write,
         Authorize, EnsureTokens, Crash, deployed
<1>2. rows \in Nat /\ (unique => rows <= 1)
  BY DEF IInv, Types, RowsInv
<1>3. CASE Write(p)
  BY <1>1, <1>2, <1>3 DEF Write, Duplicate, table
<1>4. CASE ~Write(p)
  BY <1>1, <1>2, <1>4, OneAtATime
<1> QED BY <1>3, <1>4

LEMMA NextRows == IInv /\ RowsInv /\ [Next]_vars => RowsInv'
<1> SUFFICES ASSUME IInv, RowsInv, [Next]_vars PROVE RowsInv'
  OBVIOUS
<1>1. ASSUME NEW p \in Procs,
             Act(p) \/ Authorize(p) \/ EnsureTokens(p) \/ Crash(p) PROVE RowsInv'
  <2>1. /\ \A q \in Procs \ {p} : pc'[q] = pc[q]
        /\ \A q \in Procs \ {p} : found'[q] = found[q]
        /\ rows \in Nat /\ rows' \in {rows, rows + 1}
    BY <1>1, OneAtATime
  <2>2. issued' <= MaxPair /\ expired' \subseteq 1..issued' /\ found' \in [Procs -> BOOLEAN]
    <3>1. issued \in Nat /\ issued' \in {issued, issued + 1} /\ expired' = expired
      BY <1>1, OneAtATime DEF IInv, Types
    <3>2. 1..issued \subseteq 1..issued'
      BY <3>1
    <3> QED BY <1>1, <3>1, <3>2, OneAtATime DEF RowsInv
  <2>3. ASSUME NEW q \in Savers PROVE SaverKnown(q)'
    <3>1. CASE q = p
      BY <1>1, <3>1, SaverStep
    <3>2. CASE q # p
      BY <2>1, <3>2 DEF RowsInv, SaverKnown, Procs
    <3> QED BY <3>1, <3>2
  <2>4. ASSUME NEW q \in Procs \ Savers PROVE ReaderKnown(q)'
    <3>1. CASE q = p
      <4>1. ~Authorize(p)
        BY <2>4, <3>1 DEF Authorize, Savers
      <4>2. ~EnsureTokens(p)
        BY <2>4, <3>1 DEF EnsureTokens, Savers
      <4> QED BY <1>1, <3>1, <4>1, <4>2, ReaderStep
    <3>2. CASE q # p
      BY <2>1, <3>2 DEF RowsInv, ReaderKnown
    <3> QED BY <3>1, <3>2
  <2>5. (rows > 0 => rows + Cardinality(Pending) <= MaxRows)'
    BY <1>1, CountStep
  <2>6. unique' => rows' <= 1
    BY <1>1, OneRowStep
  <2> QED BY <2>2, <2>3, <2>4, <2>5, <2>6 DEF RowsInv
<1>2. ASSUME UNCHANGED <<unique, issued, rows, pc, found>>, expired' \subseteq 1..issued
      PROVE RowsInv'
  BY <1>2 DEF RowsInv, SaverKnown, ReaderKnown, Pending, MaxRows
<1>3. ASSUME NEW g \in 1..MaxPair, Expire(g) PROVE RowsInv'
  BY <1>2, <1>3 DEF Expire, deployed, table, RowsInv
<1>4. CASE UNCHANGED vars
  BY <1>2, <1>4 DEF vars, RowsInv
<1> QED BY <1>1, <1>3, <1>4 DEF Next

LEMMA Inductive == Spec => [](IInv /\ RowsInv)
<1>1. Init => IInv /\ RowsInv
  BY InitInv, InitRows
<1>2. (IInv /\ RowsInv) /\ [Next]_vars => (IInv /\ RowsInv)'
  BY StepInv, NextRows
<1> QED BY <1>1, <1>2, PTL DEF Spec

\* token_store.py, oauth2.py, amo_client.py: without a lock, whoever refreshes
\* at once, a save puts no spent pair over a good one, but for ensure_tokens'.
THEOREM SaveIsFresh == Spec => NoStaleSave
<1>1. (IInv /\ RowsInv) /\ [Next]_vars =>
        [row' # row => row' \in good' \/ (row' = env /\ \E p \in Starts : Write(p))]_vars
  BY StepInv
<1> QED BY <1>1, Inductive, PTL DEF Spec, NoStaleSave

\* The stored refresh token is one the provider takes, or its successor is on
\* its way, or a crash or a lost reply has swallowed it, or a start has stored
\* the pair of the environment when it was spent.
THEOREM ChainOfTokens == Spec => []ChainUnbroken
<1>1. IInv => ChainUnbroken
  <2> SUFFICES ASSUME IInv, rows = 1, row \notin good, ~spentEnv
               PROVE Broken \/ \E p \in Procs : Unsaved(p)
    BY DEF ChainUnbroken
  <2>1. PICK g \in 1..issued : Successor(g)
    BY DEF IInv, ChainKept
  <2>2. CASE g \in lost
    BY <2>1, <2>2 DEF Successor, Broken
  <2>3. ASSUME NEW p \in Procs \ Savers, Saving(p) PROVE Unsaved(p)
    BY <2>3 DEF IInv, OwnPair, Own, Saving, Unsaved, Savers
  <2> QED BY <2>1, <2>2, <2>3 DEF Successor
<1> QED BY <1>1, Inductive, PTL

\* Every variable has its type; in particular there are no more rows than
\* processes that save a first pair, as only they INSERT, once each.
THEOREM TypeCorrect == Spec => []TypeOK
<1>1. IInv /\ RowsInv => TypeOK
  <2> SUFFICES ASSUME IInv, RowsInv PROVE rows \in 0..MaxRows /\ issued \in 0..MaxPair
    BY Zenon DEF IInv, Types, RowsInv, TypeOK, MaxRows, Places, NoPair
  <2> QED BY Counts DEF IInv, Types, RowsInv
<1> QED BY Inductive, InitRows, NextRows, <1>1, PTL DEF Spec

=============================================================================
