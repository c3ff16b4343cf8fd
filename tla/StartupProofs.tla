--------------------------- MODULE StartupProofs ---------------------------
(* Starts of any number of API processes, for any settings and any number of *)
(* accounts and failures: TypeOK holds, and what the starts leave unset they *)
(* have noted as missed (StartLeavesHooks).                                  *)
EXTENDS Startup, TLAPS

\* Where a process holds the id of a subscription it has read.
Holding == {"hhPut", "hhPutUrl", "hhDelete", "hhRepost"}

\* The HeadHunter loop is busy with employers, the Avito loop with accounts.
OwnerKnown(p) ==
    /\ pc[p] \in HhCalls \cup {"hhRefresh"} => owner[p] \in HhOwners
    /\ pc[p] \in {"avRefresh", "messenger", "applications"} => owner[p] \in AvitoOwners
    /\ pc[p] \in HhSteps \cup {"down"} => rest[p] \subseteq HhOwners
    /\ pc[p] \in AvitoSteps \ {"avOwners"} => rest[p] \subseteq AvitoOwners
OwnersKnown == \A p \in Apis : OwnerKnown(p)

\* The id is that of a subscription that existed when it was read.
IdKnown(p) ==
    IF pc[p] \in Holding THEN owner[p] \in HhOwners /\ id[p] # NoId ELSE id[p] = NoId
IdsKnown == \A p \in Apis : IdKnown(p)

IInv == TypeOK /\ OwnersKnown /\ IdsKnown

USE BoundsAssumption, OwnersAssumption DEF NoId, HhSteps, settings, tokens

LEMMA InitInv == Init => IInv
<1> SUFFICES ASSUME Init PROVE IInv
  OBVIOUS
<1>1. TypeOK
  <2> PICK k \in [HhOwners -> {"none", "other", "old", "ours"}] :
        sub = [o \in HhOwners |-> [kind |-> k[o], id |-> IF k[o] = "none" THEN 0 ELSE 1]]
    BY DEF Init
  <2>1. /\ sub \in [HhOwners -> [kind : {"none", "other", "old", "ours"}, id : 0..MaxId]]
        /\ \A o \in HhOwners : sub[o].kind = "none" <=> sub[o].id = NoId
    OBVIOUS
  <2>2. lastId \in [HhOwners -> 0..MaxId]
    BY <2>1 DEF Init
  <2>3. /\ config \in Configs /\ accounts \subseteq HhOwners \cup AvitoOwners
        /\ stale \subseteq accounts /\ dead \subseteq accounts /\ beaten \subseteq Apis
        /\ avito \subseteq Hooks /\ operator \in BOOLEAN /\ troubles \in 0..MaxTroubles
    <3>1. avito = {} /\ operator = FALSE /\ troubles = 0 /\ dead \in SUBSET accounts
          /\ stale = {} /\ beaten = {} /\ config \in Configs
          /\ accounts \in SUBSET (HhOwners \cup AvitoOwners)
      BY DEF Init
    <3>2. 0 \in 0..MaxTroubles
      OBVIOUS
    <3> HIDE BoundsAssumption
    <3> QED BY <3>1, <3>2
  <2>4. /\ pc \in [Apis -> {"down"} \cup HhSteps \cup AvitoSteps \cup Late]
        /\ rest \in [Apis -> SUBSET accounts]
        /\ owner \in [Apis -> accounts \cup {Nobody}]
        /\ id \in [Apis -> 0..MaxId] /\ try \in [Apis -> 0..Retries - 1]
        /\ missed \in [Apis -> SUBSET (HhOwners \cup Hooks \cup {Nobody})]
    <3>1. 0 \in 0..Retries - 1 /\ 0 \in 0..MaxId
      OBVIOUS
    <3> QED BY <3>1 DEF Init
  <2> QED BY <2>1, <2>2, <2>3, <2>4 DEF TypeOK
<1>2. OwnersKnown /\ IdsKnown
  BY DEF Init, OwnersKnown, OwnerKnown, HhCalls, AvitoSteps, IdsKnown, IdKnown, Holding
<1> QED BY <1>1, <1>2 DEF IInv

-----------------------------------------------------------------------------
\* The types of a process's own variables, of what the providers keep, and of
\* the rest.
ProcessTypes ==
    /\ pc \in [Apis -> {"down"} \cup HhSteps \cup AvitoSteps \cup Late]
    /\ rest \in [Apis -> SUBSET accounts]
    /\ owner \in [Apis -> accounts \cup {Nobody}]
    /\ id \in [Apis -> 0..MaxId]
    /\ try \in [Apis -> 0..Retries - 1]
SubTypes ==
    /\ sub \in [HhOwners -> [kind : {"none", "other", "old", "ours"}, id : 0..MaxId]]
    /\ \A o \in HhOwners : sub[o].kind = "none" <=> sub[o].id = NoId
    /\ lastId \in [HhOwners -> 0..MaxId]
TokenTypes ==
    /\ config \in Configs
    /\ accounts \subseteq HhOwners \cup AvitoOwners
    /\ stale \subseteq accounts /\ dead \subseteq accounts
    /\ beaten \subseteq Apis
OtherTypes ==
    /\ avito \subseteq Hooks
    /\ operator \in BOOLEAN
    /\ missed \in [Apis -> SUBSET (HhOwners \cup Hooks \cup {Nobody})]
    /\ troubles \in 0..MaxTroubles

LEMMA TypeParts == TypeOK <=> ProcessTypes /\ SubTypes /\ TokenTypes /\ OtherTypes
  BY DEF TypeOK, ProcessTypes, SubTypes, TokenTypes, OtherTypes

\* No start changes the settings or the accounts.
LEMMA SettingsKept ==
  ASSUME NEW p \in Apis, OnStartup(p) \/ Fails(p)
  PROVE UNCHANGED settings
<1>1. CASE HhStep(p)
  <2>1. CASE HhAccess(p) \/ HhRefresh(p) \/ HhFind(p) \/ HhPut(p)
    BY <2>1 DEF HhAccess, HhRefresh, HhFind, HhPut
  <2>2. CASE HhPost(p) \/ HhList(p) \/ HhPutUrl(p) \/ HhDelete(p) \/ HhRepost(p)
    BY <2>2 DEF HhPost, HhList, HhPutUrl, HhDelete, HhRepost
  <2> QED BY <1>1, <2>1, <2>2 DEF HhStep
<1>2. CASE AvitoStep(p)
  BY <1>2 DEF AvitoStep, ListAvitoOwners, AvitoAccess, AvitoRefresh, SetHook
<1>3. CASE Start(p) \/ SetOperator(p) \/ Connect(p)
  BY <1>3 DEF Start, SetOperator, Connect
<1>4. CASE Fails(p)
  BY <1>4 DEF Fails, HhFails, HookFails, OperatorFails, Crash
<1> QED BY <1>1, <1>2, <1>3, <1>4 DEF OnStartup

LEMMA ProcessStep ==
  ASSUME ProcessTypes, SubTypes, TokenTypes, NEW p \in Apis, OnStartup(p) \/ Fails(p)
  PROVE ProcessTypes'
<1> USE DEF ProcessTypes, HhCalls, AvitoSteps, Late
<1>1. CASE Start(p)
  BY <1>1 DEF Start, TokenTypes
<1>2. CASE HhAccess(p)
  BY <1>2 DEF HhAccess, Leave
<1>3. CASE HhFind(p)
  <2> owner[p] \in HhOwners /\ sub[owner[p]].id \in 0..MaxId
    BY <1>3 DEF HhFind, Hh, SubTypes
  <2> QED BY <1>3 DEF HhFind, Leave, Goto
<1>4. CASE HhPut(p) \/ HhPutUrl(p)
  BY <1>4 DEF HhPut, HhPutUrl, Put, Leave, Skip, Goto
<1>5. CASE HhPost(p) \/ HhRepost(p)
  BY <1>5 DEF HhPost, HhRepost, Leave, Skip, Goto
<1>6. CASE HhList(p)
  <2> owner[p] \in HhOwners /\ sub[owner[p]].id \in 0..MaxId
    BY <1>6 DEF HhList, Hh, SubTypes
  <2> QED BY <1>6 DEF HhList, Skip
<1>7. CASE HhDelete(p)
  BY <1>7 DEF HhDelete, Goto
<1>8. CASE ListAvitoOwners(p) \/ AvitoAccess(p)
  BY <1>8 DEF ListAvitoOwners, AvitoAccess, Leave, TokenTypes
<1>9. CASE SetHook(p, "messenger") \/ SetHook(p, "applications")
  BY <1>9 DEF SetHook, Onward, Skip, Goto
<1>10. CASE SetOperator(p) \/ OperatorFails(p)
  <2>1. CASE SetOperator(p)
    BY <2>1 DEF SetOperator
  <2>2. CASE /\ UNCHANGED <<pc, rest, owner, id>>
             /\ try[p] + 1 < Retries /\ try' = [try EXCEPT ![p] = @ + 1]
    <3> try[p] + 1 \in 0..Retries - 1
      BY <2>2
    <3> UNCHANGED settings
      BY SettingsKept
    <3> QED BY <2>2
  <2>3. CASE Down(p)
    <3> 0 \in 0..Retries - 1 /\ 0 \in 0..MaxId
      OBVIOUS
    <3> UNCHANGED settings
      BY SettingsKept
    <3> QED BY <2>3 DEF Down
  <2> QED BY <1>10, <2>1, <2>2, <2>3 DEF OperatorFails
<1>15. CASE Connect(p)
  BY <1>15 DEF Connect, Goto
<1>11. CASE HhFails(p)
  BY <1>11 DEF HhFails, Skip
<1>12. CASE HookFails(p, "messenger") \/ HookFails(p, "applications")
  BY <1>12 DEF HookFails, AfterError, Onward, Skip, Goto, Down
<1>13. CASE Crash(p)
  BY <1>13 DEF Crash, Down
<1>14. CASE HhRefresh(p) \/ AvitoRefresh(p)
  BY <1>14 DEF HhRefresh, AvitoRefresh, Goto, Down, Skip
<1> QED
  BY <1>1, <1>2, <1>3, <1>4, <1>5, <1>6, <1>7, <1>8, <1>9, <1>10, <1>11, <1>12, <1>13, <1>14,
     <1>15
     DEF OnStartup, HhStep, AvitoStep, Fails

LEMMA OursTyped ==
  ASSUME SubTypes, NEW o \in HhOwners, sub[o].id # NoId, lastId' = lastId,
         sub' = [sub EXCEPT ![o].kind = "ours"]
  PROVE SubTypes'
  BY DEF SubTypes

LEMMA SubStep ==
  ASSUME ProcessTypes, SubTypes, OwnersKnown, IdsKnown, NEW p \in Apis, OnStartup(p) \/ Fails(p)
  PROVE SubTypes'
<1> USE DEF SubTypes
<1>1. CASE UNCHANGED <<sub, lastId>>
  BY <1>1
<1>2. CASE HhPut(p)
  <2> owner[p] \in HhOwners /\ id[p] # NoId
    BY <1>2 DEF HhPut, Hh, IdsKnown, IdKnown, Holding
  <2> QED BY <1>2 DEF HhPut, Put
<1>3. CASE HhPutUrl(p)
  <2> owner[p] \in HhOwners /\ id[p] # NoId
    BY <1>3 DEF HhPutUrl, Hh, IdsKnown, IdKnown, Holding
  <2>1. \/ sub' = [sub EXCEPT ![owner[p]].kind = "ours"] /\ sub[owner[p]].id = id[p]
        \/ sub' = sub
    BY <1>3 DEF HhPutUrl, Put
  <2>2. lastId' = lastId
    BY <1>3 DEF HhPutUrl
  <2> QED BY <2>1, <2>2, OursTyped
<1>4. ASSUME NEW o \in HhOwners, Create(o) PROVE SubTypes'
  BY <1>4 DEF Create
<1>5. CASE HhPost(p)
  BY <1>1, <1>4, <1>5 DEF HhPost, Hh
<1>6. CASE HhRepost(p)
  BY <1>1, <1>4, <1>6 DEF HhRepost, Hh
<1>7. CASE HhDelete(p)
  BY <1>1, <1>7 DEF HhDelete, Deleted, Hh
<1>8. CASE HhFails(p)
  <2> owner[p] \in HhOwners
    BY <1>8 DEF HhFails, OwnersKnown, OwnerKnown
  <2> pc[p] \in {"hhPut", "hhPutUrl"} => id[p] # NoId
    BY DEF IdsKnown, IdKnown, Holding
  <2>1. \/ UNCHANGED <<sub, lastId>>
        \/ /\ pc[p] \in {"hhPut", "hhPutUrl"} /\ sub[owner[p]].id = id[p]
           /\ sub' = [sub EXCEPT ![owner[p]].kind = "ours"] /\ lastId' = lastId
        \/ Deleted(p) /\ lastId' = lastId
        \/ Create(owner[p])
    BY <1>8 DEF HhFails
  <2>2. CASE /\ pc[p] \in {"hhPut", "hhPutUrl"} /\ sub[owner[p]].id = id[p]
             /\ sub' = [sub EXCEPT ![owner[p]].kind = "ours"] /\ lastId' = lastId
    <3>1. owner[p] \in HhOwners /\ sub[owner[p]].id # NoId
      BY <2>2
    <3> QED BY <2>2, <3>1, OursTyped
  <2>3. CASE Deleted(p) /\ lastId' = lastId
    BY <2>3 DEF Deleted
  <2> QED BY <1>1, <1>4, <2>1, <2>2, <2>3
<1> QED
  BY <1>1, <1>2, <1>3, <1>5, <1>6, <1>7, <1>8
     DEF OnStartup, HhStep, AvitoStep, Fails, Start, HhAccess, HhRefresh, HhFind,
         HhList, ListAvitoOwners, AvitoAccess, AvitoRefresh, SetHook, SetOperator, Connect,
         HookFails, OperatorFails, Crash, remote

\* Only an account's own owner can become stale or dead.
LEMMA TokenStep ==
  ASSUME ProcessTypes, TokenTypes, OwnersKnown, NEW p \in Apis, OnStartup(p) \/ Fails(p)
  PROVE TokenTypes'
<1> USE DEF TokenTypes
<1>1. UNCHANGED settings
  BY SettingsKept
<1>2. CASE UNCHANGED tokens
  BY <1>1, <1>2
<1>3. CASE Untouched(p)
  BY <1>1, <1>3 DEF Untouched
<1>4. CASE Refreshed(p)
  BY <1>1, <1>4 DEF Refreshed, Holders
<1>5. CASE Unsaved(p) /\ pc[p] \in {"hhRefresh", "avRefresh"}
  <2> owner[p] \in accounts
    BY <1>5 DEF OwnersKnown, OwnerKnown, ProcessTypes
  <2> QED BY <1>1, <1>5 DEF Unsaved
<1>6. CASE HhRefresh(p) \/ AvitoRefresh(p) \/ Crash(p)
  BY <1>2, <1>3, <1>4, <1>5, <1>6 DEF HhRefresh, AvitoRefresh, Crash, Hh
<1>7. CASE HhStep(p) /\ ~HhRefresh(p)
  BY <1>2, <1>7
     DEF HhStep, HhAccess, HhFind, HhPut, HhPost, HhList, HhPutUrl, HhDelete, HhRepost
<1>8. CASE AvitoStep(p) /\ ~AvitoRefresh(p)
  BY <1>2, <1>8 DEF AvitoStep, ListAvitoOwners, AvitoAccess, SetHook
<1>9. CASE Start(p) \/ SetOperator(p) \/ Connect(p)
  BY <1>2, <1>9 DEF Start, SetOperator, Connect
<1>10. CASE Fails(p) /\ ~Crash(p)
  BY <1>2, <1>10 DEF Fails, HhFails, HookFails, OperatorFails
<1> QED BY <1>6, <1>7, <1>8, <1>9, <1>10 DEF OnStartup

LEMMA OtherStep ==
  ASSUME ProcessTypes, OtherTypes, OwnersKnown, NEW p \in Apis, OnStartup(p) \/ Fails(p)
  PROVE OtherTypes'
<1> USE DEF OtherTypes
<1>2. troubles' \in 0..MaxTroubles
  <2>1. CASE Trouble
    BY <2>1 DEF Trouble
  <2>2. CASE HhStep(p)
    BY <2>1, <2>2
       DEF HhStep, HhAccess, HhRefresh, HhFind, HhPut, HhPost, HhList, HhPutUrl, HhDelete,
           HhRepost
  <2>3. CASE AvitoStep(p)
    BY <2>1, <2>3 DEF AvitoStep, ListAvitoOwners, AvitoAccess, AvitoRefresh, SetHook
  <2>4. CASE Start(p) \/ SetOperator(p) \/ Connect(p)
    BY <2>1, <2>4 DEF Start, SetOperator, Connect
  <2>5. CASE Fails(p)
    BY <2>1, <2>5 DEF Fails, HhFails, HookFails, OperatorFails, Crash
  <2> QED BY <2>2, <2>3, <2>4, <2>5 DEF OnStartup
<1>3. ASSUME NEW h \in {"messenger", "applications"}, pc[p] = h
      PROVE <<owner[p], h>> \in Hooks
  BY <1>3 DEF OwnersKnown, OwnerKnown, Hooks, HooksOf
<1>4. operator' \in BOOLEAN /\ avito' \subseteq Hooks
  BY <1>3 DEF OnStartup, HhStep, AvitoStep, Fails, Start, HhAccess, HhRefresh, HhFind, HhPut,
              HhPost, HhList, HhPutUrl, HhDelete, HhRepost, HhFails, ListAvitoOwners, AvitoAccess,
              AvitoRefresh, SetHook, SetOperator, Connect, HookFails, OperatorFails, Crash,
              remote
<1>5. missed' \in [Apis -> SUBSET (HhOwners \cup Hooks \cup {Nobody})]
  <2>1. ASSUME NEW x \in HhOwners \cup Hooks \cup {Nobody}, Miss(p, x)
        PROVE missed' \in [Apis -> SUBSET (HhOwners \cup Hooks \cup {Nobody})]
    BY <2>1 DEF Miss
  <2>2. CASE UNCHANGED missed
    BY <2>2
  <2>3. CASE Down(p)
    BY <2>3 DEF Down
  <2>4. CASE Start(p)
    BY <2>1, <2>2, <2>4 DEF Start
  <2>5. CASE HhAccess(p)
    <3> rest[p] \subseteq HhOwners
      BY <2>5 DEF HhAccess, OwnersKnown, OwnerKnown
    <3> QED BY <2>1, <2>2, <2>5 DEF HhAccess
  <2>6. CASE HhPut(p) \/ HhPutUrl(p) \/ HhList(p) \/ HhRepost(p) \/ HhFails(p) \/ HhRefresh(p)
    <3> owner[p] \in HhOwners
      BY <2>6 DEF HhPut, HhPutUrl, HhList, HhRepost, HhFails, HhRefresh, Hh, OwnersKnown,
             OwnerKnown
    <3> QED
      BY <2>1, <2>2, <2>3, <2>6 DEF HhPut, HhPutUrl, Put, HhList, HhRepost, HhFails, HhRefresh
  <2>7. CASE ListAvitoOwners(p)
    BY <2>7 DEF ListAvitoOwners
  <2>8. CASE AvitoAccess(p) \/ AvitoRefresh(p)
    <3> \A o \in AvitoOwners : HooksOf(o) \subseteq Hooks
      BY DEF Hooks
    <3> \A o \in rest[p] : pc[p] = "avAccess" => o \in AvitoOwners
      BY DEF OwnersKnown, OwnerKnown, AvitoSteps
    <3> pc[p] = "avRefresh" => owner[p] \in AvitoOwners
      BY DEF OwnersKnown, OwnerKnown
    <3> QED BY <2>8 DEF AvitoAccess, AvitoRefresh
  <2>9. CASE HookFails(p, "messenger") \/ HookFails(p, "applications")
    BY <1>3, <2>1, <2>3, <2>9 DEF HookFails
  <2> QED
    BY <2>2, <2>3, <2>4, <2>5, <2>6, <2>7, <2>8, <2>9
       DEF OnStartup, HhStep, AvitoStep, Fails, HhFind, HhPost, HhDelete, SetHook,
           SetOperator, Connect, OperatorFails, Crash
<1> QED BY <1>2, <1>4, <1>5

\* What a step can do to its own process: nothing is left of it, it goes on with
\* its owner, it takes the next owner, or it is done with one or with the loop.
LEMMA OwnersStep ==
  ASSUME ProcessTypes, OwnersKnown, NEW p \in Apis, OnStartup(p) \/ Fails(p)
  PROVE OwnersKnown'
<1>0. ASSUME NEW q \in Apis \ {p} PROVE OwnerKnown(q)'
  <2>1. pc'[q] = pc[q] /\ owner'[q] = owner[q] /\ rest'[q] = rest[q]
    BY DEF ProcessTypes, OnStartup, HhStep, AvitoStep, Fails, Start, HhAccess, HhRefresh, HhFind, HhPut,
           HhPost, HhList, HhPutUrl, HhDelete, HhRepost, HhFails, ListAvitoOwners, AvitoAccess,
           AvitoRefresh, SetHook, SetOperator, Connect, HookFails, OperatorFails, Crash,
           Put, Onward, Goto, Skip, Leave, Down
  <2> QED BY <2>1 DEF OwnersKnown, OwnerKnown
<1> SUFFICES OwnerKnown(p)'
  BY <1>0 DEF OwnersKnown
<1> OwnerKnown(p)
  BY DEF OwnersKnown
<1> USE DEF OwnerKnown, ProcessTypes, HhCalls, AvitoSteps
<1>1. CASE Start(p)
  BY <1>1 DEF Start, OwnerKnown
<1>2. CASE HhAccess(p)
  BY <1>2 DEF HhAccess, Leave
<1>3. ASSUME NEW l \in HhCalls, Goto(p, l), pc[p] \in HhCalls PROVE OwnerKnown(p)'
  BY <1>3 DEF Goto
<1>4. CASE Leave(p, "avOwners")
  BY <1>4 DEF Leave
<1>5. CASE Skip(p, "hhAccess") /\ pc[p] \in HhCalls
  BY <1>5 DEF Skip
<1>10. CASE HhFind(p)
  <2> CASE pc' = [pc EXCEPT ![p] = "hhPut"] /\ UNCHANGED <<rest, owner, try>>
    BY <1>10 DEF HhFind, Hh
  <2> QED BY <1>3, <1>4, <1>10 DEF HhFind, Hh
<1>11. CASE HhList(p)
  <2> CASE pc' = [pc EXCEPT ![p] = "hhPutUrl"] /\ UNCHANGED <<rest, owner, try>>
    BY <1>11 DEF HhList, Hh
  <2> QED BY <1>5, <1>11 DEF HhList, Hh
<1>12. CASE HhPut(p) \/ HhPutUrl(p)
  BY <1>3, <1>4, <1>5, <1>12 DEF HhPut, HhPutUrl, Put, Hh
<1>13. CASE HhPost(p) \/ HhRepost(p) \/ HhDelete(p) \/ HhFails(p)
  BY <1>3, <1>4, <1>5, <1>13 DEF HhPost, HhRepost, HhDelete, HhFails, Hh
<1>6. CASE ListAvitoOwners(p) \/ AvitoAccess(p)
  BY <1>6 DEF ListAvitoOwners, AvitoAccess, Leave
<1>7. CASE SetHook(p, "messenger") \/ SetHook(p, "applications")
  BY <1>7 DEF SetHook, Onward, Skip, Goto
<1>8. CASE HookFails(p, "messenger") \/ HookFails(p, "applications")
  BY <1>8 DEF HookFails, AfterError, Onward, Skip, Goto, Down
<1>9. CASE SetOperator(p) \/ Connect(p)
  BY <1>9 DEF SetOperator, Connect, Goto
<1>15. CASE OperatorFails(p) \/ Crash(p)
  BY <1>15 DEF OperatorFails, Crash, Down
<1>14. CASE HhRefresh(p) \/ AvitoRefresh(p)
  BY <1>14 DEF HhRefresh, AvitoRefresh, Hh, Goto, Skip, Down
<1> QED
  BY <1>1, <1>2, <1>6, <1>7, <1>8, <1>9, <1>10, <1>11, <1>12, <1>13, <1>14, <1>15
     DEF OnStartup, HhStep, AvitoStep, Fails

LEMMA IdsStep ==
  ASSUME ProcessTypes, SubTypes, IdsKnown, NEW p \in Apis, OnStartup(p) \/ Fails(p)
  PROVE IdsKnown'
<1>1. ASSUME NEW q \in Apis \ {p} PROVE IdKnown(q)'
  <2>1. pc'[q] = pc[q] /\ owner'[q] = owner[q] /\ id'[q] = id[q]
    BY DEF ProcessTypes, OnStartup, HhStep, AvitoStep, Fails, Start, HhAccess, HhRefresh, HhFind, HhPut,
           HhPost, HhList, HhPutUrl, HhDelete, HhRepost, HhFails, ListAvitoOwners, AvitoAccess,
           AvitoRefresh, SetHook, SetOperator, Connect, HookFails, OperatorFails, Crash,
           Put, Onward, Goto, Skip, Leave, Down
  <2> QED BY <2>1 DEF IdsKnown, IdKnown
<1>2. IdKnown(p)'
  <2> USE DEF IdKnown, Holding, ProcessTypes
  <2>1. IdKnown(p)
    BY DEF IdsKnown
  <2>2. CASE Start(p) \/ HhAccess(p) \/ HhRefresh(p)
    BY <2>1, <2>2 DEF Start, HhAccess, HhRefresh, Hh, Leave, Down, Goto, Skip
  <2>3. CASE HhFind(p) \/ HhList(p)
    BY <2>1, <2>3 DEF HhFind, HhList, Hh, Leave, Goto, Skip, SubTypes
  <2>4. CASE HhPut(p) \/ HhPutUrl(p)
    BY <2>1, <2>4 DEF HhPut, HhPutUrl, Put, Hh, Leave, Skip, Goto
  <2>6. CASE HhPost(p) \/ HhRepost(p) \/ HhDelete(p) \/ HhFails(p)
    BY <2>1, <2>6 DEF HhPost, HhRepost, HhDelete, HhFails, HhCalls, Hh, Leave, Skip, Goto
  <2>7. CASE ListAvitoOwners(p) \/ AvitoAccess(p) \/ AvitoRefresh(p)
    BY <2>1, <2>7 DEF ListAvitoOwners, AvitoAccess, AvitoRefresh, Leave, Goto, Skip
  <2>8. CASE SetHook(p, "messenger") \/ SetHook(p, "applications")
    BY <2>1, <2>8 DEF SetHook, Onward, Skip, Goto
  <2>9. CASE HookFails(p, "messenger") \/ HookFails(p, "applications")
    BY <2>1, <2>9 DEF HookFails, AfterError, Onward, Skip, Goto, Down
  <2>10. CASE SetOperator(p) \/ Connect(p) \/ OperatorFails(p) \/ Crash(p)
    BY <2>1, <2>10 DEF SetOperator, Connect, OperatorFails, Crash, Down, Goto
  <2> QED
    BY <2>2, <2>3, <2>4, <2>6, <2>7, <2>8, <2>9, <2>10
       DEF OnStartup, HhStep, AvitoStep, Fails
<1> QED BY <1>1, <1>2 DEF IdsKnown

-----------------------------------------------------------------------------
\* The steps that belong to no start

LEMMA OutsideInv ==
  ASSUME IInv, NEW o \in HhOwners \cup AvitoOwners,
         Authorize(o) \/ RefreshElsewhere(o) \/ Expire(o)
  PROVE IInv'
<1>1. ProcessTypes' /\ SubTypes'
  BY TypeParts
     DEF IInv, Authorize, RefreshElsewhere, Expire, ProcessTypes, SubTypes, TokenTypes, remote
<1>2. TokenTypes'
  <2> TokenTypes
    BY TypeParts DEF IInv
  <2> QED BY DEF TokenTypes, Authorize, RefreshElsewhere, Expire, Holders
<1>3. OtherTypes'
  <2>1. OtherTypes /\ (HooksOf(o) \subseteq Hooks \/ o \notin AvitoOwners)
    BY TypeParts DEF IInv, Hooks
  <2>2. UNCHANGED <<avito, operator>>
    BY DEF Authorize, RefreshElsewhere, Expire, remote
  <2>3. troubles' \in 0..MaxTroubles
    BY <2>1 DEF Authorize, RefreshElsewhere, Expire, Trouble, OtherTypes
  <2>4. missed' \in [Apis -> SUBSET (HhOwners \cup Hooks \cup {Nobody})]
    BY <2>1 DEF Authorize, RefreshElsewhere, Expire, OtherTypes
  <2> QED BY <2>1, <2>2, <2>3, <2>4 DEF OtherTypes
<1>4. OwnersKnown' /\ IdsKnown'
  BY DEF IInv, Authorize, RefreshElsewhere, Expire, OwnersKnown, OwnerKnown, IdsKnown, IdKnown
<1>5. TypeOK'
  BY <1>1, <1>2, <1>3, TypeParts, PTL
<1> QED BY <1>4, <1>5 DEF IInv

LEMMA NextInv == IInv /\ [Next]_vars => IInv'
<1> SUFFICES ASSUME IInv, [Next]_vars PROVE IInv'
  OBVIOUS
<1>1. ASSUME NEW p \in Apis, OnStartup(p) \/ Fails(p) PROVE IInv'
  <2>1. ProcessTypes /\ SubTypes /\ TokenTypes /\ OtherTypes /\ OwnersKnown /\ IdsKnown
    BY TypeParts DEF IInv
  <2>2. ProcessTypes' /\ SubTypes' /\ TokenTypes' /\ OtherTypes'
    BY <1>1, <2>1, ProcessStep, SubStep, TokenStep, OtherStep
  <2>3. OwnersKnown' /\ IdsKnown'
    BY <1>1, <2>1, OwnersStep, IdsStep
  <2>4. TypeOK'
    BY <2>2, TypeParts, PTL
  <2> QED BY <2>3, <2>4 DEF IInv
<1>2. CASE UNCHANGED vars
  BY <1>2 DEF vars, remote, IInv, TypeOK, OwnersKnown, OwnerKnown, IdsKnown, IdKnown
<1> QED BY <1>1, <1>2, OutsideInv DEF Next

\* Every variable has its type, however many processes start and fail.
THEOREM TypeCorrect == Spec => []TypeOK
<1>1. IInv => TypeOK
  BY DEF IInv
<1> QED BY InitInv, NextInv, <1>1, PTL DEF Spec

-----------------------------------------------------------------------------
\* What a start leaves behind

HhMissed(p) == missed[p] \cap (HhOwners \cup {Nobody}) # {}
SomeOurs == \E o \in HhOwners : sub[o].kind = "ours"

\* The HeadHunter loop has an employer before it, or one it missed.
HhAccounted(p) == pc[p] = "hhAccess" => rest[p] # {} \/ HhMissed(p)

\* When the loop has been left by all, one left it with an employer missed, or
\* the last to leave it did so with a subscription of ours, which nobody is
\* left to delete.
HhSettled ==
    "hh" \in config /\ (\A p \in Apis : PastHh(p)) =>
       SomeOurs \/ \E p \in Apis : HhMissed(p)

\* The Avito loop has yet to come to this webhook.
StillToDo(p, o, h) ==
    \/ pc[p] \notin Late /\ o \in rest[p]
    \/ /\ owner[p] = o
       /\ \/ pc[p] \in {"avRefresh", "messenger"}
          \/ pc[p] = "applications" /\ h = <<o, "applications">>

\* Once the accounts are listed, every webhook is set, missed or still to do.
AvitoAccounted(p) ==
    "avito" \in config /\ pc[p] \in (AvitoSteps \ {"avOwners"}) \cup Late =>
       \A o \in accounts \cap AvitoOwners :
          \A h \in HooksOf(o) : h \in avito \cup missed[p] \/ StillToDo(p, o, h)

OperatorSet(p) == "operator" \in config /\ pc[p] \in {"connect", "up"} => operator

Accounted ==
    /\ HhSettled
    /\ \A p \in Apis : HhAccounted(p) /\ AvitoAccounted(p) /\ OperatorSet(p)

\* No hook is taken back at Avito or Telegram, and a step of one process leaves
\* what the others have noted alone.
LEMMA NothingTakenBack ==
  ASSUME ProcessTypes, OtherTypes, NEW p \in Apis, OnStartup(p) \/ Fails(p)
  PROVE  /\ accounts' = accounts /\ config' = config
         /\ avito \subseteq avito'
         /\ operator => operator'
         /\ \A q \in Apis \ {p} :
               pc'[q] = pc[q] /\ owner'[q] = owner[q] /\ rest'[q] = rest[q]
               /\ missed'[q] = missed[q]
<1>1. accounts' = accounts /\ config' = config
  BY SettingsKept
<1>4. avito \subseteq avito' /\ (operator => operator')
  <2>1. CASE HhStep(p)
    <3>1. CASE HhAccess(p) \/ HhRefresh(p) \/ HhFind(p) \/ HhPut(p)
      BY <3>1 DEF HhAccess, HhRefresh, HhFind, HhPut, remote
    <3>2. CASE HhPost(p) \/ HhList(p) \/ HhPutUrl(p) \/ HhDelete(p) \/ HhRepost(p)
      BY <3>2 DEF HhPost, HhList, HhPutUrl, HhDelete, HhRepost, remote
    <3> QED BY <2>1, <3>1, <3>2 DEF HhStep
  <2>2. CASE AvitoStep(p)
    BY <2>2 DEF AvitoStep, ListAvitoOwners, AvitoAccess, AvitoRefresh, SetHook, remote
  <2>3. CASE Start(p) \/ Connect(p)
    BY <2>3 DEF Start, Connect, remote
  <2>4. CASE SetOperator(p)
    BY <2>4 DEF SetOperator
  <2>5. CASE HhFails(p) \/ Crash(p)
    BY <2>5 DEF HhFails, Crash, remote
  <2>6. CASE HookFails(p, "messenger") \/ HookFails(p, "applications")
    BY <2>6 DEF HookFails
  <2>7. CASE OperatorFails(p)
    <3>1. UNCHANGED avito /\ (operator' = operator \/ operator' = TRUE)
      BY <2>7 DEF OperatorFails
    <3> QED BY <3>1
  <2> QED BY <2>1, <2>2, <2>3, <2>4, <2>5, <2>6, <2>7 DEF OnStartup, Fails
<1>2. ASSUME NEW q \in Apis \ {p}
      PROVE pc'[q] = pc[q] /\ owner'[q] = owner[q] /\ rest'[q] = rest[q]
  BY DEF ProcessTypes, OnStartup, HhStep, AvitoStep, Fails, Start, HhAccess, HhRefresh, HhFind, HhPut,
         HhPost, HhList, HhPutUrl, HhDelete, HhRepost, HhFails, ListAvitoOwners, AvitoAccess,
         AvitoRefresh, SetHook, SetOperator, Connect, HookFails, OperatorFails, Crash,
         Put, Onward, Goto, Skip, Leave, Down
<1>3. ASSUME NEW q \in Apis \ {p} PROVE missed'[q] = missed[q]
  BY DEF OtherTypes, OnStartup, HhStep, AvitoStep, Fails, Start, HhAccess, HhRefresh, HhFind, HhPut,
         HhPost, HhList, HhPutUrl, HhDelete, HhRepost, HhFails, ListAvitoOwners, AvitoAccess,
         AvitoRefresh, SetHook, SetOperator, Connect, HookFails, OperatorFails, Crash,
         Put, Miss, Down
<1> QED BY <1>1, <1>2, <1>3, <1>4

\* An employer is passed over only as missed.
LEMMA HhAccountedStep ==
  ASSUME IInv, NEW p \in Apis, HhAccounted(p), OnStartup(p) \/ Fails(p)
  PROVE HhAccounted(p)'
<1>1. ProcessTypes /\ OtherTypes /\ OwnersKnown
  BY TypeParts DEF IInv
<1> USE DEF HhAccounted, HhCalls, AvitoSteps, Late, ProcessTypes
<1>2. ASSUME NEW x \in HhOwners \cup {Nobody}, Miss(p, x) PROVE HhMissed(p)'
  BY <1>1, <1>2 DEF Miss, HhMissed, OtherTypes
<1>3. SUFFICES ASSUME pc'[p] = "hhAccess" PROVE rest'[p] # {} \/ HhMissed(p)'
  OBVIOUS
<1>4. CASE Start(p)
  <2> rest'[p] = {} => Miss(p, Nobody)
    BY <1>1, <1>3, <1>4 DEF Start
  <2> QED BY <1>2
<1>5. CASE HhAccess(p)
  <2> rest[p] \subseteq HhOwners
    BY <1>1, <1>5 DEF HhAccess, OwnersKnown, OwnerKnown
  <2> QED BY <1>1, <1>2, <1>3, <1>5 DEF HhAccess, Leave
<1>6. CASE HhRefresh(p) \/ HhPut(p) \/ HhPutUrl(p) \/ HhList(p) \/ HhRepost(p) \/ HhFails(p)
  <2> owner[p] \in HhOwners
    BY <1>1, <1>6 DEF HhRefresh, HhPut, HhPutUrl, HhList, HhRepost, HhFails, Hh, OwnersKnown,
           OwnerKnown
  <2> QED
    BY <1>1, <1>2, <1>3, <1>6
       DEF HhRefresh, HhPut, HhPutUrl, Put, HhList, HhRepost, HhFails, Leave, Goto, Down
<1>7. CASE HhFind(p) \/ HhPost(p) \/ HhDelete(p)
  BY <1>1, <1>3, <1>7 DEF HhFind, HhPost, HhDelete, Leave, Goto
<1>8. CASE AvitoStep(p) \/ SetOperator(p) \/ Connect(p)
  BY <1>1, <1>3, <1>8
     DEF AvitoStep, ListAvitoOwners, AvitoAccess, AvitoRefresh, SetHook, SetOperator, Connect,
         Onward, Skip, Goto, Leave
<1>9. CASE HookFails(p, "messenger") \/ HookFails(p, "applications")
  BY <1>1, <1>3, <1>9 DEF HookFails, AfterError, Onward, Skip, Goto, Down
<1>10. CASE OperatorFails(p) \/ Crash(p)
  BY <1>1, <1>3, <1>10 DEF OperatorFails, Crash, Down
<1> QED
  BY <1>4, <1>5, <1>6, <1>7, <1>8, <1>9, <1>10 DEF OnStartup, Fails, HhStep

\* The loop is left with an employer missed, or with a subscription of ours.
LEMMA HhLeft ==
  ASSUME IInv, NEW p \in Apis, HhAccounted(p), OnStartup(p) \/ Fails(p),
         ~PastHh(p), PastHh(p)', "hh" \in config
  PROVE SomeOurs' \/ HhMissed(p)'
<1>1. ProcessTypes /\ SubTypes /\ OtherTypes /\ OwnersKnown
  BY TypeParts DEF IInv
<1> USE DEF HhAccounted, HhCalls, AvitoSteps, Late, ProcessTypes, PastHh
<1>2. CASE HhAccess(p)
  <2> rest[p] = {} /\ UNCHANGED missed
    BY <1>1, <1>2 DEF HhAccess
  <2> QED BY <1>2 DEF HhAccess, HhMissed
<1>3. ASSUME NEW o \in HhOwners, Create(o) PROVE SomeOurs'
  BY <1>1, <1>3 DEF Create, SomeOurs, SubTypes
<1>4. CASE HhFind(p) \/ HhPut(p) \/ HhPutUrl(p) \/ HhPost(p) \/ HhRepost(p)
  <2>1. owner[p] \in HhOwners
    BY <1>4 DEF HhFind, HhPut, HhPutUrl, HhPost, HhRepost, Hh
  <2>2. CASE HhFind(p)
    BY <1>1, <2>1, <2>2 DEF HhFind, Goto, SomeOurs, remote
  <2>3. ASSUME Put(p, id[p]) PROVE SomeOurs'
    <3>1. sub[owner[p]].id = id[p]
      BY <1>1, <2>3 DEF Put, Skip
    <3>2. sub' = [sub EXCEPT ![owner[p]].kind = "ours"]
      BY <2>3, <3>1 DEF Put
    <3>3. sub'[owner[p]].kind = "ours"
      BY <1>1, <2>1, <3>2 DEF SubTypes
    <3> QED BY <2>1, <3>3 DEF SomeOurs
  <2>4. CASE HhPut(p) \/ HhPutUrl(p)
    BY <1>1, <2>3, <2>4 DEF HhPut, HhPutUrl, Goto
  <2>5. CASE HhPost(p) \/ HhRepost(p)
    BY <1>1, <1>3, <2>1, <2>5 DEF HhPost, HhRepost, Goto, Skip
  <2> QED BY <1>4, <2>2, <2>4, <2>5
<1>5. CASE HhRefresh(p) \/ HhList(p) \/ HhDelete(p) \/ HhFails(p)
  BY <1>1, <1>5 DEF HhRefresh, HhList, HhDelete, HhFails, Goto, Skip, Down
<1>6. CASE Start(p)
  BY <1>1, <1>6 DEF Start
<1>7. CASE AvitoStep(p) \/ SetOperator(p) \/ Connect(p)
  BY <1>7 DEF AvitoStep, ListAvitoOwners, AvitoAccess, AvitoRefresh, SetHook, SetOperator,
         Connect
<1>8. CASE HookFails(p, "messenger") \/ HookFails(p, "applications") \/ OperatorFails(p)
           \/ Crash(p)
  BY <1>1, <1>8 DEF HookFails, OperatorFails, Crash, Down
<1> QED
  BY <1>2, <1>4, <1>5, <1>6, <1>7, <1>8 DEF OnStartup, Fails, HhStep

\* A start that is past the loop deletes nothing and forgets nothing.
LEMMA HhKept ==
  ASSUME IInv, NEW p \in Apis, OnStartup(p) \/ Fails(p), PastHh(p), PastHh(p)'
  PROVE (SomeOurs => SomeOurs') /\ (HhMissed(p) => HhMissed(p)')
<1>1. ProcessTypes /\ OtherTypes
  BY TypeParts DEF IInv
<1> USE DEF HhCalls, AvitoSteps, Late, ProcessTypes, PastHh
<1>2. UNCHANGED sub
  BY <1>1 DEF OnStartup, HhStep, AvitoStep, Fails, Start, HhAccess, HhRefresh, HhFind, HhPut,
         HhPost, HhList, HhPutUrl, HhDelete, HhRepost, HhFails, ListAvitoOwners, AvitoAccess,
         AvitoRefresh, SetHook, SetOperator, Connect, HookFails, OperatorFails, Crash,
         remote, Hh
<1>3. missed[p] \subseteq missed'[p]
  <2>1. CASE AvitoStep(p)
    BY <1>1, <2>1 DEF AvitoStep, ListAvitoOwners, AvitoAccess, AvitoRefresh, SetHook, OtherTypes
  <2>2. CASE SetOperator(p) \/ Connect(p)
    BY <2>2 DEF SetOperator, Connect
  <2>3. CASE HookFails(p, "messenger") \/ HookFails(p, "applications")
    BY <1>1, <2>3 DEF HookFails, Miss, Down, OtherTypes
  <2>4. CASE OperatorFails(p) \/ Crash(p)
    BY <1>1, <2>4 DEF OperatorFails, Crash, Down
  <2>5. ~Start(p) /\ ~HhFails(p) /\ ~HhStep(p)
    BY DEF Start, HhFails, HhStep, HhAccess, HhRefresh, HhFind, HhPut, HhPost, HhList, HhPutUrl,
           HhDelete, HhRepost, Hh
  <2> QED BY <2>1, <2>2, <2>3, <2>4, <2>5 DEF OnStartup, Fails
<1> QED BY <1>2, <1>3 DEF SomeOurs, HhMissed

LEMMA HhSettledStep ==
  ASSUME IInv, Accounted, NEW p \in Apis, OnStartup(p) \/ Fails(p)
  PROVE HhSettled'
<1>1. ProcessTypes /\ OtherTypes /\ HhAccounted(p) /\ HhSettled
  BY TypeParts DEF IInv, Accounted
<1>2. /\ config' = config
      /\ \A q \in Apis \ {p} : pc'[q] = pc[q] /\ missed'[q] = missed[q]
  BY <1>1, NothingTakenBack
<1>3. SUFFICES ASSUME "hh" \in config, \A q \in Apis : PastHh(q)'
               PROVE SomeOurs' \/ \E q \in Apis : HhMissed(q)'
  BY <1>2 DEF HhSettled
<1>4. CASE ~PastHh(p)
  BY <1>1, <1>3, <1>4, HhLeft
<1>5. CASE PastHh(p)
  <2>1. \A q \in Apis : PastHh(q)
    BY <1>2, <1>3, <1>5 DEF PastHh
  <2>2. (SomeOurs => SomeOurs') /\ (HhMissed(p) => HhMissed(p)')
    BY <1>3, <1>5, HhKept
  <2>3. \A q \in Apis \ {p} : HhMissed(q) => HhMissed(q)'
    BY <1>2 DEF HhMissed
  <2> QED BY <1>1, <1>3, <2>1, <2>2, <2>3 DEF HhSettled
<1> QED BY <1>4, <1>5

\* Each webhook of an account is set, missed or still to do; an error of the
\* first does not take the second out of the account's turn.
LEMMA AvitoAccountedStep ==
  ASSUME IInv, NEW p \in Apis, AvitoAccounted(p), OnStartup(p) \/ Fails(p)
  PROVE AvitoAccounted(p)'
<1>1. ProcessTypes /\ OtherTypes /\ OwnersKnown
  BY TypeParts DEF IInv
<1>2. accounts' = accounts /\ config' = config /\ avito \subseteq avito'
  BY <1>1, NothingTakenBack
<1> DEFINE Turn == (AvitoSteps \ {"avOwners"}) \cup Late
<1>3. SUFFICES ASSUME pc'[p] \in Turn, "avito" \in config,
                      NEW o \in accounts \cap AvitoOwners, NEW h \in HooksOf(o)
               PROVE h \in avito' \cup missed'[p] \/ StillToDo(p, o, h)'
  BY <1>2 DEF AvitoAccounted, HooksOf
<1> USE DEF ProcessTypes, AvitoSteps, Late, HhCalls
<1>4. h = <<o, "messenger">> \/ h = <<o, "applications">>
  BY DEF HooksOf
<1>5. pc[p] \in Turn => h \in avito \cup missed[p] \/ StillToDo(p, o, h)
  BY <1>3 DEF AvitoAccounted
<1>6. CASE ListAvitoOwners(p)
  <2>1. h \in Hooks
    BY DEF Hooks
  <2> QED BY <1>1, <1>3, <1>6, <2>1 DEF ListAvitoOwners, StillToDo, OtherTypes
<1>7. CASE AvitoAccess(p)
  <2>1. pc[p] = "avAccess"
    BY <1>7 DEF AvitoAccess
  <2>2. h \in avito \cup missed[p] \/ o \in rest[p]
    BY <1>5, <2>1 DEF StillToDo
  <2>3. CASE rest[p] = {} /\ UNCHANGED missed
    BY <1>2, <2>2, <2>3
  <2>4. ASSUME NEW v \in rest[p], rest' = [rest EXCEPT ![p] = @ \ {v}],
               pc'[p] \in {"avRefresh", "messenger"}, owner' = [owner EXCEPT ![p] = v],
               UNCHANGED missed
        PROVE h \in avito' \cup missed'[p] \/ StillToDo(p, o, h)'
    <3>1. v # o => rest'[p] = rest[p] \ {v}
      BY <1>1, <2>4
    <3>2. owner'[p] = v
      BY <1>1, <1>7, <2>4
    <3> QED BY <1>1, <1>2, <2>2, <2>4, <3>1, <3>2 DEF StillToDo
  <2>5. ASSUME NEW v \in rest[p], rest' = [rest EXCEPT ![p] = @ \ {v}],
               missed' = [missed EXCEPT ![p] = @ \cup HooksOf(v)], UNCHANGED pc
        PROVE h \in avito' \cup missed'[p] \/ StillToDo(p, o, h)'
    <3>1. missed'[p] = missed[p] \cup HooksOf(v) /\ rest'[p] = rest[p] \ {v}
      BY <1>1, <2>5 DEF OtherTypes
    <3> QED BY <1>2, <2>1, <2>2, <2>5, <3>1 DEF StillToDo
  <2>6. \A b \in BOOLEAN :
           pc' = [pc EXCEPT ![p] = IF b THEN "avRefresh" ELSE "messenger"] =>
              pc'[p] \in {"avRefresh", "messenger"}
    BY <1>1
  <2> QED BY <1>7, <2>3, <2>4, <2>5, <2>6 DEF AvitoAccess
<1>13. CASE AvitoRefresh(p)
  <2>1. pc[p] = "avRefresh" /\ UNCHANGED rest
    BY <1>13 DEF AvitoRefresh, Goto, Skip
  <2>2. CASE Goto(p, "messenger") /\ UNCHANGED missed
    BY <1>1, <1>2, <1>5, <2>1, <2>2 DEF Goto, StillToDo
  <2>3. CASE /\ Skip(p, "avAccess")
             /\ missed' = [missed EXCEPT ![p] = @ \cup HooksOf(owner[p])]
    <3> missed'[p] = missed[p] \cup HooksOf(owner[p]) /\ pc'[p] = "avAccess"
      BY <1>1, <2>3 DEF OtherTypes, Skip
    <3> QED BY <1>2, <1>5, <2>1 DEF StillToDo
  <2> QED BY <1>13, <2>2, <2>3 DEF AvitoRefresh
<1>8. CASE ~Down(p) /\ (SetHook(p, "messenger") \/ HookFails(p, "messenger"))
  <2>1. pc[p] = "messenger" /\ pc'[p] = "applications"
    BY <1>1, <1>8 DEF SetHook, HookFails, AfterError, Onward, Goto
  <2>2. UNCHANGED <<rest, owner>>
    BY <1>8 DEF SetHook, HookFails, AfterError, Onward, Goto
  <2>3. <<owner[p], "messenger">> \in avito' \cup missed'[p] /\ missed[p] \subseteq missed'[p]
    BY <1>1, <1>8 DEF SetHook, HookFails, Miss, OtherTypes
  <2> QED BY <1>2, <1>4, <1>5, <2>1, <2>2, <2>3 DEF StillToDo
<1>9. CASE ~Down(p) /\ (SetHook(p, "applications") \/ HookFails(p, "applications"))
  <2>1. pc[p] = "applications" /\ pc'[p] = "avAccess"
    BY <1>1, <1>9 DEF SetHook, HookFails, AfterError, Onward, Skip
  <2>2. UNCHANGED rest
    BY <1>9 DEF SetHook, HookFails, AfterError, Onward, Skip
  <2>3. <<owner[p], "applications">> \in avito' \cup missed'[p]
        /\ missed[p] \subseteq missed'[p]
    BY <1>1, <1>9 DEF SetHook, HookFails, Miss, OtherTypes
  <2> QED BY <1>2, <1>4, <1>5, <2>1, <2>2, <2>3 DEF StillToDo
<1>10. CASE SetOperator(p) \/ Connect(p) \/ (OperatorFails(p) /\ ~Down(p))
  <2>1. pc[p] \in {"operator", "connect"} /\ UNCHANGED missed
    BY <1>10 DEF SetOperator, Connect, OperatorFails
  <2> QED BY <1>2, <1>5, <2>1 DEF StillToDo
<1>11. CASE Down(p)
  BY <1>1, <1>3, <1>11 DEF Down
<1>12. CASE Start(p) \/ HhStep(p) \/ HhFails(p)
  BY <1>1, <1>3, <1>12
     DEF Start, HhStep, HhAccess, HhRefresh, HhFind, HhPut, HhPost, HhList, HhPutUrl,
         HhDelete, HhRepost, HhFails, Hh, Put, Leave, Skip, Goto, Down
<1> QED
  BY <1>6, <1>7, <1>8, <1>9, <1>10, <1>11, <1>12, <1>13
     DEF OnStartup, AvitoStep, Fails, Crash

LEMMA OperatorStep ==
  ASSUME IInv, NEW p \in Apis, OperatorSet(p), OnStartup(p) \/ Fails(p)
  PROVE OperatorSet(p)'
<1>1. ProcessTypes /\ OtherTypes
  BY TypeParts DEF IInv
<1>2. config' = config /\ (operator => operator')
  BY <1>1, NothingTakenBack
<1>3. CASE SetOperator(p)
  BY <1>2, <1>3 DEF SetOperator, OperatorSet
<1>4. CASE pc[p] \in {"connect", "up"}
  BY <1>2, <1>4 DEF OperatorSet
<1>5. CASE ~SetOperator(p) /\ pc[p] \notin {"connect", "up"}
  <2> pc'[p] \notin {"connect", "up"}
    BY <1>1, <1>5
       DEF ProcessTypes, HhCalls, AvitoSteps, Late,
           OnStartup, HhStep, AvitoStep, Fails, Start, HhAccess, HhRefresh, HhFind, HhPut,
           HhPost, HhList, HhPutUrl, HhDelete, HhRepost, HhFails, ListAvitoOwners, AvitoAccess,
           AvitoRefresh, SetHook, SetOperator, Connect, HookFails, OperatorFails, Crash,
           Put, Onward, AfterError, Goto, Skip, Leave, Down, Hh
  <2> QED BY DEF OperatorSet
<1> QED BY <1>3, <1>4, <1>5

LEMMA AccountedNext == IInv /\ Accounted /\ [Next]_vars => Accounted'
<1> SUFFICES ASSUME IInv, Accounted, [Next]_vars PROVE Accounted'
  OBVIOUS
<1>1. ASSUME NEW p \in Apis, OnStartup(p) \/ Fails(p) PROVE Accounted'
  <2>1. ProcessTypes /\ OtherTypes
    BY TypeParts DEF IInv
  <2>2. ASSUME NEW q \in Apis \ {p}
        PROVE HhAccounted(q)' /\ AvitoAccounted(q)' /\ OperatorSet(q)'
    <3>1. HhAccounted(q) /\ AvitoAccounted(q) /\ OperatorSet(q)
      BY DEF Accounted
    <3> QED
      BY <1>1, <2>1, <3>1, NothingTakenBack
         DEF HhAccounted, AvitoAccounted, OperatorSet, HhMissed, StillToDo, HooksOf
  <2>3. HhAccounted(p)' /\ AvitoAccounted(p)' /\ OperatorSet(p)' /\ HhSettled'
    BY <1>1, HhAccountedStep, AvitoAccountedStep, OperatorStep, HhSettledStep DEF Accounted
  <2> QED BY <2>2, <2>3 DEF Accounted
<1>2. ASSUME NEW o \in HhOwners \cup AvitoOwners,
             Authorize(o) \/ RefreshElsewhere(o) \/ Expire(o)
      PROVE Accounted'
  <2>1. \A p \in Apis : missed[p] \subseteq missed'[p]
    BY <1>2 DEF Authorize, RefreshElsewhere, Expire, IInv, TypeOK
  <2>2. UNCHANGED <<config, sub, avito, operator, pc, rest, owner>>
    BY <1>2 DEF Authorize, RefreshElsewhere, Expire, remote
  <2>3. ASSUME NEW p \in Apis PROVE HhAccounted(p)' /\ OperatorSet(p)'
    BY <2>1, <2>2 DEF Accounted, HhAccounted, HhMissed, OperatorSet
  <2>4. HhSettled'
    BY <2>1, <2>2 DEF Accounted, HhSettled, HhMissed, SomeOurs, PastHh
  <2>5. ASSUME NEW p \in Apis, "avito" \in config,
               pc[p] \in (AvitoSteps \ {"avOwners"}) \cup Late,
               NEW v \in accounts' \cap AvitoOwners, NEW h \in HooksOf(v)
        PROVE h \in avito \cup missed'[p] \/ StillToDo(p, v, h)
    <3>1. CASE v \in accounts
      BY <2>1, <2>5, <3>1 DEF Accounted, AvitoAccounted
    <3>2. CASE v \notin accounts
      BY <1>2, <2>5, <3>2 DEF Authorize, RefreshElsewhere, Expire
    <3> QED BY <3>1, <3>2
  <2>6. ASSUME NEW p \in Apis PROVE AvitoAccounted(p)'
    BY <2>2, <2>5 DEF AvitoAccounted, StillToDo, HooksOf
  <2> QED BY <2>3, <2>4, <2>6 DEF Accounted
<1>3. CASE UNCHANGED vars
  BY <1>3 DEF vars, remote, Accounted, HhSettled, HhAccounted, AvitoAccounted, OperatorSet,
         HhMissed, SomeOurs, StillToDo, HooksOf, PastHh
<1> QED BY <1>1, <1>2, <1>3 DEF Next

\* on_startup: when all starts are past HeadHunter some employer has our
\* subscription, unless one of the starts failed for an employer or for all;
\* every webhook of an Avito account that was listed is set unless that very
\* call failed; and no API is up without the operator's webhook. So it is for
\* whatever part of this the settings ask for.
THEOREM NothingForgotten == Spec => []StartLeavesHooks
<1>1. Init => Accounted
  BY ApisAssumption
     DEF Init, Accounted, HhSettled, HhAccounted, AvitoAccounted, OperatorSet, PastHh,
         AvitoSteps, Late
<1>2. Accounted => StartLeavesHooks
  <2>1. Accounted =>
          ("hh" \in config /\ (\A p \in Apis : PastHh(p)) =>
             \/ \E o \in HhOwners : sub[o].kind = "ours"
             \/ \E p \in Apis : missed[p] \cap (HhOwners \cup {Nobody}) # {})
    BY DEF Accounted, HhSettled, SomeOurs, HhMissed
  <2>2. ASSUME Accounted, "avito" \in config, NEW p \in Apis, pc[p] \in Late,
               NEW o \in accounts \cap AvitoOwners, NEW h \in HooksOf(o)
        PROVE h \in avito \cup missed[p]
    BY <2>2 DEF Accounted, AvitoAccounted, StillToDo, Late
  <2>3. ASSUME Accounted, "operator" \in config, NEW p \in Apis, pc[p] \in {"connect", "up"}
        PROVE operator
    BY <2>3 DEF Accounted, OperatorSet
  <2> QED BY <2>1, <2>2, <2>3 DEF StartLeavesHooks
<1> QED BY InitInv, NextInv, AccountedNext, <1>1, <1>2, PTL DEF Spec

=============================================================================
