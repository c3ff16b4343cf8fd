---------------------------- MODULE SurveyProofs ----------------------------
(***************************************************************************)
(* For any numbers of texts, deliveries and overlapping handlers and any   *)
(* faults: with one /start the answers of a survey follow its questions    *)
(* (AnswersInOrder), none is overwritten (AnswersKept), published          *)
(* summaries are complete (SummaryComplete), and the row goes only after   *)
(* its answers were published (NothingDiscarded).                          *)
(***************************************************************************)
EXTENDS Survey, TLAPS

\* Exactly the questions before the step of a row have their answers.
Ordered(r) == \A q \in Questions : r.ans[q] # NoText <=> q <= r.step

\* It is the row of the one lead there is.
About(r) == \A s \in Starts : r.lead = LeadOf[s]

\* What a handler once read of the answers is still in the row, unless that
\* was deleted.
PartOfRow(r) ==
    Running => /\ r.step <= row.step
               /\ \A q \in Questions : q <= r.step => row.ans[q] = r.ans[q]

Finishing == {"tags", "note", "status", "delete"}
Answering == {"reread"} \cup Finishing
Reading == {"mirror", "store"} \cup Answering

RowOK == Running => About(row) /\ Ordered(row)

\* Before the reset there is no survey, and no text has found one.
BeforeReset ==
    \A s \in Starts :
        /\ h[s].at \in {"new", "read", "reset", "announce", "done"}
        /\ h[s].at \in {"new", "read", "reset"} =>
              row = NoRow /\ \A t \in Texts : h[t].at \in {"new", "get", "done"}

TextOK(t) ==
    /\ h[t].at \in Reading => About(h[t].seen)
    /\ h[t].at \in Answering => Ordered(h[t].mine) /\ PartOfRow(h[t].mine)
    /\ h[t].at \in Finishing => h[t].mine.step = 3
    /\ h[t].at \in {"status", "delete"} => Summary(t) \in notes

TextsOK == \A t \in Texts : TextOK(t)

NotesOK == \A n \in notes : \A q \in Questions : n.ans[q] # NoText

Undisturbed == RowOK /\ BeforeReset /\ TextsOK /\ NotesOK

\* Whatever resets there are, a row that is there has a lead, and so has what
\* the handlers of texts have read.
LeadsKnown ==
    /\ Running => row.lead \in Leads
    /\ \A t \in Texts : h[t].at \in Reading => h[t].seen.lead \in Leads

IInv == TypeOK /\ LeadsKnown /\ (NoReset => Undisturbed)

Places == {"new", "read", "reset", "announce", "get", "mirror", "store", "reread",
           "tags", "note", "status", "delete", "failed", "reply", "done"}
Handler == [at : Places, seen : RowType, mine : RowType, run : Nat \ {0}]

USE UpdatesAssumption, SurveyBoundsAssumption, SurveyFaultsAssumption

-----------------------------------------------------------------------------
\* Rows

LEMMA CleanType == \A l \in Leads \cup {NoLead} : Clean(l) \in RowType
  BY DEF Clean, Blank, RowType, Questions

LEMMA NoRowType == NoRow \in RowType
  BY CleanType DEF NoRow

LEMMA LeadOfStart == \A s \in Starts : LeadOf[s] \in Leads /\ LeadOf[s] # NoLead
  BY DEF Leads

\* Answered adds the answer to the question after the step, and nothing else.
LEMMA AnsweredRow ==
  ASSUME NEW r \in RowType, r.step < 3, NEW t \in Texts
  PROVE  /\ Answered(r, t) \in RowType
         /\ Answered(r, t).lead = r.lead
         /\ Answered(r, t).step = r.step + 1
         /\ \A q \in Questions : Answered(r, t).ans[q] = IF q = r.step + 1 THEN t ELSE r.ans[q]
<1>1. r.step + 1 \in Questions /\ r.step + 1 \in 0..3
  BY DEF RowType, Questions
<1> QED
  BY <1>1 DEF Answered, RowType

LEMMA AnsweredOrdered ==
  ASSUME NEW r \in RowType, r.step < 3, NEW t \in Texts, Ordered(r)
  PROVE  Ordered(Answered(r, t))
<1>1. r.step \in 0..3
  BY DEF RowType
<1>2. \A q \in Questions : q \in Nat /\ (q <= r.step + 1 <=> q = r.step + 1 \/ q <= r.step)
  BY <1>1 DEF Questions
<1> QED
  BY <1>2, AnsweredRow DEF Ordered

LEMMA DiffedType ==
  ASSUME TypeOK, NEW u \in Starts
  PROVE  Diffed(u) \in RowType
<1>1. h[u].seen \in RowType /\ row \in RowType
  BY DEF TypeOK, Updates
<1>2. Clean(LeadOf[u]) \in RowType
  BY CleanType, LeadOfStart
<1> QED
  BY <1>1, <1>2 DEF Diffed, RowType

-----------------------------------------------------------------------------
\* Types

\* What the ways to leave a step make of the handlers.
Became(u, l, s, m) ==
    /\ h'[u].at = l /\ h'[u].seen = s /\ h'[u].mine = m
    /\ \A v \in Updates : v # u => h'[v] = h[v]

HandlersType ==
    h \in [Updates -> Handler] /\ \A u \in Updates : h[u].run <= MaxRuns[u]

SummaryType == [lead : Leads, ans : [Questions -> Texts \cup {NoText}]]

LEMMA TypeParts ==
  /\ TypeOK => row \in RowType /\ notes \subseteq SummaryType /\ HandlersType
  /\ (row \in RowType /\ notes \subseteq SummaryType /\ HandlersType)' => TypeOK'
  BY DEF TypeOK, HandlersType, SummaryType, Handler, Places

LEMMA GotoBecomes ==
  ASSUME HandlersType, NEW u \in Updates, NEW l \in Places, Goto(u, l)
  PROVE  Became(u, l, h[u].seen, h[u].mine) /\ HandlersType'
  BY DEF HandlersType, Handler, Goto, Became

LEMMA EndBecomes ==
  ASSUME HandlersType, NEW u \in Updates, End(u)
  PROVE  Became(u, "done", NoRow, NoRow) /\ HandlersType'
<1> USE DEF HandlersType, Handler, Places, End
<1>1. Became(u, "done", NoRow, NoRow)
  BY DEF Became
<1>2. h'[u] \in Handler /\ h'[u].run = h[u].run
  BY NoRowType
<1>3. h' \in [Updates -> Handler]
  BY <1>2
<1> QED
  BY <1>1, <1>2, <1>3 DEF Became

LEMMA RaiseBecomes ==
  ASSUME HandlersType, NEW u \in Updates, Raise(u)
  PROVE  /\ \E l \in {"new", "done"} : Became(u, l, NoRow, NoRow)
         /\ MaxRuns[u] = 1 => Became(u, "done", NoRow, NoRow)
         /\ HandlersType'
<1>1. h[u].run \in Nat \ {0} /\ MaxRuns[u] \in Nat \ {0}
  BY DEF HandlersType, Handler
<1>2. CASE h[u].run < MaxRuns[u]
  BY <1>1, <1>2, NoRowType DEF HandlersType, Handler, Places, Raise, Became
<1>3. CASE ~(h[u].run < MaxRuns[u])
  BY <1>3, EndBecomes DEF Raise
<1> QED
  BY <1>2, <1>3

LEMMA SeenBecomes ==
  ASSUME HandlersType, NEW u \in Updates, NEW l \in Places, row \in RowType,
         h' = [h EXCEPT ![u].at = l, ![u].seen = row]
  PROVE  Became(u, l, row, h[u].mine) /\ HandlersType'
  BY DEF HandlersType, Handler, Became

LEMMA MineBecomes ==
  ASSUME HandlersType, NEW u \in Updates, NEW l \in Places, NEW r \in RowType,
         h' = [h EXCEPT ![u].at = l, ![u].mine = r]
  PROVE  Became(u, l, h[u].seen, r) /\ HandlersType'
  BY DEF HandlersType, Handler, Became

LEMMA UpdatesCover == Starts \subseteq Updates /\ Texts \subseteq Updates
  BY DEF Updates

LEMMA InitType == Init => TypeOK
  BY NoRowType DEF Init, TypeOK

LEMMA DeliverStep ==
  ASSUME TypeOK, NEW u \in Updates, Deliver(u)
  PROVE  /\ TypeOK'
         /\ h[u].at = "new"
         /\ Became(u, IF u \in Starts THEN "read" ELSE "get", h[u].seen, h[u].mine)
         /\ UNCHANGED <<row, notes>>
<1>1. (IF u \in Starts THEN "read" ELSE "get") \in Places
  BY DEF Places
<1> QED
  BY <1>1, GotoBecomes, TypeParts DEF Deliver

LEMMA StartStep ==
  ASSUME TypeOK, NEW u \in Starts, OnStart(u)
  PROVE  /\ TypeOK'
         /\ notes' = notes
         /\ \/ h[u].at = "read" /\ Became(u, "reset", row, h[u].mine) /\ row' = row
            \/ /\ h[u].at = "reset"
               /\ Became(u, "announce", h[u].seen, h[u].mine)
               /\ ~Running => row' = Clean(LeadOf[u])
            \/ /\ h[u].at = "announce"
               /\ \E l \in {"new", "done"} : Became(u, l, NoRow, NoRow)
               /\ MaxRuns[u] = 1 => Became(u, "done", NoRow, NoRow)
               /\ row' = row
<1> USE TypeParts, UpdatesCover
<1>1. CASE ReadExisting(u)
  BY <1>1, SeenBecomes DEF ReadExisting, Places
<1>2. CASE Reset(u)
  <2>1. row' \in RowType
    BY <1>2, CleanType, LeadOfStart, DiffedType DEF Reset
  <2> QED
    BY <1>2, <2>1, GotoBecomes DEF Reset, Places
<1>3. CASE Announce(u)
  <2>1. CASE End(u)
    BY <1>3, <2>1, EndBecomes DEF Announce
  <2>2. CASE Raise(u)
    BY <1>3, <2>2, RaiseBecomes DEF Announce
  <2> QED
    BY <1>3, <2>1, <2>2 DEF Announce
<1> QED
  BY <1>1, <1>2, <1>3 DEF OnStart

LEMMA ReadTextStep ==
  ASSUME TypeOK, NEW u \in Texts, Get(u) \/ Mirror(u) \/ Reply(u)
  PROVE  /\ TypeOK'
         /\ UNCHANGED <<row, notes>>
         /\ \/ /\ h[u].at = "get" /\ Running
               /\ Became(u, "mirror", row, h[u].mine)
            \/ h[u].at = "mirror" /\ Became(u, "store", h[u].seen, h[u].mine)
            \/ \E l \in {"new", "done"} : Became(u, l, NoRow, NoRow)
<1> USE TypeParts, UpdatesCover
<1>1. CASE End(u)
  BY <1>1, EndBecomes DEF Get, Mirror, Reply
<1>2. CASE Raise(u)
  BY <1>2, RaiseBecomes DEF Get, Mirror, Reply
<1>3. CASE h[u].at = "get" /\ Running /\ h' = [h EXCEPT ![u].at = "mirror", ![u].seen = row]
  BY <1>3, SeenBecomes DEF Get, Mirror, Reply, Places
<1>4. CASE Mirror(u) /\ Goto(u, "store")
  BY <1>4, GotoBecomes DEF Mirror, Places
<1> QED
  BY <1>1, <1>2, <1>3, <1>4 DEF Get, Mirror, Reply

LEMMA StoreStep ==
  ASSUME TypeOK, NEW u \in Texts, Store(u)
  PROVE  /\ TypeOK'
         /\ notes' = notes
         /\ h[u].at = "store"
         /\ \/ row' = row /\ Became(u, "reply", h[u].seen, h[u].mine)
            \/ /\ Running /\ row.step < 3 /\ row' = Answered(row, u)
               /\ Became(u, "reread", h[u].seen, row')
            \/ /\ Running /\ row.step = 3 /\ row' = row
               /\ Became(u, "tags", h[u].seen, row)
<1> USE TypeParts, UpdatesCover
<1>1. CASE ~Running /\ Goto(u, "reply") /\ UNCHANGED row
  BY <1>1, GotoBecomes DEF Store, Places
<1>2. CASE /\ Running /\ row.step < 3
           /\ row' = Answered(row, u)
           /\ h' = [h EXCEPT ![u].at = "reread", ![u].mine = row']
  <2>1. row' \in RowType
    BY <1>2, AnsweredRow
  <2> QED
    BY <1>2, <2>1, MineBecomes DEF Store, Places
<1>3. CASE /\ Running /\ row.step = 3
           /\ h' = [h EXCEPT ![u].at = "tags", ![u].mine = row]
           /\ UNCHANGED row
  BY <1>3, MineBecomes DEF Store, Places
<1> QED
  BY <1>1, <1>2, <1>3 DEF Store

LEMMA FinishStep ==
  ASSUME TypeOK, NEW u \in Texts, Reread(u) \/ Tags(u) \/ Status(u) \/ Delete(u)
  PROVE  /\ TypeOK'
         /\ notes' = notes
         /\ h[u].at \in Answering
         /\ \/ /\ h[u].at = "reread" /\ h[u].mine.step = 3
               /\ Became(u, "tags", h[u].seen, h[u].mine)
            \/ h[u].at = "tags" /\ Became(u, "note", h[u].seen, h[u].mine)
            \/ h[u].at = "status" /\ Became(u, "delete", h[u].seen, h[u].mine)
            \/ \E l \in {"failed", "reply"} : Became(u, l, h[u].seen, h[u].mine)
         /\ row' = row \/ (h[u].at = "delete" /\ row' = NoRow)
<1> USE TypeParts, UpdatesCover DEF Answering, Finishing
<1>1. CASE Reread(u)
  BY <1>1, GotoBecomes DEF Reread, Places
<1>2. CASE Tags(u)
  BY <1>2, GotoBecomes DEF Tags, PublishOr, Places
<1>3. CASE Status(u)
  BY <1>3, GotoBecomes DEF Status, PublishOr, Places
<1>4. CASE Delete(u)
  BY <1>4, GotoBecomes, NoRowType DEF Delete, Places
<1> QED
  BY <1>1, <1>2, <1>3, <1>4

LEMMA NoteStep ==
  ASSUME TypeOK, LeadsKnown, NEW u \in Texts, Note(u)
  PROVE  /\ TypeOK'
         /\ row' = row
         /\ h[u].at = "note"
         /\ \/ /\ notes' = notes \cup {Summary(u)}
               /\ Became(u, "status", h[u].seen, h[u].mine)
            \/ notes' = notes /\ Became(u, "failed", h[u].seen, h[u].mine)
<1> USE TypeParts, UpdatesCover
<1>1. CASE notes' = notes \cup {Summary(u)} /\ Goto(u, "status")
  <2>1. h[u].seen.lead \in Leads /\ h[u].mine \in RowType
    BY <1>1 DEF Note, LeadsKnown, Reading, Answering, Finishing, HandlersType, Handler
  <2>2. Summary(u) \in SummaryType
    BY <2>1 DEF Summary, SummaryType, RowType
  <2> QED
    BY <1>1, <2>2, GotoBecomes DEF Note, Places
<1>2. CASE Goto(u, "failed") /\ UNCHANGED notes
  BY <1>2, GotoBecomes DEF Note, Places
<1> QED
  BY <1>1, <1>2 DEF Note

\* The steps of Next, one way of moving a handler after the other.
LEMMA NextCases ==
  ASSUME Next
  PROVE  \/ \E u \in Updates : Deliver(u)
         \/ \E u \in Starts : OnStart(u)
         \/ \E u \in Texts : Get(u) \/ Mirror(u) \/ Reply(u)
         \/ \E u \in Texts : Store(u)
         \/ \E u \in Texts : Reread(u) \/ Tags(u) \/ Status(u) \/ Delete(u)
         \/ \E u \in Texts : Note(u)
  BY DEF Next, OnText, Finish

LEMMA NextType == TypeOK /\ LeadsKnown /\ [Next]_vars => TypeOK'
<1>1. CASE UNCHANGED vars
  BY <1>1 DEF vars, TypeOK
<1>2. CASE TypeOK /\ LeadsKnown /\ Next
  BY <1>2, NextCases, DeliverStep, StartStep, ReadTextStep, StoreStep, FinishStep, NoteStep
<1> QED
  BY <1>1, <1>2

\* A handler that keeps its row, or has none any more.
LEMMA LeadStays ==
  ASSUME LeadsKnown, NEW u \in Updates,
         row' = row \/ row' = NoRow \/ row'.lead \in Leads,
         \A v \in Updates : v # u => h'[v] = h[v],
         u \in Texts /\ h'[u].at \in Reading => h'[u].seen.lead \in Leads
  PROVE  LeadsKnown'
  BY UpdatesCover DEF LeadsKnown, Running

LEMMA NextLeads == TypeOK /\ LeadsKnown /\ [Next]_vars => LeadsKnown'
<1> SUFFICES ASSUME TypeOK, LeadsKnown, [Next]_vars PROVE LeadsKnown'
  OBVIOUS
<1> USE UpdatesCover DEF Reading, Answering, Finishing
<1>1. CASE UNCHANGED vars
  BY <1>1 DEF vars, LeadsKnown, Running
<1>2. ASSUME NEW u \in Updates, Deliver(u) PROVE LeadsKnown'
  BY <1>2, DeliverStep, LeadStays DEF Became
<1>3. ASSUME NEW u \in Starts, OnStart(u) PROVE LeadsKnown'
  <2>1. row' = row \/ row'.lead \in Leads
    <3>1. CASE Reset(u)
      BY <1>3, <3>1, LeadOfStart DEF Reset, Clean, Diffed, LeadsKnown
    <3> QED
      BY <1>3, <3>1 DEF OnStart, ReadExisting, Announce
  <2>2. u \notin Texts
    OBVIOUS
  <2> QED
    BY <1>3, <2>1, <2>2, StartStep, LeadStays DEF Became
<1>4. ASSUME NEW u \in Texts, Get(u) \/ Mirror(u) \/ Reply(u) PROVE LeadsKnown'
  BY <1>4, ReadTextStep, LeadStays DEF Became, LeadsKnown
<1>5. ASSUME NEW u \in Texts, Store(u) PROVE LeadsKnown'
  <2>1. row' = row \/ row'.lead \in Leads
    BY <1>5, StoreStep, AnsweredRow DEF LeadsKnown, TypeOK
  <2> QED
    BY <1>5, <2>1, StoreStep, LeadStays DEF Became, LeadsKnown
<1>6. ASSUME NEW u \in Texts, Reread(u) \/ Tags(u) \/ Status(u) \/ Delete(u) PROVE LeadsKnown'
  BY <1>6, FinishStep, LeadStays DEF Became, LeadsKnown
<1>7. ASSUME NEW u \in Texts, Note(u) PROVE LeadsKnown'
  BY <1>7, NoteStep, LeadStays DEF Became, LeadsKnown
<1> QED
  BY <1>1, <1>2, <1>3, <1>4, <1>5, <1>6, <1>7, NextCases

-----------------------------------------------------------------------------
(***************************************************************************)
(* One /start, delivered once. NoReset is a condition on the constants.    *)
(***************************************************************************)

\* The handler of a text that does not move: the row it has read is still
\* part of the row, if that has at most grown.
LEMMA TextStays ==
  ASSUME NEW t \in Texts, TextOK(t), h'[t] = h[t], notes \subseteq notes',
         h[t].at \in Answering =>
             \A r \in RowType : PartOfRow(r) => PartOfRow(r)',
         TypeOK
  PROVE  TextOK(t)'
<1>1. h[t].mine \in RowType
  BY UpdatesCover DEF TypeOK
<1>2. h[t].at \in Answering => PartOfRow(h[t].mine)'
  BY <1>1 DEF TextOK
<1>3. h[t].at \in Answering => Ordered(h[t].mine)'
  BY DEF TextOK, Ordered
<1> QED
  BY <1>2, <1>3 DEF TextOK, Summary, About, Ordered, PartOfRow

\* The other handlers, when text u is the one that moves.
LEMMA OthersStay ==
  ASSUME TypeOK, TextsOK, NEW u \in Updates, notes \subseteq notes',
         \A v \in Updates : v # u => h'[v] = h[v],
         \A r \in RowType : PartOfRow(r) => PartOfRow(r)',
         u \in Texts => TextOK(u)'
  PROVE  TextsOK'
<1> SUFFICES ASSUME NEW t \in Texts, t # u PROVE TextOK(t)'
  BY DEF TextsOK
<1> QED
  BY TextStays, UpdatesCover DEF TextsOK

\* A row that is Answered, deleted or left alone keeps what was read of it.
LEMMA RowGrows ==
  ASSUME TypeOK,
         \/ row' = row
         \/ row' = NoRow
         \/ Running /\ row.step < 3 /\ \E u \in Texts : row' = Answered(row, u)
  PROVE  \A r \in RowType : PartOfRow(r) => PartOfRow(r)'
<1> SUFFICES ASSUME NEW r \in RowType, PartOfRow(r) PROVE PartOfRow(r)'
  OBVIOUS
<1>1. CASE row' = row \/ row' = NoRow
  BY <1>1 DEF PartOfRow, Running
<1>2. CASE Running /\ row.step < 3 /\ \E u \in Texts : row' = Answered(row, u)
  <2>1. row \in RowType /\ row.step \in 0..3 /\ r.step \in 0..3
    BY DEF TypeOK, RowType
  <2>2. r.step <= row.step /\ \A q \in Questions : q <= r.step => row.ans[q] = r.ans[q]
    BY <1>2 DEF PartOfRow
  <2>3. row'.step = row.step + 1
    BY <1>2, <2>1, AnsweredRow
  <2>4. \A q \in Questions : q # row.step + 1 => row'.ans[q] = row.ans[q]
    BY <1>2, <2>1, AnsweredRow
  <2> QED
    BY <2>1, <2>2, <2>3, <2>4 DEF PartOfRow, Questions
<1> QED
  BY <1>1, <1>2

LEMMA RowIsItsPart ==
  ASSUME TypeOK, RowOK, Running
  PROVE  About(row) /\ Ordered(row) /\ PartOfRow(row)
  BY DEF RowOK, PartOfRow, TypeOK, RowType

\* The start that is there before the reset, when a text moves.
LEMMA StartWaits ==
  ASSUME BeforeReset, NEW u \in Texts,
         \A v \in Updates : v # u => h'[v] = h[v],
         \A s \in Starts : h[s].at \in {"new", "read", "reset"} =>
             row' = NoRow /\ h'[u].at \in {"new", "get", "done"}
  PROVE  BeforeReset'
  BY UpdatesCover DEF BeforeReset

LEMMA InitUndisturbed == Init => Undisturbed
  BY UpdatesCover DEF Init, Undisturbed, RowOK, BeforeReset, TextsOK, TextOK, NotesOK,
       Running, Reading, Answering, Finishing

LEMMA DeliverKeeps ==
  ASSUME TypeOK, NoReset, Undisturbed, NEW u \in Updates, Deliver(u)
  PROVE  Undisturbed'
<1> USE DeliverStep, UpdatesCover DEF Became, Reading, Answering, Finishing
<1>1. RowOK' /\ NotesOK'
  BY DEF Undisturbed, RowOK, NotesOK, Running, About, Ordered
<1>2. BeforeReset'
  BY DEF Undisturbed, BeforeReset
<1>3. u \in Texts => TextOK(u)'
  BY DEF TextOK
<1>4. TextsOK'
  BY <1>3, OthersStay, RowGrows DEF Undisturbed
<1> QED
  BY <1>1, <1>2, <1>4 DEF Undisturbed

LEMMA StartKeeps ==
  ASSUME TypeOK, NoReset, Undisturbed, NEW u \in Starts, OnStart(u)
  PROVE  Undisturbed'
<1>1. PICK s \in Starts : Starts = {s} /\ MaxRuns[s] = 1
  BY DEF NoReset
<1>2. s = u /\ \A v \in Starts : v = u
  BY <1>1
<1>3. NotesOK'
  BY StartStep DEF Undisturbed, NotesOK
<1>4. CASE h[u].at = "reset"
  <2>1. row = NoRow /\ \A t \in Texts : h[t].at \in {"new", "get", "done"}
    BY <1>4 DEF Undisturbed, BeforeReset
  <2>2. row' = Clean(LeadOf[u]) /\ h'[u].at = "announce"
    BY <1>4, <2>1, StartStep DEF Became, Running
  <2>3. RowOK'
    BY <1>2, <2>2 DEF RowOK, About, Ordered, Clean, Blank, Questions
  <2>4. BeforeReset'
    BY <1>2, <2>2 DEF BeforeReset
  <2>5. \A t \in Texts : h'[t] = h[t]
    BY <1>4, StartStep, UpdatesCover DEF Became
  <2>6. TextsOK'
    BY <2>1, <2>5 DEF TextsOK, TextOK, Reading, Answering, Finishing
  <2> QED
    BY <1>3, <2>3, <2>4, <2>6 DEF Undisturbed
<1>5. CASE h[u].at # "reset"
  <2>1. row' = row /\ notes' = notes /\ \A v \in Updates : v # u => h'[v] = h[v]
    BY <1>5, StartStep DEF Became
  <2>2. (h'[u].at = "reset" /\ h[u].at = "read") \/ h'[u].at = "done"
    BY <1>1, <1>2, <1>5, StartStep DEF Became
  <2>3. RowOK'
    BY <2>1 DEF Undisturbed, RowOK, Running, About, Ordered
  <2>4. BeforeReset'
    BY <1>2, <2>1, <2>2, UpdatesCover DEF Undisturbed, BeforeReset
  <2>5. TextsOK'
    BY <2>1, OthersStay, RowGrows, UpdatesCover DEF Undisturbed
  <2> QED
    BY <1>3, <2>3, <2>4, <2>5 DEF Undisturbed
<1> QED
  BY <1>4, <1>5

\* Texts that do not touch the row: it is there, and stays, as it was.
LEMMA RowUntouched ==
  ASSUME Undisturbed, row' = row
  PROVE  RowOK'
  BY DEF Undisturbed, RowOK, Running, About, Ordered

LEMMA ReadTextKeeps ==
  ASSUME TypeOK, NoReset, Undisturbed, NEW u \in Texts, Get(u) \/ Mirror(u) \/ Reply(u)
  PROVE  Undisturbed'
<1> USE ReadTextStep, UpdatesCover DEF Became, Reading, Answering, Finishing
<1>1. RowOK' /\ NotesOK'
  BY RowUntouched DEF Undisturbed, NotesOK
<1>2. TextOK(u)'
  <2>1. CASE h[u].at = "get" /\ Running
    BY <2>1, RowIsItsPart DEF Undisturbed, TextOK, About
  <2>2. CASE h[u].at = "mirror"
    BY <2>2 DEF Undisturbed, TextsOK, TextOK, About
  <2> QED
    BY <2>1, <2>2 DEF TextOK
<1>3. TextsOK'
  BY <1>2, OthersStay, RowGrows DEF Undisturbed
<1>4. BeforeReset'
  BY StartWaits DEF Undisturbed, BeforeReset, Running
<1> QED
  BY <1>1, <1>3, <1>4 DEF Undisturbed

LEMMA StoreKeeps ==
  ASSUME TypeOK, NoReset, Undisturbed, NEW u \in Texts, Store(u)
  PROVE  Undisturbed'
<1> USE UpdatesCover DEF Became, Reading, Answering, Finishing
<1>1. RowOK'
  <2>1. CASE row' = row
    BY <2>1, RowUntouched
  <2>2. CASE Running /\ row.step < 3 /\ row' = Answered(row, u)
    BY <2>2, AnsweredRow, AnsweredOrdered DEF Undisturbed, RowOK, About, TypeOK
  <2> QED
    BY <2>1, <2>2, StoreStep
<1>2. NotesOK'
  BY StoreStep DEF Undisturbed, NotesOK
<1>3. About(h[u].seen)
  BY StoreStep DEF Undisturbed, TextsOK, TextOK
<1>4. TextOK(u)'
  <2>1. CASE h'[u].at = "reply"
    BY <2>1 DEF TextOK
  <2>2. CASE h'[u].at # "reply"
    <3>1. Running' /\ h'[u].mine = row' /\ h'[u].seen = h[u].seen
      <4>1. row.lead \in Leads \cup {NoLead} /\ row.step < 3 => row.step + 1 # 0
        BY DEF TypeOK, RowType
      <4> QED
        BY <2>2, <4>1, StoreStep, AnsweredRow DEF Running, NoRow, Clean, TypeOK
    <3>2. TypeOK'
      BY StoreStep
    <3>3. (About(row) /\ Ordered(row) /\ PartOfRow(row))'
      BY <1>1, <3>1, <3>2 DEF RowOK, PartOfRow, TypeOK, RowType
    <3>4. h'[u].at \in {"reread", "tags"} /\ (h'[u].at = "tags" => h'[u].mine.step = 3)
      BY <2>2, StoreStep
    <3> QED
      BY <1>3, <3>1, <3>3, <3>4 DEF TextOK, About
  <2> QED
    BY <2>1, <2>2
<1>5. TextsOK'
  BY <1>4, StoreStep, OthersStay, RowGrows DEF Undisturbed
<1>6. BeforeReset'
  BY StoreStep, StartWaits DEF Undisturbed, BeforeReset
<1> QED
  BY <1>1, <1>2, <1>5, <1>6 DEF Undisturbed

LEMMA FinishKeeps ==
  ASSUME TypeOK, NoReset, Undisturbed, NEW u \in Texts,
         Reread(u) \/ Tags(u) \/ Status(u) \/ Delete(u)
  PROVE  Undisturbed'
<1> USE UpdatesCover DEF Became, Reading, Answering, Finishing
<1>1. RowOK'
  BY FinishStep, RowUntouched DEF RowOK, Running
<1>2. NotesOK'
  BY FinishStep DEF Undisturbed, NotesOK
<1>3. \A r \in RowType : PartOfRow(r) => PartOfRow(r)'
  BY FinishStep, RowGrows
<1>4. TextOK(u)'
  <2>1. CASE h'[u].at \in {"failed", "reply"}
    BY <2>1 DEF TextOK
  <2>2. CASE h'[u].at \notin {"failed", "reply"}
    <3>1. /\ h[u].at \in Answering /\ h'[u].at \in Finishing
          /\ h'[u].seen = h[u].seen /\ h'[u].mine = h[u].mine
          /\ h[u].mine.step = 3 /\ notes' = notes
          /\ h'[u].at = "delete" => h[u].at = "status"
          /\ h'[u].at # "status"
      BY <2>2, FinishStep DEF Undisturbed, TextsOK, TextOK
    <3>2. h[u].mine \in RowType
      BY DEF TypeOK
    <3>3. About(h[u].seen) /\ Ordered(h[u].mine) /\ PartOfRow(h[u].mine)'
      BY <1>3, <3>1, <3>2 DEF Undisturbed, TextsOK, TextOK
    <3>4. h'[u].at = "delete" => Summary(u)' \in notes'
      BY <3>1 DEF Undisturbed, TextsOK, TextOK, Summary
    <3> QED
      BY <3>1, <3>3, <3>4 DEF TextOK, About, Ordered, PartOfRow
  <2> QED
    BY <2>1, <2>2
<1>5. TextsOK'
  BY <1>3, <1>4, FinishStep, OthersStay DEF Undisturbed
<1>6. BeforeReset'
  BY FinishStep, StartWaits DEF Undisturbed, BeforeReset
<1> QED
  BY <1>1, <1>2, <1>5, <1>6 DEF Undisturbed

LEMMA NoteKeeps ==
  ASSUME TypeOK, LeadsKnown, NoReset, Undisturbed, NEW u \in Texts, Note(u)
  PROVE  Undisturbed'
<1> USE UpdatesCover DEF Became, Reading, Answering, Finishing
<1>1. RowOK'
  BY NoteStep, RowUntouched
<1>2. /\ About(h[u].seen) /\ Ordered(h[u].mine) /\ PartOfRow(h[u].mine)
      /\ h[u].mine.step = 3
  BY NoteStep DEF Undisturbed, TextsOK, TextOK
<1>3. \A q \in Questions : Summary(u).ans[q] # NoText
  BY <1>2 DEF Summary, Ordered, Questions
<1>4. NotesOK'
  BY <1>3, NoteStep DEF Undisturbed, NotesOK
<1>5. TextOK(u)'
  <2>1. CASE h'[u].at = "failed"
    BY <2>1 DEF TextOK
  <2>2. CASE h'[u].at = "status"
    BY <1>2, <2>2, NoteStep DEF TextOK, About, Ordered, PartOfRow, Running, Summary
  <2> QED
    BY <2>1, <2>2, NoteStep
<1>6. TextsOK'
  BY <1>5, NoteStep, OthersStay, RowGrows DEF Undisturbed
<1>7. BeforeReset'
  BY NoteStep, StartWaits DEF Undisturbed, BeforeReset
<1> QED
  BY <1>1, <1>4, <1>6, <1>7 DEF Undisturbed

LEMMA NextUndisturbed ==
  TypeOK /\ LeadsKnown /\ NoReset /\ Undisturbed /\ [Next]_vars => Undisturbed'
<1>1. CASE UNCHANGED vars
  BY <1>1 DEF vars, Undisturbed, RowOK, BeforeReset, TextsOK, TextOK, NotesOK, Running,
       About, Ordered, PartOfRow, Summary
<1> QED
  BY <1>1, NextCases, DeliverKeeps, StartKeeps, ReadTextKeeps, StoreKeeps, FinishKeeps,
     NoteKeeps

LEMMA Kept == Spec => []IInv
<1>1. Init => IInv
  BY InitType, InitUndisturbed, UpdatesCover DEF IInv, LeadsKnown, Init, Running, Reading,
       Answering, Finishing
<1>2. IInv /\ [Next]_vars => IInv'
  BY NextType, NextLeads, NextUndisturbed DEF IInv, NoReset
<1> QED
  BY <1>1, <1>2, PTL DEF Spec

-----------------------------------------------------------------------------
\* Every variable has its type, however often the survey is reset.
THEOREM TypeCorrect == Spec => []TypeOK
<1>1. IInv => TypeOK
  BY DEF IInv
<1> QED
  BY Kept, <1>1, PTL

\* store_answer_and_advance: the questions before the step of the row have
\* answers and no others, for any number of texts handled at once.
THEOREM InOrder == Spec => []AnswersInOrder
<1>1. IInv => AnswersInOrder
  BY DEF IInv, Undisturbed, RowOK, Ordered, AnswersInOrder
<1> QED
  BY Kept, <1>1, PTL

\* SurveyService.finish: what is published answers every question.
THEOREM Complete == Spec => []SummaryComplete
<1>1. IInv => SummaryComplete
  BY DEF IInv, Undisturbed, NotesOK, SummaryComplete
<1> QED
  BY Kept, <1>1, PTL

\* store_answer_and_advance: no answer gives way to another.
THEOREM KeptAnswers == Spec => AnswersKept
<1> DEFINE Keeps == NoReset /\ Running /\ row' # NoRow =>
                      \A q \in Questions : row.ans[q] # NoText => row'.ans[q] = row.ans[q]
<1>1. IInv /\ [Next]_vars => [Keeps]_vars
  <2> SUFFICES ASSUME IInv, Next, NoReset, Running, row' # NoRow, NEW q \in Questions,
                      row.ans[q] # NoText
               PROVE  row'.ans[q] = row.ans[q]
    OBVIOUS
  <2>1. TypeOK /\ LeadsKnown /\ RowOK /\ BeforeReset
    BY DEF IInv, Undisturbed
  <2>2. CASE row' = row
    BY <2>2
  <2>3. ASSUME NEW u \in Starts, OnStart(u) PROVE row' = row
    BY <2>1, <2>3, StartStep DEF BeforeReset, Running
  <2>4. ASSUME NEW u \in Texts, Store(u), row' # row PROVE row'.ans[q] = row.ans[q]
    <3>1. row.step < 3 /\ row' = Answered(row, u) /\ row \in RowType
      BY <2>1, <2>4, StoreStep DEF TypeOK
    <3>2. q <= row.step /\ row.step \in 0..3
      BY <2>1, <3>1 DEF RowOK, Ordered, RowType
    <3> QED
      BY <3>1, <3>2, AnsweredRow DEF Questions
  <2> QED
    BY <2>1, <2>2, <2>3, <2>4, NextCases, DeliverStep, ReadTextStep, FinishStep, NoteStep
<1> QED
  BY Kept, <1>1, PTL DEF Spec, AnswersKept

\* SurveyService.finish: a row is deleted only once a summary with its lead and
\* its answers was published, even by the handler of another text.
THEOREM Published == Spec => NothingDiscarded
<1> DEFINE Out == NoReset /\ Running /\ row' = NoRow =>
                    [lead |-> row.lead, ans |-> row.ans] \in notes
<1>1. IInv /\ [Next]_vars => [Out]_vars
  <2> SUFFICES ASSUME IInv, Next, NoReset, Running, row' = NoRow
               PROVE  [lead |-> row.lead, ans |-> row.ans] \in notes
    OBVIOUS
  <2>1. TypeOK /\ LeadsKnown /\ RowOK /\ BeforeReset /\ TextsOK
    BY DEF IInv, Undisturbed
  <2>2. row' # row
    BY DEF Running
  <2>3. ASSUME NEW u \in Starts, OnStart(u) PROVE FALSE
    BY <2>1, <2>2, <2>3, StartStep DEF BeforeReset, Running
  <2>4. ASSUME NEW u \in Texts, Store(u) PROVE FALSE
    <3>1. row.step < 3 /\ row' = Answered(row, u) /\ row \in RowType
      BY <2>1, <2>2, <2>4, StoreStep DEF TypeOK
    <3>2. row'.step = row.step + 1 /\ row.step \in 0..3
      BY <2>4, <3>1, AnsweredRow DEF RowType
    <3> QED
      BY <3>1, <3>2 DEF NoRow, Clean
  <2>5. PICK u \in Texts : h[u].at = "delete"
    BY <2>1, <2>2, <2>3, <2>4, NextCases, DeliverStep, ReadTextStep, FinishStep, NoteStep
  <2>6. TextOK(u) /\ h[u].mine \in RowType /\ row \in RowType
    BY <2>1, UpdatesCover DEF TextsOK, TypeOK
  <2>7. Summary(u) \in notes /\ About(h[u].seen) /\ PartOfRow(h[u].mine) /\ h[u].mine.step = 3
    BY <2>5, <2>6 DEF TextOK, Reading, Answering, Finishing
  <2>8. row.ans = h[u].mine.ans
    BY <2>6, <2>7 DEF PartOfRow, RowType, Questions
  <2>9. row.lead = h[u].seen.lead
    BY <2>1, <2>7 DEF RowOK, About, NoReset
  <2> QED
    BY <2>7, <2>8, <2>9 DEF Summary
<1> QED
  BY Kept, <1>1, PTL DEF Spec, NothingDiscarded
=============================================================================
