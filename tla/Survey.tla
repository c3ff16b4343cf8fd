------------------------------- MODULE Survey -------------------------------
(***************************************************************************)
(* The survey a candidate goes through in the Telegram bot: one row of     *)
(* tg_surveys for the user and the bot (app/store_survey.py), changed by   *)
(* the handlers of /start and of texts (app/tg_router.py) and finished by  *)
(* publishing its results (app/services/survey_service.py).                *)
(*                                                                         *)
(* Telegram delivers updates to the webhook over several connections, and  *)
(* once more when a handler raised (app/api/tg_webhooks.py), so handlers   *)
(* of one user overlap. Transactions are READ COMMITTED.                   *)
(***************************************************************************)
EXTENDS Naturals, FiniteSets

CONSTANTS
    Starts,      \* /start updates
    LeadOf,      \* the lead in the link each of them opens
    Texts,       \* text updates
    NoLead, NoText,
    MaxOpen,     \* webhook connections Telegram opens
    MaxRuns,     \* deliveries of each update
    Faults

FaultKinds == {"refuse",   \* publish_task raises
               "answer"}   \* answering, or the response to Telegram, fails

Updates == Starts \cup Texts
Leads == {LeadOf[s] : s \in Starts}
Questions == 1..3   \* city, experience, time_pref

ASSUME UpdatesAssumption ==
    /\ Starts \cap Texts = {}
    /\ NoLead \notin Leads
    /\ NoText \notin Texts
ASSUME SurveyBoundsAssumption ==
    /\ MaxOpen \in Nat \ {0}
    /\ MaxRuns \in [Updates -> Nat \ {0}]
ASSUME SurveyFaultsAssumption == Faults \subseteq FaultKinds

VARIABLES
    row,     \* the survey row
    notes,   \* summaries published as amo_add_note, each with its lead
    h        \* the handler of each update

vars == <<row, notes, h>>

Blank == [q \in Questions |-> NoText]
Clean(l) == [lead |-> l, step |-> 0, ans |-> Blank]
NoRow == Clean(NoLead)
Running == row # NoRow

RowType == [lead : Leads \cup {NoLead}, step : 0..3,
            ans : [Questions -> Texts \cup {NoText}]]

\* Every variable has its type.
TypeOK ==
    /\ row \in RowType
    /\ notes \subseteq [lead : Leads, ans : [Questions -> Texts \cup {NoText}]]
    /\ h \in [Updates -> [at : {"new", "read", "reset", "announce", "get",
                                "mirror", "store", "reread", "tags", "note",
                                "status", "delete", "failed", "reply", "done"},
                          seen : RowType,    \* the row the handler read first
                          mine : RowType,    \* the row store_answer returned
                          run : Nat \ {0}]]
    /\ \A u \in Updates : h[u].run <= MaxRuns[u]

Init ==
    /\ row = NoRow
    /\ notes = {}
    /\ h = [u \in Updates |->
              [at |-> "new", seen |-> NoRow, mine |-> NoRow, run |-> 1]]

Goto(u, l) == h' = [h EXCEPT ![u].at = l]

\* The update is answered with 200 and forgotten.
End(u) == h' = [h EXCEPT ![u].at = "done", ![u].seen = NoRow, ![u].mine = NoRow]

\* The handler raises, Telegram gets a 500 and delivers the update again.
Raise(u) ==
    IF h[u].run < MaxRuns[u]
    THEN h' = [h EXCEPT ![u].at = "new", ![u].seen = NoRow, ![u].mine = NoRow,
                        ![u].run = @ + 1]
    ELSE End(u)

Open == {u \in Updates : h[u].at \notin {"new", "done"}}

Deliver(u) ==
    /\ h[u].at = "new"
    /\ Cardinality(Open) < MaxOpen
    /\ Goto(u, IF u \in Starts THEN "read" ELSE "get")
    /\ UNCHANGED <<row, notes>>

-----------------------------------------------------------------------------
\* /start: start_or_reset_survey, then the announcements

ReadExisting(u) ==
    /\ h[u].at = "read"
    /\ h' = [h EXCEPT ![u].at = "reset", ![u].seen = row]
    /\ UNCHANGED <<row, notes>>

\* Only the columns that differed from a clean row when it was read.
Diffed(u) ==
    LET old == h[u].seen
        new == Clean(LeadOf[u])
    IN  [lead |-> IF old.lead # new.lead THEN new.lead ELSE row.lead,
         step |-> IF old.step # new.step THEN new.step ELSE row.step,
         ans  |-> [q \in Questions |->
                     IF old.ans[q] # new.ans[q] THEN new.ans[q] ELSE row.ans[q]]]

\* INSERT ... ON CONFLICT DO UPDATE of the difference, or DO NOTHING when
\* there was no row, or no difference.
Reset(u) ==
    /\ h[u].at = "reset"
    /\ row' = IF ~Running THEN Clean(LeadOf[u])
              ELSE IF h[u].seen = NoRow THEN row
              ELSE Diffed(u)
    /\ Goto(u, "announce")
    /\ UNCHANGED notes

\* mark_went_to_bot_async, the greeting and the first question.
Announce(u) ==
    /\ h[u].at = "announce"
    /\ \/ End(u)
       \/ Faults # {} /\ Raise(u)
    /\ UNCHANGED <<row, notes>>

-----------------------------------------------------------------------------
\* A text: get the survey, mirror the text, store the answer

\* Without a survey the text is only mirrored, by way of the user's link.
Get(u) ==
    /\ h[u].at = "get"
    /\ \/ Running /\ h' = [h EXCEPT ![u].at = "mirror", ![u].seen = row]
       \/ ~Running /\ End(u)
       \/ ~Running /\ Faults # {} /\ Raise(u)
    /\ UNCHANGED <<row, notes>>

Mirror(u) ==
    /\ h[u].at = "mirror"
    /\ \/ Goto(u, "store")
       \/ "refuse" \in Faults /\ Raise(u)
    /\ UNCHANGED <<row, notes>>

\* Faulty: the answer goes to the question before.
AnsweredLate(r, t) == [r EXCEPT !.step = @ + 1, !.ans[r.step] = t]

Answered(r, t) == [r EXCEPT !.step = @ + 1, !.ans[r.step + 1] = t]

\* Faulty: the answer goes by the row that was read at the beginning.
StoreUnlocked(u) ==
    /\ h[u].at = "store"
    /\ Running
    /\ \/ /\ h[u].seen.step < 3
          /\ row' = Answered(h[u].seen, u)
          /\ h' = [h EXCEPT ![u].at = "reread", ![u].mine = row']
       \/ /\ h[u].seen.step = 3
          /\ h' = [h EXCEPT ![u].at = "tags", ![u].mine = row]
          /\ UNCHANGED row
    /\ UNCHANGED notes

\* Faulty: nothing stops at the last question.
StoreUnguarded(u) ==
    /\ h[u].at = "store"
    /\ Running
    /\ row' = Answered(row, u)
    /\ h' = [h EXCEPT ![u].at = "reread", ![u].mine = row']
    /\ UNCHANGED notes

\* store_answer_and_advance: SELECT ... FOR UPDATE, UPDATE, COMMIT.
Store(u) ==
    /\ h[u].at = "store"
    /\ \/ /\ ~Running
          /\ Goto(u, "reply")
          /\ UNCHANGED row
       \/ /\ Running /\ row.step < 3
          /\ row' = Answered(row, u)
          /\ h' = [h EXCEPT ![u].at = "reread", ![u].mine = row']
       \/ /\ Running /\ row.step = 3
          /\ h' = [h EXCEPT ![u].at = "tags", ![u].mine = row]
          /\ UNCHANGED row
    /\ UNCHANGED notes

\* Faulty: the survey is finished one question early.
RereadEarly(u) ==
    /\ h[u].at = "reread"
    /\ Goto(u, IF Running /\ h[u].mine.step >= 2 THEN "tags" ELSE "reply")
    /\ UNCHANGED <<row, notes>>

\* The second SELECT finds no row, or leaves the object of the session as the
\* handler's own UPDATE made it (expire_on_commit=False).
Reread(u) ==
    /\ h[u].at = "reread"
    /\ Goto(u, IF Running /\ h[u].mine.step = 3 THEN "tags" ELSE "reply")
    /\ UNCHANGED <<row, notes>>

-----------------------------------------------------------------------------
\* SurveyService.finish: a failed publish is logged and ends it

PublishOr(u, next) == Goto(u, next) \/ ("refuse" \in Faults /\ Goto(u, "failed"))

Tags(u) ==
    /\ h[u].at = "tags"
    /\ PublishOr(u, "note")
    /\ UNCHANGED <<row, notes>>

Summary(u) == [lead |-> h[u].seen.lead, ans |-> h[u].mine.ans]

\* Faulty: after the failure is logged, finish goes on.
NoteUnchecked(u) ==
    /\ h[u].at = "note"
    /\ notes' \in {notes \cup {Summary(u)}, notes}
    /\ Goto(u, "status")
    /\ UNCHANGED row

Note(u) ==
    /\ h[u].at = "note"
    /\ \/ notes' = notes \cup {Summary(u)} /\ Goto(u, "status")
       \/ "refuse" \in Faults /\ Goto(u, "failed") /\ UNCHANGED notes
    /\ UNCHANGED row

\* Faulty: finish does not delete the survey.
StatusEnds(u) ==
    /\ h[u].at = "status"
    /\ Goto(u, "reply")
    /\ UNCHANGED <<row, notes>>

Status(u) ==
    /\ h[u].at = "status"
    /\ PublishOr(u, "delete")
    /\ UNCHANGED <<row, notes>>

\* delete_survey: whatever row of the user is there now.
Delete(u) ==
    /\ h[u].at = "delete"
    /\ row' = NoRow
    /\ Goto(u, "reply")
    /\ UNCHANGED notes

\* m.answer and the mirroring of the prompt.
Reply(u) ==
    /\ h[u].at \in {"reply", "failed"}
    /\ \/ End(u)
       \/ Faults # {} /\ Raise(u)
    /\ UNCHANGED <<row, notes>>

-----------------------------------------------------------------------------
OnStart(u) == ReadExisting(u) \/ Reset(u) \/ Announce(u)
Finish(u) == Tags(u) \/ Note(u) \/ Status(u) \/ Delete(u)
OnText(u) == Get(u) \/ Mirror(u) \/ Store(u) \/ Reread(u) \/ Finish(u) \/ Reply(u)

Next ==
    \/ \E u \in Updates : Deliver(u)
    \/ \E u \in Starts : OnStart(u)
    \/ \E u \in Texts : OnText(u)

Spec == Init /\ [][Next]_vars

\* Event loops run, and Telegram delivers.
Fairness ==
    /\ WF_vars(\E u \in Updates : Deliver(u))
    /\ \A u \in Starts : WF_vars(OnStart(u))
    /\ \A u \in Texts : WF_vars(OnText(u))

FairSpec == Spec /\ Fairness

-----------------------------------------------------------------------------
\* Properties

\* One /start, delivered once: nothing resets the survey on the way.
NoReset == \E s \in Starts : Starts = {s} /\ MaxRuns[s] = 1

\* Without a reset, exactly the questions before the current step have their
\* answers, however the texts overlap and are delivered again.
AnswersInOrder ==
    NoReset /\ Running =>
        \A q \in Questions : row.ans[q] # NoText <=> q <= row.step

\* ... no answer is overwritten by another text (FOR UPDATE),
AnswersKept ==
    [][NoReset /\ Running /\ row' # NoRow =>
         \A q \in Questions : row.ans[q] # NoText => row'.ans[q] = row.ans[q]]_vars

\* ... and the row is deleted only after its answers were published, for the
\* lead it is about.
NothingDiscarded ==
    [][NoReset /\ Running /\ row' = NoRow =>
         [lead |-> row.lead, ans |-> row.ans] \in notes]_vars

\* A published summary answers every question.
SummaryComplete ==
    NoReset => \A n \in notes : \A q \in Questions : n.ans[q] # NoText

\* A survey does not stay behind the handler that sees it completed, unless
\* publishing its results fails.
EventuallyFinished ==
    \A t \in Texts :
        h[t].at \in {"reread", "tags"} /\ h[t].mine.step = 3
            ~> ~Running \/ row.step < 3 \/ h[t].at = "failed"

\* tg_router.py, on_start: the survey of a /start has begun; finishing another
\* one does not take it away.
OnlyFinishedDeleted ==
    [][Running /\ row' = NoRow => row.step = 3]_vars

=============================================================================
