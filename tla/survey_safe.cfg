SPECIFICATION FairSpec
CONSTANTS
  s1 = s1
  s2 = s2
  l1 = l1
  l2 = l2
  Starts = {s1}
  LeadOf <- OneLead
  Texts = {t1, t2, t3}
  NoLead = NoLead
  NoText = NoText
  MaxOpen = 2
  MaxRuns <- TextsTwice
  Faults = {"refuse", "answer"}
INVARIANTS TypeOK AnswersInOrder SummaryComplete
PROPERTIES AnswersKept NothingDiscarded EventuallyFinished
CHECK_DEADLOCK FALSE
