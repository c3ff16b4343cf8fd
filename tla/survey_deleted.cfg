SPECIFICATION Spec
CONSTANTS
  s1 = s1
  s2 = s2
  l1 = l1
  l2 = l2
  Starts = {s1, s2}
  LeadOf <- TwoLeads
  Texts = {t1, t2, t3}
  NoLead = NoLead
  NoText = NoText
  MaxOpen = 2
  MaxRuns <- Once
  Faults = {}
PROPERTIES OnlyFinishedDeleted
CHECK_DEADLOCK FALSE
