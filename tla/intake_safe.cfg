SPECIFICATION BoardFairSpec
CONSTANTS
  a1 = a1
  a2 = a2
  c1 = c1
  c2 = c2
  Untouched = Untouched
  MaxUnheard = 1
  Apps = {a1, a2}
  HH = {a1}
  Avito = {a2}
  Changes = {c1, c2}
  LeadOf <- MCLeadOf
  Known = {c1}
  Sends <- MCSends
  Faults = {"fail", "refuse", "reauth", "lostreply", "crash"}
INVARIANTS BoardTypeOK OneLead OrderKept LastStateWins InvitedOnce
PROPERTIES EventuallyInvited
CHECK_DEADLOCK FALSE
