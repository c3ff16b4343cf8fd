CONSTANTS
  l1 = l1
  l2 = l2
  k1 = k1
  k2 = k2
  Texts = {t1, t2}
  Leads <- MCLeads
  Contacts <- MCContacts
  ContactOf <- MCContactOf
  NoLead = NoLead
  NoConv = NoConv
  NoContact = NoContact
  NoText = NoText
  Consumers = {c1}
  Attempts = 2
  MaxCopies = 2
  Faults = {"refuse"}
SPECIFICATION Spec
INVARIANT SkippedOnlyIfProcessed
CHECK_DEADLOCK FALSE
