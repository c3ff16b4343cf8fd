CONSTANTS
  l1 = l1
  l2 = l2
  k1 = k1
  k2 = k2
  Texts = {t1, t2}
  Leads <- MCLeads
  Contacts <- MCContacts
  ContactOf <- MCContactOf
  NoLead = NoLead
  NoConv = NoConv
  NoContact = NoContact
  NoText = NoText
  Consumers = {c1, c2}
  Attempts = 2
  MaxCopies = 2
  Faults = {"refuse", "db", "crash", "duplicate"}
SPECIFICATION FairSpec
INVARIANTS TypeOK BodyRunsOnce NoDoubleText ChatExists
PROPERTY EventuallyMirrored
CHECK_DEADLOCK FALSE
