SPECIFICATION Spec
CONSTANTS
  u1 = u1
  u2 = u2
  l1 = l1
  l2 = l2
  k1 = k1
  x1 = x1
  Users = {u1, u2}
  Links <- TwoUsersLinks
  Leads = {l1, l2}
  Contacts = {k1}
  ContactOf <- SecondHasContact
  NoLead = NoLead
  NoConv = NoConv
  NoContact = NoContact
  NoUser = NoUser
  Msgs = {m1, m2}
  Texts = {x1}
  TextOf <- OneText
  Idents = {FALSE}
  Forms <- BothNames
  Sends <- FirstTwice
  Attempts = 2
  MaxCopies = 1
  MaxStarts = 1
  Faults = {"crash"}
INVARIANTS TypeOK ChatOfUser NoStranger ShownOnce NeverMistaken
CHECK_DEADLOCK FALSE
