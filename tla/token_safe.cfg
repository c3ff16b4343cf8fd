SPECIFICATION FairSpec
CONSTANTS
  Clients = {c1}
  Callers = {}
  Schedulers = {s1}
  Callbacks = {a1}
  Starts = {u1, u2}
  MaxPair = 3
  Faults = {"crash", "refuse", "lostreply"}
INVARIANTS TypeOK ChainUnbroken
PROPERTIES NoStaleSave EventuallyFresh
CHECK_DEADLOCK FALSE
