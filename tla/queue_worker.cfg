SPECIFICATION Spec
CONSTANTS
  Tasks = {t1}
  Msgs = {m1, m2, m3}
  Workers = {w1}
  Apis = {}
  Schedulers = {s1}
  NoTask = NoTask
  NoMsg = NoMsg
  WorkerMax = 2
  RepubMax = 3
  AttBound = 3
  Limit = 1
  Faults = {"crash", "conn", "lostconfirm", "lostreply"}
INVARIANTS TypeOK NoLoss
CHECK_DEADLOCK FALSE
