SPECIFICATION FairSpec
CONSTANTS
  Tasks = {t1}
  Msgs = {m1, m2, m3}
  Workers = {w1,w2}
  Apis = {a1}
  Schedulers = {s1}
  NoTask = NoTask
  NoMsg = NoMsg
  WorkerMax = 2
  RepubMax = 3
  AttBound = 3
  Limit = 2
  Faults = {"refuse"}
INVARIANT ExactlyOnce
PROPERTIES KeepsPromise EventuallySettled EventuallyDone
