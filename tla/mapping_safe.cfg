SPECIFICATION FairSpec
CONSTANTS
  sA = sA
  sB = sB
  sC = sC
  x = x
  y = y
  api = api
  worker = worker
  p1 = p1
  e1 = e1
  f1 = f1
  f2 = f2
  Statuses = {sA, sB, sC}
  Codes = {x, y}
  NoCode = NoCode
  Pipelines <- MCPipelines
  StageCode <- MCStageCode
  Stored <- MCStored
  Procs = {api, worker}
  Puts = {p1}
  PutMap <- MCPutMap
  Events = {e1}
  StatusOf <- MCStatusOf
  Fills = {f1, f2}
  On <- MCOn
INVARIANTS TypeOK NeverSeenEmpty
PROPERTIES ReplacesWhole AutofillDone
CHECK_DEADLOCK FALSE
