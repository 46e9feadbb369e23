SPECIFICATION SessionSpec
CONSTANTS
  i = i
  s = s
  q1 = q1
  q2 = q2
  w = w
  t1 = t1
  doc = doc
  noDoc = noDoc
  Reqs <- MCReqs
  Docs = {doc, noDoc}
  Tasks = {w, t1}
  MethodOf <- MCMethodOf
  DocOf <- MCDocOf
  PriorityOf <- MCPriorityOf
  PoolSize = 1
  Loads <- MCLoads
  Watcher = w
  BadFrames <- MCBadFrames
CHECK_DEADLOCK FALSE
INVARIANTS TypeOK FinishedWorkIsDelivered NothingLeftBehind
PROPERTIES ImplementsService EveryRequestAnswered EndedSessionExits OrphanExits
