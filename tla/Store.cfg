SPECIFICATION FairSpec
CONSTANTS
  Collections = {c1}
  Ids = {i1, i2}
  Payloads = {v1, f1}
  NoPayload = NoPayload
  NoId = NoId
  Throws = {f1}
  Fails = {f1}
  Threads = {t1, t2}
  NoCall = NoCall
  MaxFaults = 1
INVARIANTS TypeOK HandlerSeesStore QueueMoves
PROPERTIES ImplementsDurableTable EveryCallReturns
