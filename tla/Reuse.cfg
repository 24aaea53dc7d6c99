SPECIFICATION FairSpec
CONSTANTS
  Collections = {c1}
  Ids = {i1}
  Payloads = {v1, v2, x1, t1}
  NoPayload = NoPayload
  NoId = NoId
  NoPush = NoPush
  Throws = {t1}
  Fails = {t1, x1}
  Rejected = {v2}
  Invalid = {x1}
  Pushes = {p1, p2}
  CallerIds = {i1}
  Kinds <- Mixed
  Statuses = {"garbled", "unauthorised", "described", "undescribed", "unlisted"}
INVARIANTS Kept BatchHandlerCalledOnce BatchFailureExplained
PROPERTIES YesMeansRecorded ImplementsKeyQueue EveryPushEnds
