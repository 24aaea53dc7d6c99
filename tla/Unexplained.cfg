SPECIFICATION Spec
CONSTANTS
  Collections = {c1}
  Ids = {i1}
  Payloads = {v1, x1}
  NoPayload = NoPayload
  NoId = NoId
  NoPush = NoPush
  Throws = {}
  Fails = {}
  Rejected = {x1}
  Invalid = {}
  Pushes = {p1}
  CallerIds = {}
  Kinds <- OnlyDirect
  Statuses = {"garbled", "unauthorised", "described", "undescribed", "unlisted"}
SYMMETRY PushSymmetry
INVARIANTS FailureExplained
