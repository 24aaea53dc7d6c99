SPECIFICATION OnlineSpec
CONSTANTS
  Collections = {c1}
  Ids = {i1, i2}
  Payloads = {v1, t1}
  NoPayload = NoPayload
  NoId = NoId
  NoPush = NoPush
  Throws = {t1}
  Fails = {}
  Rejected = {}
  Invalid = {}
  Pushes = {p1}
  CallerIds = {}
  Kinds <- OnlyPending
  Statuses = {"unlisted"}
PROPERTIES EventuallyRecorded
