SPECIFICATION OnlineSpec
CONSTANTS
  Collections = {c1, c2}
  Ids = {i1, i2}
  Payloads = {v1, r1}
  NoPayload = NoPayload
  NoId = NoId
  NoPush = NoPush
  Throws = {}
  Fails = {}
  Rejected = {r1}
  Invalid = {}
  Pushes = {p1}
  CallerIds = {}
  Kinds <- OnlyPending
  Statuses = {"unlisted"}
PROPERTIES EventuallyRecorded EventuallySettled
