SPECIFICATION Spec
CONSTANTS
  Collections = {c1}
  Ids = {i1}
  Payloads = {v1, v2}
  NoPayload = NoPayload
  NoId = NoId
  NoPush = NoPush
  Throws = {}
  Fails = {}
  Rejected = {}
  Invalid = {}
  Pushes = {p1}
  CallerIds = {i1}
  Kinds <- OnlyPending
  Statuses = {"unlisted"}
SYMMETRY PushSymmetry
PROPERTIES RemovesWhatItSent
