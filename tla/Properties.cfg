SPECIFICATION Spec
CONSTANTS
  s1 = s1
  iso1 = iso1
  uuid1 = uuid1
  uuid2 = uuid2
  n1 = n1
  nan1 = nan1
  class1 = class1
  d1 = d1
  d2 = d2
  id = id
  timestamp = timestamp
  plain = plain
  tp = tp
  at = at
  answered = answered
  listing = listing
  c1 = c1
  Strings <- MCStrings
  Numbers = {n1}
  NotNumbers = {nan1}
  Dates = {d1, d2}
  Others = {class1}
  ISO8601 <- MCISO8601
  UUIDs = {uuid1, uuid2}
  Names = {id, timestamp, plain, tp, at, answered, listing}
  ReservedNames = {tp}
  OperatorNames = {at}
  AnsweredNames = {answered, listing}
  ListingNames = {listing}
  Answer <- MCAnswer
  IdName = id
  TimestampName = timestamp
  NoName = NoName
  Inputs <- MCInputs
  MaxDepth = 5
INVARIANTS ReadyForSerialization NothingElseChanges
PROPERTIES ProcessedOnce
CHECK_DEADLOCK FALSE
