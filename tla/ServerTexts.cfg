SPECIFICATION FairSpec
CONSTANTS
  Workers = {w1, w2}
  MaxClients = 2
  MaxSends <- FourNone
  MaxRequests = 2
  Ids = {a, b}
  LoginIds <- OneAccountEach
  Kinds = {"LOGIN_INFO", "TEXT"}
  Leavers = {0, 1}
  Resets = TRUE
  NoOne = NoOne
  NoEntry = NoEntry
  Empty = Empty
  Me = Me
  CharValues = 256
  a = a
  b = b
CHECK_DEADLOCK FALSE
INVARIANTS IdMapWithinClients NoOrphan TextsAreSigned TextsContiguous NothingAfterGoodbye 
PROPERTIES RequestsAnswered TextsDelivered
