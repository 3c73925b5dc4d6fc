SPECIFICATION Spec
CONSTANTS
  Workers = {w1, w2}
  MaxClients = 3
  MaxSends <- OneEach
  MaxRequests = 2
  Ids = {a, b}
  LoginIds <- OneAccountEach
  Kinds = {"SIGNUP_INFO", "LOGIN_INFO", "TEXT"}
  Leavers = {0}
  Resets = FALSE
  NoOne = NoOne
  NoEntry = NoEntry
  Empty = Empty
  Me = Me
  CharValues = 256
  a = a
  b = b
CHECK_DEADLOCK FALSE
SYMMETRY WorkerSymmetry
INVARIANTS TypeOK SingleOwner OwnAlive GoodbyeReachesAll RosterComplete ServerListExact
