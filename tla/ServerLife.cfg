SPECIFICATION LifeSpec
CONSTANTS
  Workers = {w1, w2}
  Ids = {s}
  Passwords = {s, t}
  ZeroLow = {t}
  MaxCalls = 3
  MaxClients = 2
  MaxWork = 3
  MayNotStart = TRUE
  NoOne = NoOne
  NoCall = NoCall
  NoReply = NoReply
  Blank = Blank
CHECK_DEADLOCK FALSE
INVARIANTS TypeOK LifeTypeOK SocketsReturned
PROPERTIES IsAccountStore QueriesReturn ShutdownEnds
