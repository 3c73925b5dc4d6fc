SPECIFICATION Spec
CONSTANTS
  Workers = {w1, w2}
  Ids = {s, t}
  Passwords = {s, t}
  ZeroLow = {}
  MaxCalls = 4
  NoOne = NoOne
  NoCall = NoCall
  NoReply = NoReply
  Blank = Blank
CHECK_DEADLOCK FALSE
INVARIANT LoginRight
