SPECIFICATION Spec
CONSTANTS
  Clients = {0, 1, 2}
  Ana = Ana
  Bob = Bob
  Ids = {Ana, Bob}
  IdOf <- TwoUsers
  JPG = JPG
  PNG = PNG
  Exts = {JPG, PNG}
  ExtsOf <- AnaChanges
  Viewers = {}
  Leavers = {}
  MaxPictures <- BothSet
  MaxClicks = 1
  Large = TRUE
  Turns = FALSE
  None = None
INVARIANT UnderOwnersName
CHECK_DEADLOCK FALSE
