SPECIFICATION Spec
CONSTANTS
  Clients = {0, 1, 2}
  Ana = Ana
  Bob = Bob
  Ids = {Ana, Bob}
  IdOf <- TwoUsers
  JPG = JPG
  PNG = PNG
  Exts = {JPG, PNG}
  ExtsOf <- AnaChanges
  Viewers = {1}
  Leavers = {0}
  MaxPictures <- AnaSets
  MaxClicks = 2
  Large = TRUE
  Turns = TRUE
  None = None
INVARIANT TypeOK
PROPERTIES WindowShowsLast ImageReachesAll
CHECK_DEADLOCK FALSE
