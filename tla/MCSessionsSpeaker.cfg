SPECIFICATION Spec
CONSTANTS
  Programs = {p1, p2}
  p1 = p1
  p2 = p2
  Logins <- ThreeLogins
  Says <- ChatSays
  Numerals <- LogoutAndChat
  NULL = NULL
  MAX_CLIENTS = 3
  FirstFd = 5
  MaxUnread = 1
  MaxRecords = 3
  MaxLives = 2
INVARIANT
  SpeakerIsTheClient
CHECK_DEADLOCK FALSE
