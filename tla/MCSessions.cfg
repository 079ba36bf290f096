SPECIFICATION FairSpec
CONSTANTS
  Programs = {p1, p2}
  p1 = p1
  p2 = p2
  Logins <- TwoLogins
  Says <- AccountSays
  Numerals <- LogoutAndChat
  NULL = NULL
  MAX_CLIENTS = 2
  FirstFd = 5
  MaxUnread = 1
  MaxRecords = 3
  MaxLives = 2
INVARIANT TypeOK
INVARIANT OnlineSocketsAreOwn
INVARIANT NamesAreUnique
INVARIANT DatabaseRebuildsTheAccounts
INVARIANT FirstLifeIsSound
PROPERTY SessionsEndByHangup
PROPERTY EveryoneIsServed
CHECK_DEADLOCK FALSE
