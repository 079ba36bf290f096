SPECIFICATION DeliverySpec
CONSTANTS
  Programs = {p1, p2}
  p1 = p1
  p2 = p2
  Logins <- TwoLogins
  Says <- DeliverySays
  Lines <- AllLines
  Numerals <- DigitsOnly
  NULL = NULL
  MAX_CLIENTS = 2
  FirstFd = 5
  MaxUnread = 1
  MaxRecords = 2
  MaxLives = 2
  PAGE_MAX_CLIENTS = 1
  MaxUnseen = 1
SYMMETRY ProgramSymmetry
VIEW DeliveryView
INVARIANT DeliveryTypeOK
INVARIANT TheIdIsNotMissed
INVARIANT OwnIdIsRight
PROPERTY EventsReachOthersOnce
PROPERTY AnswersGoToTheAsker
PROPERTY EventsNameTheSpeaker
CHECK_DEADLOCK FALSE
