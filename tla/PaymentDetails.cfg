CONSTANTS
  Http = {h1, h2}
  Delays = {0, 1}
  BlockDays = 2
  Attempts = 2
  MaxLinks = 2
  Total = 5
  Limit <- LimitLinks
SPECIFICATION FairSpec
INVARIANTS
  TypeOK
  NoLetterAfterAnswer
  RequestedMeansOpen
  LinkAnswersOnce
  NewDetailsFlagged
PROPERTIES
  RequestReachesCustomer
CHECK_DEADLOCK FALSE
