CONSTANTS
  Days = {10, 11, 304, 305}
  Night = {10, 11}
  Answers <- LimitAnswers
  Missing = Missing
  Reported = {11, 304}
  Offered = {"FLIGHT_STATS", "FLIGHT_AWARE"}
  Http = {h1, h2}
  Worker = Worker
  Order <- MCOrder
  Attempts = 2
  Limit = 2
SPECIFICATION FairSpec
INVARIANTS
  TypeOK
  RowsOfSources
  AnswersFaithful
PROPERTIES
  JobCompletes
CHECK_DEADLOCK FALSE
