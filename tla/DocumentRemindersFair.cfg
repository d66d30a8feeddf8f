CONSTANTS
  Passengers = {c}
  Types = {"Passport"}
  RequestIds = {r1, r2}
  Http = {h1}
  Ensurer = Ensurer
  c = c
  p = p
  Special = {r1}
  Filed = {}
  Delays <- DelaysTwo
  LockDays = 2
  Limit <- LimitFair
SPECIFICATION FairSpec
PROPERTIES
  OpenRequestMentioned
CHECK_DEADLOCK FALSE
