CONSTANTS
  k1 = k1
  k2 = k2
  q1 = q1
  Claims = {k1}
  Partners = {q1}
  NoPartner = NoPartner
  ReferredBy <- OneReferred
  Amounts = {1, 2}
  RowIds = {s1, s2}
  Orders = {1, 2}
  Office = {o1, o2}
  Attempts = 2
  Total = 5
  Limit <- LimitWhole
SPECIFICATION FairSpec
INVARIANTS
  TypeOK
  MoneyAccounted
  RewardedClaimsStay
PROPERTIES
  LedgerRefined
  PaidStepRewards
CHECK_DEADLOCK FALSE
