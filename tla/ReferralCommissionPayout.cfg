CONSTANTS
  k1 = k1
  k2 = k2
  q1 = q1
  Claims = {k1}
  Partners = {q1}
  NoPartner = NoPartner
  ReferredBy <- OneReferred
  Amounts = {1}
  RowIds = {s1}
  Orders = {1}
  Office = {o1, o2}
  Attempts = 2
  Total = 3
  Limit <- LimitPayout
SPECIFICATION Spec
INVARIANTS
  BalanceNeverNegative
CHECK_DEADLOCK FALSE
