CONSTANTS
  c = c
  p = p
  r1 = r1
  r2 = r2
  h1 = h1
  h2 = h2
  Passengers = {c, p}
  Customer = c
  Groups = {"Passport", "Assignment"}
  Http = {h1}
  Assigner = Assigner
  Office = Office
  RequestIds = {r1}
  NoRequest = NoRequest
  Concerns <- MCConcerns
  Typical = {r1}
  Batches <- PassportBatches
  Filed <- MCFiled
  Orders = {2}
  Limit <- LimitOverlap
  Total = 5
SPECIFICATION Spec
INVARIANTS
  TypeOK
  AdvancesJustified
  AdvanceHadEveryDocument
CHECK_DEADLOCK FALSE
