CONSTANTS
  c = c
  p = p
  r1 = r1
  r2 = r2
  h1 = h1
  h2 = h2
  Passengers = {c, p}
  Customer = c
  Groups = {"Passport", "Assignment"}
  Http = {h1}
  Assigner = Assigner
  Office = Office
  RequestIds = {r2}
  NoRequest = NoRequest
  Concerns <- MCConcerns
  Typical = {r2}
  Batches <- SingleBatches
  Filed <- MCFiled
  Orders = {2}
  Limit <- LimitSignatures
  Total = 4
SPECIFICATION FairSpec
INVARIANTS
  SignatureAccounted
PROPERTIES
  SignatureAdvancesClaim
CHECK_DEADLOCK FALSE
