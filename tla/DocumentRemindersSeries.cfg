CONSTANTS
  Passengers = {c, p}
  Types = {"Passport", "Assignment"}
  RequestIds = {r1, r2, r3}
  Http = {h1}
  Ensurer = Ensurer
  c = c
  p = p
  Special = {}
  Filed <- AllButPassports
  Delays <- DelaysTwo
  LockDays = 2
  Limit <- LimitSeries
SPECIFICATION Spec
SYMMETRY RequestSymmetry
INVARIANTS
  TypeOK
  LockMeansLetter
  OneSeries
  GapsRequested
CHECK_DEADLOCK FALSE
