CONSTANTS
  Ids = {i1, i2}
  Trips = {t}
  Http = {h1, h2}
  Steps = {8}
  MaxAttempts = 2
  FollowUps = 1
  Attempts = 2
  Limit <- LimitIntake
  Total = 3
SPECIFICATION Spec
SYMMETRY IntakeSymmetry
INVARIANTS
  TypeOK
  DuplicatesLinked
  ClaimsKept
  LettersOnce
PROPERTIES
  LettersWelcome
CHECK_DEADLOCK FALSE
