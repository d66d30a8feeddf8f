\* Sides without common state, each as large as its hazards need: two requests
\* at a time and four events (five of PartnerLinks; three of Assignments, of
\* OfficeLetters, PassengerPayments and AirportIndex, and of ClaimViews with
\* pages of one claim).
CONSTANTS
  Emails = {a, A}
  Google = a
  Travellers = {p, q}
  Differing = 1
  Customer = c
  Others = {o}
  Claims = {c1, c2, c3}
  Old = {c1, c2}
  Codes = {x, y}
  Sources = {s}
  PageSize = 1
  Distances = {0, 1, 1500, 1501, 3500, 3501}
  Delays = {0, 1, 2, 3, 4}
  Airports = {a1, a2}
  SameName = {a2}
  Http = {h1, h2}
  Limit = 4
SPECIFICATION Spec
SYMMETRY Sym
INVARIANTS
  TypesOK
  AccountsConsistent
  RowsConsistent
  CopiesConsistent
  LinksConsistent
  ViewsConsistent
CHECK_DEADLOCK FALSE
