-------------------------- MODULE MCSideComponents --------------------------
(***************************************************************************)
(* Ten components that share no state of their models, in one run: every   *)
(* behaviour is one of a single component, the one Init chooses, and the   *)
(* variables of the others are idle.  The reachable states are those of    *)
(* the ten specifications, one after the other.                            *)
(***************************************************************************)
EXTENDS TLC, Integers, FiniteSets

CONSTANTS
  Emails, Google,    \* the addresses of Accounts
  Travellers,        \* passengers of Discrepancies, and the users of PartnerLinks
  Differing,         \* of Discrepancies
  Customer, Others,  \* of Assignments and PassengerLinks
  Claims, Old,       \* of ClaimViews; the old ones also of OfficeLetters
  Codes, Sources,    \* of PartnerLinks
  PageSize,          \* of ClaimViews
  Distances, Delays, \* of Compensation
  Airports, SameName, \* of AirportIndex
  Http,              \* requests in progress, in every component
  Limit              \* bound on the events of a component, give or take one

VARIABLES
  moving,  \* the component that moves
  users, linked, pending, reset, accountRequest, mailed, sent, over, accountMet,
  accountBroken, changed, googled, stopped, accountSpent,
  docs, rows, task, failed, hubSpent,
  person, flight, assignments, jobs, assignmentRequest, moved, assignmentMet,
  assignmentBroken, removed, edited, assignmentSpent,
  holder, copied, links, linkRequest, seen, used, linkMet, refused, linkBroken,
  linkSpent,
  claim, reader, stats, viewRequest, clashed, viewSpent,
  role, code, link, credit, partnerRequest, visits, unknown, lost, short,
  partnerSpent,
  filed, mail, letterRequest, refiled, early, letterBroken, letterSpent,
  facts, answer,
  there, state, passengers, letters, paymentRequest, asked, failures, unsent,
  paymentMet, paymentBroken, paymentSpent,
  table, index, sync, late, cache, search, partial, reloaded, miscounted, overtaken,
  emptied, earlyAnswers, indexSpent

accountVars == <<users, linked, pending, reset, accountRequest, mailed, sent, over,
                 accountMet, accountBroken, changed, googled, stopped, accountSpent>>
hubVars == <<docs, rows, task, failed, hubSpent>>
assignmentVars == <<person, flight, assignments, jobs, assignmentRequest, moved,
                    assignmentMet, assignmentBroken, removed, edited,
                    assignmentSpent>>
linkVars == <<holder, copied, links, linkRequest, seen, used, linkMet, refused,
              linkBroken, linkSpent>>
viewVars == <<claim, reader, stats, viewRequest, clashed, viewSpent>>
partnerVars == <<role, code, link, credit, partnerRequest, visits, unknown, lost,
                 short, partnerSpent>>
letterVars == <<filed, mail, letterRequest, refiled, early, letterBroken, letterSpent>>
paymentVars == <<there, state, passengers, letters, paymentRequest, asked, failures,
                 unsent, paymentMet, paymentBroken, paymentSpent>>
indexVars == <<table, index, sync, late, cache, search, partial, reloaded, miscounted,
               overtaken, emptied, earlyAnswers, indexSpent>>
vars == <<moving, accountVars, hubVars, assignmentVars, linkVars, viewVars,
          partnerVars, letterVars, facts, answer, paymentVars, indexVars>>

Accounts == INSTANCE Accounts
  WITH request <- accountRequest, met <- accountMet,
       broken <- accountBroken, spent <- accountSpent
Hub == INSTANCE Discrepancies
  WITH Passengers <- Travellers, Staff <- Http, Uploads <- Limit - 1,
       spent <- hubSpent
Assignments == INSTANCE Assignments
  WITH Limit <- Limit - 1, docs <- assignments, request <- assignmentRequest,
       met <- assignmentMet, broken <- assignmentBroken, spent <- assignmentSpent
Links == INSTANCE PassengerLinks
  WITH person <- holder, request <- linkRequest, met <- linkMet,
       broken <- linkBroken, spent <- linkSpent
Views == INSTANCE ClaimViews
  WITH Limit <- Limit - 1, request <- viewRequest, spent <- viewSpent
Partners == INSTANCE PartnerLinks
  WITH Users <- Travellers, Claims <- {CHOOSE c \in Old : TRUE}, Limit <- Limit + 1,
       claim <- credit, request <- partnerRequest, early <- unknown,
       broken <- lost, spent <- partnerSpent
Letters == INSTANCE OfficeLetters
  WITH Claims <- Old, Limit <- Limit - 1, claim <- filed, request <- letterRequest,
       moved <- refiled, broken <- letterBroken, spent <- letterSpent
Compensation == INSTANCE Compensation
Payments == INSTANCE PassengerPayments
  WITH Limit <- Limit - 1, request <- paymentRequest, lost <- unsent, met <- paymentMet,
       broken <- paymentBroken, spent <- paymentSpent
Index == INSTANCE AirportIndex
  WITH Limit <- Limit - 1, early <- earlyAnswers, spent <- indexSpent

\* Google knows one of the addresses, and nobody and none are no address, user,
\* code or claim; the customer is not one of the other passengers, a request of
\* the back office is none of the tasks an upload starts; claims, codes, sources
\* and requests are finitely many; a page holds some claim, kilometres and hours
\* are whole, and there is an airport.
ASSUME SideAssumption ==
  /\ Limit \in Nat \ {0}
  /\ Google \in Emails /\ Accounts!NoOne \notin Emails
  /\ Partners!None \notin Codes \cup Travellers
  /\ IsFiniteSet(Codes) /\ IsFiniteSet(Sources) /\ IsFiniteSet(Http)
  /\ Customer \notin Others
  /\ Http \cap ((1..(Limit - 1)) \X Hub!Kinds) = {}
  /\ IsFiniteSet(Claims) /\ Old \subseteq Claims /\ Letters!None \notin Old
  /\ PageSize \in Nat \ {0}
  /\ Distances \subseteq Nat /\ Delays \subseteq Nat
  /\ Airports # {}

Components ==
  {"accounts", "discrepancies", "assignments", "links", "views", "partners",
   "letters", "compensation", "payments", "airports"}

Idle == "idle"
AccountsIdle ==
  /\ users = Idle /\ linked = Idle /\ pending = Idle /\ reset = Idle
  /\ accountRequest = Idle /\ mailed = Idle /\ sent = Idle /\ over = Idle
  /\ accountMet = Idle /\ accountBroken = Idle /\ changed = Idle
  /\ googled = Idle /\ stopped = Idle /\ accountSpent = Idle
DiscrepanciesIdle ==
  /\ docs = Idle /\ rows = Idle /\ task = Idle /\ failed = Idle
  /\ hubSpent = Idle
AssignmentsIdle ==
  /\ person = Idle /\ flight = Idle /\ assignments = Idle /\ jobs = Idle
  /\ assignmentRequest = Idle /\ moved = Idle /\ assignmentMet = Idle
  /\ assignmentBroken = Idle /\ removed = Idle /\ edited = Idle
  /\ assignmentSpent = Idle
PassengerLinksIdle ==
  /\ holder = Idle /\ copied = Idle /\ links = Idle /\ linkRequest = Idle
  /\ seen = Idle /\ used = Idle /\ linkMet = Idle /\ refused = Idle
  /\ linkBroken = Idle /\ linkSpent = Idle
ClaimViewsIdle ==
  /\ claim = Idle /\ reader = Idle /\ stats = Idle /\ viewRequest = Idle
  /\ clashed = Idle /\ viewSpent = Idle
PartnerLinksIdle ==
  /\ role = Idle /\ code = Idle /\ link = Idle /\ credit = Idle
  /\ partnerRequest = Idle /\ visits = Idle /\ unknown = Idle /\ lost = Idle
  /\ short = Idle /\ partnerSpent = Idle
OfficeLettersIdle ==
  /\ filed = Idle /\ mail = Idle /\ letterRequest = Idle /\ refiled = Idle
  /\ early = Idle /\ letterBroken = Idle /\ letterSpent = Idle
CompensationIdle ==
  /\ facts = Idle /\ answer = Idle
PassengerPaymentsIdle ==
  /\ there = Idle /\ state = Idle /\ passengers = Idle /\ letters = Idle
  /\ paymentRequest = Idle /\ asked = Idle /\ failures = Idle /\ unsent = Idle
  /\ paymentMet = Idle /\ paymentBroken = Idle /\ paymentSpent = Idle
AirportIndexIdle ==
  /\ table = Idle /\ index = Idle /\ sync = Idle /\ late = Idle /\ cache = Idle
  /\ search = Idle /\ partial = Idle /\ reloaded = Idle /\ miscounted = Idle
  /\ overtaken = Idle /\ emptied = Idle /\ earlyAnswers = Idle
  /\ indexSpent = Idle

Init ==
  /\ moving \in Components
  /\ IF moving = "accounts" THEN Accounts!Init ELSE AccountsIdle
  /\ IF moving = "discrepancies" THEN Hub!Init ELSE DiscrepanciesIdle
  /\ IF moving = "assignments" THEN Assignments!Init ELSE AssignmentsIdle
  /\ IF moving = "links" THEN Links!Init ELSE PassengerLinksIdle
  /\ IF moving = "views" THEN Views!Init ELSE ClaimViewsIdle
  /\ IF moving = "partners" THEN Partners!Init ELSE PartnerLinksIdle
  /\ IF moving = "letters" THEN Letters!Init ELSE OfficeLettersIdle
  /\ IF moving = "compensation" THEN Compensation!Init ELSE CompensationIdle
  /\ IF moving = "payments" THEN Payments!Init ELSE PassengerPaymentsIdle
  /\ IF moving = "airports" THEN Index!Init ELSE AirportIndexIdle

MoveAccounts ==
  /\ moving = "accounts" /\ Accounts!Next
  /\ UNCHANGED <<moving, hubVars, assignmentVars, linkVars, viewVars,
                 partnerVars, letterVars, facts, answer, paymentVars,
                 indexVars>>
MoveDiscrepancies ==
  /\ moving = "discrepancies" /\ Hub!Next
  /\ UNCHANGED <<moving, accountVars, assignmentVars, linkVars, viewVars,
                 partnerVars, letterVars, facts, answer, paymentVars,
                 indexVars>>
MoveAssignments ==
  /\ moving = "assignments" /\ Assignments!Next
  /\ UNCHANGED <<moving, accountVars, hubVars, linkVars, viewVars,
                 partnerVars, letterVars, facts, answer, paymentVars,
                 indexVars>>
MoveLinks ==
  /\ moving = "links" /\ Links!Next
  /\ UNCHANGED <<moving, accountVars, hubVars, assignmentVars, viewVars,
                 partnerVars, letterVars, facts, answer, paymentVars,
                 indexVars>>
MoveViews ==
  /\ moving = "views" /\ Views!Next
  /\ UNCHANGED <<moving, accountVars, hubVars, assignmentVars, linkVars,
                 partnerVars, letterVars, facts, answer, paymentVars,
                 indexVars>>
MovePartners ==
  /\ moving = "partners" /\ Partners!Next
  /\ UNCHANGED <<moving, accountVars, hubVars, assignmentVars, linkVars,
                 viewVars, letterVars, facts, answer, paymentVars,
                 indexVars>>
MoveLetters ==
  /\ moving = "letters" /\ Letters!Next
  /\ UNCHANGED <<moving, accountVars, hubVars, assignmentVars, linkVars,
                 viewVars, partnerVars, facts, answer, paymentVars,
                 indexVars>>
MoveCompensation ==
  /\ moving = "compensation" /\ Compensation!Next
  /\ UNCHANGED <<moving, accountVars, hubVars, assignmentVars, linkVars,
                 viewVars, partnerVars, letterVars, paymentVars, indexVars>>
MovePayments ==
  /\ moving = "payments" /\ Payments!Next
  /\ UNCHANGED <<moving, accountVars, hubVars, assignmentVars, linkVars,
                 viewVars, partnerVars, letterVars, facts, answer, indexVars>>
MoveAirports ==
  /\ moving = "airports" /\ Index!Next
  /\ UNCHANGED <<moving, accountVars, hubVars, assignmentVars, linkVars,
                 viewVars, partnerVars, letterVars, facts, answer, paymentVars>>

Next ==
  \/ MoveAccounts \/ MoveDiscrepancies \/ MoveAssignments \/ MoveLinks
  \/ MoveViews \/ MovePartners \/ MoveLetters \/ MoveCompensation
  \/ MovePayments \/ MoveAirports
Spec == Init /\ [][Next]_vars

Sym == Permutations(Http) \cup Permutations(Travellers)

-----------------------------------------------------------------------------
(* The properties of the ten, each stated where its component is, and     *)
(* looked at in the behaviours that move it.                               *)

\* The variables of every component have the shape the code gives them.
TypesOK ==
  /\ moving = "accounts" => Accounts!TypeOK
  /\ moving = "discrepancies" => Hub!TypeOK
  /\ moving = "assignments" => Assignments!TypeOK
  /\ moving = "links" => Links!TypeOK
  /\ moving = "views" => Views!TypeOK
  /\ moving = "partners" => Partners!TypeOK
  /\ moving = "letters" => Letters!TypeOK
  /\ moving = "compensation" => Compensation!TypeOK
  /\ moving = "payments" => Payments!TypeOK
  /\ moving = "airports" => Index!TypeOK

\* A mailbox has one user, codes are good for what they were mailed for, and a
\* partner is credited with the visits and claims of its links
\* (auth.controller.ts, auth.service.ts, user.service.ts, partner.service.ts,
\* referral-links.service.ts).
AccountsConsistent ==
  /\ moving = "accounts" => Accounts!AccountsConsistent
  /\ moving = "partners" => Partners!CreditsConsistent

\* Discrepancies are about documents of the claim that are there
\* (discrepancy-hub.service.ts).
RowsConsistent == moving = "discrepancies" => Hub!RowsConsistent

\* A signature is on one assignment, which says what the claim says, a letter is
\* kept under the claim of its thread, and the payment of a passenger agrees
\* with the status and the letters (document-assignment.service.ts,
\* letter.controller.ts, email.service.ts, customer.controller.ts).
CopiesConsistent ==
  /\ moving = "assignments" => Assignments!CopiesConsistent
  /\ moving = "letters" => Letters!LettersFiled
  /\ moving = "payments" => Payments!PaymentsConsistent

\* A link is spent for one signature or upload
\* (public-other-passenger.controller.ts, generate-links.controller.ts).
LinksConsistent == moving = "links" => Links!LinksConsistent

\* Lists, statistics, the flag of news and the airports show what there is, and a
\* visitor is told amounts that fit each other (claim-search.service.ts,
\* claim-stats.service.ts, recent-updates.service.ts, claim.service.ts,
\* search-sync.service.ts, airport.gateway.ts).
ViewsConsistent ==
  /\ moving = "views" => Views!ViewsConsistent
  /\ moving = "compensation" => Compensation!AmountsConsistent
  /\ moving = "airports" => Index!IndexConsistent
=============================================================================
