----------------------------- MODULE Compensation -----------------------------
(***************************************************************************)
(* What a visitor is told a claim may be worth: calculateCompensation, a   *)
(* function of the facts in the form and of the distance.                  *)
(*                                                                         *)
(* Distances are kilometres of the straight line between the airports,     *)
(* rounded up; a fraction matters only next to the limits of the classes.  *)
(***************************************************************************)
EXTENDS Integers

CONSTANTS
  Distances,  \* of the flights asked about; 0 within one airport
  Delays      \* hours by which the alternative flight is late

Facts ==
  [distance : Distances,
   delay : {"none", "less_than_3hours", "never_arrived", "threehours_or_more"},
   notice : {"none", "less_than_14days", "fourteen_days_or_more"},
   denied : BOOLEAN, alternative : BOOLEAN, late : Delays, malta : BOOLEAN]

NoFacts == [asked |-> FALSE]
Refused == 0 - 1

VARIABLES facts, answer
vars == <<facts, answer>>

\* The classes of distance: up to 1500 km, up to 3500 km and beyond.
Class(f) == IF f.distance <= 1500 THEN 1 ELSE IF f.distance <= 3500 THEN 2 ELSE 3

\* arrivalDelayWithinThreshold: two, three or four hours.
WithinThreshold(f) == f.late < Class(f) + 1

Late(f) == f.delay \in {"threehours_or_more", "never_arrived"}
Cancelled(f) == f.notice = "less_than_14days"

Excluded(f) ==
  \/ f.delay = "less_than_3hours" /\ ~f.denied
  \/ f.notice = "fourteen_days_or_more"

Eligible(f) == ~Excluded(f) /\ (Late(f) \/ Cancelled(f) \/ f.denied)

Halved(f) == Cancelled(f) /\ f.alternative /\ WithinThreshold(f)

Base(f) == <<250, 400, 600>>[Class(f)]

\* The one of Wizz Air Malta is 50 less, after halving.
Amount(f) ==
  IF ~Eligible(f) THEN 0
  ELSE (IF Halved(f) THEN Base(f) \div 2 ELSE Base(f)) - (IF f.malta THEN 50 ELSE 0)

\* A distance of nought is taken for one that is missing.
Worth(f) == IF f.distance = 0 THEN Refused ELSE Amount(f)

Init == facts = NoFacts /\ answer = 0

Ask(f) == facts' = f /\ answer' = Worth(f)

Next == facts = NoFacts /\ \E f \in Facts : Ask(f)

Spec == Init /\ [][Next]_vars

-----------------------------------------------------------------------------
(* Properties.                                                             *)

Answered == facts # NoFacts /\ answer # Refused
With(field, value) == Worth([facts EXCEPT ![field] = value])

TypeOK ==
  /\ facts \in Facts \cup {NoFacts}
  /\ answer \in {Refused, 0, 75, 125, 150, 200, 250, 300, 350, 400, 550, 600}

\* An answer in the passenger's favour never lowers the amount: boarding that
\* was denied, an alternative flight that was not offered or came later.
FavourNeverCosts ==
  Answered => /\ With("denied", FALSE) <= answer
              /\ With("alternative", TRUE) <= answer
              /\ \A h \in Delays : h < facts.late => With("late", h) <= answer

\* A longer flight is never worth less, unless the alternative flight was late
\* for the class of the shorter one and in time for that of the longer one.
DistanceNeverCosts ==
  Answered => \A d \in Distances \ {0} :
    LET nearer == [facts EXCEPT !.distance = d] IN
    d < facts.distance => \/ Worth(nearer) <= answer
                          \/ Halved(facts) /\ ~Halved(nearer)

\* What the airline may deduct never makes an eligible claim worthless, and an
\* alternative flight never takes more than half.
EligibleIsWorth ==
  Answered /\ Eligible(facts) =>
    /\ answer > 0
    /\ 2 * (answer + IF facts.malta THEN 50 ELSE 0) >= Base(facts)

\* The amounts fit each other, in each of these ways.
AmountsConsistent == FavourNeverCosts /\ DistanceNeverCosts /\ EligibleIsWorth
=============================================================================
