---------------------------- MODULE FlightAnswers ----------------------------
(***************************************************************************)
(* What FlightService makes of the answers of the five sources of flight   *)
(* data: which flight a date brings, whether it counts as cancelled, and   *)
(* by how much it was late.                                                *)
(*                                                                         *)
(* Times are hours from a new year on, days are days of that year.  A      *)
(* flight is named by the day it is to leave the gate; an answer is what a *)
(* source knows of a flight, Missing standing for what it does not know.   *)
(***************************************************************************)
EXTENDS Integers, Sequences, FiniteSetsExt

CONSTANTS
  Days,      \* days a flight leaves the gate
  Answers,   \* what a source may know of a flight
  Night,     \* days whose flight takes off after midnight
  Missing    \* a field that is not in an answer

Sources == {"OAG", "FLIGHT_STATS", "FLIGHT_AWARE", "FLIGHT_IO",
            "CHISINAU_AIRPORT"}
\* Sources whose answers carry the time of the departure.
Timed == {"FLIGHT_AWARE", "FLIGHT_IO", "CHISINAU_AIRPORT"}
States == {"Scheduled", "InAir", "Landed", "Canceled", "Diverted"}

HoursOfYear == 365 * 24

\* A time or Missing.
Known(time) == time # Missing

\* What is scheduled is known, and what a source knows of a flight agrees with
\* where it says the flight is.
ASSUME FlightsAssumption ==
  /\ Days \subseteq 1..365 /\ Night \subseteq Days
  /\ Missing \notin Int
  /\ \A f \in Answers :
       /\ f.state \in States
       /\ {f.due, f.dueOut} \subseteq Nat
       /\ {f.gate, f.ground, f.expected, f.out, f.off} \subseteq Int \cup {Missing}
       /\ f.state \in {"InAir", "Landed"} => Known(f.off) \/ Known(f.ground)

-----------------------------------------------------------------------------
(* Which flight a date brings.                                             *)

MonthLengths == <<31, 28, 31, 30, 31, 30, 31, 31, 30, 31, 30, 31>>
DaysBefore == [m \in 1..12 |->
  MapThenSumSet(LAMBDA k : MonthLengths[k], 1..(m - 1))]
Month(d) == CHOOSE m \in 1..12 :
  DaysBefore[m] < d /\ d <= DaysBefore[m] + MonthLengths[m]
DayOfMonth(d) == d - DaysBefore[Month(d)]

\* The date as getFlightStatusFromFlightIo writes it behind the year: the
\* month and the day, neither padded, digit after digit.
FlightIoDate(d) == IF DayOfMonth(d) < 10 THEN 10 * Month(d) + DayOfMonth(d)
                                         ELSE 100 * Month(d) + DayOfMonth(d)

\* Flight Aware is asked for the flight that takes off on the day, the others
\* for the one that leaves the gate; flight-io may take the date for any day
\* that is written the same way.
Found(source, day) ==
  CASE source = "FLIGHT_AWARE" ->
         {d \in Days : day = IF d \in Night THEN d + 1 ELSE d}
    [] source = "FLIGHT_IO" ->
         {d \in Days : FlightIoDate(d) = FlightIoDate(day)}
    [] OTHER -> Days \cap {day}

-----------------------------------------------------------------------------
(* What is read from an answer.                                            *)

\* a || b || ...
FirstKnown(times) ==
  IF \E i \in DOMAIN times : Known(times[i])
  THEN times[CHOOSE i \in DOMAIN times :
               Known(times[i]) /\ \A j \in 1..(i - 1) : ~Known(times[j])]
  ELSE Missing

Between(scheduled, actual) ==
  IF Known(scheduled) /\ Known(actual) THEN actual - scheduled ELSE Missing

OrZero(n) == IF Known(n) THEN n ELSE 0

\* Variant: any field that is known will do, the estimate first.
OagDelayExpected(f) ==
  OrZero(Between(f.due, FirstKnown(<<f.expected, f.gate, f.ground>>)))

\* getArrivalDelayMinutesForOAG: the lateness of the arrival, or that of the
\* departure when the flight arrives at the hour (that has an actual time then).
OagDelay(f) ==
  LET late   == Between(f.due, FirstKnown(<<f.gate, f.ground, f.expected>>))
      behind == Between(f.dueOut, FirstKnown(<<f.out, f.off>>))
  IN IF late = 0 /\ Known(behind) THEN behind ELSE OrZero(late)

\* A flight that neither took off nor touched the ground is cancelled.
OagCancelled(f) ==
  \/ f.state \in {"Canceled", "Diverted"}
  \/ ~Known(f.ground) /\ ~Known(f.off)

\* The delay Flight Stats reports, if there is one, or else the difference of
\* the times.
FlightStatsDelay(f) ==
  LET reported == Max({0, OrZero(Between(f.due, f.gate))})
  IN IF reported = 0 THEN OrZero(Between(f.due, FirstKnown(<<f.gate, f.ground>>)))
     ELSE reported

\* parseFlightIoFlightStatus: the times at the gate are texts without a year,
\* which is taken from the arrival; without one there is no delay.
InYear(time, year) == year * HoursOfYear + (time % HoursOfYear)
FlightIoDelay(f) ==
  LET arrival == FirstKnown(<<f.gate, f.ground>>)
      year    == arrival \div HoursOfYear
  IN IF f.state # "Landed" \/ ~Known(arrival) THEN 0
     ELSE Max({0, arrival - InYear(f.due, year)})

Delay(source, f) ==
  CASE source = "OAG" -> OagDelay(f)
    [] source = "FLIGHT_STATS" -> FlightStatsDelay(f)
    [] source = "FLIGHT_IO" -> FlightIoDelay(f)
    [] OTHER -> OrZero(Between(f.due, f.gate))

Cancelled(source, f) ==
  CASE source = "OAG" -> OagCancelled(f)
    [] source = "FLIGHT_STATS" -> f.state \in {"Canceled", "Diverted"}
    [] OTHER -> f.state = "Canceled"
=============================================================================
