-------------------------- MODULE MCFlightStatuses --------------------------
(* Values of the constants of FlightStatuses for TLC.                      *)
EXTENDS FlightStatuses, TLC

\* Flights due at noon of the first day and in the last hours of the year,
\* that arrive early, in time or late, on their way or not, whose arrival is
\* known from the gate, the ground, the estimate or not at all.
Arrivals == {12, HoursOfYear - 2}
Times(known, time) == IF known THEN time ELSE Missing
MCAnswers ==
  {[due |-> due, dueOut |-> due - 3, expected |-> due + 1,
    gate |-> Times(gate /\ ground, due + late), ground |-> Times(ground, due + late - 1),
    off |-> Times(off, due - 3 + left), out |-> Times(off /\ gate, due - 3 + left),
    state |-> state] :
     due \in Arrivals, late \in {-1, 0, 4}, left \in {0, 2},
     gate \in BOOLEAN, ground \in BOOLEAN, off \in BOOLEAN, state \in States}
\* What the sources say of a flight agrees with where it is.
Consistent(f) ==
  /\ f.state \in {"Scheduled", "Canceled"} => ~Known(f.off) /\ ~Known(f.ground)
  /\ f.state = "InAir" => Known(f.off) /\ ~Known(f.ground)
  /\ f.state = "Landed" => Known(f.off) /\ Known(f.ground)
LimitAnswers == {f \in MCAnswers : Consistent(f)}
MCOrder == <<"OAG", "FLIGHT_IO">>
=============================================================================
