---------------------------- MODULE MCClaimIntake ----------------------------
(* Values of the constants of ClaimIntake for TLC.                         *)
EXTENDS ClaimIntake, TLC

MCLimit(create, customer, staff, trouble) ==
  [e \in Events |-> CASE e = "create"   -> create
                      [] e = "customer" -> customer
                      [] e = "staff"    -> staff
                      [] e = "trouble"  -> trouble]
IntakeSymmetry == Permutations(Ids) \cup Permutations(Http)
LimitIntake == MCLimit(2, 1, 2, 1)
=============================================================================
