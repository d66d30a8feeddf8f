------------------------- MODULE MCDocumentReminders -------------------------
(* Values of the constants of DocumentReminders for TLC.                   *)
EXTENDS DocumentReminders, TLC

CONSTANTS c, p   \* the customer and another passenger

MCLimit(ens, client, staff, archive, failure, crash) ==
  [e \in Events |-> CASE e = "ensure"  -> ens
                      [] e = "client"  -> client
                      [] e = "staff"   -> staff
                      [] e = "archive" -> archive
                      [] e = "failure" -> failure
                      [] e = "crash"   -> crash]
LimitSeries == MCLimit(1, 0, 1, 0, 1, 1)
LimitFair   == MCLimit(0, 1, 2, 1, 1, 1)
AllButPassports == {c, p} \X {"Assignment"}
DelaysTwo == {0, 2}
RequestSymmetry == Permutations(RequestIds)
=============================================================================
