------------------------ MODULE MCReferralCommission ------------------------
(* Values of the constants of ReferralCommission for TLC.                  *)
EXTENDS ReferralCommission, TLC

CONSTANTS k1, k2, q1

\* Every claim was referred by q1.
OneReferred == [c \in Claims |-> q1]

MCLimit(step, undo, edit, payout, failure, crash) ==
  [e \in Events |-> CASE e = "step"    -> step
                      [] e = "undo"    -> undo
                      [] e = "edit"    -> edit
                      [] e = "payout"  -> payout
                      [] e = "failure" -> failure
                      [] e = "crash"   -> crash]
LimitWhole  == MCLimit(2, 1, 1, 2, 1, 1)
LimitPayout == MCLimit(1, 0, 0, 2, 0, 0)
=============================================================================
