-------------------------- MODULE MCPaymentDetails --------------------------
(* Values of the constants of PaymentDetails for TLC.                      *)
EXTENDS PaymentDetails, TLC

MCLimit(ask, answer, view, throw, failure, crash) ==
  [e \in Events |-> CASE e = "ask"     -> ask
                      [] e = "answer"  -> answer
                      [] e = "view"    -> view
                      [] e = "throw"   -> throw
                      [] e = "failure" -> failure
                      [] e = "crash"   -> crash]
LimitLinks == MCLimit(2, 2, 1, 1, 1, 1)
=============================================================================
