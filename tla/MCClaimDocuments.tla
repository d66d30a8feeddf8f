-------------------------- MODULE MCClaimDocuments --------------------------
(* Values of the constants of ClaimDocuments for TLC.                      *)
EXTENDS ClaimDocuments, TLC

CONSTANTS c, p, r1, r2, h1, h2

\* The intake form left everything but the customer's passport and the other
\* passenger's assignment.
MCFiled == (Passengers \X Groups) \ {<<c, "Passport">>, <<p, "Assignment">>}
MCConcerns == [r \in RequestIds |-> IF r = r1 THEN <<c, "Passport">>
                                    ELSE <<p, "Assignment">>]
\* Only one document is missing.
FiledButPassport == Slots \ {<<c, "Passport">>}
\* Assignments arrive through signatures only, or through uploads as well.
PassportBatches == {{"Passport"}}
SingleBatches == {{g} : g \in Groups}
MCLimit(client, staff, ensured, crash, failure) ==
  [e \in Events |-> CASE e = "client"  -> client
                      [] e = "staff"   -> staff
                      [] e = "ensure"  -> ensured
                      [] e = "crash"   -> crash
                      [] e = "failure" -> failure]
LimitOverlap  == MCLimit(3, 2, 1, 0, 0)
LimitLastAnswer == MCLimit(1, 2, 0, 0, 0)
LimitSignatures == MCLimit(2, 1, 1, 2, 1)
=============================================================================
