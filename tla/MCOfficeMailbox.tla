--------------------------- MODULE MCOfficeMailbox ---------------------------
(* Values of the constants of OfficeMailbox for TLC.                       *)
EXTENDS OfficeMailbox, TLC

MCLimit(duplicate, get, failure, watch, crash) ==
  [e \in MailEvents |-> CASE e = "duplicate" -> duplicate
                      [] e = "get"       -> get
                      [] e = "failure"   -> failure
                      [] e = "watch"     -> watch
                      [] e = "crash"     -> crash]
LimitMail == MCLimit(1, 2, 1, 1, 1)
=============================================================================
