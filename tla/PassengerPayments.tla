-------------------------- MODULE PassengerPayments --------------------------
(***************************************************************************)
(* What the back office notes of the payment of a passenger, and what      *)
(* follows of it.  A payment that failed is first answered with a letter   *)
(* that asks for payment details, then the status of the claim is set, and *)
(* the payment itself is noted last, each in a call of its own.  The       *)
(* status of the customer is that of the claim, every other passenger has  *)
(* one.                                                                    *)
(*                                                                         *)
(* A payment received is like one that was paid, and every status but      *)
(* PAYMENT_FAILED is one.  The progress steps, which set statuses in a     *)
(* transaction of theirs, are ClaimDocuments'.                             *)
(***************************************************************************)
EXTENDS Integers, FiniteSets

CONSTANTS
  Customer,  \* the passenger who made the claim
  Others,    \* the other passengers
  Http,      \* requests in progress at the same time
  Limit      \* bound on the events, see Spend

Passengers == Others \cup {Customer}
Payments == {"PENDING", "PAID", "FAILED"}
Statuses == {"CLAIM_RECEIVED", "PAYMENT_FAILED"}

VARIABLES
  there,      \* whether the claim is, and with it its passengers
  state,      \* the status of the claim, which is the customer's
  passengers, \* the payment of each passenger, and the status of the others
  letters,    \* letters that were sent about a passenger
  request,    \* the requests in progress
  asked,      \* history: what the last requests of a passenger asked for
  failures,   \* history: requests of a passenger about a failed payment
  lost,       \* history: those whose letter Gmail refused
  met,        \* history: passengers of two requests at the same time
  broken,     \* history: passengers of a request that came to grief
  spent       \* events so far

vars == <<there, state, passengers, letters, request, asked, failures, lost, met,
          broken, spent>>
rows == <<there, state, passengers>>
history == <<asked, failures, lost, met, broken>>

Rest == [op |-> "rest", at |-> "rest", of |-> Customer, to |-> "PENDING"]
At(h, step) == request[h].at = step
Go(h, step) == request' = [request EXCEPT ![h].at = step]
End(h) == request' = [request EXCEPT ![h] = Rest]
Of(h) == request[h].of

Spend == spent < Limit /\ spent' = spent + 1

Init ==
  /\ there = TRUE
  /\ state = "CLAIM_RECEIVED"
  /\ passengers = [p \in Passengers |->
       [payment |-> "PENDING", status |-> "CLAIM_RECEIVED"]]
  /\ letters = [p \in Passengers |-> 0]
  /\ request = [h \in Http |-> Rest]
  /\ asked = passengers
  /\ failures = letters /\ lost = letters
  /\ met = {} /\ broken = {} /\ spent = 0

Meets(p) == met' = IF \E k \in Http : request[k].op # "rest" /\ Of(k) = p
                   THEN met \cup {p} ELSE met

\* updatePaymentStatus of either controller: a passenger who is not there is
\* refused.
BeginPayment(h, p, to) ==
  /\ request[h].op = "rest" /\ there
  /\ Spend
  /\ request' = [request EXCEPT ![h] =
       [op |-> "payment", at |-> IF to = "FAILED" THEN "letter" ELSE "payment",
        of |-> p, to |-> to]]
  /\ asked' = [asked EXCEPT ![p].payment = to,
                 ![p].status = IF to = "FAILED" THEN "PAYMENT_FAILED" ELSE @]
  /\ failures' = IF to = "FAILED" THEN [failures EXCEPT ![p] = @ + 1] ELSE failures
  /\ Meets(p)
  /\ UNCHANGED <<rows, letters, lost, broken>>

\* updatePassengerStatus
BeginStatus(h, p, to) ==
  /\ request[h].op = "rest" /\ there /\ p \in Others
  /\ Spend
  /\ request' = [request EXCEPT ![h] =
       [op |-> "status", at |-> "base", of |-> p, to |-> to]]
  /\ asked' = [asked EXCEPT ![p].status = to]
  /\ Meets(p)
  /\ UNCHANGED <<rows, letters, failures, lost, broken>>

\* The letter is on its way to the customer.
SendsLetter(h) ==
  /\ At(h, "letter")
  /\ letters' = [letters EXCEPT ![Of(h)] = @ + 1]
  /\ Go(h, "base")
  /\ UNCHANGED <<rows, history, spent>>

\* sendEmailHtml logs an error of Gmail and returns nothing.
LosesLetter(h) ==
  /\ At(h, "letter")
  /\ lost' = [lost EXCEPT ![Of(h)] = @ + 1]
  /\ Go(h, "base")
  /\ UNCHANGED <<rows, letters, asked, failures, met, broken, spent>>

After(h) == IF request[h].op = "payment" THEN Go(h, "payment") ELSE End(h)

\* getBasePassenger: with nobody to find, updateStatus returns.
ReadsBase(h) ==
  /\ At(h, "base")
  /\ IF there THEN Go(h, "status") ELSE After(h)
  /\ UNCHANGED <<rows, letters, history, spent>>

NewStatus(h) == IF request[h].op = "payment" THEN "PAYMENT_FAILED" ELSE request[h].to

\* updateStatus: the customer's is the status of the claim.
WritesStatus(h) ==
  /\ At(h, "status") /\ there
  /\ IF Of(h) = Customer
     THEN state' = NewStatus(h) /\ passengers' = passengers
     ELSE /\ passengers' = [passengers EXCEPT ![Of(h)].status = NewStatus(h)]
          /\ state' = state
  /\ After(h)
  /\ UNCHANGED <<there, letters, history, spent>>

Notes(h) ==
  /\ At(h, "payment") /\ there
  /\ passengers' = [passengers EXCEPT ![Of(h)].payment = request[h].to]
  /\ End(h)
  /\ UNCHANGED <<there, state, letters, history, spent>>

\* updatePaymentStatus of the service of the customer, and of the others.
NotesOfCustomer(h) == Of(h) = Customer /\ Notes(h)
NotesOfOther(h) == Of(h) # Customer /\ Notes(h)

\* A call that throws ends the request; so does an update of a row that is gone.
Fails(h) ==
  /\ request[h].op # "rest"
  /\ End(h)
  /\ broken' = broken \cup {Of(h)}
  /\ UNCHANGED <<rows, letters, asked, failures, lost, met, spent>>

\* cascadeDelete of the claim takes its passengers with it.
DeleteClaim ==
  /\ there /\ Spend
  /\ there' = FALSE
  /\ UNCHANGED <<state, passengers, letters, request, history>>

\* The process ends, and every request in it.
Stop ==
  /\ \E h \in Http : request[h].op # "rest"
  /\ Spend
  /\ broken' = broken \cup {Of(h) : h \in {k \in Http : request[k].op # "rest"}}
  /\ request' = [h \in Http |-> Rest]
  /\ UNCHANGED <<rows, letters, asked, failures, lost, met>>

Next ==
  \/ \E h \in Http, p \in Passengers :
       \/ \E to \in Payments : BeginPayment(h, p, to)
       \/ \E to \in Statuses : BeginStatus(h, p, to)
  \/ \E h \in Http :
       \/ SendsLetter(h) \/ LosesLetter(h) \/ ReadsBase(h) \/ WritesStatus(h)
       \/ NotesOfCustomer(h) \/ NotesOfOther(h) \/ Fails(h)
  \/ DeleteClaim
  \/ Stop

Spec == Init /\ [][Next]_vars

-----------------------------------------------------------------------------
TypeOK ==
  /\ there \in BOOLEAN /\ state \in Statuses
  /\ passengers \in [Passengers -> [payment : Payments, status : Statuses]]
  /\ letters \in [Passengers -> 0..Limit]
  /\ request \in [Http -> [op : {"rest", "payment", "status"},
                           at : {"rest", "letter", "base", "status", "payment"},
                           of : Passengers, to : Payments \cup Statuses]]
  /\ asked \in [Passengers -> [payment : Payments, status : Statuses]]
  /\ failures \in [Passengers -> 0..Limit] /\ lost \in [Passengers -> 0..Limit]
  /\ met \subseteq Passengers /\ broken \subseteq Passengers
  /\ spent \in 0..Limit

Quiet(p) == \A h \in Http : request[h].op = "rest" \/ Of(h) # p
StatusOf(p) == IF p = Customer THEN state ELSE passengers[p].status

\* When nothing of a passenger is in progress, the payment and the status are
\* those that were asked for last, unless two requests met or one came to grief
\* (customer.controller.ts, other-passenger.controller.ts, updateStatus).
AsAskedLast ==
  \A p \in Passengers : there /\ Quiet(p) /\ p \notin met \cup broken =>
    /\ passengers[p].payment = asked[p].payment
    /\ StatusOf(p) = asked[p].status

\* A payment that is noted as failed was written about first, but for the
\* letters Gmail refused, and every failure that was noted is written about
\* once (notificationService.sendLetter before updatePaymentStatus).
FailureWritten ==
  \A p \in Passengers :
    /\ passengers[p].payment = "FAILED" => letters[p] + lost[p] > 0
    /\ Quiet(p) /\ p \notin broken => letters[p] + lost[p] = failures[p]

PaymentsConsistent == AsAskedLast /\ FailureWritten
=============================================================================
