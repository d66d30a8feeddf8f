---------------------------- MODULE Assignments ----------------------------
(***************************************************************************)
(* The signed assignments of a claim: the documents a job fills in from    *)
(* the data of a passenger and of the flight with the signature drawn, and *)
(* fills in again, with the signature cut out of the old one, whenever     *)
(* staff edit these data.  Staff may also give a document another type or  *)
(* another passenger, and then nothing is filled in again.                 *)
(*                                                                         *)
(* A signature travels with the data its request has read; staff may edit  *)
(* them before its job comes to them.  Data are named by the number of the *)
(* event that wrote them, a signature by the number of its own; every      *)
(* await that matters to them is a step.                                   *)
(***************************************************************************)
EXTENDS Integers, Sequences, FiniteSets

CONSTANTS
  Customer,  \* the passenger who made the claim, who is never a minor
  Others,    \* the other passengers
  Http,      \* requests in progress at the same time
  Limit      \* bound on the events, see Spend

Passengers == Others \cup {Customer}
Layouts == {"regular", "parental"}
Types == {"ASSIGNMENT", "OTHER"}
Unsigned == 0

VARIABLES
  person,   \* the data of each passenger, and who is a minor
  flight,   \* the data of the flight
  docs,     \* the assignments, in the order of their rows
  jobs,     \* signatures on their way to the generator
  request,  \* the requests in progress
  moved,    \* history: the last date the flight's job has written
  met,      \* history: passengers whose edit met another or a signature
  broken,   \* history: passengers with an error or a restart
  removed,  \* history: signatures of the documents staff removed
  edited,   \* history: signatures of those that staff gave another type or
            \* passenger, with what may be cut out of such a one
  spent     \* events so far

vars == <<person, flight, docs, jobs, request, moved, met, broken, removed, edited,
          spent>>
history == <<moved, met, broken, removed, edited>>

Rest == [op |-> "rest", at |-> "rest", n |-> 0, of |-> {}, name |-> 0,
         minor |-> FALSE, people |-> <<>>, flight |-> 0, owner |-> <<>>, todo |-> {},
         doc |-> 0]
Busy(h) == request[h].op # "rest"
At(h, op, step) == request[h].op = op /\ request[h].at = step
Go(h, step) == request' = [request EXCEPT ![h].at = step]
End(h) == request' = [request EXCEPT ![h] = Rest]

Signer(h) == CHOOSE p \in Passengers : request[h].of = {p}
Spend == spent < Limit /\ spent' = spent + 1

\* Passengers a request or a job is about.
Pending == UNION ({request[h].of : h \in Http} \cup {{jobs[i].passenger} : i \in DOMAIN jobs})

Init ==
  /\ person = [p \in Passengers |-> [name |-> 0, minor |-> FALSE]]
  /\ flight = 0 /\ docs = <<>> /\ jobs = <<>>
  /\ request = [h \in Http |-> Rest]
  /\ moved = 0 /\ met = {} /\ broken = {} /\ removed = {} /\ edited = {} /\ spent = 0

-----------------------------------------------------------------------------
(* A signature.                                                            *)

\* The customer is read with the claim, another passenger before it.
BeginSign(h, p) ==
  /\ ~Busy(h)
  /\ Spend
  /\ request' = [request EXCEPT ![h] =
       [Rest EXCEPT !.op = "sign", !.n = spent + 1, !.of = {p},
                    !.at = IF p = Customer THEN "claim" ELSE "passenger"]]
  /\ UNCHANGED <<person, flight, docs, jobs, history>>

SignReadsPassenger(h) ==
  /\ At(h, "sign", "passenger")
  /\ request' = [request EXCEPT ![h].at = "claim",
                   ![h].name = person[Signer(h)].name,
                   ![h].minor = person[Signer(h)].minor]
  /\ UNCHANGED <<person, flight, docs, jobs, history, spent>>

SignReadsClaim(h) ==
  /\ At(h, "sign", "claim")
  /\ request' = [request EXCEPT ![h].at = "enqueue", ![h].flight = flight,
                   ![h].name = IF Signer(h) = Customer THEN person[Customer].name ELSE @]
  /\ UNCHANGED <<person, flight, docs, jobs, history, spent>>

Template(minor) == IF minor THEN "parental" ELSE "regular"

Enqueue(h) ==
  /\ At(h, "sign", "enqueue")
  /\ jobs' = Append(jobs, [sig |-> request[h].n, passenger |-> Signer(h),
                           name |-> request[h].name, flight |-> request[h].flight,
                           layout |-> Template(request[h].minor), type |-> "ASSIGNMENT",
                           live |-> TRUE])
  /\ End(h)
  /\ UNCHANGED <<person, flight, docs, history, spent>>

\* Jobs are taken in the order they were added: the document is filled in with
\* what the job says.
Generate ==
  /\ jobs # <<>>
  /\ docs' = Append(docs, Head(jobs))
  /\ jobs' = Tail(jobs)
  /\ UNCHANGED <<person, flight, request, history, spent>>

\* The generator takes note of an error and is done with the job.
GenerateFails ==
  /\ jobs # <<>>
  /\ Spend
  /\ jobs' = Tail(jobs)
  /\ broken' = broken \cup {Head(jobs).passenger}
  /\ UNCHANGED <<person, flight, docs, request, moved, met, removed, edited>>

-----------------------------------------------------------------------------
(* Edits, and the assignments filled in again.                             *)

\* Variant: the details of the flight are on the customer's assignment only.
EditedForCustomer(edit) == IF edit = "passenger" THEN Others ELSE {Customer}

\* Whose assignments an edit fills in again.
Edited(edit) == CASE edit = "customer"  -> {Customer}
                  [] edit = "passenger" -> Others
                  [] edit = "details"   -> Passengers

\* The data are written in the request's first step that matters.
BeginEdit(h, edit, p) ==
  /\ ~Busy(h)
  /\ Spend
  /\ IF edit = "details"
     THEN flight' = spent + 1 /\ UNCHANGED person
     ELSE person' = [person EXCEPT ![p].name = spent + 1] /\ UNCHANGED flight
  /\ request' = [request EXCEPT ![h] =
       [Rest EXCEPT !.op = "edit", !.at = "read", !.n = spent + 1, !.of = Edited(edit)]]
  /\ met' = met \cup ((IF edit = "details" THEN Passengers ELSE Edited(edit)) \cap Pending)
  /\ UNCHANGED <<docs, jobs, moved, broken, removed, edited>>

AssignmentsOf(who) ==
  {d \in DOMAIN docs : /\ docs[d].passenger \in who
                       /\ docs[d].type = "ASSIGNMENT" /\ docs[d].live}

\* updateAssignmentData reads the claim again, with its documents and whose
\* they are.
EditReads(h) ==
  /\ At(h, "edit", "read")
  /\ IF AssignmentsOf(request[h].of) = {} THEN End(h)
     ELSE request' = [request EXCEPT ![h].at = "next", ![h].people = person,
            ![h].flight = flight, ![h].todo = AssignmentsOf(request[h].of),
            ![h].owner = [d \in AssignmentsOf(request[h].of) |-> docs[d].passenger]]
  /\ UNCHANGED <<person, flight, docs, jobs, history, spent>>

\* The request with one assignment less to do.
Done(h) ==
  IF request[h].todo \ {request[h].doc} = {} THEN Rest
  ELSE [request[h] EXCEPT !.at = "next", !.doc = 0, !.todo = @ \ {request[h].doc}]

Pick(h) ==
  /\ At(h, "edit", "next")
  /\ \E d \in request[h].todo :
       request' = [request EXCEPT ![h].at = "remove", ![h].doc = d]
  /\ UNCHANGED <<person, flight, docs, jobs, history, spent>>

\* The passenger of the assignment, and the template that passenger needs, as
\* of the reading of the claim.
Owner(h) == request[h].owner[request[h].doc]
Needed(h) == Template(request[h].people[Owner(h)].minor)

\* The signature is cut out of the old document, on the page and at the place
\* of the template.
SignatureFound(h) == Needed(h) = docs[request[h].doc].layout

\* The document filled in with the data of its passenger and of the flight as
\* the request has read them, for the same signature, if that was found.
FilledIn(h) ==
  LET old == docs[request[h].doc]
  IN [old EXCEPT !.passenger = Owner(h), !.name = request[h].people[Owner(h)].name,
                 !.flight = request[h].flight, !.live = TRUE, !.type = "ASSIGNMENT",
                 !.layout = Needed(h),
                 !.sig = IF SignatureFound(h) THEN @ ELSE Unsigned]

\* The new one is filled in first: a minor's signature is looked for on a page
\* the assignment of an adult does not have, and the old one stays as it is.
\* For an adult that page is there, whatever is on it.  The old one is deleted,
\* also a second time.
Removes(h) ==
  /\ At(h, "edit", "remove")
  /\ IF SignatureFound(h) \/ Needed(h) = "regular"
     THEN /\ docs' = [docs EXCEPT ![request[h].doc].live = FALSE]
          /\ Go(h, "save")
     ELSE /\ request' = [request EXCEPT ![h] = Done(h)]
          /\ UNCHANGED docs
  /\ UNCHANGED <<person, flight, jobs, history, spent>>

Saves(h) ==
  /\ At(h, "edit", "save")
  /\ docs' = Append(docs, FilledIn(h))
  /\ request' = [request EXCEPT ![h] = Done(h)]
  /\ UNCHANGED <<person, flight, jobs, history, spent>>

-----------------------------------------------------------------------------
(* Others who touch the same data.                                         *)

\* The flight's job writes the day it has found, and fills in nothing.
FlightMoves ==
  /\ Spend
  /\ flight' = spent + 1 /\ moved' = spent + 1
  /\ UNCHANGED <<person, docs, jobs, request, met, broken, removed,
                 edited>>

\* patchPassengerToMinor, which nothing undoes.
MakeMinor(p) ==
  /\ ~person[p].minor
  /\ Spend
  /\ person' = [person EXCEPT ![p].minor = TRUE]
  /\ UNCHANGED <<flight, docs, jobs, request, history>>

RemoveAssignment(d) ==
  /\ docs[d].live
  /\ Spend
  /\ docs' = [docs EXCEPT ![d].live = FALSE]
  /\ removed' = removed \cup {docs[d].sig}
  /\ met' = met \cup ({docs[d].passenger} \cap Pending)
  /\ UNCHANGED <<person, flight, jobs, request, moved, broken, edited>>

\* updateDocumentType and patchPassengerId: the document stays what it says, and
\* the next edit fills it in for the passenger it was given to.
EditDocument(d, document) ==
  /\ document # docs[d]
  /\ Spend
  /\ docs' = [docs EXCEPT ![d] = document]
  /\ edited' = edited \cup {docs[d].sig, Unsigned}
  /\ UNCHANGED <<person, flight, jobs, request, moved, met, broken, removed>>

Retype(d, type) == EditDocument(d, [docs[d] EXCEPT !.type = type])
Reassign(d, p) == EditDocument(d, [docs[d] EXCEPT !.passenger = p])

\* A call throws: an edit goes on with the next assignment.  So it does when the
\* passenger that a document was given to has no parent on file to name.
Throw(h) ==
  /\ Busy(h)
  /\ Spend
  /\ request' = [request EXCEPT ![h] =
       IF request[h].at \in {"remove", "save"} THEN Done(h) ELSE Rest]
  /\ broken' = broken \cup request[h].of
  /\ UNCHANGED <<person, flight, docs, jobs, moved, met, removed, edited>>

\* The process stops; a job it was busy with may have saved its document and
\* is taken again all the same.
Restart ==
  /\ Spend
  /\ request' = [h \in Http |-> Rest]
  /\ broken' = broken \cup Pending
  /\ \/ UNCHANGED docs
     \/ jobs # <<>> /\ docs' = Append(docs, Head(jobs))
  /\ UNCHANGED <<person, flight, jobs, moved, met, removed, edited>>

-----------------------------------------------------------------------------
Proceed(h) ==
  \/ SignReadsPassenger(h) \/ SignReadsClaim(h) \/ Enqueue(h)
  \/ EditReads(h) \/ Pick(h) \/ Removes(h) \/ Saves(h)

Next ==
  \/ \E h \in Http :
       \/ Proceed(h) \/ Throw(h)
       \/ \E p \in Passengers : BeginSign(h, p)
       \/ BeginEdit(h, "customer", Customer) \/ BeginEdit(h, "details", Customer)
       \/ \E p \in Others : BeginEdit(h, "passenger", p)
  \/ Generate \/ GenerateFails
  \/ \E p \in Others : MakeMinor(p)
  \/ \E d \in DOMAIN docs : \/ RemoveAssignment(d)
                            \/ \E type \in Types : Retype(d, type)
                            \/ \E p \in Passengers : Reassign(d, p)
  \/ FlightMoves \/ Restart

Spec == Init /\ [][Next]_vars

-----------------------------------------------------------------------------
(* Properties.                                                             *)

Copies == {d \in DOMAIN docs : docs[d].live /\ docs[d].type = "ASSIGNMENT"}
StaffEdited(d) == docs[d].sig \in edited
Disturbed == met \cup broken

\* Every variable has the shape the code gives it; an assignment a parent has
\* signed is one of a minor, unless staff gave it to another passenger.
TypeOK ==
  /\ \A d \in DOMAIN docs :
       /\ docs[d].passenger \in Passengers /\ docs[d].layout \in Layouts
       /\ docs[d].type \in Types
       /\ docs[d].layout = "parental" => person[docs[d].passenger].minor \/ StaffEdited(d)
  /\ \A p \in Passengers : person[p].name \in 0..Limit
  /\ ~person[Customer].minor /\ flight \in 0..Limit

\* An assignment says of its passenger and the flight what the claim says, or
\* an edit is on its way to it, unless the edit met another or a signature, an
\* error or a restart, or staff gave the document another type or passenger; one
\* who became a minor after signing keeps the old assignment, and a day the
\* flight's job has found is not on it.
AssignmentCurrent ==
  \A d \in Copies :
    LET p == docs[d].passenger
    IN \/ /\ docs[d].name = person[p].name
          /\ docs[d].flight = flight \/ flight = moved
       \/ \E h \in Http : request[h].op = "edit" /\ p \in request[h].of
       \/ p \in Disturbed \/ StaffEdited(d)
       \/ person[p].minor /\ docs[d].layout = "regular"

\* A signature is on one assignment, unless edits of the passenger met, there
\* was an error or a restart, or staff gave its document another passenger,
\* behind the back of an edit of the first.
OneCopyPerSignature ==
  \A d, e \in Copies :
    docs[d].sig = docs[e].sig => d = e \/ docs[d].passenger \in Disturbed \/ StaffEdited(d)

\* A signature that was on an assignment is on one, unless staff removed it or
\* edited its document, an edit is about to save the next one, or there was an
\* error or a restart.
SignatureNotLost ==
  \A d \in DOMAIN docs :
    \/ docs[d].sig \in removed \/ StaffEdited(d)
    \/ docs[d].passenger \in broken
    \/ \E e \in Copies : docs[e].sig = docs[d].sig
    \/ \E h \in Http : At(h, "edit", "save") /\ docs[request[h].doc].sig = docs[d].sig

\* What staff removed does not come back, unless an edit met the removal or
\* another edit, there was an error or a restart, or staff gave the document
\* another passenger.
RemovedStaysRemoved ==
  \A d \in Copies :
    docs[d].sig \in removed => docs[d].passenger \in Disturbed \/ StaffEdited(d)

\* The assignments fit the signatures and the claim, in each of these ways.
CopiesConsistent ==
  /\ AssignmentCurrent
  /\ OneCopyPerSignature
  /\ SignatureNotLost
  /\ RemovedStaysRemoved
=============================================================================
