--------------------------- MODULE ClaimDocuments ---------------------------
(***************************************************************************)
(* Document collection for one claim and its automatic advance.            *)
(*                                                                         *)
(* Documents of the claim's passengers arrive through HTTP handlers (the   *)
(* customer's dashboard, links sent to the other passengers, the intake    *)
(* form) and through the generate-assignment queue, whose only worker      *)
(* turns a signature into an ASSIGNMENT document.  A handler that saved    *)
(* documents runs ClaimService.handleAllDocumentsUploaded: it reads the    *)
(* claim, then the document requests, decides, and in a transaction adds a *)
(* progress row and sets the status back to CLAIM_RECEIVED.  Nothing locks *)
(* the claim between these steps, and the back office (staff) works on the *)
(* same rows at the same time; so does the worker of the                   *)
(* ensure-document-requests queue, which opens requests for what the       *)
(* intake form left out.                                                   *)
(*                                                                         *)
(* A document is represented by its slot, the passenger and the group of   *)
(* requiredDocumentGroups its type belongs to; docs counts the live rows   *)
(* (deletedAt = null) of a slot.  Each await between two database calls is *)
(* a step of its own.                                                      *)
(***************************************************************************)
EXTENDS Naturals, Sequences, FiniteSets

CONSTANTS
  Passengers,   \* the customer and the other passengers of the claim
  Customer,     \* the passenger that is claim.customer
  Groups,       \* the groups of requiredDocumentGroups
  Http,         \* request handlers that may run at the same time
  Assigner,     \* the worker of the generate-assignment queue
  Office,       \* a back-office request that takes several steps
  RequestIds,   \* ids a DocumentRequest row may get
  NoRequest,    \* "no documentRequestId"
  Concerns,     \* the slot a request id asks for
  Typical,      \* the requests of the type the ensure job makes for the slot
  Batches,      \* combinations of groups the files of one upload may cover
  Filed,        \* slots already filled while the intake form was completed
  Orders,       \* orders the back office may send for a progress row
  Limit,        \* bound on the events of each kind, see Spend
  Total         \* bound on the events of all kinds together

Slots  == Passengers \X Groups
Handlers == Http \cup {Assigner, Office}
Events == {"client", "staff", "ensure", "crash", "failure"}

ASSUME HandlerAssumption ==
  /\ Assigner \notin Http
  /\ Office \notin Http
  /\ Assigner # Office
  /\ IsFiniteSet(Http)
ASSUME ClaimAssumption ==
  /\ Customer \in Passengers
  /\ "Assignment" \in Groups
  /\ Batches \subseteq (SUBSET Groups) \ {{}}
  /\ Filed \subseteq Slots
  /\ NoRequest \notin RequestIds
  /\ Concerns \in [RequestIds -> Slots]
  /\ Typical \subseteq RequestIds
  /\ Orders \subseteq Nat \ {0}
ASSUME LimitAssumption == Limit \in [Events -> Nat] /\ Total \in Nat

\* The statuses the flow tells apart; SENT_TO_AIRLINE stands for every status
\* from which documents do not bring the claim back.
Statuses == {"CLAIM_RECEIVED", "DOCS_REQUESTED", "LEGAL_PROCESS",
             "SENT_TO_AIRLINE"}
Eligible == {"DOCS_REQUESTED", "LEGAL_PROCESS"}

\* "received" is claimReceived.descriptions[0], "docsReceived" is
\* claimReceived.descriptions[1], "step" any other progress description.
ProgressKinds == {"received", "docsReceived", "step"}
Rows == [order : Nat, kind : ProgressKinds, auto : BOOLEAN]

Ops == {"none", "upload", "customerSign", "passengerSign", "formSign",
        "job", "progress"}
Steps == {"idle", "save", "check", "requests", "advance", "close",
          "enqueue", "sign", "row"}
Jobs == [passenger : Passengers, check : BOOLEAN]
Contexts == [op : Ops, passenger : Passengers, todo : SUBSET Groups,
             check : BOOLEAN, request : RequestIds \cup {NoRequest},
             order : Nat, kind : ProgressKinds, epoch : Nat]

VARIABLES
  docs,      \* live document rows per slot
  requests,  \* status of each document request, "NONE" when no row exists
  status,    \* claim.state.status
  progress,  \* the progress rows of the claim, in order of creation
  queue,     \* waiting generateAssignment jobs, first in first out
  signed,    \* passengers whose isSigned flag is set
  pc,        \* the step each handler is at
  ctx,       \* the local variables of each handler
  spent,     \* events so far, by kind
  ever,      \* history: slots that were ever filled
  lost,      \* history: passengers whose assignment job threw or was given up
  ensureJobs, \* waiting jobs of the ensure-document-requests queue
  ensuring,  \* the job its worker runs: its step and the slots it found empty
  crossed    \* history: handlers that read the requests before the job made one

ensure == <<ensureJobs, ensuring, crossed>>
vars == <<docs, requests, status, progress, queue, signed, pc, ctx, spent,
          ever, lost, ensure>>

-----------------------------------------------------------------------------
(* The claim as a handler reads it.                                        *)

\* Variant: only the customer's own groups are looked at.
CustomerDocumentsPresent == \A g \in Groups : docs[<<Customer, g>>] > 0

AllDocumentsPresent == \A s \in Slots : docs[s] > 0
AlreadyAdvanced ==
  \E i \in 1..Len(progress) : progress[i].kind = "docsReceived"
Missing == {s \in Slots : docs[s] = 0}
OpenRequests == {r \in RequestIds : requests[r] = "ACTIVE"}

\* claim.state.progress.reduce(...).order; 0 when the list is empty.
LastOrder ==
  LET orders == {progress[i].order : i \in 1..Len(progress)}
      latest == {o \in orders : \A q \in orders : q <= o}
  IN  IF latest = {} THEN 0 ELSE CHOOSE o \in latest : TRUE

Spent == spent["client"] + spent["staff"] + spent["ensure"] + spent["crash"]
           + spent["failure"]

Spend(event) ==
  /\ spent[event] < Limit[event]
  /\ Spent < Total
  /\ spent' = [spent EXCEPT ![event] = @ + 1]

Free == [op |-> "none", passenger |-> Customer, todo |-> {}, check |-> FALSE,
         request |-> NoRequest, order |-> 0, kind |-> "step", epoch |-> 0]

NoEnsure == [step |-> "rest", slots |-> {}]

Start(h, step, context) ==
  /\ pc[h] = "idle"
  /\ pc' = [pc EXCEPT ![h] = step]
  /\ ctx' = [ctx EXCEPT ![h] = context]

Goto(h, step) ==
  /\ pc' = [pc EXCEPT ![h] = step]
  /\ ctx' = IF step = "idle" THEN [ctx EXCEPT ![h] = Free] ELSE ctx

AfterSave(h)  == IF ctx[h].check THEN "check" ELSE "idle"
AfterCheck(h) == IF ctx[h].request # NoRequest THEN "close" ELSE "idle"
AfterClose(h) ==
  CASE ctx[h].op = "passengerSign" -> "enqueue"
    [] ctx[h].op = "customerSign"  -> "sign"
    [] OTHER                       -> "idle"
AfterEnqueue(h) ==
  IF ctx[h].op = "customerSign" /\ ctx[h].request # NoRequest
  THEN "close" ELSE "sign"

-----------------------------------------------------------------------------
Init ==
  /\ docs = [s \in Slots |-> IF s \in Filed THEN 1 ELSE 0]
  /\ requests = [r \in RequestIds |-> "NONE"]
  /\ status = "CLAIM_RECEIVED"
  /\ progress = <<[order |-> 1, kind |-> "received", auto |-> TRUE]>>
  /\ queue = <<>>
  /\ signed = {}
  /\ pc = [h \in Handlers |-> "idle"]
  /\ ctx = [h \in Handlers |-> Free]
  /\ spent = [e \in Events |-> 0]
  /\ ever = Filed
  /\ lost = {}
  /\ ensureJobs = 0
  /\ ensuring = NoEnsure
  /\ crossed = {}

-----------------------------------------------------------------------------
(* Requests of the clients.                                                *)

\* DocumentController.uploadDocuments: files of one type for one passenger,
\* optionally answering a document request of the claim the customer sees.
BeginUpload(h, s, r) ==
  /\ Spend("client")
  /\ r # NoRequest => requests[r] # "NONE"
  /\ Start(h, "save", [Free EXCEPT !.op = "upload", !.passenger = s[1],
                                   !.todo = {s[2]}, !.check = TRUE,
                                   !.request = r])
  /\ UNCHANGED <<docs, requests, status, progress, queue, signed, ever, lost,
                 ensure>>

\* PublicOtherPassengerController.uploadOtherPassengerDocument: files of
\* several types for one passenger; never names a request.
BeginPassengerUpload(h, p, groups) ==
  /\ Spend("client")
  /\ Start(h, "save", [Free EXCEPT !.op = "upload", !.passenger = p,
                                   !.todo = groups, !.check = TRUE])
  /\ UNCHANGED <<docs, requests, status, progress, queue, signed, ever, lost,
                 ensure>>

\* PublicDocumentController.uploadDocuments: the intake form; no check.
FormUpload(h, p, groups) ==
  /\ Spend("client")
  /\ Start(h, "save", [Free EXCEPT !.op = "upload", !.passenger = p,
                                   !.todo = groups])
  /\ UNCHANGED <<docs, requests, status, progress, queue, signed, ever, lost,
                 ensure>>

\* The request a signature closes: the one the link names, or any ASSIGNMENT
\* request of the passenger in the claim that was read, whatever its status.
SignRequests(p) ==
  LET own == {r \in RequestIds : /\ requests[r] # "NONE"
                                 /\ Concerns[r] = <<p, "Assignment">>}
  IN  IF own = {} THEN {NoRequest} ELSE own

\* PublicCustomerController.uploadCustomerSign up to the read of the claim.
BeginCustomerSign(h, r) ==
  /\ Spend("client")
  /\ Start(h, "enqueue", [Free EXCEPT !.op = "customerSign",
                                      !.passenger = Customer,
                                      !.check = TRUE, !.request = r])
  /\ UNCHANGED <<docs, requests, status, progress, queue, signed, ever, lost,
                 ensure>>

\* PublicOtherPassengerController.uploadOtherPassengerSign up to the read.
BeginPassengerSign(h, p, r) ==
  /\ Spend("client")
  /\ Start(h, IF r = NoRequest THEN "enqueue" ELSE "close",
           [Free EXCEPT !.op = "passengerSign", !.passenger = p,
                        !.check = TRUE, !.request = r])
  /\ UNCHANGED <<docs, requests, status, progress, queue, signed, ever, lost,
                 ensure>>

\* ClaimController.uploadSign: the signature of the intake form; its job does
\* not check the documents.
BeginFormSign(h) ==
  /\ Spend("client")
  /\ Start(h, "enqueue", [Free EXCEPT !.op = "formSign",
                                      !.passenger = Customer])
  /\ UNCHANGED <<docs, requests, status, progress, queue, signed, ever, lost,
                 ensure>>

ClientRequest(h) ==
  \/ \E s \in Slots, r \in RequestIds \cup {NoRequest} :
        {s[2]} \in Batches /\ BeginUpload(h, s, r)
  \/ \E p \in Passengers \ {Customer}, groups \in Batches :
        BeginPassengerUpload(h, p, groups)
  \/ \E p \in Passengers, groups \in Batches : FormUpload(h, p, groups)
  \/ \E r \in SignRequests(Customer) : BeginCustomerSign(h, r)
  \/ \E p \in Passengers \ {Customer} : \E r \in SignRequests(p) :
        BeginPassengerSign(h, p, r)
  \/ BeginFormSign(h)

-----------------------------------------------------------------------------
(* The steps of a handler.                                                 *)

\* One document.create of DocumentDbService.saveMany; the creates of one
\* upload run in parallel, in any order.
SaveDocument(h) ==
  /\ pc[h] = "save"
  /\ \E g \in ctx[h].todo :
       LET slot == <<ctx[h].passenger, g>>
           left == ctx[h].todo \ {g}
       IN  /\ docs' = [docs EXCEPT ![slot] = @ + 1]
           /\ ever' = ever \cup {slot}
           /\ IF left = {} THEN Goto(h, AfterSave(h))
              ELSE /\ ctx' = [ctx EXCEPT ![h].todo = left]
                   /\ pc' = pc
  /\ UNCHANGED <<requests, status, progress, queue, signed, spent, lost,
                 ensure>>

\* handleAllDocumentsUploaded reads the claim with its documents, status and
\* progress.  The early returns that depend on this snapshot are taken here.
ReadClaim(h) ==
  /\ pc[h] = "check"
  /\ LET due  == ~AlreadyAdvanced /\ AllDocumentsPresent /\ status \in Eligible
         step == IF due THEN "requests" ELSE AfterCheck(h)
     IN  /\ pc' = [pc EXCEPT ![h] = step]
         /\ ctx' = [ctx EXCEPT ![h] = IF step = "idle" THEN Free
                                      ELSE [@ EXCEPT !.order = LastOrder,
                                                     !.epoch = spent["staff"]]]
  /\ UNCHANGED <<docs, requests, status, progress, queue, signed, spent, ever,
                 lost, ensure>>

\* Variant: the advance waits for no request.
SkipRequests(h) ==
  /\ pc[h] = "requests"
  /\ Goto(h, "advance")
  /\ UNCHANGED <<docs, requests, status, progress, queue, signed, spent, ever,
                 lost, ensure>>

\* documentRequestService.getByClaimId: any ACTIVE request stops the advance.
ReadRequests(h) ==
  /\ pc[h] = "requests"
  /\ Goto(h, IF OpenRequests = {} THEN "advance" ELSE AfterCheck(h))
  /\ crossed' = crossed \ {h}
  /\ UNCHANGED <<docs, requests, status, progress, queue, signed, spent, ever,
                 lost, ensureJobs, ensuring>>

\* The transaction.  The order comes from the snapshot; with an empty
\* progress list the reduce has no row to take it from and the call throws.
Advance(h) ==
  /\ pc[h] = "advance"
  /\ IF ctx[h].order = 0
     THEN /\ Goto(h, "idle")
          /\ UNCHANGED <<status, progress>>
     ELSE /\ progress' = Append(progress, [order |-> ctx[h].order + 1,
                                           kind |-> "docsReceived",
                                           auto |-> TRUE])
          /\ status' = "CLAIM_RECEIVED"
          /\ Goto(h, AfterCheck(h))
  /\ UNCHANGED <<docs, requests, queue, signed, spent, ever, lost, ensure>>

\* getById followed by updateStatus(INACTIVE); a request deleted in the
\* meantime is left alone.
CloseRequest(h) ==
  /\ pc[h] = "close"
  /\ requests' = [requests EXCEPT ![ctx[h].request] =
                    IF @ = "NONE" THEN "NONE" ELSE "INACTIVE"]
  /\ Goto(h, AfterClose(h))
  /\ UNCHANGED <<docs, status, progress, queue, signed, spent, ever, lost,
                 ensure>>

\* Variant: the add is not awaited, so nobody notices when it fails.
EnqueueUnawaited(h) ==
  /\ pc[h] = "enqueue"
  /\ \/ /\ queue' = Append(queue, [passenger |-> ctx[h].passenger,
                                   check |-> ctx[h].check])
        /\ spent' = spent
     \/ queue' = queue /\ Spend("failure")
  /\ Goto(h, AfterEnqueue(h))
  /\ UNCHANGED <<docs, requests, status, progress, signed, ever, lost, ensure>>

\* DocumentService.saveSignature: the job carries the passenger.
Enqueue(h) ==
  /\ pc[h] = "enqueue"
  /\ queue' = Append(queue, [passenger |-> ctx[h].passenger,
                             check |-> ctx[h].check])
  /\ Goto(h, AfterEnqueue(h))
  /\ UNCHANGED <<docs, requests, status, progress, signed, spent, ever, lost,
                 ensure>>

\* setIsSignedCustomer / setIsSignedPassenger, the last step of a signature.
Sign(h) ==
  /\ pc[h] = "sign"
  /\ signed' = signed \cup {ctx[h].passenger}
  /\ Goto(h, "idle")
  /\ UNCHANGED <<docs, requests, status, progress, queue, spent, ever, lost,
                 ensure>>

\* Variant: the worker does not check the documents of any job.
TakeJobUnchecked ==
  /\ queue # <<>>
  /\ Start(Assigner, "save",
           [Free EXCEPT !.op = "job", !.passenger = Head(queue).passenger,
                        !.todo = {"Assignment"}])
  /\ queue' = Tail(queue)
  /\ UNCHANGED <<docs, requests, status, progress, signed, spent, ever, lost,
                 ensure>>

\* The worker takes the oldest job.
TakeJob ==
  /\ queue # <<>>
  /\ Start(Assigner, "save",
           [Free EXCEPT !.op = "job", !.passenger = Head(queue).passenger,
                        !.todo = {"Assignment"}, !.check = Head(queue).check])
  /\ queue' = Tail(queue)
  /\ UNCHANGED <<docs, requests, status, progress, signed, spent, ever, lost,
                 ensure>>

\* The processor catches whatever rendering or storing the PDF, or the check
\* that follows, throws: the job counts as completed and is never retried.
JobThrows ==
  /\ pc[Assigner] # "idle"
  /\ Spend("failure")
  /\ lost' = lost \cup {ctx[Assigner].passenger}
  /\ Goto(Assigner, "idle")
  /\ UNCHANGED <<docs, requests, status, progress, queue, signed, ever,
                 ensure>>

\* A call of a request handler throws (S3, the database, the queue): the
\* client gets an error, what was done so far stays done.
HandlerThrows(h) ==
  /\ pc[h] # "idle"
  /\ Spend("failure")
  /\ Goto(h, "idle")
  /\ UNCHANGED <<docs, requests, status, progress, queue, signed, ever, lost,
                 ensure>>

\* The API process stops: every handler is cut where it stands.  The job the
\* worker holds has stalled and goes back to the queue, once: BullMQ gives up
\* a job that stalls a second time.  The ensure job stalls in the same way.
Crash ==
  /\ Spend("crash")
  /\ pc' = [h \in Handlers |-> "idle"]
  /\ ctx' = [h \in Handlers |-> Free]
  /\ \/ /\ queue' = IF pc[Assigner] = "idle" THEN queue
                    ELSE <<[passenger |-> ctx[Assigner].passenger,
                            check |-> ctx[Assigner].check]>> \o queue
        /\ lost' = lost
     \/ /\ pc[Assigner] # "idle"
        /\ spent["crash"] > 0
        /\ lost' = lost \cup {ctx[Assigner].passenger}
        /\ queue' = queue
  /\ ensuring' = NoEnsure
  /\ \/ ensureJobs' = IF ensuring.step = "rest" THEN ensureJobs
                      ELSE ensureJobs + 1
     \/ spent["crash"] > 0 /\ ensureJobs' = ensureJobs
  /\ UNCHANGED <<docs, requests, status, progress, signed, ever, crossed>>

-----------------------------------------------------------------------------
(* The back office.                                                        *)

\* DocumentController.uploadAdminDocuments: saved without the check.
StaffUpload(s) ==
  /\ Spend("staff")
  /\ docs' = [docs EXCEPT ![s] = @ + 1]
  /\ ever' = ever \cup {s}
  /\ UNCHANGED <<requests, status, progress, queue, signed, pc, ctx, lost,
                 ensure>>

\* Variant: a document that is already gone is removed once more.
RemoveDocumentAgain(s) ==
  /\ Spend("staff")
  /\ docs' = [docs EXCEPT ![s] = @ - 1]
  /\ UNCHANGED <<requests, status, progress, queue, signed, pc, ctx, ever,
                 lost, ensure>>

\* DocumentController.removeDocument; a document given a type that no group
\* asks for disappears from the flow in the same way.
RemoveDocument(s) ==
  /\ Spend("staff")
  /\ docs[s] > 0
  /\ docs' = [docs EXCEPT ![s] = @ - 1]
  /\ UNCHANGED <<requests, status, progress, queue, signed, pc, ctx, ever,
                 lost, ensure>>

\* DocumentController.updateDocumentType and patchPassengerId.
PatchDocument(s, t) ==
  /\ Spend("staff")
  /\ s # t
  /\ s[1] = t[1] \/ s[2] = t[2]
  /\ docs[s] > 0
  /\ docs' = [docs EXCEPT ![s] = @ - 1, ![t] = @ + 1]
  /\ ever' = ever \cup {t}
  /\ UNCHANGED <<requests, status, progress, queue, signed, pc, ctx, lost,
                 ensure>>

\* DocumentRequestController.create and delete.
CreateRequest(r) ==
  /\ Spend("staff")
  /\ requests[r] = "NONE"
  /\ requests' = [requests EXCEPT ![r] = "ACTIVE"]
  /\ UNCHANGED <<docs, status, progress, queue, signed, pc, ctx, ever, lost,
                 ensure>>

DeleteRequest(r) ==
  /\ Spend("staff")
  /\ requests[r] # "NONE"
  /\ requests' = [requests EXCEPT ![r] = "NONE"]
  /\ UNCHANGED <<docs, status, progress, queue, signed, pc, ctx, ever, lost,
                 ensure>>

\* ProgressController.createProgress: the status of the named passengers is
\* written first, the row afterwards, without a transaction.  forCustomer
\* says whether the customer is among them; the order is the client's.
StaffProgress(st, k, order, forCustomer) ==
  /\ Spend("staff")
  /\ (k # "step") <=> (st = "CLAIM_RECEIVED")
  /\ Start(Office, "row", [Free EXCEPT !.op = "progress", !.order = order,
                                       !.kind = k])
  /\ status' = IF forCustomer THEN st ELSE status
  /\ UNCHANGED <<docs, requests, progress, queue, signed, ever, lost, ensure>>

StaffProgressRow ==
  /\ pc[Office] = "row"
  /\ progress' = Append(progress, [order |-> ctx[Office].order,
                                   kind |-> ctx[Office].kind, auto |-> FALSE])
  /\ Goto(Office, "idle")
  /\ UNCHANGED <<docs, requests, status, queue, signed, spent, ever, lost,
                 ensure>>

\* ProgressController.deleteProgress.  The minute after creation in which it
\* is allowed is not measured here; the status is not rolled back.
DeleteProgress(i) ==
  /\ Spend("staff")
  /\ progress' = [j \in 1..(Len(progress) - 1) |->
                    IF j < i THEN progress[j] ELSE progress[j + 1]]
  /\ UNCHANGED <<docs, requests, status, queue, signed, pc, ctx, ever, lost,
                 ensure>>

\* StateController.updateState and the other direct writes of the status.
UpdateState(st) ==
  /\ Spend("staff")
  /\ status' = st
  /\ UNCHANGED <<docs, requests, progress, queue, signed, pc, ctx, ever, lost,
                 ensure>>

StaffAction ==
  \/ \E s \in Slots : StaffUpload(s) \/ RemoveDocument(s)
  \/ \E s, t \in Slots : PatchDocument(s, t)
  \/ \E r \in RequestIds : CreateRequest(r) \/ DeleteRequest(r)
  \/ \E st \in Statuses, k \in ProgressKinds, order \in Orders,
        forCustomer \in BOOLEAN : StaffProgress(st, k, order, forCustomer)
  \/ \E i \in 1..Len(progress) : DeleteProgress(i)
  \/ \E st \in Statuses : UpdateState(st)

-----------------------------------------------------------------------------
(* ClaimService.ensureDocumentRequests.                                    *)

\* ClaimController.updateClaim with step BOOKING_REF_STEP, any number of times.
ScheduleEnsure ==
  /\ Spend("ensure")
  /\ ensureJobs' = ensureJobs + 1
  /\ UNCHANGED <<docs, requests, status, progress, queue, signed, pc, ctx,
                 ever, lost, ensuring, crossed>>

\* The job starts and reads the claim with its documents.
TakeEnsure ==
  /\ ensuring.step = "rest"
  /\ ensureJobs > 0
  /\ ensureJobs' = ensureJobs - 1
  /\ ensuring' = [step |-> "requests", slots |-> Missing]
  /\ UNCHANGED <<docs, requests, status, progress, queue, signed, pc, ctx,
                 spent, ever, lost, crossed>>

\* hasReqs: any request of the type, of whichever passenger and status.
Asked(slot) ==
  \E r \in Typical : requests[r] # "NONE" /\ Concerns[r][2] = slot[2]

\* It reads the requests, once for all passengers.
EnsureReadRequests ==
  /\ ensuring.step = "requests"
  /\ ensuring' = [step |-> "create",
                  slots |-> {s \in ensuring.slots : ~Asked(s)}]
  /\ UNCHANGED <<docs, requests, status, progress, queue, signed, pc, ctx,
                 spent, ever, lost, ensureJobs, crossed>>

\* checkAndCreate for a passenger and a type that the reads found missing: an
\* ACTIVE request, whatever happened since.
EnsureRequest(r) ==
  /\ ensuring.step = "create"
  /\ Concerns[r] \in ensuring.slots
  /\ requests[r] = "NONE"
  /\ requests' = [requests EXCEPT ![r] = "ACTIVE"]
  /\ ensuring' = [ensuring EXCEPT !.slots = @ \ {Concerns[r]}]
  /\ crossed' = crossed \cup {h \in Handlers : pc[h] = "advance"}
  /\ UNCHANGED <<docs, status, progress, queue, signed, pc, ctx, spent, ever,
                 lost, ensureJobs>>

EnsureDone ==
  /\ ensuring.step = "create"
  /\ ensuring.slots = {}
  /\ ensuring' = NoEnsure
  /\ UNCHANGED <<docs, requests, status, progress, queue, signed, pc, ctx,
                 spent, ever, lost, ensureJobs, crossed>>

\* A call of the job throws; it has one attempt.
EnsureThrows ==
  /\ ensuring.step # "rest"
  /\ Spend("failure")
  /\ ensuring' = NoEnsure
  /\ UNCHANGED <<docs, requests, status, progress, queue, signed, pc, ctx,
                 ever, lost, ensureJobs, crossed>>

EnsureAction ==
  \/ ScheduleEnsure \/ TakeEnsure \/ EnsureReadRequests
  \/ (\E r \in Typical : EnsureRequest(r))
  \/ EnsureDone \/ EnsureThrows

-----------------------------------------------------------------------------
HandlerStep(h) ==
  \/ SaveDocument(h) \/ ReadClaim(h) \/ ReadRequests(h) \/ Advance(h)
  \/ CloseRequest(h) \/ Enqueue(h) \/ Sign(h)

Next ==
  \/ \E h \in Http : ClientRequest(h) \/ HandlerThrows(h)
  \/ \E h \in Http \cup {Assigner} : HandlerStep(h)
  \/ TakeJob \/ JobThrows \/ Crash
  \/ StaffAction \/ StaffProgressRow \/ EnsureAction

Spec == Init /\ [][Next]_vars

\* Node runs every started handler to its end and BullMQ's worker polls as
\* long as the process lives; clients and staff owe nothing, and no property
\* waits for the ensure job.
Fairness ==
  /\ \A h \in Http \cup {Assigner} : WF_vars(HandlerStep(h))
  /\ WF_vars(TakeJob)

FairSpec == Spec /\ Fairness

-----------------------------------------------------------------------------
(* Properties.                                                             *)

\* Handlers that decided, or are about to decide, from a snapshot of the claim.
Pending == {h \in Http \cup {Assigner} : pc[h] \in {"requests", "advance"}}
AutoRows == {i \in 1..Len(progress) :
               progress[i].kind = "docsReceived" /\ progress[i].auto}

\* Every variable has the shape the code gives it.
TypeOK ==
  /\ docs \in [Slots -> Nat]
  /\ requests \in [RequestIds -> {"NONE", "ACTIVE", "INACTIVE"}]
  /\ status \in Statuses
  /\ progress \in Seq(Rows)
  /\ queue \in Seq(Jobs)
  /\ signed \in SUBSET Passengers
  /\ pc \in [Handlers -> Steps]
  /\ ctx \in [Handlers -> Contexts]
  /\ spent \in [Events -> Nat]
  /\ ever \in SUBSET Slots
  /\ lost \in SUBSET Passengers
  /\ ensureJobs \in Nat
  /\ ensuring \in [step : {"rest", "requests", "create"}, slots : SUBSET Slots]
  /\ crossed \in SUBSET Handlers

\* handleAllDocumentsUploaded never tells the customer that the additional
\* documents are in unless each passenger, not only the customer, has at some
\* time had a document in each of the three groups: races can make the row
\* late, they cannot make it up.
AdvanceHadEveryDocument == AutoRows # {} => ever = Slots

\* A check about to commit is right about the claim unless the back office
\* acted after the check read it: the clients' and the workers' concurrent
\* steps can only add documents, close requests or advance the claim first,
\* but for the ensure job, whose own reads may be as old: it may open a request
\* behind the check's read of them, and nothing else may leave one open.
CommitRightUnlessStaffActed ==
  \A h \in Http \cup {Assigner} :
    (pc[h] = "advance" /\ ctx[h].epoch = spent["staff"]) =>
      /\ AllDocumentsPresent
      /\ OpenRequests = {} \/ h \in crossed
      /\ status \in Eligible \/ AlreadyAdvanced

\* The check on the progress list bounds how often concurrent checks repeat
\* the advance: the automatic rows and the checks still in flight together
\* never exceed the handlers that can overlap, however many requests come.
AdvancesBoundedByOverlap ==
  Cardinality(AutoRows) + Cardinality(Pending) <= Cardinality(Http) + 1

\* What became of the assignment a passenger signed.
Accounted(p) ==
  \/ <<p, "Assignment">> \in ever
  \/ p \in lost
  \/ \E i \in 1..Len(queue) : queue[i].passenger = p
  \/ pc[Assigner] = "save" /\ ctx[Assigner].passenger = p

\* A passenger marked as signed has had an assignment stored, or the job that
\* makes it is waiting or running, or that job threw and was swallowed, or was
\* given up after stalling twice: one restart of the process loses none.
SignatureAccounted == \A p \in signed : Accounted(p)

\* A signature that was the last thing missing brings the claim back to
\* processing: once its checked job waits, with nothing else missing, no
\* request open and the claim waiting for documents, the claim advances, unless
\* the job throws, the back office acts again, the ensure job opens a request
\* first, or the progress list is empty (the reduce over it throws).
SignatureAdvancesClaim ==
  \A p \in Passengers, n \in 0..Limit["staff"] :
    ( /\ \E i \in 1..Len(queue) : queue[i] = [passenger |-> p, check |-> TRUE]
      /\ Missing \subseteq {<<p, "Assignment">>}
      /\ OpenRequests = {}
      /\ status \in Eligible
      /\ spent["staff"] = n )
    ~>
    ( \/ AlreadyAdvanced
      \/ p \in lost
      \/ spent["staff"] > n
      \/ OpenRequests # {}
      \/ progress = <<>> )

\* What the dashboard upload passes handleIsAllDocumentsUploaded for: when it
\* closes the last open request of a claim that waits for documents and has
\* them all, the claim has been advanced, or something else that checks the
\* documents is still to run, or the back office acted after the check.
LastAnswerAdvances ==
  [][\A h \in Http :
       (/\ pc[h] = "close" /\ ctx[h].op = "upload"
        /\ ctx[h].epoch = spent["staff"]
        /\ OpenRequests # {} /\ OpenRequests' = {}
        /\ AllDocumentsPresent /\ status \in Eligible)
       => \/ AlreadyAdvanced'
          \/ queue # <<>>
          \/ \E g \in Handlers \ {h} : pc[g] # "idle"]_vars

\* An advance is right when it commits, and there are as many as can be explained.
AdvancesJustified == CommitRightUnlessStaffActed /\ AdvancesBoundedByOverlap
=============================================================================
