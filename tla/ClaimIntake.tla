----------------------------- MODULE ClaimIntake -----------------------------
(***************************************************************************)
(* How a claim comes into being and what it sets going: the request that   *)
(* creates it and links it with the earlier claims of the same trip, the   *)
(* letters that ask the customer to finish the form, the letter that       *)
(* reports on the claim every two weeks and schedules the next one, and    *)
(* what the customer and the back office do to the claim meanwhile.        *)
(*                                                                         *)
(* Every await of the handlers and of the two processors is a step; each   *)
(* queue has one worker.                                                   *)
(***************************************************************************)
EXTENDS Integers, FiniteSetsExt

CONSTANTS
  Ids,          \* ids a claim may draw; that of a deleted one is free again
  Trips,        \* a customer with the flight the claim is about
  Http,         \* requests in progress at the same time
  Steps,        \* steps of the form the customer may report
  MaxAttempts,  \* ids a request draws before it gives up
  FollowUps,    \* letters that ask to finish the form
  Attempts,     \* attempts of a follow-up job
  Limit,        \* bound on the events of each kind, see Spend
  Total         \* bound on the events of all kinds

Events == {"create", "customer", "staff", "trouble"}
Kinds  == {"followUpClaim", "claimReminder"}
DEFAULT_STEP == 5
SIGN_STEP == 7
BOOKING_REF_STEP == 8
NoId == 0

ASSUME IntakeAssumption ==
  /\ IsFiniteSet(Ids) /\ IsFiniteSet(Http) /\ NoId \notin Ids /\ Steps \subseteq Nat
  /\ {MaxAttempts, FollowUps, Attempts} \subseteq Nat \ {0}
  /\ Limit \in [Events -> Nat] /\ Total \in Nat

VARIABLES
  claims,   \* by id: the claims there are
  links,    \* the rows of duplicated_claims
  request,  \* the requests in progress
  jobs,     \* the jobs of both queues that wait
  worker,   \* by queue: the job its worker is at
  past,     \* history: what befell a claim, by id
  spent     \* events so far, by kind

vars == <<claims, links, request, jobs, worker, past, spent>>
database == <<claims, links>>
queues == <<jobs, worker>>

Claims == DOMAIN claims
Same(trip) == {i \in Claims : claims[i].trip = trip}

Rest == [at |-> "rest", id |-> NoId, trip |-> NoId, found |-> {}, left |-> 0,
         owned |-> FALSE, parted |-> FALSE]
Creating == {"save", "reverse", "owner", "followUps", "reminder", "flight"}
Revoking == {"archive", "unlink"}
At(h, call) == request[h].at = call
Go(h, call) == request' = [request EXCEPT ![h].at = call]

\* Jobs of a claim that are added together have one n, and are told apart by m;
\* sent counts the letters, and unstored the times that storing the mail failed
\* behind one.
Job(kind, i, n, m) == [kind |-> kind, id |-> i, n |-> n, m |-> m, tries |-> 0,
                       sent |-> 0, unstored |-> 0, stalled |-> FALSE]
Idle == [at |-> "rest", job |-> Job("none", NoId, 0, 0), changed |-> FALSE]
Doing(kind, call) == worker[kind].at = call
JobsOf(kind, i) ==
  {j \in jobs \cup {worker[kind].job} : j.kind = kind /\ j.id = i}
Unused(kind, i) ==
  CHOOSE n \in 1..(Cardinality(JobsOf(kind, i)) + 1) :
    n \notin {j.n : j \in JobsOf(kind, i)}

Spend(event) ==
  /\ spent[event] < Limit[event]
  /\ MapThenSumSet(LAMBDA e : spent[e], Events) < Total
  /\ spent' = [spent EXCEPT ![event] = @ + 1]
\* What the history says of claims, by id.
Mark(ids, what) == [i \in Ids |-> past[i] \cup IF i \in ids THEN {what} ELSE {}]
Is(i, what) == what \in past[i]

Init ==
  /\ claims = [i \in {} |-> Rest] /\ links = {}
  /\ request = [h \in Http |-> Rest]
  /\ jobs = {} /\ worker = [k \in Kinds |-> Idle]
  /\ past = [i \in Ids |-> {}]
  /\ spent = [e \in Events |-> 0]

-----------------------------------------------------------------------------
(* create: the request that makes a claim.                                 *)

\* findDuplicate: the same customer and flight, whatever became of the claim.
FindDuplicate(trip) == Same(trip)

\* Requests about the trip that are in progress.
Beside(trip) == {h \in Http : request[h].at # "rest" /\ request[h].trip = trip}

\* The customer has a token, or gets an account unless the address has one.
Create(h, trip) ==
  /\ At(h, "rest")
  /\ Spend("create")
  /\ \E owned \in BOOLEAN :
       request' = [k \in Http |->
         IF k = h THEN [at |-> "save", id |-> NoId, trip |-> trip,
                        found |-> FindDuplicate(trip), left |-> MaxAttempts,
                        owned |-> owned, parted |-> Beside(trip) # {}]
         ELSE IF k \in Beside(trip) THEN [request[k] EXCEPT !.parted = TRUE]
         ELSE request[k]]
  /\ past' = Mark({request[k].id : k \in Beside(trip)}, "parted")
  /\ UNCHANGED <<database, queues>>

\* save: the claim with its links to the duplicates, in one statement.  The id
\* is drawn at random; only that of a claim there is would be refused.
Save(h, id) ==
  /\ At(h, "save")
  /\ id \notin Claims
  /\ request[h].found \subseteq Claims
  /\ claims' = [i \in Claims \cup {id} |->
       IF i = id THEN [trip |-> request[h].trip, step |-> DEFAULT_STEP,
                       archived |-> FALSE, active |-> TRUE,
                       owned |-> request[h].owned]
                 ELSE claims[i]]
  /\ links' = links \cup ({id} \X request[h].found)
  /\ request' = [request EXCEPT ![h].at = "reverse", ![h].id = id]
  /\ past' = IF request[h].parted THEN Mark({id}, "parted") ELSE past
  /\ UNCHANGED <<queues, spent>>

\* P2002: another id, as long as there are attempts left.
IdTaken(h, id) ==
  /\ At(h, "save")
  /\ id \in Claims
  /\ request' = IF request[h].left > 1 THEN [request EXCEPT ![h].left = @ - 1]
                                       ELSE [request EXCEPT ![h] = Rest]
  /\ UNCHANGED <<database, queues, past, spent>>

\* A duplicate was deleted meanwhile: the request fails, and no claim is made.
DuplicateGone(h) ==
  /\ At(h, "save")
  /\ ~ request[h].found \subseteq Claims
  /\ request' = [request EXCEPT ![h] = Rest]
  /\ UNCHANGED <<database, queues, past, spent>>

\* The request fails behind its commit: the claim stays as it is.
Break(h) ==
  /\ request' = [request EXCEPT ![h] = Rest]
  /\ past' = Mark({request[h].id}, "broken")

\* The rows of the duplicates; none can be made to a claim that is gone.
Reverse(h) ==
  /\ At(h, "reverse")
  /\ LET r == request[h]
     IN IF r.found = {} \/ r.found \cup {r.id} \subseteq Claims
        THEN /\ links' = links \cup (r.found \X {r.id})
             /\ Go(h, IF r.owned THEN "followUps" ELSE "owner")
             /\ UNCHANGED past
        ELSE Break(h) /\ UNCHANGED links
  /\ UNCHANGED <<claims, queues, spent>>

\* The account of the customer's address becomes the owner.
LinkOwner(h) ==
  /\ At(h, "owner")
  /\ IF request[h].id \in Claims
     THEN /\ claims' = [claims EXCEPT ![request[h].id].owned = TRUE]
          /\ Go(h, "followUps") /\ UNCHANGED past
     ELSE Break(h) /\ UNCHANGED claims
  /\ UNCHANGED <<links, queues, spent>>

\* scheduleClaimFollowUpEmails; those of an earlier claim of the id may wait.
AddFollowUps(h) ==
  /\ At(h, "followUps")
  /\ LET i == request[h].id
         n == Unused("followUpClaim", i)
     IN jobs' = jobs \cup {Job("followUpClaim", i, n, m) : m \in 1..FollowUps}
  /\ Go(h, "reminder")
  /\ UNCHANGED <<database, worker, past, spent>>

AddReminder(h) ==
  /\ At(h, "reminder")
  /\ LET i == request[h].id
     IN jobs' = jobs \cup {Job("claimReminder", i, Unused("claimReminder", i), 1)}
  /\ Go(h, "flight")
  /\ UNCHANGED <<database, worker, past, spent>>

\* The job of FlightStatuses is added, and the customer gets the answer.
AddFlightJob(h) ==
  /\ At(h, "flight")
  /\ request' = [request EXCEPT ![h] = Rest]
  /\ past' = Mark({request[h].id}, "answered")
  /\ UNCHANGED <<database, queues, spent>>

-----------------------------------------------------------------------------
(* revokeClaim: of the claims of one trip all but one are archived.        *)

\* The history keeps which claims of the trip the links do not tell of, and
\* which claims of other trips they do (an id that was drawn again).
Revoke(h, i) ==
  /\ At(h, "rest")
  /\ Spend("staff")
  /\ LET found == {b \in Claims : <<i, b>> \in links}
         missed == (Same(claims[i].trip) \ (found \cup {i}))
                     \cup (found \ Same(claims[i].trip))
     IN /\ request' = [k \in Http |->
             IF k = h THEN [Rest EXCEPT !.at = "archive", !.id = i, !.found = found,
                                        !.trip = claims[i].trip]
             ELSE IF k \in Beside(claims[i].trip)
                  THEN [request[k] EXCEPT !.parted = TRUE]
             ELSE request[k]]
        /\ past' = [j \in Ids |-> past[j]
             \cup (IF j \in found \cup {i} THEN {"revoked"} ELSE {})
             \cup (IF j \in missed THEN {"missed"} ELSE {})
             \cup (IF j \in {request[k].id : k \in Beside(claims[i].trip)}
                   THEN {"parted"} ELSE {})]
  /\ UNCHANGED <<database, queues>>

\* What a task read of a claim is not what it is now.
Changed(ids) ==
  worker' = [k \in Kinds |-> IF worker[k].job.id \in ids
                             THEN [worker[k] EXCEPT !.changed = TRUE]
                             ELSE worker[k]]

ArchiveDuplicates(h) ==
  /\ At(h, "archive")
  /\ claims' = [i \in Claims |-> IF i \in request[h].found
                                 THEN [claims[i] EXCEPT !.archived = TRUE]
                                 ELSE claims[i]]
  /\ Changed(request[h].found)
  /\ Go(h, "unlink")
  /\ UNCHANGED <<links, jobs, past, spent>>

\* Variant: only the rows of the claim itself are deleted.
OwnLinks(h) == {l \in links : l[1] = request[h].id}

\* deleteMany: the rows of the claim and of its duplicates.
LinksOf(h) == {l \in links : l[1] \in request[h].found \cup {request[h].id}}

DeleteLinks(h) ==
  /\ At(h, "unlink")
  /\ links' = links \ LinksOf(h)
  /\ request' = [request EXCEPT ![h] = Rest]
  /\ UNCHANGED <<claims, queues, past, spent>>

-----------------------------------------------------------------------------
(* What the customer and the back office do to a claim.                    *)

Edit(i, event, claim) ==
  /\ Spend(event)
  /\ claims' = [claims EXCEPT ![i] = claim]
  /\ Changed({i})
  /\ UNCHANGED <<links, request, jobs, past>>

\* updateClaim takes the step from the query; it may be an earlier one.
UpdateClaim(i, step) == Edit(i, "customer", [claims[i] EXCEPT !.step = step])

\* uploadSign, at whatever step the form is.
UploadSign(i) == Edit(i, "customer", [claims[i] EXCEPT !.step = SIGN_STEP])

ArchiveClaim(i) ==
  \E archived \in BOOLEAN \ {claims[i].archived} :
    Edit(i, "staff", [claims[i] EXCEPT !.archived = archived])

\* The status becomes or ceases to be one a reminder is written for.
ChangeStatus(i) ==
  \E active \in BOOLEAN \ {claims[i].active} :
    Edit(i, "staff", [claims[i] EXCEPT !.active = active])

\* cascadeDelete; its links go with it, its jobs stay.
DeleteClaim(i) ==
  /\ Spend("staff")
  /\ claims' = [k \in Claims \ {i} |-> claims[k]]
  /\ links' = {l \in links : i \notin {l[1], l[2]}}
  /\ past' = Mark({i}, "deleted")
  /\ Changed({i})
  /\ UNCHANGED <<request, jobs>>

-----------------------------------------------------------------------------
(* The processors.                                                         *)

\* Variant: the form is past only behind the step of the booking reference.
WantsLate(kind, i) ==
  IF kind = "followUpClaim"
  THEN claims[i].step <= BOOKING_REF_STEP /\ ~claims[i].archived
  ELSE claims[i].active

\* A letter is due: the form is not finished, or the status is one of three.
Wants(kind, i) ==
  IF kind = "followUpClaim"
  THEN claims[i].step < BOOKING_REF_STEP /\ ~claims[i].archived
  ELSE claims[i].active

\* Variant: the letter first, the record of it then.
LetterFirst(kind) ==
  IF kind = "followUpClaim" THEN <<"letter", "store", "record">>
                            ELSE <<"letter", "store", "next">>
\* The calls a job makes for a letter; "store" saves the mail that was sent.
CallsOf(kind) ==
  IF kind = "followUpClaim" THEN <<"record", "letter", "store">>
                            ELSE <<"letter", "store", "next">>
Behind(kind, call) ==
  LET calls == CallsOf(kind)
  IN IF call = calls[1] THEN calls[2]
     ELSE IF call = calls[2] THEN calls[3] ELSE "done"

\* Variant: the attempts are those behind the first.
RetriedOften(job) ==
  IF job.kind = "followUpClaim" /\ job.tries < Attempts
  THEN {[job EXCEPT !.tries = @ + 1]} ELSE {}

\* A job that throws: a follow-up is tried again, a reminder has one attempt.
Retried(job) ==
  IF job.kind = "followUpClaim" /\ job.tries + 1 < Attempts
  THEN {[job EXCEPT !.tries = @ + 1]} ELSE {}

EndedBy(job) == IF job.kind = "claimReminder" THEN Mark({job.id}, "ended") ELSE past

\* The claim is read: a follow-up of one that is gone throws, and neither
\* writes one that does not want the letter.
TakeJob(kind) ==
  /\ Doing(kind, "rest")
  /\ \E j \in jobs :
       /\ j.kind = kind
       /\ IF j.id \in Claims /\ Wants(kind, j.id)
          THEN /\ worker' = [worker EXCEPT ![kind] =
                    [at |-> CallsOf(kind)[1], job |-> j, changed |-> FALSE]]
               /\ jobs' = jobs \ {j} /\ UNCHANGED past
          ELSE /\ jobs' = (jobs \ {j})
                    \cup IF j.id \in Claims THEN {} ELSE Retried(j)
               /\ past' = EndedBy(j) /\ UNCHANGED worker
  /\ UNCHANGED <<database, request, spent>>

\* The job as a call that throws leaves it: the letter behind a mail that
\* could not be stored has gone out all the same.
Thrown(kind) ==
  IF Doing(kind, "store") THEN [worker[kind].job EXCEPT !.unstored = @ + 1]
                          ELSE worker[kind].job

JobThrows(kind) ==
  /\ jobs' = jobs \cup Retried(Thrown(kind))
  /\ past' = EndedBy(worker[kind].job)
  /\ worker' = [worker EXCEPT ![kind] = Idle]
  /\ UNCHANGED <<database, request>>

\* The record of the letter, which a claim has once, if it is there.
CreateRecord(kind) ==
  /\ Doing(kind, "record")
  /\ IF worker[kind].job.id \in Claims
     THEN /\ worker' = [worker EXCEPT ![kind].at = Behind(kind, "record")]
          /\ UNCHANGED <<database, request, jobs, past>>
     ELSE JobThrows(kind)
  /\ UNCHANGED spent

\* processAndSend: Gmail takes the letter, which goes to the address the job
\* or the claim that was read has, whatever became of the claim.
SendLetter(kind) ==
  /\ Doing(kind, "letter")
  /\ worker' = [worker EXCEPT ![kind].at = Behind(kind, "letter"),
                              ![kind].job.sent = @ + 1]
  /\ UNCHANGED <<database, request, jobs, past, spent>>

\* Gmail refuses it, which is only logged, or the address has unsubscribed:
\* there is no mail to store.
SendNothing(kind) ==
  /\ Doing(kind, "letter")
  /\ Spend("trouble")
  /\ worker' = [worker EXCEPT ![kind].at = Behind(kind, "store")]
  /\ UNCHANGED <<database, request, jobs, past>>

\* saveHtmlEmail: the row of the mail refers to the claim, and cannot be made
\* when that is gone.
StoreMail(kind) ==
  /\ Doing(kind, "store")
  /\ IF worker[kind].job.id \in Claims
     THEN /\ worker' = [worker EXCEPT ![kind].at = Behind(kind, "store")]
          /\ UNCHANGED <<database, request, jobs, past>>
     ELSE JobThrows(kind)
  /\ UNCHANGED spent

\* Variant: an archived claim has no successor.
ScheduleUnlessArchived ==
  /\ Doing("claimReminder", "next")
  /\ LET i == worker["claimReminder"].job.id
     IN jobs' = jobs \cup IF i \in Claims /\ claims[i].archived THEN {}
                 ELSE {Job("claimReminder", i, Unused("claimReminder", i), 1)}
  /\ worker' = [worker EXCEPT !["claimReminder"].at = "done"]
  /\ UNCHANGED <<database, request, past, spent>>

\* The reminder schedules the one after it.
ScheduleNext ==
  /\ Doing("claimReminder", "next")
  /\ LET i == worker["claimReminder"].job.id
     IN jobs' = jobs \cup {Job("claimReminder", i, Unused("claimReminder", i), 1)}
  /\ worker' = [worker EXCEPT !["claimReminder"].at = "done"]
  /\ UNCHANGED <<database, request, past, spent>>

EndJob(kind) ==
  /\ Doing(kind, "done")
  /\ worker' = [worker EXCEPT ![kind] = Idle]
  /\ UNCHANGED <<database, request, jobs, past, spent>>

-----------------------------------------------------------------------------
(* Trouble.                                                                *)

\* A call of a request to the database or to redis throws.
RequestThrows(h) ==
  /\ request[h].at # "rest"
  /\ Spend("trouble")
  /\ IF request[h].at \in Creating THEN Break(h)
     ELSE request' = [request EXCEPT ![h] = Rest] /\ UNCHANGED past
  /\ UNCHANGED <<database, queues>>

\* A call of a job throws; behind the last one nothing can.
CallThrows(kind) ==
  /\ ~Doing(kind, "rest") /\ ~Doing(kind, "done")
  /\ Spend("trouble")
  /\ JobThrows(kind)

\* A job that was running returns to its queue, once.
Stalled(job) == IF job.stalled THEN {} ELSE {[job EXCEPT !.stalled = TRUE]}

Crash ==
  /\ Spend("trouble")
  /\ LET running == {worker[k].job : k \in {k \in Kinds : ~Doing(k, "rest")}}
         cut == {request[h].id : h \in {h \in Http : request[h].at \in Creating}}
     IN /\ jobs' = jobs \cup UNION {Stalled(j) : j \in running}
        /\ past' = [i \in Ids |-> past[i]
             \cup (IF i \in cut THEN {"broken"} ELSE {})
             \cup UNION {IF j.stalled THEN {"ended"} ELSE {"stalled"} : j \in
                           {j \in running : j.id = i /\ j.kind = "claimReminder"}}]
  /\ request' = [h \in Http |-> Rest]
  /\ worker' = [k \in Kinds |-> Idle]
  /\ UNCHANGED database

-----------------------------------------------------------------------------
Proceed(h) ==
  \/ \E id \in Ids : Save(h, id) \/ IdTaken(h, id)
  \/ DuplicateGone(h) \/ Reverse(h) \/ LinkOwner(h)
  \/ AddFollowUps(h) \/ AddReminder(h) \/ AddFlightJob(h)
  \/ ArchiveDuplicates(h) \/ DeleteLinks(h)

Work(kind) ==
  \/ TakeJob(kind) \/ CreateRecord(kind) \/ SendLetter(kind) \/ SendNothing(kind)
  \/ StoreMail(kind) \/ (kind = "claimReminder" /\ ScheduleNext) \/ EndJob(kind)

Next ==
  \/ \E h \in Http : \/ \E trip \in Trips : Create(h, trip)
                     \/ \E i \in Claims : Revoke(h, i)
                     \/ Proceed(h) \/ RequestThrows(h)
  \/ \E i \in Claims : \/ \E step \in Steps : UpdateClaim(i, step)
                       \/ UploadSign(i) \/ ArchiveClaim(i) \/ ChangeStatus(i)
                       \/ DeleteClaim(i)
  \/ \E kind \in Kinds : Work(kind) \/ CallThrows(kind)
  \/ Crash

Spec == Init /\ [][Next]_vars

-----------------------------------------------------------------------------
(* Properties.                                                             *)

\* Every variable has the shape the code gives it.
TypeOK ==
  /\ Claims \subseteq Ids
  /\ \A i \in Claims :
       claims[i] \in [trip : Trips, step : Steps \cup {DEFAULT_STEP, SIGN_STEP},
                      archived : BOOLEAN, active : BOOLEAN, owned : BOOLEAN]
  /\ links \subseteq Claims \X Claims
  /\ \A j \in jobs : /\ j.kind \in Kinds /\ j.id \in Ids /\ j.tries \in 0..(Attempts - 1)
  /\ \A k \in Kinds : ~Doing(k, "rest") => worker[k].job.kind = k

\* Of two claims of a trip that know each other as duplicates both do, but for
\* a claim whose request is still at it or broke off, for one that was created
\* next to another request about the trip, for one that the back office missed
\* (revokeClaim deletes the rows of the claims the links tell of, and leaves
\* those that others hold of them), and for the id of a claim that was deleted,
\* which stands for another claim when it is drawn again.
LinksSymmetric ==
  \A l \in links :
    \/ <<l[2], l[1]>> \in links
    \/ \E i \in {l[1], l[2]} :
         \/ past[i] \cap {"broken", "parted", "missed", "deleted"} # {}
         \/ \E h \in Http : request[h].id = i /\ At(h, "reverse")

\* Two claims of a trip know of each other, unless they were created next to
\* each other or the back office chose between them.
DuplicatesKnown ==
  \A i, k \in Claims :
    (i # k /\ claims[i].trip = claims[k].trip) =>
      \/ {<<i, k>>, <<k, i>>} \cap links # {}
      \/ \E j \in {i, k} : Is(j, "parted") \/ Is(j, "revoked")

\* A claim the customer was answered for has an owner, and a reminder that
\* waits, or one that found nothing to write or came to grief, unless it is the
\* second claim of its id.
AnsweredClaimKept ==
  \A i \in Claims : (Is(i, "answered") /\ ~Is(i, "deleted")) =>
    claims[i].owned /\ (JobsOf("claimReminder", i) # {} \/ Is(i, "ended"))

\* A claim has one series of reminders, unless the process stopped during one,
\* or the claim was deleted: its series may meet that of the next claim of the id.
OneSeriesOfReminders ==
  \A i \in Ids : Cardinality(JobsOf("claimReminder", i)) > 1 =>
    Is(i, "stalled") \/ Is(i, "deleted") \/ Doing("claimReminder", "done")

\* A job sends its letter once, however often its calls fail, and once more
\* only for each time that the mail could not be stored behind it, and when the
\* process stopped during the job.
LetterOncePerJob ==
  \A kind \in Kinds :
    LET job == worker[kind].job
    IN job.sent <= 1 + job.unstored + IF job.stalled THEN 1 ELSE 0

\* No letter goes to a customer that does not want it any more, unless the
\* claim changed behind the back of the job.
LettersWelcome ==
  [][\A kind \in Kinds :
       (worker[kind].at = "letter" /\ worker'[kind].job.sent > worker[kind].job.sent) =>
         \/ worker[kind].changed
         \/ /\ worker[kind].job.id \in Claims
            /\ kind = "followUpClaim" => /\ claims[worker[kind].job.id].step < 8
                                        /\ ~claims[worker[kind].job.id].archived
            /\ kind = "claimReminder" => claims[worker[kind].job.id].active]_vars

\* An id is given to the claim of one request: no other request is at work on
\* it, or was, when the first is, unless the claim was deleted meanwhile, which
\* frees its id behind the back of the first.
IdGivenOnce ==
  \A h \in Http :
    (request[h].at \in Creating \ {"save"} /\ ~Is(request[h].id, "deleted")) =>
    /\ past[request[h].id] \cap {"answered", "broken"} = {}
    /\ \A k \in Http \ {h} : request[k].at \in Creating => request[k].id # request[h].id

\* Two claims of a trip know of each other, both or neither.
DuplicatesLinked == LinksSymmetric /\ DuplicatesKnown

\* A claim is given to one customer and looked after from then on.
ClaimsKept == IdGivenOnce /\ AnsweredClaimKept

\* Letters go out once.
LettersOnce == OneSeriesOfReminders /\ LetterOncePerJob
=============================================================================
