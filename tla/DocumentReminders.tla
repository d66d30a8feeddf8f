-------------------------- MODULE DocumentReminders --------------------------
(***************************************************************************)
(* Document requests of one claim and the letters that remind of them.     *)
(*                                                                         *)
(* DocumentRequestService.create saves the request, looks for a lock of    *)
(* the claim in redis, and when there is none adds a series of letters to  *)
(* a queue, one per delay, and sets the lock until the last of them.  Each *)
(* call is awaited on its own.  A letter names the requests that are       *)
(* active when its job runs, so requests made while the lock is held rely  *)
(* on the letters that are still ahead.  Staff create requests, and so     *)
(* does the worker of the ensure-document-requests queue, for what is      *)
(* missing when the intake form is complete.                               *)
(*                                                                         *)
(* Time is counted in days left: letters[d] is the number of letters that  *)
(* become due in d days, lock the days until the lock expires.             *)
(***************************************************************************)
EXTENDS Naturals, FiniteSets

CONSTANTS
  Passengers,   \* the customer and the other passengers
  Types,        \* types of requests, each standing for a kind of document
  RequestIds,   \* ids a DocumentRequest row may get
  Special,      \* those whose reason has a letter of its own
  Filed,        \* slots that have a document when the form is complete
  Http,         \* requests of the back office at the same time
  Ensurer,      \* the worker of the ensure-document-requests queue
  Delays,       \* days until each letter of a series
  LockDays,     \* days until the lock expires
  Limit         \* bound on the events of each kind, see Spend

Slots    == Passengers \X Types
Handlers == Http \cup {Ensurer}
Events   == {"ensure", "client", "staff", "archive", "failure", "crash"}
Runs     == {"first", "second"}   \* a job that stalled once runs again
Night    == 1   \* getNextWorkTime moves a letter into the next working day
Horizon  == LockDays + Night

ASSUME HandlerAssumption == Ensurer \notin Http
ASSUME ClaimAssumption == Special \subseteq RequestIds /\ Filed \subseteq Slots
\* Letters are two days apart, and the lock expires with the last of them.
ASSUME DelayAssumption ==
  /\ Delays \subseteq Nat
  /\ LockDays \in Delays \ {0}
  /\ \A d \in Delays : d <= LockDays
  /\ \A d, e \in Delays : d < e => d + Night < e
ASSUME LimitAssumption == Limit \in [Events -> Nat]

NoRow == [life |-> "NONE"]
Row   == [life : {"ACTIVE", "INACTIVE", "DELETED"}, slot : Slots,
          staff : BOOLEAN]
Tasks == [step : {"rest", "lock", "letters", "set"}, todo : SUBSET Delays]
Rest  == [step |-> "rest", todo |-> {}]

VARIABLES
  rows,         \* the DocumentRequest row of each id
  filed,        \* slots with a document
  archived,     \* claim.archived
  lock,         \* days until the redis lock expires, 0 when there is none
  letters,      \* letters that become due in each number of days
  again,        \* due letters whose job stalled once
  worker,       \* the worker of the letters
  task,         \* where the create of each handler is
  ensureJobs,   \* waiting jobs of the ensure queue, by run
  ensuring,     \* the job the Ensurer runs
  mentioned,    \* requests that were named in a letter
  disturbed,    \* history: two series began together, or one broke off
  ensured,      \* history: an ensure job ran to its end
  interrupted,  \* history: an ensure job broke off
  spent         \* events so far, by kind

claim   == <<rows, filed, archived>>
series  == <<lock, letters, again, worker>>
ensure  == <<ensureJobs, ensuring, ensured, interrupted>>
vars    == <<claim, series, task, ensure, mentioned, disturbed, spent>>

-----------------------------------------------------------------------------
Spend(event) ==
  /\ spent[event] < Limit[event]
  /\ spent' = [spent EXCEPT ![event] = @ + 1]

Live(r)   == rows[r].life \in {"ACTIVE", "INACTIVE"}
Active    == {r \in RequestIds : rows[r].life = "ACTIVE"}
Scheduling(h) == task[h].step \in {"letters", "set"}
Idle      == [step |-> "rest", asked |-> {}, run |-> "first"]
NoEnsure  == [step |-> "rest", slots |-> {}, run |-> "first"]

Init ==
  /\ rows = [r \in RequestIds |-> NoRow]
  /\ filed = Filed
  /\ archived = FALSE
  /\ lock = 0
  /\ letters = [d \in 0..Horizon |-> 0]
  /\ again = 0
  /\ worker = Idle
  /\ task = [h \in Handlers |-> Rest]
  /\ ensureJobs = [run \in Runs |-> 0]
  /\ ensuring = NoEnsure
  /\ mentioned = {}
  /\ disturbed = FALSE
  /\ ensured = FALSE
  /\ interrupted = FALSE
  /\ spent = [e \in Events |-> 0]

-----------------------------------------------------------------------------
(* DocumentRequestService.create.                                          *)

SaveRequest(h, r, slot) ==
  /\ task[h].step = "rest"
  /\ rows[r] = NoRow
  /\ rows' = [rows EXCEPT ![r] = [life |-> "ACTIVE", slot |-> slot,
                                  staff |-> h \in Http]]
  /\ task' = [task EXCEPT ![h].step = "lock"]

\* Staff ask for a document, for any reason.
CreateRequest(h, r, slot) ==
  /\ Spend("staff")
  /\ SaveRequest(h, r, slot)
  /\ UNCHANGED <<filed, archived, series, ensure, mentioned, disturbed>>

\* Variant: the lock is set where it is looked for.
CheckAndSetLock(h) ==
  /\ task[h].step = "lock"
  /\ IF lock > 0
     THEN task' = [task EXCEPT ![h] = Rest] /\ lock' = lock
     ELSE /\ task' = [task EXCEPT ![h] = [step |-> "letters", todo |-> Delays]]
          /\ lock' = LockDays
  /\ UNCHANGED <<claim, letters, again, worker, ensure, mentioned, disturbed,
                 spent>>

\* redis.get of the lock.
CheckLock(h) ==
  /\ task[h].step = "lock"
  /\ IF lock > 0
     THEN task' = [task EXCEPT ![h] = Rest] /\ disturbed' = disturbed
     ELSE /\ task' = [task EXCEPT ![h] = [step |-> "letters", todo |-> Delays]]
          /\ disturbed' = (disturbed \/ \E k \in Handlers : Scheduling(k))
  /\ UNCHANGED <<claim, series, ensure, mentioned, spent>>

\* scheduleSendNewDocumentRequests adds one letter after another; outside
\* the working hours getNextWorkTime moves a letter into the next day.
AddLetter(h, d, night) ==
  /\ task[h].step = "letters"
  /\ d \in task[h].todo
  /\ \A e \in task[h].todo : d <= e
  /\ letters' = [letters EXCEPT ![d + night] = @ + 1]
  /\ task' = [task EXCEPT ![h].todo = @ \ {d},
                          ![h].step = IF task[h].todo = {d} THEN "set" ELSE @]
  /\ UNCHANGED <<claim, lock, again, worker, ensure, mentioned, disturbed,
                 spent>>

\* Variant: the lock expires before the last letter.
SetLockTooShort(h) ==
  /\ task[h].step = "set"
  /\ lock' = LockDays - (Night + 1)
  /\ task' = [task EXCEPT ![h] = Rest]
  /\ UNCHANGED <<claim, letters, again, worker, ensure, mentioned, disturbed,
                 spent>>

\* Variant: the lock outlives the last letter.
SetLockTooLong(h) ==
  /\ task[h].step = "set"
  /\ lock' = LockDays + Night + 1
  /\ task' = [task EXCEPT ![h] = Rest]
  /\ UNCHANGED <<claim, letters, again, worker, ensure, mentioned, disturbed,
                 spent>>

\* redis.set of the lock with its expiry.
SetLock(h) ==
  /\ task[h].step = "set"
  /\ lock' = LockDays
  /\ task' = [task EXCEPT ![h] = Rest]
  /\ UNCHANGED <<claim, letters, again, worker, ensure, mentioned, disturbed,
                 spent>>

\* A call of create or of the ensure job throws; that job has one attempt.
HandlerThrows(h) ==
  /\ task[h].step # "rest" \/ (h = Ensurer /\ ensuring.step # "rest")
  /\ Spend("failure")
  /\ task' = [task EXCEPT ![h] = Rest]
  /\ disturbed' = (disturbed \/ Scheduling(h))
  /\ IF h = Ensurer THEN ensuring' = NoEnsure /\ interrupted' = TRUE
                    ELSE UNCHANGED <<ensuring, interrupted>>
  /\ UNCHANGED <<claim, series, ensureJobs, ensured, mentioned>>

-----------------------------------------------------------------------------
(* ClaimService.ensureDocumentRequests.                                    *)

\* ClaimController.updateClaim with step BOOKING_REF_STEP, any number of times.
ScheduleEnsure ==
  /\ Spend("ensure")
  /\ ensureJobs' = [ensureJobs EXCEPT !["first"] = @ + 1]
  /\ UNCHANGED <<claim, series, task, ensuring, ensured, interrupted,
                 mentioned, disturbed>>

\* The job starts and reads the claim with its documents.
TakeEnsure(run) ==
  /\ ensuring.step = "rest"
  /\ ensureJobs[run] > 0
  /\ ensureJobs' = [ensureJobs EXCEPT ![run] = @ - 1]
  /\ ensuring' = [step |-> "requests", slots |-> Slots \ filed,
                  run |-> run]
  /\ UNCHANGED <<claim, series, task, ensured, interrupted, mentioned,
                 disturbed, spent>>

\* hasReqs: any request of the type, of whichever passenger.
Asked(slot) == \E r \in RequestIds : Live(r) /\ rows[r].slot[2] = slot[2]

\* It reads the requests, once for all passengers.
ReadRequests ==
  /\ ensuring.step = "requests"
  /\ ensuring' = [ensuring EXCEPT !.step = "loop",
                                  !.slots = {s \in @ : ~Asked(s)}]
  /\ UNCHANGED <<claim, series, task, ensureJobs, ensured, interrupted,
                 mentioned, disturbed, spent>>

\* checkAndCreate, for one passenger and type after the other.
EnsureRequest(r, slot) ==
  /\ ensuring.step = "loop"
  /\ slot \in ensuring.slots
  /\ SaveRequest(Ensurer, r, slot)
  /\ ensuring' = [ensuring EXCEPT !.slots = @ \ {slot}]
  /\ UNCHANGED <<filed, archived, series, ensureJobs, ensured, interrupted,
                 mentioned, disturbed, spent>>

\* Variant: hasReqs looks at the requests as they are after each create.
EnsureDoneRereading ==
  /\ ensuring.step = "loop"
  /\ task[Ensurer].step = "rest"
  /\ \A s \in ensuring.slots : Asked(s)
  /\ ensuring' = NoEnsure
  /\ ensured' = TRUE
  /\ UNCHANGED <<claim, series, task, ensureJobs, interrupted, mentioned,
                 disturbed, spent>>

EnsureDone ==
  /\ ensuring.step = "loop"
  /\ task[Ensurer].step = "rest"
  /\ ensuring.slots = {}
  /\ ensuring' = NoEnsure
  /\ ensured' = TRUE
  /\ UNCHANGED <<claim, series, task, ensureJobs, interrupted, mentioned,
                 disturbed, spent>>

-----------------------------------------------------------------------------
(* SendNewDocumentRequestsProcessor: one letter at a time, one attempt.    *)

\* Variant: the letter is taken off the delayed ones whichever it was.
TakeLetterTwice(run) ==
  /\ worker.step = "rest"
  /\ letters[0] + again > 0
  /\ letters' = [letters EXCEPT ![0] = @ - 1]
  /\ worker' = IF Active = {} THEN Idle
               ELSE [step |-> "claim", asked |-> Active, run |-> run]
  /\ UNCHANGED <<claim, lock, again, task, ensure, mentioned, disturbed, spent>>

\* The job starts and reads the active requests.
TakeLetter(run) ==
  /\ worker.step = "rest"
  /\ IF run = "second"
     THEN again > 0 /\ again' = again - 1 /\ letters' = letters
     ELSE /\ letters[0] > 0
          /\ letters' = [letters EXCEPT ![0] = @ - 1]
          /\ again' = again
  /\ worker' = IF Active = {} THEN Idle
               ELSE [step |-> "claim", asked |-> Active, run |-> run]
  /\ UNCHANGED <<claim, lock, task, ensure, mentioned, disturbed, spent>>

\* It reads the claim, and sends nothing for an archived one.
ReadClaim ==
  /\ worker.step = "claim"
  /\ worker' = IF archived THEN Idle ELSE [worker EXCEPT !.step = "send"]
  /\ UNCHANGED <<claim, lock, letters, again, task, ensure, mentioned,
                 disturbed, spent>>

\* A letter of its own for each request with a special reason, and one for
\* all, unless the only request got its own.
SendLetters ==
  /\ worker.step = "send"
  /\ mentioned' = mentioned \cup worker.asked
  /\ worker' = Idle
  /\ UNCHANGED <<claim, lock, letters, again, task, ensure, disturbed, spent>>

\* A call of the job throws; some of the letters of their own may be out.
LetterThrows(sent) ==
  /\ worker.step # "rest"
  /\ Spend("failure")
  /\ sent \subseteq worker.asked \cap Special
  /\ sent # {} => worker.step = "send"
  /\ mentioned' = mentioned \cup sent
  /\ worker' = Idle
  /\ UNCHANGED <<claim, lock, letters, again, task, ensure, disturbed>>

-----------------------------------------------------------------------------
(* The rest of the claim, and time.                                        *)

\* An upload or a signature stores a document, and may close a request.
FileDocument(slot) ==
  /\ Spend("client")
  /\ slot \notin filed
  /\ filed' = filed \cup {slot}
  /\ UNCHANGED <<rows, archived, series, task, ensure, mentioned, disturbed>>

CloseRequest(r) ==
  /\ Spend("client")
  /\ rows[r].life = "ACTIVE"
  /\ rows' = [rows EXCEPT ![r].life = "INACTIVE"]
  /\ UNCHANGED <<filed, archived, series, task, ensure, mentioned, disturbed>>

DeleteRequest(r) ==
  /\ Spend("staff")
  /\ Live(r)
  /\ rows' = [rows EXCEPT ![r].life = "DELETED"]
  /\ UNCHANGED <<filed, archived, series, task, ensure, mentioned, disturbed>>

ArchiveClaim ==
  /\ Spend("archive")
  /\ archived' = ~archived
  /\ UNCHANGED <<rows, filed, series, task, ensure, mentioned, disturbed>>

\* A day passes; it does not pass within a request.
Tick ==
  /\ \A h \in Handlers : task[h].step = "rest"
  /\ lock > 0 \/ \E d \in 1..Horizon : letters[d] > 0
  /\ lock' = IF lock = 0 THEN 0 ELSE lock - 1
  /\ letters' = [d \in 0..Horizon |->
                   IF d = 0 THEN letters[0] + letters[1]
                   ELSE IF d = Horizon THEN 0 ELSE letters[d + 1]]
  /\ UNCHANGED <<claim, again, worker, task, ensure, mentioned, disturbed,
                 spent>>

\* The process restarts.  A job that was running returns to its queue once.
Crash ==
  /\ Spend("crash")
  /\ task' = [h \in Handlers |-> Rest]
  /\ disturbed' = (disturbed \/ \E h \in Handlers : Scheduling(h))
  /\ ensuring' = NoEnsure
  /\ interrupted' = (interrupted \/ ensuring.step # "rest")
  /\ ensureJobs' = IF ensuring.step # "rest" /\ ensuring.run = "first"
                   THEN [ensureJobs EXCEPT !["second"] = @ + 1] ELSE ensureJobs
  /\ worker' = Idle
  /\ again' = IF worker.step # "rest" /\ worker.run = "first" THEN again + 1 ELSE again
  /\ UNCHANGED <<claim, lock, letters, ensured, mentioned>>

-----------------------------------------------------------------------------
Create(h) ==
  \/ CheckLock(h) \/ SetLock(h)
  \/ \E d \in Delays, night \in 0..Night : AddLetter(h, d, night)

Ensure ==
  \/ \E run \in Runs : TakeEnsure(run)
  \/ ReadRequests
  \/ \E r \in RequestIds, slot \in Slots : EnsureRequest(r, slot)
  \/ EnsureDone

Remind ==
  \/ \E run \in Runs : TakeLetter(run)
  \/ ReadClaim \/ SendLetters

Staff ==
  \/ \E h \in Http, r \in RequestIds, slot \in Slots :
       CreateRequest(h, r, slot)
  \/ \E r \in RequestIds : DeleteRequest(r)
  \/ ArchiveClaim

Client ==
  \/ ScheduleEnsure
  \/ \E slot \in Slots : FileDocument(slot)
  \/ \E r \in RequestIds : CloseRequest(r)

Trouble ==
  \/ \E h \in Handlers : HandlerThrows(h)
  \/ \E sent \in SUBSET Special : LetterThrows(sent)
  \/ Crash

Next == \/ \E h \in Handlers : Create(h)
        \/ Ensure \/ Remind \/ Staff \/ Client \/ Trouble \/ Tick

Spec == Init /\ [][Next]_vars

\* Requests in progress go on, the worker of the letters polls, time passes.
Fairness == /\ \A h \in Handlers : WF_vars(Create(h))
            /\ WF_vars(Ensure) /\ WF_vars(Remind) /\ WF_vars(Tick)

FairSpec == Spec /\ Fairness

-----------------------------------------------------------------------------
(* Properties.                                                             *)

\* Every variable has the shape the code gives it.
TypeOK ==
  /\ rows \in [RequestIds -> Row \cup {NoRow}]
  /\ filed \in SUBSET Slots
  /\ archived \in BOOLEAN
  /\ lock \in Nat
  /\ letters \in [0..Horizon -> Nat]
  /\ again \in Nat
  /\ worker \in [step : {"rest", "claim", "send"}, asked : SUBSET RequestIds,
                 run : Runs]
  /\ task \in [Handlers -> Tasks]
  /\ ensureJobs \in [Runs -> Nat]
  /\ ensuring \in [step : {"rest", "requests", "loop"}, slots : SUBSET Slots,
                   run : Runs]
  /\ mentioned \in SUBSET RequestIds
  /\ disturbed \in BOOLEAN /\ ensured \in BOOLEAN /\ interrupted \in BOOLEAN
  /\ spent \in [Events -> Nat]

\* A request that finds the lock may rely on it: while the lock is held there
\* is a letter that becomes due no sooner than the lock expires, whatever
\* failed, restarted or overlapped when the letters were scheduled.
LockMeansLetter == lock > 0 => \E d \in lock..Horizon : letters[d] > 0

\* The customer does not get two series of letters: on no later day are two
\* letters due, unless two requests looked for the lock together, or one that
\* had found none broke off.
OneSeries == disturbed \/ \A d \in (Night + 1)..Horizon : letters[d] <= 1

\* When the ensure job has run to its end, every passenger has each document,
\* or a request for it, or a member of staff had asked some passenger for a
\* document of the type, unless a job broke off on the way.
GapsRequested ==
  ensured /\ ~interrupted =>
    \A slot \in Slots :
      \/ slot \in filed
      \/ \E r \in RequestIds : /\ rows[r] # NoRow
                               /\ \/ rows[r].slot = slot
                                  \/ rows[r].staff /\ rows[r].slot[2] = slot[2]

Mishaps == spent["failure"] + spent["crash"] + spent["archive"]

\* A request that is active while the lock is held is named in a letter,
\* without anybody scheduling one for it, unless it is answered or withdrawn,
\* the claim is archived, or a letter or a request breaks off.
OpenRequestMentioned ==
  \A r \in RequestIds,
     n \in 0..(Limit["failure"] + Limit["crash"] + Limit["archive"]) :
    (r \in Active /\ lock > 0 /\ ~archived /\ Mishaps = n)
    ~> (r \in mentioned \/ r \notin Active \/ Mishaps > n)
=============================================================================
